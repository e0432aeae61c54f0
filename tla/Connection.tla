----------------------------- MODULE Connection -----------------------------
(***************************************************************************)
(* Connecting, and what a Client remembers of its server                   *)
(* (src/src/client/mod.rs and the constructors, `enable*`, `select`,       *)
(* `refresh_capabilities`, `login`, `authenticate*`, `id` and `append` of  *)
(* src/src/client/tokio.rs): the cached capabilities and the flag          *)
(* condstore_enabled, against a server that offers other things before TLS *)
(* and after, before the login and after.                                  *)
(*                                                                         *)
(* A command is one step, as in MoveFallback, except for AUTHENTICATE,     *)
(* whose challenges are answered one by one                                *)
(* (src/src/tasks/tasks/authenticate.rs).  A call may fail or be dropped   *)
(* at each of its steps.                                                   *)
(***************************************************************************)
EXTENDS Naturals

CONSTANTS
    Capability,     \* the extensions that matter
    Offers          \* the sets of them a server may offer

ASSUME OffersAssumption == Offers \subseteq SUBSET Capability

VARIABLES
    capabilities, condstore_enabled,    \* of the Client
    client,         \* has a constructor handed out the Client?
    call,           \* the call made last, or being awaited
    pending,        \* the step it is at, or how it ended
    settled,        \* ghost: how the last call ended that stores capabilities
    before,         \* ghost: <<capabilities, condstore_enabled>> when the call was made
    source,         \* ghost: the stage at which the server offered the cached ones
    literal8,       \* does the APPEND under way carry a literal8?
    secure, authenticated,  \* the stage the connection is at
    offers,         \* what the server offers at each stage
    condstore,      \* is CONDSTORE on, for the server?
    open,           \* does the server still talk?
    mechanism, ir, line,    \* of the AuthenticateTask
    lines,          \* ghost: how often its SASL line was sent
    sasl            \* where its dialogue is

cacheVars == <<capabilities, condstore_enabled, source>>
serverVars == <<secure, authenticated, offers, condstore, open>>
taskVars == <<literal8, mechanism, ir, line, lines, sasl>>
vars == <<capabilities, condstore_enabled, client, call, pending, settled, before, source,
          literal8, secure, authenticated, offers, condstore, open,
          mechanism, ir, line, lines, sasl>>

Constructors == {"insecure", "tls", "starttls"}
Storing == Constructors \cup {"refresh_capabilities", "login", "authenticate"}
Calls == Storing \cup {"enable", "enable_condstore", "select", "id", "append"}
Steps == {"starttls", "handshake", "greeting", "capability", "login", "authenticate",
          "enable", "select", "id", "append"}
Ends == {"ok", "error", "dropped"}
Mechanisms == {"PLAIN", "OAUTHBEARER", "XOAUTH2"}

Stages == BOOLEAN \X BOOLEAN
Stage == <<secure, authenticated>>
NoStage == <<>>

Init ==
    /\ capabilities = {} /\ condstore_enabled = FALSE /\ source = NoStage
    /\ client = FALSE /\ call = "insecure" /\ pending = "error" /\ settled = "error"
    /\ before = <<{}, FALSE>> /\ literal8 = FALSE
    /\ secure = FALSE /\ authenticated = FALSE /\ condstore = FALSE /\ open = FALSE
    /\ offers \in [Stages -> Offers]
    /\ mechanism = "PLAIN" /\ ir = FALSE /\ line = FALSE /\ lines = 0 /\ sasl = "none"

-----------------------------------------------------------------------------
(* How a call begins, goes on and ends *)

Begins(name, step) ==
    /\ call' = name /\ pending' = step
    /\ settled' = IF name \in Storing THEN "running" ELSE settled
    /\ before' = <<capabilities, condstore_enabled>>

\* The task of a command goes with its answer.
NoTask ==
    /\ mechanism' = "PLAIN" /\ ir' = FALSE /\ line' = FALSE /\ lines' = 0
    /\ sasl' = "none" /\ literal8' = FALSE

GoesOn(step) == pending' = step /\ NoTask /\ UNCHANGED <<call, settled, before, client>>

Finishes(how) ==
    /\ pending' = how /\ NoTask
    /\ settled' = IF call \in Storing THEN how ELSE settled
    /\ client' = (client \/ (call \in Constructors /\ how = "ok"))
    /\ UNCHANGED <<call, before>>

MayCall == client /\ pending \in Ends

\* ext_*_supported
Supports(capability) == capability \in capabilities

\* The capabilities the server offers, in an answer to this step's command.
Stores ==
    /\ capabilities' = offers[<<secure', authenticated'>>]
    /\ source' = <<secure', authenticated'>>
    /\ UNCHANGED condstore_enabled

Errs ==
    /\ pending \in Steps /\ Finishes("error")
    /\ UNCHANGED <<cacheVars, serverVars>>

\* NO, BAD, MissingData, a handshake that fails: not while the server waits
\* for the answer to its challenge.
Refused == open /\ (pending = "authenticate" => sasl \notin {"challenged", "ignored"}) /\ Errs

\* An I/O error, or the end of the connection.
Breaks == Errs

\* The future of the call is dropped: the server may have executed its command,
\* or will before the next.  With the future of a constructor goes the Client.
Drop ==
    /\ pending \in Steps /\ Finishes("dropped")
    /\ IF pending \in {"login", "authenticate"}
       THEN authenticated' \in {authenticated, authenticated \/ open}
       ELSE UNCHANGED authenticated
    /\ IF pending = "enable"
       THEN condstore' \in {condstore, condstore \/ "CONDSTORE" \in offers[Stage]}
       ELSE IF pending = "select" THEN condstore' \in {condstore, condstore \/ condstore_enabled}
       ELSE UNCHANGED condstore
    /\ UNCHANGED <<cacheVars, secure, offers, open>>

-----------------------------------------------------------------------------
(* Constructors *)

FirstStep == [insecure |-> "greeting", tls |-> "handshake", starttls |-> "starttls"]

\* The Client of a new connection; the one of before is gone.
tcp ==
    \E via \in Constructors :
       /\ pending \in Ends
       /\ capabilities' = {} /\ condstore_enabled' = FALSE /\ source' = NoStage
       /\ client' = FALSE /\ call' = via /\ settled' = "running"
       /\ before' = <<{}, FALSE>> /\ NoTask
       /\ secure' = FALSE /\ authenticated' = FALSE /\ condstore' = FALSE /\ open' = TRUE
       /\ pending' = FirstStep[via]
       /\ UNCHANGED offers

\* External: reads the greeting, sends STARTTLS, reads its answer.
do_starttls_prefix ==
    /\ pending = "starttls" /\ GoesOn("handshake")
    /\ UNCHANGED <<cacheVars, serverVars>>

\* A slip: the capabilities are not asked for after STARTTLS.
upgrade_rustls_NoRefresh ==
    /\ pending = "handshake" /\ secure' = TRUE
    /\ IF call = "starttls" THEN Finishes("ok") ELSE GoesOn("greeting")
    /\ UNCHANGED <<cacheVars, authenticated, offers, condstore, open>>

\* starttls || !receive_greeting(): after STARTTLS there is no greeting to read.
upgrade_rustls ==
    /\ pending = "handshake" /\ secure' = TRUE
    /\ GoesOn(IF call = "starttls" THEN "capability" ELSE "greeting")
    /\ UNCHANGED <<cacheVars, authenticated, offers, condstore, open>>

\* OK, PREAUTH or BYE: the kind of the greeting is not looked at.
receive_greeting ==
    /\ pending = "greeting"
    /\ \/ UNCHANGED <<authenticated, open>>
       \/ authenticated' = TRUE /\ UNCHANGED open
       \/ open' = FALSE /\ UNCHANGED authenticated
    /\ UNCHANGED <<secure, offers, condstore>>
    /\ \/ Stores /\ Finishes("ok")
       \/ UNCHANGED cacheVars /\ GoesOn("capability")

-----------------------------------------------------------------------------
(* Capabilities and login *)

refresh_capabilities ==
    /\ MayCall /\ Begins("refresh_capabilities", "capability")
    /\ UNCHANGED <<client, cacheVars, serverVars, taskVars>>

CapabilityAnswered ==
    /\ pending = "capability" /\ open
    /\ UNCHANGED <<serverVars>>
    /\ Stores /\ Finishes("ok")

login ==
    /\ MayCall /\ Begins("login", "login")
    /\ UNCHANGED <<client, cacheVars, serverVars, taskVars>>

\* A slip: without capabilities in the answer there is nothing to do.
LoggedIn_NoRefresh ==
    /\ authenticated' = TRUE
    /\ \/ Stores /\ Finishes("ok")
       \/ UNCHANGED cacheVars /\ Finishes("ok")

\* OK, with capabilities in the answer, or else they are asked for.
LoggedIn ==
    /\ authenticated' = TRUE
    /\ \/ Stores /\ Finishes("ok")
       \/ UNCHANGED cacheVars /\ GoesOn("capability")

LoginAnswered ==
    /\ pending = "login" /\ open /\ ~authenticated
    /\ UNCHANGED <<secure, offers, condstore, open>>
    /\ LoggedIn

\* A slip: the initial response is sent without asking whether it may be.
InitialResponse_Always == TRUE

InitialResponse == Supports("SASL-IR")

authenticate ==
    /\ MayCall /\ Begins("authenticate", "authenticate")
    /\ mechanism' \in Mechanisms
    /\ ir' = InitialResponse
    /\ line' = TRUE
    /\ lines' = IF ir' THEN 1 ELSE 0
    /\ sasl' = IF ir' THEN "line" ELSE "asked"
    /\ UNCHANGED <<client, cacheVars, literal8, serverVars>>

\* A server may ask again after the line; with nothing to go on it must ask.
Challenge ==
    /\ pending = "authenticate" /\ open /\ sasl \in {"asked", "line", "empty"}
    /\ sasl' = "challenged"
    /\ UNCHANGED <<cacheVars, client, call, pending, settled, before, serverVars, literal8,
                   mechanism, ir, line, lines>>

\* Slips: the line is not taken out of the task; no answer is given.
process_continuation_Again ==
    IF ~ir THEN lines' = lines + 1 /\ sasl' = "line" /\ UNCHANGED line
           ELSE sasl' = "cancelled" /\ UNCHANGED <<line, lines>>
process_continuation_Mute == sasl' = "ignored" /\ UNCHANGED <<line, lines>>

\* The line, once; else cancel(): an empty answer, or "*".
process_continuation ==
    IF ~ir /\ line
    THEN line' = FALSE /\ lines' = lines + 1 /\ sasl' = "line"
    ELSE /\ sasl' = IF mechanism = "XOAUTH2" THEN "empty" ELSE "cancelled"
         /\ UNCHANGED <<line, lines>>

AnswerChallenge ==
    /\ pending = "authenticate" /\ sasl = "challenged" /\ process_continuation
    /\ UNCHANGED <<cacheVars, client, call, pending, settled, before, serverVars, literal8,
                   mechanism, ir>>

\* Only a server that has the line, in a way it understands, says OK.
AuthenticateAnswered ==
    /\ pending = "authenticate" /\ open /\ ~authenticated
    /\ sasl = "line" /\ (ir => "SASL-IR" \in offers[Stage])
    /\ UNCHANGED <<secure, offers, condstore, open>>
    /\ LoggedIn

-----------------------------------------------------------------------------
(* Calls that look at what is remembered *)

\* Nothing is sent.
ReturnsAtOnce(name) == Begins(name, "ok")

enable ==
    /\ MayCall
    /\ \/ Supports("ENABLE") /\ Begins("enable", "enable")
       \/ ReturnsAtOnce("enable")       \* not supported, or nothing asked for
    /\ UNCHANGED <<client, cacheVars, serverVars, taskVars>>

\* A slip: the flag is set before the answer is there.
enable_condstore_if_supported_Early ==
    /\ MayCall
    /\ IF Supports("CONDSTORE") /\ Supports("ENABLE")
       THEN Begins("enable_condstore", "enable") /\ condstore_enabled' = TRUE
       ELSE ReturnsAtOnce("enable_condstore") /\ UNCHANGED condstore_enabled
    /\ UNCHANGED <<client, capabilities, source, serverVars, taskVars>>

enable_condstore_if_supported ==
    /\ MayCall
    /\ IF Supports("CONDSTORE") /\ Supports("ENABLE")
       THEN Begins("enable_condstore", "enable")
       ELSE ReturnsAtOnce("enable_condstore")
    /\ UNCHANGED <<client, cacheVars, serverVars, taskVars>>

\* A slip: OK is taken for enabled.
Enabled_Trusting(listed) == condstore_enabled' = (call = "enable_condstore" \/ condstore_enabled)

\* The flag follows what ENABLED lists, if the call is there for it.
Enabled(listed) ==
    condstore_enabled' = IF call = "enable_condstore" THEN listed ELSE condstore_enabled

\* The server lists what it turned on; what was on already it may leave out.
EnableAnswered ==
    /\ pending = "enable" /\ open /\ authenticated /\ "ENABLE" \in offers[Stage]
    /\ \E listed \in BOOLEAN :
          /\ listed => "CONDSTORE" \in offers[Stage]
          /\ condstore' = (condstore \/ listed)
          /\ Enabled(listed)
    /\ Finishes("ok")
    /\ UNCHANGED <<capabilities, source, secure, authenticated, offers, open>>

\* select, examine: with_condstore(condstore_enabled)
select ==
    /\ MayCall /\ Begins("select", "select")
    /\ UNCHANGED <<client, cacheVars, serverVars, taskVars>>

SelectAnswered ==
    /\ pending = "select" /\ open /\ authenticated /\ Finishes("ok")
    /\ condstore' = (condstore \/ condstore_enabled)
    /\ UNCHANGED <<cacheVars, secure, authenticated, offers, open>>

id ==
    /\ MayCall
    /\ IF Supports("ID") THEN Begins("id", "id") ELSE ReturnsAtOnce("id")
    /\ UNCHANGED <<client, cacheVars, serverVars, taskVars>>

IdAnswered ==
    /\ pending = "id" /\ open /\ Finishes("ok")
    /\ UNCHANGED <<cacheVars, serverVars>>

\* A literal8, or a literal if the message allows it, or ValidationError.
append ==
    /\ MayCall
    /\ literal8' = Supports("BINARY")
    /\ \/ Begins("append", "append")
       \/ ~literal8' /\ Begins("append", "error")
    /\ UNCHANGED <<client, cacheVars, serverVars, mechanism, ir, line, lines, sasl>>

AppendAnswered ==
    /\ pending = "append" /\ open /\ authenticated /\ Finishes("ok")
    /\ UNCHANGED <<cacheVars, serverVars>>

-----------------------------------------------------------------------------

Answer ==
    \/ do_starttls_prefix
    \/ upgrade_rustls
    \/ receive_greeting
    \/ CapabilityAnswered
    \/ LoginAnswered
    \/ AuthenticateAnswered
    \/ EnableAnswered
    \/ SelectAnswered
    \/ IdAnswered
    \/ AppendAnswered

Next ==
    \/ tcp
    \/ refresh_capabilities
    \/ login
    \/ authenticate
    \/ Challenge
    \/ AnswerChallenge
    \/ enable
    \/ enable_condstore_if_supported
    \/ select
    \/ id
    \/ append
    \/ Answer
    \/ Refused
    \/ Breaks
    \/ Drop

Spec == Init /\ [][Next]_vars

\* The server answers each command it got, and does not challenge for ever; a
\* connection it closed is noticed; the runtime polls the call.
FairSpec ==
    /\ Spec
    /\ SF_vars(Answer \/ Refused) /\ WF_vars(~open /\ Breaks) /\ WF_vars(AnswerChallenge)

-----------------------------------------------------------------------------
(* Properties *)

CacheTypeOK ==
    /\ capabilities \subseteq Capability /\ condstore_enabled \in BOOLEAN
    /\ source \in Stages \cup {NoStage}
    /\ before \in (SUBSET Capability) \X BOOLEAN
CallTypeOK ==
    /\ client \in BOOLEAN /\ call \in Calls /\ pending \in Steps \cup Ends
    /\ settled \in Ends \cup {"running"}
ServerTypeOK ==
    /\ secure \in BOOLEAN /\ authenticated \in BOOLEAN
    /\ condstore \in BOOLEAN /\ open \in BOOLEAN
    /\ offers \in [Stages -> SUBSET Capability]
TaskTypeOK ==
    /\ literal8 \in BOOLEAN /\ ir \in BOOLEAN /\ line \in BOOLEAN
    /\ mechanism \in Mechanisms /\ lines \in Nat
    /\ sasl \in {"none", "asked", "line", "challenged", "empty", "cancelled"}

\* Every variable has its type.
TypeOK == CacheTypeOK /\ CallTypeOK /\ ServerTypeOK /\ TaskTypeOK

\* If the last call that stores capabilities returned Ok, the cache is what the
\* server offers now: whatever failed or was dropped before, wherever the server
\* put its capabilities, and whichever stages the connection went through.
CacheIsCurrent ==
    client /\ settled = "ok" => source = Stage /\ capabilities = offers[Stage]

\* A Client never goes by what the server said on another transport (before TLS),
\* nor by the default: at worst, after a login whose refresh failed or that was
\* dropped, by what it said on this one before the login.
CacheIsOfThisTransport ==
    client => /\ source \in {Stage, <<secure, FALSE>>}
              /\ capabilities = offers[source]

\* The extensions that the command under way makes use of.
Used ==
    CASE pending = "enable" -> {"ENABLE"} \cup IF call = "enable_condstore" THEN {"CONDSTORE"} ELSE {}
      [] pending = "select" -> IF condstore_enabled THEN {"CONDSTORE"} ELSE {}
      [] pending = "id" -> {"ID"}
      [] pending = "append" -> IF literal8 THEN {"BINARY"} ELSE {}
      [] pending = "authenticate" -> IF ir THEN {"SASL-IR"} ELSE {}
      [] OTHER -> {}

\* No command uses an extension that the server does not offer at this stage,
\* unless the cache was left stale by a login.
UsesWhatIsOffered == source = Stage => Used \subseteq offers[Stage]

\* condstore_enabled is true only if CONDSTORE is on, for the server, too: over
\* dropped calls, repeated ENABLEs and answers that list nothing.
FlagMeansOn == condstore_enabled => condstore

\* A call that fails or is dropped leaves the cache and the flag as they were,
\* at whichever of its commands it ended.
FailureKeepsTheCache ==
    client /\ pending \in {"error", "dropped"} => <<capabilities, condstore_enabled>> = before

\* The SASL line is sent once at most: as initial response, or to the first
\* challenge; any other challenge is answered by a refusal.
LineIsSentOnce == lines <= 1

\* Every call ends, a dialogue of challenges included.
CallsEnd == pending \in Steps ~> pending \in Ends
=============================================================================
