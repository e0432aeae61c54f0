-------------------------- MODULE ConnectionProofs --------------------------
(***************************************************************************)
(* What holds of Connection for every set of extensions and everything the *)
(* server may offer at each stage.                                         *)
(*                                                                         *)
(* None of the properties is inductive: each depends on which step belongs *)
(* to which call and on who holds a Client (StepOfCall, ClientOfCall), the *)
(* ones about the cache also on that it changes in the last step of a call *)
(* only.  IInv collects what is needed; a lemma per action shows that the  *)
(* action preserves it.                                                    *)
(***************************************************************************)
EXTENDS Connection, TLAPS

\* Which calls go through a step.
StepOfCall ==
    /\ pending = "starttls" => call = "starttls"
    /\ pending = "handshake" => call \in {"tls", "starttls"}
    /\ pending = "greeting" => call \in {"insecure", "tls"}
    /\ pending = "capability" => call \in Storing
    /\ pending \in {"login", "authenticate", "select", "id", "append"} => call = pending
    /\ pending = "enable" => call \in {"enable", "enable_condstore"}

\* A call is made on a Client, which a constructor hands out when it is done.
ClientOfCall == pending \in Steps => (client <=> call \notin Constructors)

\* The last call that stores is not settled while it runs.
StoringRuns == pending \in Steps /\ call \in Storing => settled = "running"

\* Nothing is stored before the call returns Ok.
CacheIsKept ==
    client /\ pending # "ok" => <<capabilities, condstore_enabled>> = before

\* CONDSTORE was enabled by a Client after the login, after which nothing changes the stage.
FlagIsOffered ==
    condstore_enabled => client /\ condstore /\ authenticated /\ "CONDSTORE" \in offers[Stage]

\* The line is in the task or was sent.
LineIsSomewhere ==
    /\ lines <= 1
    /\ ir => lines = 1
    /\ line /\ ~ir => lines = 0

\* What the cache says allows what the command under way uses.
UsesTheCache ==
    /\ pending = "enable" => Supports("ENABLE") /\ (call = "enable_condstore" => Supports("CONDSTORE"))
    /\ pending = "id" => Supports("ID")
    /\ pending = "append" /\ literal8 => Supports("BINARY")
    /\ pending = "authenticate" /\ ir => Supports("SASL-IR")

IInv ==
    /\ TypeOK
    /\ StepOfCall /\ ClientOfCall /\ StoringRuns
    /\ CacheIsCurrent /\ CacheIsOfThisTransport /\ CacheIsKept
    /\ FlagIsOffered /\ LineIsSomewhere /\ UsesTheCache

-----------------------------------------------------------------------------
(* What the actions have in common *)

\* The connection goes ahead, never back, and not to TLS under a Client.
Advances ==
    /\ ServerTypeOK' /\ offers' = offers
    /\ client => secure' = secure
    /\ authenticated => authenticated'
    /\ condstore => condstore'

\* A finished command leaves an empty task.
LEMMA NoTaskIsFine ==
  ASSUME NoTask
  PROVE  TaskTypeOK' /\ LineIsSomewhere'
<1>1. literal8' \in BOOLEAN /\ ir' \in BOOLEAN /\ line' \in BOOLEAN /\ ~ir' /\ ~line'
  BY DEF NoTask
<1>2. mechanism' \in Mechanisms /\ lines' = 0 /\ sasl' = "none"
  BY DEF NoTask, Mechanisms
<1>3. TaskTypeOK'
  BY <1>1, <1>2 DEF TaskTypeOK
<1>4. LineIsSomewhere'
  BY <1>1, <1>2 DEF LineIsSomewhere
<1> QED
  BY <1>3, <1>4

LEMMA InitIInv == Init => IInv
<1> SUFFICES ASSUME Init PROVE IInv
  OBVIOUS
<1>1. TypeOK
  BY OffersAssumption DEF Init, TypeOK, CacheTypeOK, CallTypeOK, ServerTypeOK, TaskTypeOK,
     Stages, NoStage, Constructors, Storing, Calls, Steps, Ends, Mechanisms
<1>2. StepOfCall /\ ClientOfCall /\ StoringRuns
  BY DEF Init, StepOfCall, ClientOfCall, StoringRuns, Steps
<1>3. CacheIsCurrent /\ CacheIsOfThisTransport /\ CacheIsKept
  BY DEF Init, CacheIsCurrent, CacheIsOfThisTransport, CacheIsKept
<1>4. FlagIsOffered /\ LineIsSomewhere /\ UsesTheCache
  BY DEF Init, FlagIsOffered, LineIsSomewhere, UsesTheCache
<1> QED
  BY <1>1, <1>2, <1>3, <1>4 DEF IInv

\* A call is made: nothing changes but what the client remembers of the call.
LEMMA BeginsKeeps ==
  ASSUME IInv, MayCall, NEW name \in Calls \ Constructors, NEW step \in Steps \cup Ends,
         Begins(name, step),
         \/ step = name
         \/ step \in {"ok", "error"} /\ name \notin Storing
         \/ name = "refresh_capabilities" /\ step = "capability"
         \/ name \in {"enable", "enable_condstore"} /\ step = "enable",
         UNCHANGED <<client, capabilities, condstore_enabled, source>>,
         UNCHANGED <<secure, authenticated, offers, condstore, open>>,
         TaskTypeOK', LineIsSomewhere', UsesTheCache'
  PROVE  IInv'
<1>1. TypeOK'
  BY DEF IInv, TypeOK, CacheTypeOK, CallTypeOK, ServerTypeOK, Begins, Ends
<1>2. StepOfCall' /\ ClientOfCall' /\ StoringRuns'
  BY DEF IInv, TypeOK, CallTypeOK, MayCall, Begins, StepOfCall, ClientOfCall, StoringRuns,
     Steps, Ends, Calls, Storing, Constructors
<1>3. CacheIsCurrent' /\ CacheIsOfThisTransport'
  BY DEF IInv, Begins, CacheIsCurrent, CacheIsOfThisTransport, Stage
<1>4. CacheIsKept' /\ FlagIsOffered'
  BY DEF IInv, Begins, CacheIsKept, FlagIsOffered, Stage
<1> QED
  BY <1>1, <1>2, <1>3, <1>4 DEF IInv

\* The next command of a call is sent: nothing is stored.
LEMMA GoesOnKeeps ==
  ASSUME IInv, pending \in Steps, call \in Storing, Advances,
         NEW step \in {"handshake", "greeting", "capability"}, GoesOn(step),
         step = "handshake" => call = "starttls",
         step = "greeting" => call \in {"insecure", "tls"},
         UNCHANGED <<capabilities, condstore_enabled, source>>
  PROVE  IInv'
<1>1. TaskTypeOK' /\ LineIsSomewhere'
  BY NoTaskIsFine DEF GoesOn
<1>2. TypeOK'
  BY <1>1 DEF IInv, TypeOK, CacheTypeOK, CallTypeOK, Advances, GoesOn, Steps
<1>3. StepOfCall' /\ ClientOfCall' /\ StoringRuns'
  BY DEF IInv, GoesOn, StepOfCall, ClientOfCall, StoringRuns, Steps
<1>4. CacheIsCurrent'
  BY DEF IInv, GoesOn, StoringRuns, CacheIsCurrent
<1>5. CacheIsOfThisTransport'
  BY DEF IInv, TypeOK, ServerTypeOK, GoesOn, Advances, CacheIsOfThisTransport, Stage
<1>6. CacheIsKept'
  BY DEF IInv, GoesOn, CacheIsKept, Steps
<1>7. FlagIsOffered'
  BY DEF IInv, TypeOK, ServerTypeOK, GoesOn, Advances, FlagIsOffered, Stage
<1>8. UsesTheCache'
  BY DEF GoesOn, UsesTheCache
<1> QED
  BY <1>1, <1>2, <1>3, <1>4, <1>5, <1>6, <1>7, <1>8 DEF IInv

\* A call ends without having stored anything.
LEMMA FinishesKeeps ==
  ASSUME IInv, pending \in Steps, Advances,
         NEW how \in Ends, Finishes(how), how = "ok" => call \notin Storing,
         call \notin Storing => Stage' = Stage,
         UNCHANGED <<capabilities, source>>, condstore_enabled' \in BOOLEAN, FlagIsOffered',
         how # "ok" => UNCHANGED condstore_enabled
  PROVE  IInv'
<1>1. TaskTypeOK' /\ LineIsSomewhere'
  BY NoTaskIsFine DEF Finishes
<1>2. client' = client
  BY DEF IInv, TypeOK, CallTypeOK, Finishes, Storing
<1>3. TypeOK'
  BY <1>1, <1>2 DEF IInv, TypeOK, CacheTypeOK, CallTypeOK, Advances, Finishes
<1>4. StepOfCall' /\ ClientOfCall' /\ StoringRuns'
  BY DEF Finishes, StepOfCall, ClientOfCall, StoringRuns, Steps, Ends
<1>5. CacheIsCurrent'
  BY <1>2 DEF IInv, Advances, Finishes, CacheIsCurrent
<1>6. CacheIsOfThisTransport'
  BY <1>2 DEF IInv, TypeOK, ServerTypeOK, Advances, CacheIsOfThisTransport, Stage
<1>7. CacheIsKept'
  BY <1>2 DEF IInv, Finishes, CacheIsKept, Steps
<1>8. UsesTheCache'
  BY DEF Finishes, UsesTheCache, Ends
<1> QED
  BY <1>1, <1>3, <1>4, <1>5, <1>6, <1>7, <1>8 DEF IInv

\* A call stores the capabilities and returns Ok.
LEMMA StoresKeeps ==
  ASSUME IInv, pending \in Steps, call \in Storing, Advances, Stores, Finishes("ok")
  PROVE  IInv'
<1>1. TaskTypeOK' /\ LineIsSomewhere'
  BY NoTaskIsFine DEF Finishes
<1>2. /\ <<secure', authenticated'>> \in Stages
      /\ capabilities' = offers'[Stage'] /\ source' = Stage'
  BY DEF Advances, ServerTypeOK, Stores, Stages, Stage
<1>3. TypeOK'
  <2>1. CacheTypeOK'
    BY <1>2 DEF IInv, TypeOK, CacheTypeOK, Advances, ServerTypeOK, Stores, Finishes, Stage
  <2>2. CallTypeOK'
    BY DEF IInv, TypeOK, CallTypeOK, Finishes, Ends
  <2> QED
    BY <1>1, <2>1, <2>2 DEF TypeOK, Advances
<1>4. StepOfCall' /\ ClientOfCall' /\ StoringRuns'
  BY DEF Finishes, StepOfCall, ClientOfCall, StoringRuns, Steps, Ends
<1>5. CacheIsCurrent' /\ CacheIsOfThisTransport' /\ CacheIsKept'
  BY <1>2 DEF Finishes, CacheIsCurrent, CacheIsOfThisTransport, CacheIsKept
<1>6. FlagIsOffered'
  BY DEF IInv, TypeOK, CallTypeOK, ServerTypeOK, Advances, Stores, Finishes, FlagIsOffered, Stage
<1>7. UsesTheCache'
  BY DEF Finishes, UsesTheCache
<1> QED
  BY <1>1, <1>3, <1>4, <1>5, <1>6, <1>7 DEF IInv

-----------------------------------------------------------------------------
(* The actions: which of the above each of them is *)

LEMMA TcpKeeps == ASSUME IInv, tcp PROVE IInv'
<1>1. PICK via \in Constructors :
         /\ capabilities' = {} /\ condstore_enabled' = FALSE /\ source' = NoStage
         /\ client' = FALSE /\ call' = via /\ settled' = "running"
         /\ before' = <<{}, FALSE>> /\ NoTask
         /\ secure' = FALSE /\ authenticated' = FALSE /\ condstore' = FALSE /\ open' = TRUE
         /\ pending' = FirstStep[via]
         /\ UNCHANGED offers
  BY DEF tcp
<1>2. /\ via = "insecure" => pending' = "greeting"
      /\ via = "tls" => pending' = "handshake"
      /\ via = "starttls" => pending' = "starttls"
      /\ via \in {"insecure", "tls", "starttls"}
  BY <1>1 DEF FirstStep, Constructors
<1>3. TaskTypeOK' /\ LineIsSomewhere'
  BY <1>1, NoTaskIsFine
<1>4. CacheTypeOK' /\ ServerTypeOK'
  BY <1>1 DEF IInv, TypeOK, ServerTypeOK, CacheTypeOK
<1>5. CallTypeOK' /\ StepOfCall' /\ ClientOfCall' /\ StoringRuns'
  BY <1>1, <1>2 DEF CallTypeOK, StepOfCall, ClientOfCall, StoringRuns, Calls, Storing,
     Constructors, Steps
<1>6. CacheIsCurrent' /\ CacheIsOfThisTransport' /\ CacheIsKept' /\ FlagIsOffered'
  BY <1>1 DEF CacheIsCurrent, CacheIsOfThisTransport, CacheIsKept, FlagIsOffered
<1>7. UsesTheCache'
  BY <1>2 DEF UsesTheCache
<1> QED
  BY <1>3, <1>4, <1>5, <1>6, <1>7 DEF IInv, TypeOK

\* Before the Client is handed out, its connection may change in any way.
LEMMA StarttlsKeeps == ASSUME IInv, do_starttls_prefix PROVE IInv'
<1>1. Advances
  BY DEF IInv, TypeOK, ServerTypeOK, Advances, do_starttls_prefix, serverVars
<1> QED
  BY <1>1, GoesOnKeeps DEF IInv, StepOfCall, do_starttls_prefix, cacheVars, Steps, Storing,
     Constructors

LEMMA UpgradeKeeps == ASSUME IInv, upgrade_rustls PROVE IInv'
<1>1. ~client /\ call \in {"tls", "starttls"}
  BY DEF IInv, TypeOK, CallTypeOK, StepOfCall, ClientOfCall, upgrade_rustls, Steps, Constructors
<1>2. Advances
  BY <1>1 DEF IInv, TypeOK, ServerTypeOK, Advances, upgrade_rustls
<1>3. CASE call = "starttls"
  BY <1>2, <1>3, GoesOnKeeps DEF upgrade_rustls, cacheVars, Steps, Storing, Constructors
<1>4. CASE call = "tls"
  BY <1>2, <1>4, GoesOnKeeps DEF upgrade_rustls, cacheVars, Steps, Storing, Constructors
<1> QED
  BY <1>1, <1>3, <1>4

LEMMA GreetingKeeps == ASSUME IInv, receive_greeting PROVE IInv'
<1>1. pending \in Steps /\ call \in Storing
  BY DEF IInv, StepOfCall, receive_greeting, Steps, Storing, Constructors
<1>2. Advances
  <2>1. authenticated' \in BOOLEAN /\ (authenticated => authenticated')
    <3>1. CASE authenticated' = TRUE
      BY <3>1
    <3>2. CASE UNCHANGED authenticated
      BY <3>2 DEF IInv, TypeOK, ServerTypeOK
    <3> QED
      BY <3>1, <3>2 DEF receive_greeting
  <2>2. open' \in BOOLEAN
    <3>1. CASE open' = FALSE
      BY <3>1
    <3>2. CASE UNCHANGED open
      BY <3>2 DEF IInv, TypeOK, ServerTypeOK
    <3> QED
      BY <3>1, <3>2 DEF receive_greeting
  <2> QED
    BY <2>1, <2>2 DEF IInv, TypeOK, ServerTypeOK, Advances, receive_greeting
<1>3. CASE Stores /\ Finishes("ok")
  BY <1>1, <1>2, <1>3, StoresKeeps
<1>4. CASE UNCHANGED cacheVars /\ GoesOn("capability")
  BY <1>1, <1>2, <1>4, GoesOnKeeps DEF cacheVars
<1> QED
  BY <1>3, <1>4 DEF receive_greeting

LEMMA CapabilityKeeps == ASSUME IInv, CapabilityAnswered PROVE IInv'
<1>1. Advances
  BY DEF IInv, TypeOK, ServerTypeOK, Advances, CapabilityAnswered, serverVars
<1> QED
  BY <1>1, StoresKeeps DEF IInv, StepOfCall, CapabilityAnswered, Steps

\* login and authenticate end alike.
LEMMA LoggedInKeeps ==
  ASSUME IInv, pending \in {"login", "authenticate"}, LoggedIn,
         UNCHANGED <<secure, offers, condstore, open>>
  PROVE  IInv'
<1>1. pending \in Steps /\ call \in Storing
  BY DEF IInv, StepOfCall, Steps, Storing
<1>2. Advances
  BY DEF IInv, TypeOK, ServerTypeOK, Advances, LoggedIn
<1>3. CASE Stores /\ Finishes("ok")
  BY <1>1, <1>2, <1>3, StoresKeeps
<1>4. CASE UNCHANGED cacheVars /\ GoesOn("capability")
  BY <1>1, <1>2, <1>4, GoesOnKeeps DEF cacheVars
<1> QED
  BY <1>3, <1>4 DEF LoggedIn

\* The flag is set only with CONDSTORE on, which a server does after the login
\* and for what it offers.
LEMMA EnableAnsweredKeeps == ASSUME IInv, EnableAnswered PROVE IInv'
<1>1. PICK listed \in BOOLEAN :
         /\ listed => "CONDSTORE" \in offers[Stage]
         /\ condstore' = (condstore \/ listed)
         /\ Enabled(listed)
  BY DEF EnableAnswered
<1>2. /\ pending = "enable" /\ authenticated /\ Finishes("ok")
      /\ UNCHANGED <<capabilities, source, secure, authenticated, offers, open>>
  BY DEF EnableAnswered
<1>3. client /\ client' = client /\ call \in {"enable", "enable_condstore"}
  BY <1>2 DEF IInv, TypeOK, CallTypeOK, StepOfCall, ClientOfCall, Finishes, Steps, Constructors
<1>4. Advances
  BY <1>1, <1>2 DEF IInv, TypeOK, ServerTypeOK, Advances
<1>5. condstore_enabled' \in BOOLEAN
  BY <1>1 DEF IInv, TypeOK, CacheTypeOK, Enabled
<1>6. FlagIsOffered'
  BY <1>1, <1>2, <1>3 DEF IInv, TypeOK, ServerTypeOK, CacheTypeOK, FlagIsOffered, Enabled, Stage
<1>7. call \notin Storing /\ Stage' = Stage /\ pending \in Steps
  BY <1>2, <1>3 DEF Storing, Constructors, Stage, Steps
<1> QED
  BY <1>2, <1>4, <1>5, <1>6, <1>7, FinishesKeeps DEF Ends

\* The answers that change nothing of the Client.
LEMMA AnsweredKeeps ==
  ASSUME IInv, SelectAnswered \/ IdAnswered \/ AppendAnswered
  PROVE  IInv'
<1>1. /\ pending \in {"select", "id", "append"} /\ Finishes("ok")
      /\ UNCHANGED <<capabilities, condstore_enabled, source>>
      /\ UNCHANGED <<secure, authenticated, offers, open>>
      /\ condstore' = (condstore \/ condstore_enabled) \/ condstore' = condstore
  BY DEF SelectAnswered, IdAnswered, AppendAnswered, cacheVars, serverVars
<1>2. call = pending
  BY <1>1 DEF IInv, StepOfCall
<1>3. Advances
  BY <1>1 DEF IInv, TypeOK, CacheTypeOK, ServerTypeOK, Advances
<1>4. condstore_enabled' \in BOOLEAN /\ (client => client')
  BY <1>1 DEF IInv, TypeOK, CacheTypeOK, CallTypeOK, Finishes
<1>5. FlagIsOffered'
  BY <1>1, <1>3, <1>4 DEF IInv, FlagIsOffered, Advances, Stage
<1>6. call \notin Storing /\ Stage' = Stage /\ pending \in Steps
  BY <1>1, <1>2 DEF Storing, Constructors, Stage, Steps
<1> QED
  BY <1>1, <1>3, <1>4, <1>5, <1>6, FinishesKeeps DEF Ends

\* Refused and Breaks are Errs.
LEMMA ErrsKeeps == ASSUME IInv, Errs PROVE IInv'
<1>1. /\ pending \in Steps /\ Finishes("error")
      /\ UNCHANGED <<capabilities, condstore_enabled, source>>
      /\ UNCHANGED <<secure, authenticated, offers, condstore, open>>
  BY DEF Errs, cacheVars, serverVars
<1>2. Advances
  BY <1>1 DEF IInv, TypeOK, ServerTypeOK, Advances
<1>3. condstore_enabled' \in BOOLEAN /\ (client => client') /\ Stage' = Stage
  BY <1>1 DEF IInv, TypeOK, CacheTypeOK, CallTypeOK, Finishes, Stage
<1>4. FlagIsOffered'
  BY <1>1, <1>3 DEF IInv, FlagIsOffered, Stage
<1> QED
  BY <1>1, <1>2, <1>3, <1>4, FinishesKeeps DEF Ends

LEMMA DropKeeps == ASSUME IInv, Drop PROVE IInv'
<1>1. /\ pending \in Steps /\ Finishes("dropped")
      /\ UNCHANGED <<capabilities, condstore_enabled, source, secure, offers, open>>
  BY DEF Drop, cacheVars
<1>2. /\ authenticated' \in BOOLEAN /\ (authenticated => authenticated')
      /\ pending \notin {"login", "authenticate"} => UNCHANGED authenticated
  BY DEF Drop, IInv, TypeOK, ServerTypeOK
<1>3. condstore' \in BOOLEAN /\ (condstore => condstore')
  <2>1. CASE pending = "enable"
    BY <2>1 DEF Drop, IInv, TypeOK, ServerTypeOK
  <2>2. CASE pending = "select"
    BY <2>2 DEF Drop, IInv, TypeOK, CacheTypeOK, ServerTypeOK
  <2>3. CASE pending \notin {"enable", "select"}
    BY <2>3 DEF Drop, IInv, TypeOK, ServerTypeOK
  <2> QED
    BY <2>1, <2>2, <2>3
<1>4. Advances
  BY <1>1, <1>2, <1>3 DEF IInv, TypeOK, ServerTypeOK, Advances
<1>5. condstore_enabled' \in BOOLEAN /\ (client => client')
  BY <1>1 DEF IInv, TypeOK, CacheTypeOK, CallTypeOK, Finishes
<1>6. FlagIsOffered'
  BY <1>1, <1>4, <1>5 DEF IInv, TypeOK, ServerTypeOK, CacheTypeOK, FlagIsOffered, Advances, Stage
<1>7. call \notin Storing => Stage' = Stage
  BY <1>1, <1>2 DEF IInv, StepOfCall, Storing, Stage
<1> QED
  BY <1>1, <1>4, <1>5, <1>6, <1>7, FinishesKeeps DEF Ends

\* The calls whose commands carry nothing of the task.
LEMMA PlainCallKeeps ==
  ASSUME IInv, refresh_capabilities \/ login \/ select
  PROVE  IInv'
<1>1. TaskTypeOK' /\ LineIsSomewhere'
  BY DEF IInv, TypeOK, TaskTypeOK, LineIsSomewhere, refresh_capabilities, login, select, taskVars
<1>2. UsesTheCache'
  BY DEF UsesTheCache, refresh_capabilities, login, select, Begins
<1>3. CASE refresh_capabilities
  BY <1>1, <1>2, <1>3, BeginsKeeps DEF refresh_capabilities, cacheVars, serverVars, Calls,
     Storing, Constructors, Steps
<1>4. CASE login
  <2>1. "login" \in Calls \ Constructors /\ "login" \in Steps \cup Ends
    BY DEF Calls, Storing, Constructors, Steps
  <2>2. MayCall /\ Begins("login", "login")
    BY <1>4 DEF login
  <2>3. /\ UNCHANGED <<client, capabilities, condstore_enabled, source>>
        /\ UNCHANGED <<secure, authenticated, offers, condstore, open>>
    BY <1>4 DEF login, cacheVars, serverVars
  <2> QED
    BY <1>1, <1>2, <2>1, <2>2, <2>3, BeginsKeeps
<1>5. CASE select
  BY <1>1, <1>2, <1>5, BeginsKeeps DEF select, cacheVars, serverVars, Calls, Storing,
     Constructors, Steps
<1> QED
  BY <1>3, <1>4, <1>5

LEMMA AuthenticateKeeps == ASSUME IInv, authenticate PROVE IInv'
<1>1. (ir' <=> Supports("SASL-IR")) /\ ir' \in BOOLEAN
  <2>1. CASE Supports("SASL-IR")
    <3>1. ir' = TRUE
      BY <2>1 DEF authenticate, InitialResponse
    <3> QED
      BY <2>1, <3>1
  <2>2. CASE ~Supports("SASL-IR")
    <3>1. ir' = FALSE
      BY <2>2 DEF authenticate, InitialResponse
    <3> QED
      BY <2>2, <3>1
  <2> QED
    BY <2>1, <2>2
<1>2. line' = TRUE /\ lines' = (IF ir' THEN 1 ELSE 0) /\ sasl' \in {"line", "asked"}
  BY DEF authenticate
<1>3. TaskTypeOK'
  BY <1>1, <1>2 DEF IInv, TypeOK, TaskTypeOK, authenticate
<1>4. LineIsSomewhere'
  BY <1>2 DEF LineIsSomewhere
<1>5. UsesTheCache'
  BY <1>1 DEF UsesTheCache, Supports, authenticate, Begins, cacheVars
<1>6. "authenticate" \in Calls \ Constructors /\ "authenticate" \in Steps \cup Ends
  BY DEF Calls, Storing, Constructors, Steps
<1>7. MayCall /\ Begins("authenticate", "authenticate")
  BY DEF authenticate
<1>8. /\ UNCHANGED <<client, capabilities, condstore_enabled, source>>
      /\ UNCHANGED <<secure, authenticated, offers, condstore, open>>
  BY DEF authenticate, cacheVars, serverVars
<1> QED
  BY <1>3, <1>4, <1>5, <1>6, <1>7, <1>8, BeginsKeeps

\* The calls that ask the cache whether to send anything.
LEMMA AskingCallKeeps ==
  ASSUME IInv, enable \/ enable_condstore_if_supported \/ id
  PROVE  IInv'
<1>1. TaskTypeOK' /\ LineIsSomewhere'
  BY DEF IInv, TypeOK, TaskTypeOK, LineIsSomewhere, enable, enable_condstore_if_supported, id,
     taskVars
<1>2. UsesTheCache'
  BY DEF UsesTheCache, Supports, enable, enable_condstore_if_supported, id, Begins,
     ReturnsAtOnce, cacheVars
<1>3. CASE enable
  BY <1>1, <1>2, <1>3, BeginsKeeps DEF enable, ReturnsAtOnce, cacheVars, serverVars, Calls,
     Storing, Constructors, Steps, Ends
<1>4. CASE enable_condstore_if_supported
  BY <1>1, <1>2, <1>4, BeginsKeeps DEF enable_condstore_if_supported, ReturnsAtOnce, cacheVars,
     serverVars, Calls, Storing, Constructors, Steps, Ends
<1>5. CASE id
  BY <1>1, <1>2, <1>5, BeginsKeeps DEF id, ReturnsAtOnce, cacheVars, serverVars, Calls,
     Storing, Constructors, Steps, Ends
<1> QED
  BY <1>3, <1>4, <1>5

LEMMA AppendKeeps == ASSUME IInv, append PROVE IInv'
<1>1. (literal8' <=> Supports("BINARY")) /\ literal8' \in BOOLEAN
  <2>1. CASE Supports("BINARY")
    <3>1. literal8' = TRUE
      BY <2>1 DEF append
    <3> QED
      BY <2>1, <3>1
  <2>2. CASE ~Supports("BINARY")
    <3>1. literal8' = FALSE
      BY <2>2 DEF append
    <3> QED
      BY <2>2, <3>1
  <2> QED
    BY <2>1, <2>2
<1>2. TaskTypeOK' /\ LineIsSomewhere'
  BY <1>1 DEF IInv, TypeOK, TaskTypeOK, LineIsSomewhere, append
<1>3. UsesTheCache'
  BY <1>1 DEF UsesTheCache, Supports, append, Begins, cacheVars
<1> QED
  BY <1>2, <1>3, BeginsKeeps DEF append, cacheVars, serverVars, Calls, Storing, Constructors,
     Steps, Ends

\* The dialogue: nothing but the task changes.
LEMMA DialogueKeeps ==
  ASSUME IInv, TaskTypeOK', LineIsSomewhere',
         UNCHANGED <<capabilities, condstore_enabled, source, client, call, pending, settled,
                     before, literal8, ir>>,
         UNCHANGED <<secure, authenticated, offers, condstore, open>>
  PROVE  IInv'
<1>1. TypeOK'
  BY DEF IInv, TypeOK, CacheTypeOK, CallTypeOK, ServerTypeOK
<1>2. StepOfCall' /\ ClientOfCall' /\ StoringRuns'
  BY DEF IInv, StepOfCall, ClientOfCall, StoringRuns
<1>3. CacheIsCurrent' /\ CacheIsOfThisTransport' /\ CacheIsKept' /\ FlagIsOffered'
  BY DEF IInv, CacheIsCurrent, CacheIsOfThisTransport, CacheIsKept, FlagIsOffered, Stage
<1>4. UsesTheCache'
  BY DEF IInv, UsesTheCache, Supports
<1> QED
  BY <1>1, <1>2, <1>3, <1>4 DEF IInv

LEMMA ChallengeKeeps == ASSUME IInv, Challenge PROVE IInv'
<1>1. TaskTypeOK'
  BY DEF IInv, TypeOK, TaskTypeOK, Challenge
<1>2. LineIsSomewhere'
  BY DEF IInv, LineIsSomewhere, Challenge
<1> QED
  BY <1>1, <1>2, DialogueKeeps DEF Challenge, cacheVars, serverVars

\* The line is taken out of the task when it is sent.
LEMMA AnswerChallengeKeeps == ASSUME IInv, AnswerChallenge PROVE IInv'
<1>1. CASE ~ir /\ line
  <2>1. line' = FALSE /\ lines' = lines + 1 /\ sasl' = "line"
    BY <1>1 DEF AnswerChallenge, process_continuation
  <2>2. lines = 0
    BY <1>1 DEF IInv, LineIsSomewhere
  <2>3. line' \in BOOLEAN /\ ~line'
    BY <2>1
  <2>4. TaskTypeOK'
    BY <2>1, <2>3 DEF IInv, TypeOK, TaskTypeOK, AnswerChallenge
  <2>5. LineIsSomewhere'
    BY <1>1, <2>1, <2>2, <2>3 DEF LineIsSomewhere, AnswerChallenge
  <2> QED
    BY <2>4, <2>5, DialogueKeeps DEF AnswerChallenge, cacheVars, serverVars
<1>2. CASE ~(~ir /\ line)
  <2>1. UNCHANGED <<line, lines>> /\ sasl' \in {"empty", "cancelled"}
    BY <1>2 DEF AnswerChallenge, process_continuation
  <2>2. TaskTypeOK'
    BY <2>1 DEF IInv, TypeOK, TaskTypeOK, AnswerChallenge
  <2>3. LineIsSomewhere'
    BY <2>1 DEF IInv, LineIsSomewhere, AnswerChallenge
  <2> QED
    BY <2>2, <2>3, DialogueKeeps DEF AnswerChallenge, cacheVars, serverVars
<1> QED
  BY <1>1, <1>2

LEMMA StutterKeeps == ASSUME IInv, UNCHANGED vars PROVE IInv'
  BY DialogueKeeps DEF vars, IInv, TypeOK, TaskTypeOK, LineIsSomewhere

-----------------------------------------------------------------------------
(* The theorems *)

LEMMA StepKeeps == ASSUME IInv, [Next]_vars PROVE IInv'
<1>1. CASE tcp
  BY <1>1, TcpKeeps
<1>2. CASE refresh_capabilities \/ login \/ select
  BY <1>2, PlainCallKeeps
<1>3. CASE authenticate
  BY <1>3, AuthenticateKeeps
<1>4. CASE Challenge
  BY <1>4, ChallengeKeeps
<1>5. CASE AnswerChallenge
  BY <1>5, AnswerChallengeKeeps
<1>6. CASE enable \/ enable_condstore_if_supported \/ id
  BY <1>6, AskingCallKeeps
<1>7. CASE append
  BY <1>7, AppendKeeps
<1>8. CASE Answer
  <2>1. CASE do_starttls_prefix
    BY <2>1, StarttlsKeeps
  <2>2. CASE upgrade_rustls
    BY <2>2, UpgradeKeeps
  <2>3. CASE receive_greeting
    BY <2>3, GreetingKeeps
  <2>4. CASE CapabilityAnswered
    BY <2>4, CapabilityKeeps
  <2>5. CASE LoginAnswered \/ AuthenticateAnswered
    BY <2>5, LoggedInKeeps DEF LoginAnswered, AuthenticateAnswered
  <2>6. CASE EnableAnswered
    BY <2>6, EnableAnsweredKeeps
  <2>7. CASE SelectAnswered \/ IdAnswered \/ AppendAnswered
    BY <2>7, AnsweredKeeps
  <2> QED
    BY <1>8, <2>1, <2>2, <2>3, <2>4, <2>5, <2>6, <2>7 DEF Answer
<1>9. CASE Refused \/ Breaks
  BY <1>9, ErrsKeeps DEF Refused, Breaks
<1>10. CASE Drop
  BY <1>10, DropKeeps
<1>11. CASE UNCHANGED vars
  BY <1>11, StutterKeeps
<1> QED
  BY <1>1, <1>2, <1>3, <1>4, <1>5, <1>6, <1>7, <1>8, <1>9, <1>10, <1>11 DEF Next

\* The inductive invariant holds of every reachable state.
THEOREM InvariantHolds == Spec => []IInv
<1>1. Init => IInv
  BY InitIInv
<1>2. IInv /\ [Next]_vars => IInv'
  BY StepKeeps
<1> QED
  BY <1>1, <1>2, PTL DEF Spec

\* Every variable has its type.
THEOREM TypeCorrect == Spec => []TypeOK
<1>1. IInv => TypeOK
  BY DEF IInv
<1> QED
  BY <1>1, InvariantHolds, PTL

\* After Ok of a call that stores them (a constructor, refresh_capabilities, a
\* login), the cached capabilities are what the server offers at this stage.
THEOREM CacheStaysCurrent == Spec => []CacheIsCurrent
<1>1. IInv => CacheIsCurrent
  BY DEF IInv
<1> QED
  BY <1>1, InvariantHolds, PTL

\* Whatever fails or is dropped: no Client goes by what was said before TLS.
THEOREM CacheStaysOnTransport == Spec => []CacheIsOfThisTransport
<1>1. IInv => CacheIsOfThisTransport
  BY DEF IInv
<1> QED
  BY <1>1, InvariantHolds, PTL

\* A call that does not return Ok leaves capabilities and condstore_enabled alone.
THEOREM FailureKeeps == Spec => []FailureKeepsTheCache
<1>1. IInv => FailureKeepsTheCache
  BY DEF IInv, CacheIsKept, FailureKeepsTheCache
<1> QED
  BY <1>1, InvariantHolds, PTL

\* condstore_enabled never claims what the server has not turned on.
THEOREM FlagIsRight == Spec => []FlagMeansOn
<1>1. IInv => FlagMeansOn
  BY DEF IInv, FlagIsOffered, FlagMeansOn
<1> QED
  BY <1>1, InvariantHolds, PTL

\* AuthenticateTask sends its line once at most, initial response or not.
THEOREM LineSentOnce == Spec => []LineIsSentOnce
<1>1. IInv => LineIsSentOnce
  BY DEF IInv, LineIsSomewhere, LineIsSentOnce
<1> QED
  BY <1>1, InvariantHolds, PTL

\* ENABLE, CONDSTORE, ID, a literal8 and an initial response are used only
\* where the server offers them, unless a login left the cache stale.
THEOREM OnlyWhatIsOffered == Spec => []UsesWhatIsOffered
<1>1. ASSUME IInv, source = Stage
      PROVE  Used \subseteq offers[Stage]
  <2>1. CASE pending = "enable"
    <3>1. client /\ capabilities = offers[Stage]
      BY <1>1, <2>1 DEF IInv, StepOfCall, ClientOfCall, CacheIsOfThisTransport, Steps,
         Constructors
    <3>2. Used = {"ENABLE"} \cup IF call = "enable_condstore" THEN {"CONDSTORE"} ELSE {}
      BY <2>1 DEF Used
    <3> QED
      BY <1>1, <2>1, <3>1, <3>2 DEF IInv, UsesTheCache, Supports
  <2>2. CASE pending = "select"
    <3>1. Used = IF condstore_enabled THEN {"CONDSTORE"} ELSE {}
      BY <2>2 DEF Used
    <3> QED
      BY <1>1, <3>1 DEF IInv, FlagIsOffered
  <2>3. CASE pending = "id"
    <3>1. client /\ capabilities = offers[Stage]
      BY <1>1, <2>3 DEF IInv, StepOfCall, ClientOfCall, CacheIsOfThisTransport, Steps,
         Constructors
    <3>2. Used = {"ID"}
      BY <2>3 DEF Used
    <3> QED
      BY <1>1, <2>3, <3>1, <3>2 DEF IInv, UsesTheCache, Supports
  <2>4. CASE pending = "append"
    <3>1. client /\ capabilities = offers[Stage]
      BY <1>1, <2>4 DEF IInv, StepOfCall, ClientOfCall, CacheIsOfThisTransport, Steps,
         Constructors
    <3>2. Used = IF literal8 THEN {"BINARY"} ELSE {}
      BY <2>4 DEF Used
    <3> QED
      BY <1>1, <2>4, <3>1, <3>2 DEF IInv, UsesTheCache, Supports
  <2>5. CASE pending = "authenticate"
    <3>1. client /\ capabilities = offers[Stage]
      BY <1>1, <2>5 DEF IInv, StepOfCall, ClientOfCall, CacheIsOfThisTransport, Steps,
         Constructors
    <3>2. Used = IF ir THEN {"SASL-IR"} ELSE {}
      BY <2>5 DEF Used
    <3> QED
      BY <1>1, <2>5, <3>1, <3>2 DEF IInv, UsesTheCache, Supports
  <2>6. CASE pending \notin {"enable", "select", "id", "append", "authenticate"}
    BY <2>6 DEF Used
  <2> QED
    BY <2>1, <2>2, <2>3, <2>4, <2>5, <2>6
<1>2. IInv => UsesWhatIsOffered
  BY <1>1 DEF UsesWhatIsOffered
<1> QED
  BY <1>2, InvariantHolds, PTL
=============================================================================
