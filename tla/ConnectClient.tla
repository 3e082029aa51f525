---------------------------- MODULE ConnectClient ----------------------------
(***************************************************************************)
(* The life cycle of the Connect client (src/connect-client/index.ts): the *)
(* owner starts and stops it (the rollout fence of ConnectChannel stops    *)
(* it, the end of the lease starts it again), and between the two it holds *)
(* one of a socket, an armed timer or an authentication in flight.         *)
(*                                                                         *)
(* One action is what the thread does between two awaits.  A socket that   *)
(* stop() discarded still delivers its events, and an authentication that  *)
(* stop() overtook still completes: ownsSocket and the generation compared *)
(* after each await are what makes both harmless.                          *)
(*                                                                         *)
(* Abstractions: delays are not measured, a timer fires at any time; the   *)
(* message and ping traffic of an open socket belongs to ConnectDelivery.  *)
(* A close with code 1011 or a network failure is Plain, a 4401-like code  *)
(* is Auth.  The server refuses a token no more valid in either way.       *)
(***************************************************************************)
EXTENDS Naturals, FiniteSets

CONSTANTS
  Modes,          \* ways to authenticate a process may be given: subset of Mode
  ReauthAfter,    \* 3 in the code: attempts before re-authenticating anyway
  MaxGenerations  \* bound: calls of start() and stop()

Mode == {"broker", "password", "both"}

ASSUME ClientAssumption ==
  /\ Modes \subseteq Mode
  /\ ReauthAfter \in Nat
  /\ MaxGenerations \in Nat

VARIABLES
  mode,                 \* is a broker expected, is AGENT_PASSWORD readable
  envToken,             \* AGENT_ACCESS_TOKEN: "unset", "valid" or "expired"
  wanted,               \* history: the owner's last call was start()
  running,
  lifecycleGeneration,
  token,                \* "none", "env" or "minted"
  mintedValid,          \* does the server still accept the minted token
  forceTokenRefresh,
  ws,                   \* generation of the current socket, 0 when null
  sockets,              \* sockets whose close event is still to come
  reconnectTimer,       \* "none", "auth" or "reconnect": what it will do
  reconnectAttempt,     \* capped where it stops to matter
  auths,                \* selfAuthenticate() calls awaiting an answer
  rateLimited           \* authRateLimitedUntil lies ahead

vars == <<mode, envToken, wanted, running, lifecycleGeneration, token,
          mintedValid, forceTokenRefresh, ws, sockets, reconnectTimer,
          reconnectAttempt, auths, rateLimited>>

environment == <<mode, envToken>>

Generations == 1..MaxGenerations

\* A socket is known by the generation that opened it.
Socket == [generation : Generations, phase : {"connecting", "open", "stable"}]

\* Who awaits selfAuthenticate(), and which answer it awaits itself.
Auth == [generation : Generations, caller : {"start", "auth", "reconnect"},
         awaiting : {"broker", "login"}]

TypeOK ==
  /\ mode \in Modes
  /\ envToken \in {"unset", "valid", "expired"}
  /\ wanted \in BOOLEAN
  /\ running \in BOOLEAN
  /\ lifecycleGeneration \in 0..MaxGenerations
  /\ token \in {"none", "env", "minted"}
  /\ mintedValid \in BOOLEAN
  /\ forceTokenRefresh \in BOOLEAN
  /\ ws \in 0..MaxGenerations
  /\ sockets \subseteq Socket
  /\ reconnectTimer \in {"none", "auth", "reconnect"}
  /\ reconnectAttempt \in 0..(ReauthAfter + 1)
  /\ auths \subseteq Auth
  /\ rateLimited \in BOOLEAN

Init ==
  /\ mode \in Modes
  /\ envToken \in {"unset", "valid"}
  /\ wanted = FALSE
  /\ running = FALSE
  /\ lifecycleGeneration = 0
  /\ token = "none"
  /\ mintedValid = FALSE
  /\ forceTokenRefresh = FALSE
  /\ ws = 0
  /\ sockets = {}
  /\ reconnectTimer = "none"
  /\ reconnectAttempt = 0
  /\ auths = {}
  /\ rateLimited = FALSE

-----------------------------------------------------------------------------
BrokerExpected == mode \in {"broker", "both"}
HasPassword == mode \in {"password", "both"}

\* Would the server accept the current token?
Accepted == \/ token = "env" /\ envToken = "valid"
            \/ token = "minted" /\ mintedValid

\* A call of selfAuthenticate(): who awaits it, in which generation, and the
\* timer as the caller left it.
Call(caller, generation, timer) ==
  [caller |-> caller, generation |-> generation, timer |-> timer]

\* connect(): nothing without a token or beside a socket; else it cancels the
\* timer.
Connect(call, presented) ==
  /\ UNCHANGED reconnectAttempt
  /\ IF ws = 0 /\ presented # "none"
     THEN /\ ws' = call.generation
          /\ sockets' = sockets \cup
               {[generation |-> call.generation, phase |-> "connecting"]}
          /\ reconnectTimer' = "none"
     ELSE reconnectTimer' = call.timer /\ UNCHANGED <<ws, sockets>>

\* scheduleAuthRetry() and scheduleReconnect(): one timer for both, and none
\* beside a socket.
Schedule(kind, call) ==
  /\ UNCHANGED <<ws, sockets>>
  /\ IF ws = 0 /\ call.timer = "none"
     THEN /\ reconnectTimer' = kind
          /\ reconnectAttempt' =
               IF kind = "reconnect" /\ reconnectAttempt <= ReauthAfter
               THEN reconnectAttempt + 1 ELSE reconnectAttempt
     ELSE reconnectTimer' = call.timer /\ UNCHANGED reconnectAttempt

\* start() without a token gives Connect up: "No token after auth".
Disable(call) ==
  /\ running' = FALSE
  /\ reconnectTimer' = call.timer
  /\ UNCHANGED <<ws, sockets, reconnectAttempt>>

\* Mutant: start() never retries.
NeverRetriesStart(caller) == caller = "start"

\* start() tries again when a broker is expected; a reconnection always does.
RetryKind(caller) == IF caller = "reconnect" THEN "reconnect" ELSE "auth"
GivesUp(caller) == caller = "start" /\ ~BrokerExpected

\* What follows selfAuthenticate() in its caller, given the token it left.
Proceed(call, newToken) ==
  /\ token' = newToken
  /\ \/ newToken # "none" /\ running' = TRUE /\ Connect(call, newToken)
     \/ newToken = "none" /\ GivesUp(call.caller) /\ Disable(call)
     \/ /\ newToken = "none" /\ ~GivesUp(call.caller) /\ running' = TRUE
        /\ Schedule(RetryKind(call.caller), call)

\* selfAuthenticate() asks a server and awaits the answer.
Await(call, server) ==
  /\ running' = TRUE
  /\ reconnectTimer' = call.timer
  /\ UNCHANGED <<token, ws, sockets, reconnectAttempt>>

Pending(call, server) ==
  [generation |-> call.generation, caller |-> call.caller, awaiting |-> server]

\* The password login with its guards; others are the calls in flight besides
\* this one.
Login(call, others) ==
  \/ /\ HasPassword /\ ~rateLimited
     /\ Await(call, "login")
     /\ auths' = others \cup {Pending(call, "login")}
  \/ /\ ~HasPassword \/ rateLimited
     /\ Proceed(call, token)
     /\ auths' = others

\* selfAuthenticate() up to its first await: the environment's token, the
\* broker, or the password.
SelfAuthenticate(call) ==
  \/ /\ envToken = "valid" /\ ~forceTokenRefresh
     /\ Proceed(call, "env")
     /\ UNCHANGED auths
  \/ /\ envToken # "valid" \/ forceTokenRefresh
     /\ BrokerExpected
     /\ Await(call, "broker")
     /\ auths' = auths \cup {Pending(call, "broker")}
  \/ /\ envToken # "valid" \/ forceTokenRefresh
     /\ ~BrokerExpected
     /\ Login(call, auths)

-----------------------------------------------------------------------------
\* The owner calls start(); a second call while running returns at once.
Start ==
  /\ ~running
  /\ lifecycleGeneration < MaxGenerations
  /\ wanted' = TRUE
  /\ lifecycleGeneration' = lifecycleGeneration + 1
  /\ LET call == Call("start", lifecycleGeneration + 1, reconnectTimer) IN
       \/ token = "none" /\ SelfAuthenticate(call)
       \/ token # "none" /\ Proceed(call, token) /\ UNCHANGED auths
  /\ UNCHANGED <<environment, mintedValid, forceTokenRefresh, rateLimited>>

\* The owner calls stop(): what is in flight goes on, without the client.
Stop ==
  /\ lifecycleGeneration < MaxGenerations
  /\ wanted' = FALSE
  /\ running' = FALSE
  /\ lifecycleGeneration' = lifecycleGeneration + 1
  /\ reconnectTimer' = "none"
  /\ ws' = 0
  /\ UNCHANGED <<environment, token, mintedValid, forceTokenRefresh, sockets,
                 reconnectAttempt, auths, rateLimited>>

\* Is this answer for the client as it is now?
Current(a) == running /\ a.generation = lifecycleGeneration

\* An answer that stop() overtook changes nothing.
StaleAnswer(a) ==
  /\ ~Current(a)
  /\ auths' = auths \ {a}
  /\ UNCHANGED <<environment, wanted, running, lifecycleGeneration, token,
                 mintedValid, forceTokenRefresh, ws, sockets, reconnectTimer,
                 reconnectAttempt, rateLimited>>

\* The broker or the login gives a token.
AuthSucceeds(a) ==
  /\ Current(a)
  /\ Proceed(Call(a.caller, a.generation, reconnectTimer), "minted")
  /\ mintedValid' = TRUE
  /\ forceTokenRefresh' = FALSE
  /\ auths' = auths \ {a}
  /\ rateLimited' = (rateLimited /\ a.awaiting = "broker")
  /\ UNCHANGED <<environment, wanted, lifecycleGeneration>>

\* The broker has no token yet: a password may do instead.
BrokerFails(a) ==
  /\ Current(a)
  /\ a.awaiting = "broker"
  /\ Login(Call(a.caller, a.generation, reconnectTimer), auths \ {a})
  /\ UNCHANGED <<environment, wanted, lifecycleGeneration, mintedValid,
                 forceTokenRefresh, rateLimited>>

\* The login is refused; a 429 opens the window before the next one.
LoginFails(a) ==
  /\ Current(a)
  /\ a.awaiting = "login"
  /\ rateLimited' \in {rateLimited, TRUE}
  /\ Proceed(Call(a.caller, a.generation, reconnectTimer), token)
  /\ auths' = auths \ {a}
  /\ UNCHANGED <<environment, wanted, lifecycleGeneration, mintedValid,
                 forceTokenRefresh>>

AuthAnswers ==
  \E a \in auths : \/ StaleAnswer(a) \/ BrokerFails(a)
                   \/ AuthSucceeds(a) \/ LoginFails(a)

\* A timer fires.  A reconnection authenticates first when it was told to, or
\* after several attempts; otherwise it connects with the token it has.
\* Mutant: only an explicit refusal makes it authenticate again.
OnlyWhenRefused == reconnectTimer = "auth" \/ forceTokenRefresh

MustAuthenticate ==
  \/ reconnectTimer = "auth"
  \/ forceTokenRefresh
  \/ reconnectAttempt > ReauthAfter

TimerFires ==
  /\ running
  /\ reconnectTimer # "none"
  /\ LET call == Call(reconnectTimer, lifecycleGeneration, "none") IN
       \/ MustAuthenticate /\ SelfAuthenticate(call)
       \/ /\ ~MustAuthenticate
          /\ Connect(call, token)
          /\ UNCHANGED <<running, token, auths>>
  /\ UNCHANGED <<environment, wanted, lifecycleGeneration, mintedValid,
                 forceTokenRefresh, rateLimited>>

-----------------------------------------------------------------------------
\* Mutant: any event of a socket is taken for one of the current socket.
OwnsAnySocket(s) == running

OwnsSocket(s) == /\ running
                 /\ s.generation = lifecycleGeneration
                 /\ ws = s.generation

\* The handshake succeeds; the server may still close at once.
Open(s) ==
  /\ s.phase = "connecting"
  /\ OwnsSocket(s)
  /\ sockets' = (sockets \ {s}) \cup {[s EXCEPT !.phase = "open"]}
  /\ UNCHANGED <<environment, wanted, running, lifecycleGeneration, token,
                 mintedValid, forceTokenRefresh, ws, reconnectTimer,
                 reconnectAttempt, auths, rateLimited>>

\* The connection outlives STABLE_CONNECTION_MS: its token was accepted.
Survive(s) ==
  /\ s.phase = "open"
  /\ OwnsSocket(s)
  /\ Accepted
  /\ sockets' = (sockets \ {s}) \cup {[s EXCEPT !.phase = "stable"]}
  /\ UNCHANGED <<environment, wanted, running, lifecycleGeneration, token,
                 mintedValid, forceTokenRefresh, ws, reconnectTimer,
                 reconnectAttempt, auths, rateLimited>>

\* handleSocketClose(), after the error handler where the handshake failed: an
\* authentication failure drops the token, a stable connection the count.
HandleClose(s, refused) ==
  /\ ws' = 0
  /\ token' = IF refused THEN "none" ELSE token
  /\ forceTokenRefresh' = (forceTokenRefresh \/ refused)
  /\ LET attempt == IF ~refused /\ s.phase = "stable" THEN 0
                    ELSE reconnectAttempt IN
       IF reconnectTimer = "none"
       THEN /\ reconnectTimer' = "reconnect"
            /\ reconnectAttempt' = IF attempt <= ReauthAfter THEN attempt + 1
                                   ELSE attempt
       ELSE reconnectAttempt' = attempt /\ UNCHANGED reconnectTimer

\* A socket reports its end; only the current one is heard.
Close(s) ==
  /\ sockets' = sockets \ {s}
  /\ \/ OwnsSocket(s) /\ \E refused \in BOOLEAN : HandleClose(s, refused)
     \/ /\ ~OwnsSocket(s)
        /\ UNCHANGED <<ws, token, forceTokenRefresh, reconnectTimer,
                       reconnectAttempt>>
  /\ UNCHANGED <<environment, wanted, running, lifecycleGeneration,
                 mintedValid, auths, rateLimited>>

SocketEvents == \E s \in sockets : Open(s) \/ Survive(s) \/ Close(s)

-----------------------------------------------------------------------------
\* Time passes: tokens expire, and the rate-limit window ends.
EnvTokenExpires ==
  /\ envToken = "valid"
  /\ envToken' = "expired"
  /\ UNCHANGED <<mode, wanted, running, lifecycleGeneration, token,
                 mintedValid, forceTokenRefresh, ws, sockets, reconnectTimer,
                 reconnectAttempt, auths, rateLimited>>

MintedTokenExpires ==
  /\ mintedValid
  /\ mintedValid' = FALSE
  /\ UNCHANGED <<environment, wanted, running, lifecycleGeneration, token,
                 forceTokenRefresh, ws, sockets, reconnectTimer,
                 reconnectAttempt, auths, rateLimited>>

WindowEnds ==
  /\ rateLimited
  /\ rateLimited' = FALSE
  /\ UNCHANGED <<environment, wanted, running, lifecycleGeneration, token,
                 mintedValid, forceTokenRefresh, ws, sockets, reconnectTimer,
                 reconnectAttempt, auths>>

Next ==
  \/ Start \/ Stop \/ AuthAnswers \/ TimerFires \/ SocketEvents
  \/ EnvTokenExpires \/ MintedTokenExpires \/ WindowEnds

Spec == Init /\ [][Next]_vars

\* Timers fire, servers answer, windows end, a refused connection is closed.
\* An authentication asked for again and again succeeds once, and so does a
\* connection that presents an accepted token: nothing is assumed of one try.
Fairness ==
  /\ WF_vars(TimerFires)
  /\ WF_vars(AuthAnswers)
  /\ WF_vars(WindowEnds)
  /\ WF_vars(\E s \in sockets : ~Accepted /\ Close(s))
  /\ SF_vars(\E a \in auths : AuthSucceeds(a))
  /\ SF_vars(\E s \in sockets : Accepted /\ Open(s))
  /\ SF_vars(\E s \in sockets : Survive(s))

FairSpec == Spec /\ Fairness

-----------------------------------------------------------------------------
CurrentAuths == {a \in auths : a.generation = lifecycleGeneration}

\* What may still move the client: a socket, a timer, an authentication.
Drivers == Cardinality({s \in sockets : OwnsSocket(s)})
           + Cardinality(CurrentAuths)
           + (IF reconnectTimer # "none" THEN 1 ELSE 0)

\* A running client always has exactly one thing that will move it, a stopped
\* one has none: no stop, restart, late event or late answer leaves it with two
\* connections, or with none and no retry (the generation, ownsSocket and the
\* shared timer of connect, scheduleAuthRetry and scheduleReconnect).
OneDriver == Drivers = IF running THEN 1 ELSE 0

\* Where a broker is expected, Connect is down only because its owner stopped
\* it: a broker that is late at the start is retried (start()).
BrokerNeverDisabled == BrokerExpected => (running <=> wanted)

\* A running client comes to a connection that lasts, or is stopped: expired
\* tokens and flapping connections end in a re-authentication (the attempt
\* count that only a stable connection resets).
EventuallyConnected ==
  running ~> (~running \/ \E s \in sockets : OwnsSocket(s) /\ s.phase = "stable")

=============================================================================
