------------------------------ MODULE ClientProofs ------------------------------
(***************************************************************************)
(* Proofs about the life cycle of the Connect client, for every set of     *)
(* authentication modes and any number of starts and stops.                *)
(***************************************************************************)
EXTENDS ConnectClient, FiniteSetTheorems, TLAPS

\* Events and answers belong to the past or to the present.
Past ==
  /\ \A s \in sockets : s.generation <= lifecycleGeneration
  /\ \A a \in auths : a.generation <= lifecycleGeneration
  /\ running => lifecycleGeneration # 0

OnePerGeneration ==
  \A s, t \in sockets : s.generation = t.generation => s = t

\* Without a connection, with one, and with an authentication in flight.
Bare == ws = 0 /\ \A s \in sockets : s.generation # lifecycleGeneration

Linked == /\ ws = lifecycleGeneration
          /\ lifecycleGeneration # 0
          /\ \E s \in sockets : s.generation = lifecycleGeneration

NoAuth == \A a \in auths : a.generation # lifecycleGeneration

OneAuth == \E a \in auths :
  /\ a.generation = lifecycleGeneration
  /\ \A b \in auths : b.generation = lifecycleGeneration => b = a

\* What drives the client, with the exclusions OneDriver needs and hides.
Driven ==
  \/ ~running /\ Bare /\ NoAuth /\ reconnectTimer = "none"
  \/ running /\ Linked /\ NoAuth /\ reconnectTimer = "none"
  \/ running /\ Bare /\ NoAuth /\ reconnectTimer # "none"
  \/ running /\ Bare /\ OneAuth /\ reconnectTimer = "none"

\* A client about to connect again has a token, or knows it must get one.
TokenKnown ==
  /\ ws # 0 => token # "none"
  /\ reconnectTimer = "reconnect" => token # "none" \/ forceTokenRefresh
  /\ \A a \in auths :
       a.generation = lifecycleGeneration /\ a.caller = "reconnect" =>
         token # "none" \/ forceTokenRefresh

Shape == Past /\ OnePerGeneration /\ Driven /\ TokenKnown

IInv == TypeOK /\ Shape /\ BrokerNeverDisabled

\* A call made in the present generation when nothing of it is left.
Fresh(call) ==
  /\ ws = 0 /\ call.timer = "none"
  /\ call.generation = lifecycleGeneration'
  /\ lifecycleGeneration' \in Nat \ {0}
  /\ \A s \in sockets : /\ s.generation <= lifecycleGeneration'
                        /\ s.generation # lifecycleGeneration'
  /\ OnePerGeneration

Old(others) ==
  \A a \in others : /\ a.generation <= lifecycleGeneration'
                    /\ a.generation # lifecycleGeneration'

\* The calls that reach selfAuthenticate().
Calls == [caller : {"start", "auth", "reconnect"}, generation : Generations,
          timer : {"none", "auth", "reconnect"}]

\* The variables that Proceed writes.
ProceedTyped ==
  /\ running \in BOOLEAN
  /\ token \in {"none", "env", "minted"}
  /\ ws \in 0..MaxGenerations
  /\ sockets \subseteq Socket
  /\ reconnectTimer \in {"none", "auth", "reconnect"}
  /\ reconnectAttempt \in 0..(ReauthAfter + 1)

-----------------------------------------------------------------------------
LEMMA SocketType ==
  ASSUME NEW g \in Generations
  PROVE  [generation |-> g, phase |-> "connecting"] \in Socket
BY DEF Socket

LEMMA ConnectTypes ==
  ASSUME ProceedTyped, NEW call \in Calls, NEW presented, Connect(call, presented)
  PROVE  /\ ws' \in 0..MaxGenerations /\ sockets' \subseteq Socket
         /\ reconnectTimer' \in {"none", "auth", "reconnect"}
         /\ reconnectAttempt' \in 0..(ReauthAfter + 1)
<1>1. call.generation \in Generations /\ call.timer \in {"none", "auth", "reconnect"}
  BY DEF Calls
<1>2. call.generation \in 0..MaxGenerations
  BY <1>1, ClientAssumption DEF Generations
<1> QED
  BY <1>1, <1>2, SocketType DEF Connect, ProceedTyped

LEMMA ScheduleTypes ==
  ASSUME ProceedTyped, NEW call \in Calls, NEW kind \in {"auth", "reconnect"},
         Schedule(kind, call)
  PROVE  /\ ws' \in 0..MaxGenerations /\ sockets' \subseteq Socket
         /\ reconnectTimer' \in {"none", "auth", "reconnect"}
         /\ reconnectAttempt' \in 0..(ReauthAfter + 1)
<1>1. call.timer \in {"none", "auth", "reconnect"}
  BY DEF Calls
<1> QED
  BY <1>1, ClientAssumption DEF Schedule, ProceedTyped

\* Whatever follows an authentication keeps the types.
LEMMA ProceedTypes ==
  ASSUME ProceedTyped, NEW call \in Calls,
         NEW newToken \in {"none", "env", "minted"}, Proceed(call, newToken)
  PROVE  ProceedTyped'
<1>1. token' = newToken
  BY DEF Proceed
<1>2. CASE running' = TRUE /\ Connect(call, newToken)
  BY <1>1, <1>2, ConnectTypes DEF ProceedTyped
<1>3. CASE Disable(call)
  <2>1. call.timer \in {"none", "auth", "reconnect"}
    BY DEF Calls
  <2> QED
    BY <1>1, <1>3, <2>1 DEF Disable, ProceedTyped
<1>4. CASE running' = TRUE /\ Schedule(RetryKind(call.caller), call)
  <2>1. RetryKind(call.caller) \in {"auth", "reconnect"}
    BY DEF RetryKind
  <2> QED
    BY <1>1, <1>4, <2>1, ScheduleTypes DEF ProceedTyped
<1> QED
  BY <1>2, <1>3, <1>4 DEF Proceed

LEMMA AwaitTypes ==
  ASSUME ProceedTyped, NEW call \in Calls, NEW server, Await(call, server)
  PROVE  ProceedTyped'
<1>1. call.timer \in {"none", "auth", "reconnect"}
  BY DEF Calls
<1> QED
  BY <1>1 DEF Await, ProceedTyped

LEMMA PendingType ==
  ASSUME NEW call \in Calls, NEW server \in {"broker", "login"}
  PROVE  Pending(call, server) \in Auth
BY DEF Calls, Auth, Pending

LEMMA LoginTypes ==
  ASSUME ProceedTyped, NEW call \in Calls, NEW others, others \subseteq Auth,
         Login(call, others)
  PROVE  ProceedTyped' /\ auths' \subseteq Auth
<1>1. token \in {"none", "env", "minted"}
  BY DEF ProceedTyped
<1>2. CASE Await(call, "login") /\ auths' = others \cup {Pending(call, "login")}
  BY <1>2, AwaitTypes, PendingType
<1>3. CASE Proceed(call, token) /\ auths' = others
  BY <1>1, <1>3, ProceedTypes
<1> QED
  BY <1>2, <1>3 DEF Login

LEMMA SelfAuthenticateTypes ==
  ASSUME ProceedTyped, auths \subseteq Auth, NEW call \in Calls,
         SelfAuthenticate(call)
  PROVE  ProceedTyped' /\ auths' \subseteq Auth
<1>1. CASE Proceed(call, "env") /\ UNCHANGED auths
  BY <1>1, ProceedTypes
<1>2. CASE Await(call, "broker") /\ auths' = auths \cup {Pending(call, "broker")}
  BY <1>2, AwaitTypes, PendingType
<1>3. CASE Login(call, auths)
  BY <1>3, LoginTypes
<1> QED
  BY <1>1, <1>2, <1>3 DEF SelfAuthenticate

\* A call made while the client is in the present generation, or about to be.
LEMMA CallType ==
  ASSUME NEW g \in Generations, NEW caller \in {"start", "auth", "reconnect"},
         NEW timer \in {"none", "auth", "reconnect"}
  PROVE  Call(caller, g, timer) \in Calls
BY DEF Call, Calls

LEMMA SocketMoves ==
  ASSUME NEW s \in Socket, NEW phase \in {"connecting", "open", "stable"}
  PROVE  [s EXCEPT !.phase = phase] \in Socket
BY DEF Socket

\* Types are preserved.
LEMMA TypeStep ==
  ASSUME TypeOK, Past, Next
  PROVE  TypeOK'
<1>0. ProceedTyped /\ auths \subseteq Auth
  BY DEF TypeOK, ProceedTyped
<1>1. CASE Start
  <2>1. lifecycleGeneration' \in Generations
    BY <1>1, ClientAssumption DEF Start, TypeOK, Generations
  <2>2. Call("start", lifecycleGeneration', reconnectTimer) \in Calls
    BY <2>1, CallType DEF TypeOK
  <2>3. \/ SelfAuthenticate(Call("start", lifecycleGeneration', reconnectTimer))
        \/ /\ Proceed(Call("start", lifecycleGeneration', reconnectTimer), token)
           /\ UNCHANGED auths
    BY <1>1 DEF Start
  <2>4. ProceedTyped' /\ auths' \subseteq Auth
    BY <1>0, <2>2, <2>3, ProceedTypes, SelfAuthenticateTypes DEF TypeOK
  <2> QED
    BY <1>1, <2>1, <2>4 DEF Start, TypeOK, ProceedTyped, environment, Generations
<1>2. CASE Stop
  <2>1. lifecycleGeneration' \in 0..MaxGenerations
    BY <1>2, ClientAssumption DEF Stop, TypeOK
  <2>2. ws' = 0 /\ 0 \in 0..MaxGenerations
    BY <1>2, ClientAssumption DEF Stop
  <2> QED
    BY <1>2, <2>1, <2>2 DEF Stop, TypeOK, environment
<1>3. ASSUME NEW a \in auths, StaleAnswer(a)
      PROVE  TypeOK'
  BY <1>3 DEF StaleAnswer, TypeOK, environment
<1>4. ASSUME NEW a \in auths,
             BrokerFails(a) \/ AuthSucceeds(a) \/ LoginFails(a)
      PROVE  TypeOK'
  <2> DEFINE call == Call(a.caller, a.generation, reconnectTimer)
  <2>1. call \in Calls
    BY CallType DEF TypeOK, Auth
  <2>2. auths \ {a} \subseteq Auth
    BY <1>0
  <2>3. \/ Login(call, auths \ {a})
        \/ \E t \in {token, "minted"} : Proceed(call, t) /\ auths' = auths \ {a}
    BY <1>4 DEF BrokerFails, AuthSucceeds, LoginFails
  <2> HIDE DEF call
  <2>4. ProceedTyped' /\ auths' \subseteq Auth
    BY <1>0, <2>1, <2>2, <2>3, ProceedTypes, LoginTypes DEF TypeOK
  <2>5. /\ UNCHANGED <<environment, wanted, lifecycleGeneration>>
        /\ mintedValid' \in BOOLEAN
        /\ forceTokenRefresh' \in BOOLEAN
        /\ rateLimited' \in BOOLEAN
    BY <1>4 DEF BrokerFails, AuthSucceeds, LoginFails, TypeOK
  <2> QED
    BY <2>4, <2>5 DEF TypeOK, ProceedTyped, environment
<1>5. CASE TimerFires
  <2> DEFINE call == Call(reconnectTimer, lifecycleGeneration, "none")
  <2>1. lifecycleGeneration \in Generations
    BY <1>5, ClientAssumption DEF TimerFires, TypeOK, Past, Generations
  <2>2. call \in Calls
    BY <1>5, <2>1, CallType DEF TimerFires, TypeOK
  <2>3. \/ SelfAuthenticate(call)
        \/ Connect(call, token) /\ UNCHANGED <<running, token, auths>>
    BY <1>5 DEF TimerFires
  <2> HIDE DEF call
  <2>4. ProceedTyped' /\ auths' \subseteq Auth
    <3>1. CASE SelfAuthenticate(call)
      BY <1>0, <2>2, <3>1, SelfAuthenticateTypes
    <3>2. CASE Connect(call, token) /\ UNCHANGED <<running, token, auths>>
      BY <1>0, <2>2, <3>2, ConnectTypes DEF ProceedTyped
    <3> QED
      BY <2>3, <3>1, <3>2
  <2> QED
    BY <1>5, <2>4 DEF TimerFires, TypeOK, ProceedTyped, environment
<1>6. ASSUME NEW s \in sockets, Open(s) \/ Survive(s)
      PROVE  TypeOK'
  <2>1. s \in Socket
    BY DEF TypeOK
  <2>2. sockets' \subseteq Socket
    BY <1>6, <2>1, SocketMoves DEF Open, Survive, TypeOK
  <2> QED
    BY <1>6, <2>2 DEF Open, Survive, TypeOK, environment
<1>7. ASSUME NEW s \in sockets, Close(s)
      PROVE  TypeOK'
  <2>1. /\ ws' \in 0..MaxGenerations
        /\ token' \in {"none", "env", "minted"}
        /\ forceTokenRefresh' \in BOOLEAN
        /\ reconnectTimer' \in {"none", "auth", "reconnect"}
        /\ reconnectAttempt' \in 0..(ReauthAfter + 1)
    BY <1>7, ClientAssumption DEF Close, HandleClose, TypeOK
  <2> QED
    BY <1>7, <2>1 DEF Close, TypeOK, environment
<1>8. CASE EnvTokenExpires \/ MintedTokenExpires \/ WindowEnds
  BY <1>8 DEF EnvTokenExpires, MintedTokenExpires, WindowEnds, TypeOK, environment
<1> QED
  BY <1>1, <1>2, <1>3, <1>4, <1>5, <1>6, <1>7, <1>8
  DEF Next, AuthAnswers, SocketEvents

-----------------------------------------------------------------------------
\* connect() with a token and no socket opens the only one of its generation.
LEMMA ConnectDrives ==
  ASSUME NEW call, Fresh(call), NEW newToken, newToken # "none",
         token' = newToken, Old(auths'), running' = TRUE,
         Connect(call, newToken)
  PROVE  Shape'
<1> DEFINE new == [generation |-> call.generation, phase |-> "connecting"]
<1>1. /\ ws' = call.generation /\ sockets' = sockets \cup {new}
      /\ reconnectTimer' = "none"
  BY DEF Connect, Fresh
<1>2. new.generation = call.generation
  OBVIOUS
<1> HIDE DEF new
<1>3. Linked' /\ NoAuth' /\ Past'
  BY <1>1, <1>2 DEF Fresh, Old, Linked, NoAuth, Past
<1>4. OnePerGeneration'
  BY <1>1, <1>2 DEF Fresh, OnePerGeneration
<1>5. TokenKnown'
  BY <1>1 DEF TokenKnown, Old
<1> QED
  BY <1>1, <1>3, <1>4, <1>5 DEF Shape, Driven

\* What follows an answer leaves one socket, one timer, or a disabled client.
LEMMA ProceedDrives ==
  ASSUME NEW call, Fresh(call), NEW newToken, Old(auths'),
         call.caller = "reconnect" => newToken # "none" \/ forceTokenRefresh',
         Proceed(call, newToken)
  PROVE  Shape'
<1>1. token' = newToken
  BY DEF Proceed
<1>2. CASE newToken # "none" /\ running' = TRUE /\ Connect(call, newToken)
  BY <1>1, <1>2, ConnectDrives
<1>3. CASE UNCHANGED <<ws, sockets>>
  <2>1. Bare' /\ NoAuth' /\ Past' /\ OnePerGeneration'
    BY <1>3 DEF Fresh, Old, Bare, NoAuth, Past, OnePerGeneration
  <2>2. CASE newToken = "none" /\ Disable(call)
    BY <1>3, <2>1, <2>2 DEF Disable, Fresh, Old, Driven, TokenKnown, Shape
  <2>3. CASE /\ newToken = "none" /\ running' = TRUE
             /\ Schedule(RetryKind(call.caller), call)
    <3>1. reconnectTimer' = RetryKind(call.caller)
      BY <2>3 DEF Schedule, Fresh
    <3>2. /\ reconnectTimer' # "none"
          /\ reconnectTimer' = "reconnect" => call.caller = "reconnect"
      BY <3>1 DEF RetryKind
    <3>3. TokenKnown'
      BY <1>1, <1>3, <3>2 DEF TokenKnown, Fresh, Old
    <3> QED
      BY <2>1, <2>3, <3>2, <3>3 DEF Driven, Shape
  <2>4. CASE newToken # "none" /\ running' = TRUE /\ Connect(call, newToken)
    BY <1>1, <2>4, ConnectDrives
  <2> QED
    BY <2>2, <2>3, <2>4 DEF Proceed
<1> QED
  BY <1>2, <1>3 DEF Proceed, Disable, Schedule

LEMMA AwaitDrives ==
  ASSUME NEW call, Fresh(call), NEW server, NEW others, Old(others),
         call.caller = "reconnect" => token # "none" \/ forceTokenRefresh',
         Await(call, server), auths' = others \cup {Pending(call, server)}
  PROVE  Shape'
<1> DEFINE new == Pending(call, server)
<1>1. new.generation = lifecycleGeneration' /\ new.caller = call.caller
  BY DEF Pending, Fresh
<1>2. /\ auths' = others \cup {new} /\ running' = TRUE
      /\ reconnectTimer' = "none" /\ UNCHANGED <<token, ws, sockets>>
  BY DEF Await, Fresh
<1> HIDE DEF new
<1>3. Bare' /\ OneAuth'
  BY <1>1, <1>2 DEF Fresh, Old, Bare, OneAuth
<1>4. Past' /\ OnePerGeneration'
  BY <1>1, <1>2 DEF Fresh, Old, Past, OnePerGeneration
<1>5. TokenKnown'
  BY <1>1, <1>2 DEF Fresh, Old, TokenKnown
<1> QED
  BY <1>2, <1>3, <1>4, <1>5 DEF Driven, Shape

LEMMA LoginDrives ==
  ASSUME NEW call, Fresh(call), NEW others, Old(others),
         call.caller = "reconnect" => token # "none" \/ forceTokenRefresh',
         Login(call, others)
  PROVE  Shape'
BY AwaitDrives, ProceedDrives DEF Login

LEMMA SelfAuthenticateDrives ==
  ASSUME NEW call, Fresh(call), Old(auths),
         call.caller = "reconnect" => token # "none" \/ forceTokenRefresh',
         SelfAuthenticate(call)
  PROVE  Shape'
<1>1. CASE Proceed(call, "env") /\ UNCHANGED auths
  BY <1>1, ProceedDrives DEF Old
<1>2. CASE Await(call, "broker") /\ auths' = auths \cup {Pending(call, "broker")}
  BY <1>2, AwaitDrives
<1>3. CASE Login(call, auths)
  BY <1>3, LoginDrives
<1> QED
  BY <1>1, <1>2, <1>3 DEF SelfAuthenticate

-----------------------------------------------------------------------------
\* start() finds nothing of the generation it opens.
LEMMA StartShape ==
  ASSUME TypeOK, Shape, Start
  PROVE  Shape'
<1> DEFINE call == Call("start", lifecycleGeneration', reconnectTimer)
<1>1. /\ lifecycleGeneration' = lifecycleGeneration + 1
      /\ lifecycleGeneration \in Nat
  BY ClientAssumption DEF Start, TypeOK
<1>2. ws = 0 /\ reconnectTimer = "none"
  BY DEF Start, Shape, Driven, Bare
<1>3. /\ \A s \in sockets : s.generation \in Nat
      /\ \A a \in auths : a.generation \in Nat
  BY ClientAssumption DEF TypeOK, Socket, Auth, Generations
<1>4. Old(auths)
  BY <1>1, <1>3 DEF Old, Shape, Past
<1>5. Fresh(call)
  <2>1. \A s \in sockets : /\ s.generation <= lifecycleGeneration'
                           /\ s.generation # lifecycleGeneration'
    BY <1>1, <1>3 DEF Shape, Past
  <2> QED
    BY <1>1, <1>2, <2>1 DEF Fresh, Call, Shape
<1>6. call.caller = "start"
  BY DEF Call
<1>7. SelfAuthenticate(call) \/ (Proceed(call, token) /\ UNCHANGED auths)
  BY <1>1 DEF Start
<1> HIDE DEF call
<1>8. CASE SelfAuthenticate(call)
  BY <1>4, <1>5, <1>6, <1>8, SelfAuthenticateDrives
<1>9. CASE Proceed(call, token) /\ UNCHANGED auths
  BY <1>4, <1>5, <1>6, <1>9, ProceedDrives DEF Old
<1> QED
  BY <1>7, <1>8, <1>9

\* stop() leaves everything that is under way in an earlier generation.
LEMMA StopShape ==
  ASSUME TypeOK, Shape, Stop
  PROVE  Shape'
<1>1. /\ lifecycleGeneration' = lifecycleGeneration + 1
      /\ lifecycleGeneration \in Nat
  BY ClientAssumption DEF Stop, TypeOK
<1>2. /\ \A s \in sockets : s.generation \in Nat
      /\ \A a \in auths : a.generation \in Nat
  BY ClientAssumption DEF TypeOK, Socket, Auth, Generations
<1>3. /\ ws' = 0 /\ running' = FALSE /\ reconnectTimer' = "none"
      /\ UNCHANGED <<sockets, auths>>
  BY DEF Stop
<1>4. Past' /\ Bare' /\ NoAuth'
  BY <1>1, <1>2, <1>3 DEF Shape, Past, Bare, NoAuth
<1>5. OnePerGeneration' /\ TokenKnown'
  BY <1>3, <1>4 DEF Shape, OnePerGeneration, TokenKnown, NoAuth
<1> QED
  BY <1>3, <1>4, <1>5 DEF Driven, Shape

\* A late answer belongs to nobody.
LEMMA StaleShape ==
  ASSUME TypeOK, Shape, NEW a \in auths, StaleAnswer(a)
  PROVE  Shape'
<1>1. /\ auths' = auths \ {a} /\ ~Current(a)
      /\ UNCHANGED <<running, lifecycleGeneration, token, forceTokenRefresh,
                     ws, sockets, reconnectTimer>>
  BY DEF StaleAnswer
<1>2. Past' /\ OnePerGeneration' /\ TokenKnown'
  BY <1>1 DEF Shape, Past, OnePerGeneration, TokenKnown
<1>3. (Bare => Bare') /\ (Linked => Linked') /\ (NoAuth => NoAuth')
  BY <1>1 DEF Bare, Linked, NoAuth
<1>4. running /\ OneAuth => OneAuth'
  BY <1>1 DEF OneAuth, Current
<1> QED
  BY <1>1, <1>2, <1>3, <1>4 DEF Shape, Driven

\* An answer for the present finds its client with nothing else.
LEMMA AnswerShape ==
  ASSUME TypeOK, Shape, NEW a \in auths,
         BrokerFails(a) \/ AuthSucceeds(a) \/ LoginFails(a)
  PROVE  Shape'
<1> DEFINE call == Call(a.caller, a.generation, reconnectTimer)
<1>1. /\ running /\ a.generation = lifecycleGeneration
      /\ lifecycleGeneration' = lifecycleGeneration
  BY DEF BrokerFails, AuthSucceeds, LoginFails, Current
<1>2. /\ Bare /\ reconnectTimer = "none"
      /\ \A b \in auths : b.generation = lifecycleGeneration => b = a
  BY <1>1 DEF Shape, Driven, NoAuth, OneAuth
<1>3. Old(auths \ {a})
  BY <1>1, <1>2 DEF Old, Shape, Past
<1>4. lifecycleGeneration' \in Nat \ {0}
  BY <1>1, ClientAssumption DEF TypeOK, Shape, Past
<1>5. Fresh(call)
  BY <1>1, <1>2, <1>4 DEF Fresh, Call, Shape, Past, Bare
<1>6. call.caller = "reconnect" => token # "none" \/ forceTokenRefresh
  BY <1>1 DEF Call, Shape, TokenKnown
<1>7. CASE BrokerFails(a)
  <2>1. Login(call, auths \ {a}) /\ UNCHANGED forceTokenRefresh
    BY <1>7 DEF BrokerFails
  <2> HIDE DEF call
  <2> QED
    BY <1>3, <1>5, <1>6, <2>1, LoginDrives
<1>8. CASE AuthSucceeds(a)
  <2>1. Proceed(call, "minted") /\ auths' = auths \ {a}
    BY <1>8 DEF AuthSucceeds
  <2> HIDE DEF call
  <2> QED
    BY <1>3, <1>5, <2>1, ProceedDrives
<1>9. CASE LoginFails(a)
  <2>1. /\ Proceed(call, token) /\ auths' = auths \ {a}
        /\ UNCHANGED forceTokenRefresh
    BY <1>9 DEF LoginFails
  <2> HIDE DEF call
  <2> QED
    BY <1>3, <1>5, <1>6, <2>1, ProceedDrives
<1> QED
  BY <1>7, <1>8, <1>9

\* A timer fires when neither socket nor authentication is there.
LEMMA TimerShape ==
  ASSUME TypeOK, Shape, TimerFires
  PROVE  Shape'
<1> DEFINE call == Call(reconnectTimer, lifecycleGeneration, "none")
<1>1. /\ running /\ reconnectTimer # "none"
      /\ UNCHANGED <<lifecycleGeneration, forceTokenRefresh>>
  BY DEF TimerFires
<1>2. Bare /\ NoAuth
  BY <1>1 DEF Shape, Driven
<1>3. Old(auths)
  BY <1>1, <1>2 DEF Old, Shape, Past, NoAuth
<1>4. lifecycleGeneration' \in Nat \ {0}
  BY <1>1, ClientAssumption DEF TypeOK, Shape, Past
<1>5. Fresh(call)
  BY <1>1, <1>2, <1>4 DEF Fresh, Call, Shape, Past, Bare
<1>6. call.caller = reconnectTimer
  BY DEF Call
<1>7. reconnectTimer = "reconnect" => token # "none" \/ forceTokenRefresh
  BY DEF Shape, TokenKnown
<1>8. \/ SelfAuthenticate(call)
      \/ /\ ~MustAuthenticate /\ Connect(call, token)
         /\ UNCHANGED <<running, token, auths>>
  BY DEF TimerFires
<1> HIDE DEF call
<1>9. CASE SelfAuthenticate(call)
  BY <1>1, <1>3, <1>5, <1>6, <1>7, <1>9, SelfAuthenticateDrives
<1>10. CASE /\ ~MustAuthenticate /\ Connect(call, token)
            /\ UNCHANGED <<running, token, auths>>
  <2>1. token # "none"
    BY <1>1, <1>7, <1>10 DEF MustAuthenticate, TypeOK
  <2> QED
    BY <1>1, <1>3, <1>5, <1>10, <2>1, ConnectDrives DEF Old, TypeOK
<1> QED
  BY <1>8, <1>9, <1>10

\* The handshake and the stability of the socket leave it the only one.
LEMMA SocketShape ==
  ASSUME TypeOK, Shape, NEW s \in sockets, Open(s) \/ Survive(s)
  PROVE  Shape'
<1>1. PICK phase \in {"open", "stable"} :
        sockets' = (sockets \ {s}) \cup {[s EXCEPT !.phase = phase]}
  BY DEF Open, Survive
<1> DEFINE new == [s EXCEPT !.phase = phase]
<1>2. new.generation = s.generation
  BY DEF TypeOK, Socket
<1>3. /\ s \in sockets /\ sockets' = (sockets \ {s}) \cup {new}
      /\ UNCHANGED <<running, lifecycleGeneration, token, forceTokenRefresh,
                     ws, reconnectTimer, auths>>
  BY <1>1 DEF Open, Survive
<1> HIDE DEF new
<1>4. Past' /\ OnePerGeneration' /\ TokenKnown'
  BY <1>2, <1>3 DEF Shape, Past, OnePerGeneration, TokenKnown
<1>5. /\ Bare => Bare'
      /\ Linked => Linked'
      /\ NoAuth => NoAuth'
      /\ OneAuth => OneAuth'
  BY <1>2, <1>3 DEF Bare, Linked, NoAuth, OneAuth
<1> QED
  BY <1>3, <1>4, <1>5 DEF Shape, Driven

\* A close that is heard arms the timer, one that is not changes nothing.
LEMMA CloseShape ==
  ASSUME TypeOK, Shape, NEW s \in sockets, Close(s)
  PROVE  Shape'
<1>1. /\ sockets' = sockets \ {s}
      /\ UNCHANGED <<running, lifecycleGeneration, auths>>
  BY DEF Close
<1>2. Past' /\ OnePerGeneration'
  BY <1>1 DEF Shape, Past, OnePerGeneration
<1>3. (NoAuth => NoAuth') /\ (OneAuth => OneAuth')
  BY <1>1 DEF NoAuth, OneAuth
<1>4. CASE OwnsSocket(s)
  <2>1. PICK refused \in BOOLEAN : HandleClose(s, refused)
    BY <1>4 DEF Close
  <2>2. /\ running /\ ws = lifecycleGeneration /\ ws # 0
        /\ s.generation = lifecycleGeneration
    BY <1>4 DEF OwnsSocket, Shape, Past
  <2>3. reconnectTimer = "none" /\ NoAuth
    BY <2>2 DEF Shape, Driven, Bare
  <2>4. /\ ws' = 0 /\ reconnectTimer' = "reconnect"
        /\ token' # "none" \/ forceTokenRefresh'
    BY <2>1, <2>2, <2>3 DEF HandleClose, Shape, TokenKnown
  <2>5. Bare'
    BY <1>1, <2>2, <2>4 DEF Bare, Shape, OnePerGeneration
  <2>6. TokenKnown'
    BY <2>4 DEF TokenKnown
  <2> QED
    BY <1>1, <1>2, <1>3, <2>2, <2>3, <2>4, <2>5, <2>6 DEF Shape, Driven
<1>5. CASE ~OwnsSocket(s)
  <2>1. UNCHANGED <<ws, token, forceTokenRefresh, reconnectTimer>>
    BY <1>5 DEF Close
  <2>2. Bare => Bare'
    BY <1>1, <2>1 DEF Bare
  <2>3. running /\ Linked => Linked'
    BY <1>1, <1>5, <2>1 DEF Linked, OwnsSocket
  <2>4. TokenKnown'
    BY <1>1, <2>1 DEF Shape, TokenKnown
  <2> QED
    BY <1>1, <1>2, <1>3, <2>1, <2>2, <2>3, <2>4 DEF Shape, Driven
<1> QED
  BY <1>4, <1>5

LEMMA ShapeFrame ==
  ASSUME Shape,
         UNCHANGED <<running, lifecycleGeneration, token, forceTokenRefresh, ws,
                     sockets, reconnectTimer, auths>>
  PROVE  Shape'
BY DEF Shape, Past, OnePerGeneration, Driven, TokenKnown, Bare, Linked, NoAuth,
       OneAuth

LEMMA ShapeStep ==
  ASSUME TypeOK, Shape, Next
  PROVE  Shape'
<1>1. CASE EnvTokenExpires \/ MintedTokenExpires \/ WindowEnds
  BY <1>1, ShapeFrame DEF EnvTokenExpires, MintedTokenExpires, WindowEnds
<1>2. CASE AuthAnswers
  BY <1>2, StaleShape, AnswerShape DEF AuthAnswers
<1>3. CASE SocketEvents
  BY <1>3, SocketShape, CloseShape DEF SocketEvents
<1> QED
  BY <1>1, <1>2, <1>3, StartShape, StopShape, TimerShape DEF Next

-----------------------------------------------------------------------------
\* Where a broker is expected, no call of selfAuthenticate() gives up.
LEMMA KeepsRunning ==
  ASSUME NEW call, BrokerExpected,
         \/ SelfAuthenticate(call)
         \/ \E t : Proceed(call, t)
         \/ \E others : Login(call, others)
  PROVE  running' = TRUE
BY DEF SelfAuthenticate, Login, Proceed, Await, GivesUp

LEMMA BrokerStep ==
  ASSUME TypeOK, BrokerNeverDisabled, Next
  PROVE  BrokerNeverDisabled'
<1>1. BrokerExpected' = BrokerExpected
  BY DEF Next, Start, Stop, AuthAnswers, StaleAnswer, BrokerFails, AuthSucceeds,
         LoginFails, TimerFires, SocketEvents, Open, Survive, Close,
         EnvTokenExpires, MintedTokenExpires, WindowEnds, environment,
         BrokerExpected
<1> SUFFICES ASSUME BrokerExpected PROVE running' <=> wanted'
  BY <1>1 DEF BrokerNeverDisabled
<1>2. running <=> wanted
  BY DEF BrokerNeverDisabled
<1>3. CASE Start
  BY <1>3, KeepsRunning DEF Start
<1>4. CASE Stop
  BY <1>4 DEF Stop
<1>5. CASE AuthAnswers
  <2>1. PICK a \in auths : \/ StaleAnswer(a) \/ BrokerFails(a)
                           \/ AuthSucceeds(a) \/ LoginFails(a)
    BY <1>5 DEF AuthAnswers
  <2>2. CASE StaleAnswer(a)
    BY <1>2, <2>2 DEF StaleAnswer
  <2>3. CASE BrokerFails(a) \/ AuthSucceeds(a) \/ LoginFails(a)
    <3>1. running' = TRUE /\ wanted' = wanted /\ running
      BY <2>3, KeepsRunning DEF BrokerFails, AuthSucceeds, LoginFails, Current
    <3> QED
      BY <1>2, <3>1
  <2> QED
    BY <2>1, <2>2, <2>3
<1>6. CASE TimerFires
  <2>1. running' = TRUE \/ running' = running
    BY <1>6, KeepsRunning DEF TimerFires
  <2>2. running /\ wanted' = wanted
    BY <1>6 DEF TimerFires
  <2> QED
    BY <1>2, <2>1, <2>2
<1>7. CASE SocketEvents \/ EnvTokenExpires \/ MintedTokenExpires \/ WindowEnds
  BY <1>2, <1>7 DEF SocketEvents, Open, Survive, Close, EnvTokenExpires,
                    MintedTokenExpires, WindowEnds
<1> QED
  BY <1>3, <1>4, <1>5, <1>6, <1>7 DEF Next

-----------------------------------------------------------------------------
Owned == {s \in sockets : OwnsSocket(s)}

\* The exclusions count as one driver or none.
LEMMA ShapeCounts ==
  ASSUME TypeOK, Shape
  PROVE  OneDriver
<1>1. ~running => Owned = {}
  BY DEF Owned, OwnsSocket
<1>2. Bare => Owned = {}
  BY DEF Owned, OwnsSocket, Bare
<1>3. running /\ Linked => \E s : Owned = {s}
  <2>1. ASSUME running, Linked, NEW s \in sockets,
               s.generation = lifecycleGeneration
        PROVE  Owned = {s}
    BY <2>1 DEF Owned, OwnsSocket, Linked, Shape, OnePerGeneration
  <2> QED
    BY <2>1 DEF Linked
<1>4. NoAuth => CurrentAuths = {}
  BY DEF NoAuth, CurrentAuths
<1>5. OneAuth => \E a : CurrentAuths = {a}
  BY DEF OneAuth, CurrentAuths
<1>6. Cardinality({}) = 0 /\ \A x : Cardinality({x}) = 1
  BY FS_EmptySet, FS_Singleton
<1>7. Drivers = Cardinality(Owned) + Cardinality(CurrentAuths)
                + (IF reconnectTimer # "none" THEN 1 ELSE 0)
  BY DEF Drivers, Owned
<1> DEFINE so == Cardinality(Owned)
           au == Cardinality(CurrentAuths)
<1>8. /\ (~running \/ Bare) => so = 0
      /\ running /\ Linked => so = 1
      /\ NoAuth => au = 0
      /\ OneAuth => au = 1
  BY <1>1, <1>2, <1>3, <1>4, <1>5, <1>6
<1> HIDE DEF so, au
<1>9. Drivers = so + au + (IF reconnectTimer # "none" THEN 1 ELSE 0)
  BY <1>7 DEF so, au
<1> QED
  BY <1>8, <1>9 DEF OneDriver, Shape, Driven

(***************************************************************************)
(* The theorems.                                                           *)
(***************************************************************************)

\* The strengthened invariant: what OneDriver counts are exclusive shapes, and
\* nothing that is under way belongs to a generation still to come.
THEOREM Invariance == Spec => []IInv
<1>1. Init => IInv
  <2>1. Init => TypeOK
    <3> SUFFICES ASSUME Init PROVE TypeOK
      OBVIOUS
    <3>1. 0 \in 0..MaxGenerations /\ 0 \in 0..(ReauthAfter + 1)
      BY ClientAssumption
    <3>2. /\ ws \in 0..MaxGenerations
          /\ lifecycleGeneration \in 0..MaxGenerations
          /\ reconnectAttempt \in 0..(ReauthAfter + 1)
      BY <3>1 DEF Init
    <3> QED
      BY <3>2 DEF Init, TypeOK
  <2>2. Init => Shape /\ BrokerNeverDisabled
    BY DEF Init, Shape, Past, OnePerGeneration, Driven, Bare, NoAuth, TokenKnown,
           BrokerNeverDisabled
  <2> QED
    BY <2>1, <2>2 DEF IInv
<1>2. IInv /\ [Next]_vars => IInv'
  <2> SUFFICES ASSUME IInv, [Next]_vars PROVE IInv'
    OBVIOUS
  <2>1. CASE Next
    <3>1. TypeOK /\ Shape /\ Past /\ BrokerNeverDisabled
      BY DEF IInv, Shape
    <3> QED
      BY <2>1, <3>1, TypeStep, ShapeStep, BrokerStep DEF IInv
  <2>2. CASE UNCHANGED vars
    <3>1. TypeOK' /\ BrokerNeverDisabled'
      BY <2>2 DEF vars, IInv, TypeOK, BrokerNeverDisabled, BrokerExpected
    <3>2. Shape'
      BY <2>2, ShapeFrame DEF vars, IInv
    <3> QED
      BY <3>1, <3>2 DEF IInv
  <2> QED
    BY <2>1, <2>2
<1> QED
  BY <1>1, <1>2, PTL DEF Spec

\* Every variable of the client keeps its type.
THEOREM TypeCorrect == Spec => []TypeOK
<1>1. IInv => TypeOK
  BY DEF IInv
<1> QED
  BY <1>1, Invariance, PTL

\* However start, stop, late socket events, late answers and timers interleave,
\* a running client has exactly one thing that will move it.
THEOREM ExactlyOneDriver == Spec => []OneDriver
<1>1. IInv => OneDriver
  BY ShapeCounts DEF IInv
<1> QED
  BY <1>1, Invariance, PTL

\* With a broker expected, only stop() takes the client down.
THEOREM BrokerKeepsRetrying == Spec => []BrokerNeverDisabled
<1>1. IInv => BrokerNeverDisabled
  BY DEF IInv
<1> QED
  BY <1>1, Invariance, PTL
=============================================================================
