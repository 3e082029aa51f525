------------------------------ MODULE RollProofs ------------------------------
(***************************************************************************)
(* Theorems of RuntimeRoll: its safety invariants, and that the drain      *)
(* implements the abstract turn boundary, for every set of rows and        *)
(* requests, any number of probes, and fenced or unfenced channels.        *)
(***************************************************************************)
EXTENDS RuntimeRoll, TLAPS

\* A ready lease of a fenceable agent has sealed the inbox.
ReadyIsSealed == state = "ready" /\ Fenceable => sealed

\* The gate allows nothing while the lease still drains.
AllowedIsReady == gate = "allowed" => state # "draining"

\* The version counts every arrival since the first probe.
ArrivalsCounted ==
  /\ seen.version <= admissionVersion
  /\ arrived # {} => seen.version < admissionVersion

\* The inductive invariant: what the lease, the loop, the seal of the inbox and the
\* controller's gate know of each other.
IInv ==
  /\ TypeOK
  /\ ReadyMeansIdle /\ NobodyStranded
  /\ ReadyIsSealed /\ AllowedIsReady /\ ArrivalsCounted
  /\ QuietReplacement

(***************************************************************************)
(* Type correctness.                                                       *)
(***************************************************************************)
\* Every action keeps the types.
LEMMA TypeStep == ASSUME TypeOK, [Next]_vars PROVE TypeOK'
<1>1. CASE UNCHANGED vars
  BY <1>1 DEF vars, lease, loop, provider, control, ended, TypeOK
<1>2. CASE BecomesDue
  BY <1>2 DEF BecomesDue, loop, provider, control, ended, TypeOK
<1>3. CASE TimerFires
  <2>1. state' \in {"idle", "draining", "ready"} /\ holder' \in Requests \cup {NoRequest}
        /\ due' \in BOOLEAN /\ sealed' \in BOOLEAN
    BY <1>3 DEF TimerFires, Expire
  <2>2. pc' = pc \/ (pc = "waiting" /\ pc' = "top")
    BY <1>3 DEF TimerFires, Released
  <2>3. UNCHANGED <<admissionVersion, queue, busy, hand, notBefore, stored, gate, seen, probes,
                    accepted, arrived, done, dropped>>
    BY <1>3 DEF TimerFires, provider, control, ended
  <2>4. QED BY <2>1, <2>2, <2>3 DEF TypeOK
<1>4. CASE DeadlinePasses
  <2>1. pc' = pc \/ (pc = "deadline" /\ pc' = "top")
    BY <1>4 DEF DeadlinePasses
  <2>2. UNCHANGED <<state, holder, due, sealed, admissionVersion, queue, busy, hand, stored, gate,
                    seen, probes, accepted, arrived, done, dropped>>
        /\ notBefore' \in BOOLEAN
    BY <1>4 DEF DeadlinePasses, lease, control, ended
  <2>3. QED BY <2>1, <2>2 DEF TypeOK
<1>5. CASE Stop
  BY <1>5 DEF Stop, provider, control, ended, TypeOK
<1>6. ASSUME NEW q \in Requests, Probe(q) PROVE TypeOK'
  <2>1. Observation \in [sealed : BOOLEAN, version : Nat]
    BY <1>6, RollAssumption DEF Probe, Arm, Observation, TypeOK
  <2>2. probes' \in 0 .. MaxProbes
    BY <1>6, RollAssumption DEF Probe, TypeOK
  <2>3. QED BY <1>6, <2>1, <2>2, RollAssumption DEF Probe, Arm, Released, loop, provider, ended,
        TypeOK, Running
<1>7. ASSUME NEW q \in Requests, Confirm(q) PROVE TypeOK'
  <2>1. probes' \in 0 .. MaxProbes
    BY <1>7, RollAssumption DEF Confirm, TypeOK
  <2>2. QED BY <1>7, <2>1, RollAssumption DEF Confirm, Arm, Released, loop, provider, ended,
        TypeOK, Running
<1>8. ASSUME NEW r \in Rows, TryPush(r) \/ PumpRow(r) PROVE TypeOK'
  BY <1>8, RollAssumption DEF TryPush, PumpRow, Deliver, Running, lease, loop, provider, control,
     ended, TypeOK
<1>9. CASE LoopSteps
  <2>1. /\ state' \in {"idle", "draining", "ready"} /\ holder' \in Requests \cup {NoRequest}
        /\ due' \in BOOLEAN /\ sealed' \in BOOLEAN
    BY <1>9, RollAssumption DEF LoopSteps, TakeNext, AwaitRelease, ExpiredBeforeWaiting, PutBack,
       Admit, BeginTurn, ReturnAtOnce, Unwind, Return, ReadInactive, ReadyIfIdle, Expire, lease,
       TypeOK
  <2>2. CASE TakeNext \/ AwaitRelease \/ ExpiredBeforeWaiting \/ PutBack \/ Admit
    BY <1>9, <2>1, <2>2, RollAssumption DEF TakeNext, AwaitRelease, ExpiredBeforeWaiting, PutBack,
       Admit, provider, control, ended, TypeOK
  <2>3. CASE BeginTurn \/ ReturnAtOnce \/ Unwind \/ Return
    BY <2>3, <2>1 DEF BeginTurn, ReturnAtOnce, Unwind, Return, provider, control, ended, TypeOK
  <2>4. QED BY <1>9, <2>2, <2>3 DEF LoopSteps
<1>10. CASE FinishTurn \/ TurnEnds
  BY <1>10 DEF FinishTurn, TurnEnds, Checkpoint, RetryTurn, DeferTurn, AbandonTurn, PrewarmThrows,
     InTurn, lease, provider, control, ended, TypeOK
<1>11. QED BY <1>1, <1>2, <1>3, <1>4, <1>5, <1>6, <1>7, <1>8, <1>9, <1>10 DEF Next

(***************************************************************************)
(* The lease.                                                              *)
(***************************************************************************)
LeaseInv ==
  /\ ReadyMeansIdle /\ NobodyStranded
  /\ ReadyIsSealed /\ AllowedIsReady

\* What a request does to the lease, whatever it finds.
LEMMA ArmLease ==
  ASSUME TypeOK, LeaseInv, Running, NEW q \in Requests, Arm(q)
  PROVE  /\ state' # "idle"
         /\ state' = "ready" <=> ~IsBusy
         /\ sealed' = (~IsBusy /\ Fenceable)
         /\ pc' = pc \/ (pc \in {"deadline", "waiting"} /\ pc' = "top")
<1>1. IsBusy => state # "ready" /\ ~sealed
  BY DEF LeaseInv, ReadyMeansIdle, NobodyStranded
<1>2. state' # "idle" /\ (state' = "ready" <=> ~IsBusy)
  BY <1>1 DEF Arm, Live, TypeOK
<1>3. CASE IsBusy
  BY <1>3, <1>1, <1>2 DEF Arm, Released
<1>4. CASE ~IsBusy
  BY <1>4, <1>2, RollAssumption DEF Arm, Released
<1>5. QED BY <1>3, <1>4

\* Requests keep the invariants of the lease.
LEMMA LeaseControl ==
  ASSUME TypeOK, LeaseInv, NEW q \in Requests, Probe(q) \/ Confirm(q)
  PROVE  LeaseInv'
<1>1. Running /\ Arm(q) /\ UNCHANGED busy
  BY DEF Probe, Confirm
<1>2. IsBusy' <=> IsBusy
  BY <1>1, ArmLease DEF IsBusy, Admitted
<1>3. gate' = "allowed" => ~IsBusy
  BY DEF Probe, Confirm
<1>4. QED BY <1>1, <1>2, <1>3, ArmLease DEF LeaseInv, ReadyMeansIdle, NobodyStranded,
      ReadyIsSealed, AllowedIsReady

\* And so do the loop, the clock and the inbox.
LEMMA LeaseStep == ASSUME TypeOK, LeaseInv, [Next]_vars PROVE LeaseInv'
<1> USE DEF LeaseInv, ReadyMeansIdle, NobodyStranded, ReadyIsSealed,
        AllowedIsReady, IsBusy, Admitted, Running, lease, loop, control
<1>1. CASE UNCHANGED vars
  BY <1>1 DEF vars
<1>2. CASE BecomesDue \/ DeadlinePasses
  BY <1>2 DEF BecomesDue, DeadlinePasses, Live
<1>3. CASE TimerFires
  BY <1>3 DEF TimerFires, Expire, Released
<1>4. CASE Stop
  BY <1>4 DEF Stop
<1>5. ASSUME NEW q \in Requests, Probe(q) \/ Confirm(q) PROVE LeaseInv'
  BY <1>5, LeaseControl
<1>6. ASSUME NEW r \in Rows, TryPush(r) \/ PumpRow(r) PROVE LeaseInv'
  BY <1>6 DEF TryPush, PumpRow, Deliver
<1>7. CASE TakeNext
  BY <1>7 DEF TakeNext, ReadInactive, Lapsed, Live, Expire
<1>8. CASE AwaitRelease \/ ExpiredBeforeWaiting
  BY <1>8 DEF AwaitRelease, ExpiredBeforeWaiting, Live, ReadyIfIdle, Expire
<1>9. CASE PutBack
  BY <1>9 DEF PutBack, Live, ReadyIfIdle
<1>10. CASE Admit
  BY <1>10 DEF Admit, ReadInactive, Lapsed, Live, Expire
<1>11. CASE BeginTurn \/ ReturnAtOnce \/ Unwind \/ Return
  BY <1>11 DEF BeginTurn, ReturnAtOnce, Unwind, Return
<1>12. CASE FinishTurn \/ TurnEnds
  BY <1>12 DEF FinishTurn, TurnEnds, Checkpoint, RetryTurn, DeferTurn, AbandonTurn, PrewarmThrows,
     InTurn
<1>13. QED BY <1>1, <1>2, <1>3, <1>4, <1>5, <1>6, <1>7, <1>8, <1>9, <1>10, <1>11, <1>12
       DEF Next, LoopSteps

(***************************************************************************)
(* The gate.                                                               *)
(***************************************************************************)
GateInv == ArrivalsCounted /\ QuietReplacement

\* Arrivals are counted, and a sealed inbox has none.
LEMMA GateStep == ASSUME TypeOK, LeaseInv, GateInv, [Next]_vars PROVE GateInv'
<1>1. ASSUME NEW q \in Requests, Probe(q) PROVE GateInv'
  <2>1. seen'.version = admissionVersion /\ admissionVersion' = admissionVersion
        /\ arrived' = {} /\ admissionVersion \in Nat
    BY <1>1 DEF Probe, Observation, TypeOK
  <2>2. QED BY <2>1 DEF GateInv, ArrivalsCounted, QuietReplacement
<1>2. ASSUME NEW q \in Requests, Confirm(q) PROVE GateInv'
  <2>1. ArrivalsCounted'
    BY <1>2 DEF Confirm, GateInv, ArrivalsCounted
  <2>2. ASSUME gate' = "allowed", Fenceable PROVE arrived' = {}
    <3>1. ~IsBusy /\ SameBoundary /\ arrived' = arrived
      BY <1>2, <2>2 DEF Confirm
    <3>2. sealed'
      BY <1>2, <2>2, <3>1, ArmLease DEF Confirm
    <3>3. seen.version = admissionVersion
      BY <3>1, <3>2 DEF SameBoundary
    <3>4. QED BY <3>1, <3>3 DEF GateInv, ArrivalsCounted, TypeOK
  <2>3. QED BY <2>1, <2>2 DEF GateInv, QuietReplacement
<1>3. ASSUME NEW r \in Rows, TryPush(r) PROVE GateInv'
  <2>1. seen' = seen /\ gate' = gate /\ state' = state /\ ~sealed
        /\ admissionVersion' = admissionVersion + 1
    BY <1>3 DEF TryPush, control, lease
  <2>2. ArrivalsCounted'
    BY <2>1 DEF GateInv, ArrivalsCounted, TypeOK
  <2>3. ~(state' = "ready" /\ Fenceable)
    BY <2>1 DEF LeaseInv, ReadyIsSealed
  <2>4. QED BY <2>2, <2>3 DEF GateInv, QuietReplacement
<1>4. ASSUME UNCHANGED <<admissionVersion, seen, arrived, gate>>,
             state' = "ready" => state # "idle"
      PROVE  GateInv'
  BY <1>4 DEF GateInv, ArrivalsCounted, QuietReplacement, LeaseInv, AllowedIsReady, TypeOK
<1>5. CASE BecomesDue \/ TimerFires \/ DeadlinePasses \/ Stop
  <2>1. UNCHANGED <<admissionVersion, seen, arrived, gate>>
    BY <1>5 DEF BecomesDue, TimerFires, DeadlinePasses, Stop, control
  <2>2. state' = "ready" => state # "idle"
    BY <1>5 DEF BecomesDue, TimerFires, DeadlinePasses, Stop, Expire, lease
  <2>3. QED BY <1>4, <2>1, <2>2
<1>6. CASE LoopSteps
  <2>1. UNCHANGED <<admissionVersion, seen, arrived, gate>>
    BY <1>6 DEF LoopSteps, TakeNext, AwaitRelease, ExpiredBeforeWaiting, PutBack, Admit, BeginTurn,
       ReturnAtOnce, Unwind, Return, control
  <2>2. state' = "ready" => state # "idle"
    BY <1>6 DEF LoopSteps, TakeNext, AwaitRelease, ExpiredBeforeWaiting, PutBack, Admit, BeginTurn,
       ReturnAtOnce, Unwind, Return, ReadInactive, ReadyIfIdle, Expire, Live, lease
  <2>3. QED BY <1>4, <2>1, <2>2
<1>7. CASE FinishTurn \/ TurnEnds
  <2>1. UNCHANGED <<admissionVersion, seen, arrived, gate, state>>
    BY <1>7 DEF FinishTurn, TurnEnds, Checkpoint, RetryTurn, DeferTurn, AbandonTurn, PrewarmThrows,
       InTurn, control, lease
  <2>2. QED BY <1>4, <2>1
<1>8. ASSUME NEW r \in Rows, PumpRow(r) PROVE GateInv'
  BY <1>4, <1>8 DEF PumpRow, control, lease
<1>9. CASE UNCHANGED vars
  BY <1>4, <1>9 DEF vars, control, lease
<1>10. QED BY <1>1, <1>2, <1>3, <1>5, <1>6, <1>7, <1>8, <1>9 DEF Next

(***************************************************************************)
(* The inductive invariant, and what follows from it.                      *)
(***************************************************************************)

\* The lease, the loop, the inbox's seal and the gate agree in every state.
THEOREM Invariance == Spec => []IInv
<1> DEFINE Inv == TypeOK /\ LeaseInv /\ GateInv
<1>1. Init => Inv
  <2> SUFFICES ASSUME Init PROVE Inv
    OBVIOUS
  <2>1. seen = [sealed |-> FALSE, version |-> 0] /\ seen \in [sealed : BOOLEAN, version : Nat]
        /\ seen.version = 0
    BY DEF Init
  <2>2. TypeOK
    <3>1. probes \in 0 .. MaxProbes
      BY RollAssumption DEF Init
    <3>2. QED BY <2>1, <3>1 DEF Init, TypeOK
  <2>3. LeaseInv
    BY DEF Init, LeaseInv, ReadyMeansIdle, NobodyStranded, ReadyIsSealed,
       AllowedIsReady
  <2>4. GateInv
    BY <2>1 DEF Init, GateInv, ArrivalsCounted, QuietReplacement
  <2>5. QED BY <2>2, <2>3, <2>4
<1>2. Inv /\ [Next]_vars => Inv'
  BY TypeStep, LeaseStep, GateStep
<1>3. Inv => IInv
  BY DEF IInv, LeaseInv, GateInv
<1>4. QED BY <1>1, <1>2, <1>3, PTL DEF Spec

\* Every variable has its type.
THEOREM TypeCorrect == Spec => []TypeOK
<1>1. IInv => TypeOK BY DEF IInv
<1>2. QED BY <1>1, Invariance, PTL

\* "Promote draining -> ready only after the admitted-row stack has unwound":
\* a ready lease finds the agent idle.
THEOREM ReadyIsIdle == Spec => []ReadyMeansIdle
<1>1. IInv => ReadyMeansIdle BY DEF IInv
<1>2. QED BY <1>1, Invariance, PTL

\* Whatever ends or takes over a lease, a running agent does not stay deaf, and a
\* loop that waits for the release of a lease waits for one there is.
THEOREM LeaseEndsWell == Spec => []NobodyStranded
<1>1. IInv => NobodyStranded BY DEF IInv
<1>2. QED BY <1>1, Invariance, PTL

\* A fenced agent is replaced with no arrival since the first probe.
THEOREM QuietlyReplaced == Spec => []QuietReplacement
<1>1. IInv => QuietReplacement BY DEF IInv
<1>2. QED BY <1>1, Invariance, PTL

(***************************************************************************)
(* The abstract turn boundary.                                             *)
(***************************************************************************)

\* A step that admits no row holds the boundary, releases it or ends the turn,
\* and no two of these at once.
LEMMA QuietStep ==
  ASSUME ReadyMeansIdle, ReadyMeansIdle', Admitted' => Admitted,
         Admitted /\ state' = "ready" => Admitted'
  PROVE  [Boundary!Next]_<<state = "ready", Admitted>>
<1>1. (state = "ready" => ~Admitted) /\ (state' = "ready" => ~Admitted')
  BY DEF ReadyMeansIdle, IsBusy
<1>2. CASE Admitted /\ ~Admitted'
  BY <1>1, <1>2 DEF Admitted, Boundary!Next, Boundary!End
<1>3. CASE Admitted /\ Admitted'
  BY <1>1, <1>3 DEF Admitted
<1>4. CASE ~Admitted /\ state = "ready"
  BY <1>1, <1>4 DEF Admitted, Boundary!Next, Boundary!Release
<1>5. CASE ~Admitted /\ state # "ready"
  BY <1>1, <1>5 DEF Admitted, Boundary!Next, Boundary!Hold
<1>6. QED BY <1>2, <1>3, <1>4, <1>5

\* A step that admits a row releases the boundary if it was held.
LEMMA AdmitStep ==
  ASSUME ~Admitted, Admitted', state' # "ready"
  PROVE  Boundary!Next
<1> QED BY DEF Boundary!Next, Boundary!Begin

\* Every step of the drain is a step of the boundary, or stutters.
LEMMA BoundaryStep ==
  ASSUME TypeOK, ReadyMeansIdle, ReadyMeansIdle', [Next]_vars
  PROVE  [Boundary!Next]_<<state = "ready", Admitted>>
<1>1. CASE Admit
  <2>1. ~Admitted /\ Admitted'
    BY <1>1 DEF Admit, Admitted
  <2>2. state' # "ready"
    BY <2>1 DEF ReadyMeansIdle, IsBusy
  <2>3. QED BY <2>1, <2>2, AdmitStep
<1>2. CASE Return \/ PrewarmThrows \/ Stop
  <2>1. ~Admitted' /\ (state' = state \/ state' = "idle")
    BY <1>2 DEF Return, PrewarmThrows, InTurn, Stop, Admitted, lease
  <2>2. Admitted /\ state' = "ready" => Admitted'
    BY <2>1 DEF ReadyMeansIdle, IsBusy
  <2>3. QED BY <2>1, <2>2, QuietStep
<1>3. ASSUME Admitted' <=> Admitted
      PROVE  [Boundary!Next]_<<state = "ready", Admitted>>
  BY <1>3, QuietStep
<1>4. CASE UNCHANGED vars \/ BecomesDue \/ TimerFires \/ DeadlinePasses
  <2>1. Admitted' <=> Admitted
    BY <1>4 DEF vars, BecomesDue, TimerFires, DeadlinePasses, Released, Admitted, loop
  <2>2. QED BY <1>3, <2>1
<1>5. ASSUME NEW q \in Requests, Probe(q) \/ Confirm(q)
      PROVE  [Boundary!Next]_<<state = "ready", Admitted>>
  <2>1. Arm(q)
    BY <1>5 DEF Probe, Confirm
  <2>2. pc' = pc \/ (pc \in {"deadline", "waiting"} /\ pc' = "top")
    BY <2>1 DEF Arm, Released
  <2>3. QED BY <1>3, <2>2 DEF Admitted
<1>6. ASSUME NEW r \in Rows, TryPush(r) \/ PumpRow(r)
      PROVE  [Boundary!Next]_<<state = "ready", Admitted>>
  BY <1>3, <1>6 DEF TryPush, PumpRow, Deliver, loop, Admitted
<1>7. CASE TakeNext \/ AwaitRelease \/ ExpiredBeforeWaiting \/ PutBack \/ BeginTurn \/ ReturnAtOnce
           \/ Unwind
  BY <1>3, <1>7 DEF TakeNext, AwaitRelease, ExpiredBeforeWaiting, PutBack, BeginTurn, ReturnAtOnce,
     Unwind, Admitted
<1>8. CASE FinishTurn \/ Checkpoint \/ RetryTurn \/ DeferTurn \/ AbandonTurn
  BY <1>3, <1>8 DEF FinishTurn, Checkpoint, RetryTurn, DeferTurn, AbandonTurn, InTurn, Admitted
<1>9. QED BY <1>1, <1>2, <1>4, <1>5, <1>6, <1>7, <1>8 DEF Next, LoopSteps, TurnEnds

\* No turn begins while the boundary is held, and it is held between turns only:
\* the drain implements TurnBoundary.
THEOREM Implements == Spec => ImplementsBoundary
<1>1. Init => Boundary!Init
  BY DEF Init, Boundary!Init, Admitted
<1>2. IInv => TypeOK /\ ReadyMeansIdle
  BY DEF IInv
<1>3. IInv /\ IInv' /\ [Next]_vars => [Boundary!Next]_<<state = "ready", Admitted>>
  BY <1>2, BoundaryStep DEF IInv
<1>4. QED BY <1>1, <1>3, Invariance, PTL DEF Spec, ImplementsBoundary, Boundary!Spec

(***************************************************************************)
(* Conservation of the accepted rows.                                      *)
(***************************************************************************)

\* A row put back, deferred, retried, completed or given up leaves the loop for
\* exactly one other place.
LEMMA KeptStep == ASSUME TypeOK, AcceptedKept, [Next]_vars PROVE AcceptedKept'
<1>1. ASSUME UNCHANGED <<queue, hand, accepted, done, dropped>>, Running' => Running
      PROVE  AcceptedKept'
  BY <1>1 DEF AcceptedKept
<1>2. CASE UNCHANGED vars \/ BecomesDue \/ TimerFires \/ DeadlinePasses \/ Stop
  <2>1. CASE Stop
    BY <2>1 DEF Stop, AcceptedKept, Running
  <2>2. CASE UNCHANGED vars \/ BecomesDue \/ TimerFires \/ DeadlinePasses
    <3>1. UNCHANGED <<queue, hand, accepted, done, dropped>>
      BY <2>2 DEF vars, BecomesDue, TimerFires, DeadlinePasses, loop, ended
    <3>2. Running' => Running
      BY <2>2 DEF vars, BecomesDue, TimerFires, DeadlinePasses, loop, Released, Running
    <3>3. QED BY <1>1, <3>1, <3>2
  <2>3. QED BY <1>2, <2>1, <2>2
<1>3. ASSUME NEW q \in Requests, Probe(q) \/ Confirm(q) PROVE AcceptedKept'
  BY <1>1, <1>3 DEF Probe, Confirm, ended
<1>4. ASSUME NEW r \in Rows, TryPush(r) \/ PumpRow(r) PROVE AcceptedKept'
  <2>1. Running /\ r \notin accepted /\ Deliver(r) /\ UNCHANGED <<done, dropped>> /\ r # NoRow
    BY <1>4, RollAssumption DEF TryPush, PumpRow, ended
  <2>2. accepted = queue \cup ({hand} \ {NoRow}) \cup done \cup dropped
    BY <2>1 DEF AcceptedKept
  <2>3. r \notin queue /\ r # hand /\ r \notin done /\ r \notin dropped
    BY <2>1, <2>2
  <2>4. CASE pc = "parked"
    <3>1. hand = NoRow /\ hand' = r /\ queue' = queue /\ accepted' = accepted \cup {r}
      BY <2>1, <2>4 DEF Deliver, TypeOK
    <3>2. QED BY <2>1, <2>2, <2>3, <3>1 DEF AcceptedKept
  <2>5. CASE pc # "parked"
    <3>1. hand' = hand /\ queue' = queue \cup {r} /\ accepted' = accepted \cup {r}
      BY <2>1, <2>5 DEF Deliver, loop
    <3>2. QED BY <2>1, <2>2, <2>3, <3>1 DEF AcceptedKept
  <2>6. QED BY <2>4, <2>5
<1>5. CASE TakeNext
  <2>1. Running /\ hand = NoRow /\ UNCHANGED <<accepted, done, dropped>>
    BY <1>5 DEF TakeNext, TypeOK, Running, ended
  <2>2. UNCHANGED <<hand, queue>> \/ \E r \in queue : hand' = r /\ queue' = queue \ {r}
    BY <1>5 DEF TakeNext
  <2>3. NoRow \notin queue
    BY RollAssumption DEF TypeOK
  <2>4. QED BY <2>1, <2>2, <2>3 DEF AcceptedKept
<1>6. ASSUME Running, hand \in Rows, hand' = NoRow, UNCHANGED accepted,
             \/ queue' = queue \cup {hand} /\ UNCHANGED <<done, dropped>>
             \/ done' = done \cup {hand} /\ UNCHANGED <<queue, dropped>>
             \/ dropped' = dropped \cup {hand} /\ UNCHANGED <<queue, done>>
      PROVE  AcceptedKept'
  <2>1. NoRow \notin queue' /\ NoRow \notin done' /\ NoRow \notin dropped'
    BY <1>6, RollAssumption DEF TypeOK
  <2>2. QED BY <1>6, <2>1 DEF AcceptedKept
<1>7. CASE PutBack \/ ReturnAtOnce \/ FinishTurn \/ TurnEnds
  <2>1. pc \in {"got", "admitted", "turn"} /\ hand' = NoRow /\ UNCHANGED accepted
    BY <1>7 DEF PutBack, ReturnAtOnce, FinishTurn, TurnEnds, Checkpoint, RetryTurn, DeferTurn,
       AbandonTurn, PrewarmThrows, InTurn
  <2>2. Running /\ hand \in Rows
    BY <2>1 DEF TypeOK, Running
  <2>3. \/ queue' = queue \cup {hand} /\ UNCHANGED <<done, dropped>>
        \/ done' = done \cup {hand} /\ UNCHANGED <<queue, dropped>>
        \/ dropped' = dropped \cup {hand} /\ UNCHANGED <<queue, done>>
    BY <1>7 DEF PutBack, ReturnAtOnce, FinishTurn, TurnEnds, Checkpoint, RetryTurn, DeferTurn,
       AbandonTurn, PrewarmThrows, ended
  <2>4. QED BY <1>6, <2>1, <2>2, <2>3
<1>8. CASE AwaitRelease \/ ExpiredBeforeWaiting \/ Admit \/ BeginTurn \/ Unwind \/ Return
  <2>1. UNCHANGED <<queue, hand, accepted, done, dropped>> /\ Running
    BY <1>8 DEF AwaitRelease, ExpiredBeforeWaiting, Admit, BeginTurn, Unwind, Return, ended, Running
  <2>2. QED BY <1>1, <2>1
<1>9. QED BY <1>2, <1>3, <1>4, <1>5, <1>7, <1>8 DEF Next, LoopSteps

\* Every row the inbox accepted is in exactly one place: no checkpoint, retry or
\* deferral loses or doubles it.
THEOREM RowsKept == Spec => []AcceptedKept
<1>1. Init => AcceptedKept
  BY DEF Init, AcceptedKept
<1>2. AcceptedKept /\ TypeOK /\ [Next]_vars => AcceptedKept'
  BY KeptStep
<1>3. QED BY <1>1, <1>2, TypeCorrect, PTL DEF Spec
===============================================================================
