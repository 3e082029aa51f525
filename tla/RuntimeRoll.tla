----------------------------- MODULE RuntimeRoll -----------------------------
(***************************************************************************)
(* The rollout drain of a gateway agent.  A controller that wants to       *)
(* replace the process leases its next turn boundary                       *)
(* (shared/runtime-roll-drain.ts); the main loop of agent-process.ts stops *)
(* there, the ingress of the channels and the inbox is closed, and the     *)
(* controller replaces the process only if two probes found it idle        *)
(* (runtimeRollBusyGate of daemon/manager.ts).  If it does not, the lease  *)
(* runs out, by its timer or because somebody reads it late, and the agent *)
(* goes on.                                                                *)
(*                                                                         *)
(* A step is what the JavaScript thread does between two awaits.  The      *)
(* inbox is abstracted to the set of its rows: their order, and the        *)
(* notices it holds back, are the subject of module Inbox.                 *)
(***************************************************************************)
EXTENDS Integers

CONSTANTS
  Rows,       (* The messages, each with its identity.                     *)
  Requests,   (* A requestId with its targetImage.                         *)
  NoRow, NoRequest,
  Fenceable,  (* Every channel can close its ingress (HTTP and Connect).   *)
  MaxProbes   (* Bound on the requests: after it the controller is dead.   *)

ASSUME RollAssumption ==
  /\ NoRow \notin Rows
  /\ NoRequest \notin Requests
  /\ Fenceable \in BOOLEAN
  /\ MaxProbes \in Nat

VARIABLES
  state, holder, (* RuntimeRollDrainLease: its state and whose it is.      *)
  due,        (* Date.now() >= leaseUntil.                                 *)
  sealed,     (* The channels are fenced and the inbox is sealed.          *)
  admissionVersion, queue, busy, (* Inbox.                                 *)
  pc, hand,   (* Where the main loop is, and the row it holds.             *)
  notBefore,  (* The provider's deadline is in the future.                 *)
  stored,     (* The input stored with the deadline.                       *)
  gate, seen, (* The controller's busy gate, and its first observation.    *)
  probes,
  accepted, arrived, (* History: rows pushed, and those since the first probe. *)
  done, dropped (* History: rows completed, and given up uncompleted.      *)

lease    == <<state, holder, due, sealed>>
loop     == <<pc, hand>>
provider == <<notBefore, stored>>
control  == <<gate, seen, probes>>
ended    == <<done, dropped>>
vars == <<lease, admissionVersion, queue, busy, loop, provider, control,
          accepted, arrived, ended>>

\* inboxMessageAdmitted: from the admission of a row until its call returned.
Admitted == pc \in {"admitted", "turn", "unwinding", "returned"}

\* A mutant: the flag of the inbox alone.
BusyFlag == busy

IsBusy == busy \/ Admitted

Running == pc # "stopped"

(***************************************************************************)
(* The lease.                                                              *)
(***************************************************************************)
Lapsed == state # "idle" /\ due
Live   == state # "idle" /\ ~due

\* A mutant: the callback forgets the ingress.
ExpireSealed ==
  /\ state' = "idle"
  /\ holder' = NoRequest
  /\ due' = FALSE
  /\ UNCHANGED sealed

\* expire() and its callback: ingress opens again (the waiter is released by
\* the step that expires the lease).
Expire ==
  /\ state' = "idle"
  /\ holder' = NoRequest
  /\ due' = FALSE
  /\ sealed' = FALSE

\* Reading `active` while nobody holds a live lease.
ReadInactive == IF Lapsed THEN Expire ELSE UNCHANGED lease

\* A mutant: the callback forgets the waiter.
NotReleased(l) == l

Released(l) == IF l = "waiting" THEN "top" ELSE l

\* The time runs out, and only later is that noticed.
BecomesDue ==
  /\ Live
  /\ due' = TRUE
  /\ UNCHANGED <<state, holder, sealed, admissionVersion, queue, busy, loop,
                 provider, control, accepted, arrived, ended>>

TimerFires ==
  /\ Lapsed
  /\ Expire
  /\ pc' = Released(pc)
  /\ UNCHANGED <<admissionVersion, queue, busy, hand, provider, control, accepted,
                 arrived, ended>>

\* markRuntimeRollReadyIfIdle with a live lease.
ReadyIfIdle ==
  /\ state' = IF IsBusy THEN state ELSE "ready"
  /\ sealed' = IF IsBusy THEN sealed ELSE Fenceable
  /\ UNCHANGED <<holder, due>>

\* A request renews the lease of its holder; another request starts over.  The
\* wait for the provider is cancelled, and a lapsed lease is noticed first.
Arm(q) ==
  /\ holder' = q
  /\ due' = FALSE
  /\ state' = IF ~IsBusy THEN "ready"
              ELSE IF Live /\ holder = q THEN state ELSE "draining"
  /\ sealed' = IF ~IsBusy THEN Fenceable ELSE sealed /\ ~Lapsed
  /\ pc' = IF pc = "deadline" THEN "top" ELSE IF Lapsed THEN Released(pc) ELSE pc

(***************************************************************************)
(* The controller: two probes, each of which arms the lease.               *)
(***************************************************************************)
Observation == [sealed |-> sealed', version |-> admissionVersion]

\* runtimeRollBusyGate goes on only if the first probe finds the agent idle.
Probe(q) ==
  /\ Running
  /\ gate # "seen"
  /\ probes < MaxProbes
  /\ probes' = probes + 1
  /\ Arm(q)
  /\ gate' = IF IsBusy THEN "refused" ELSE "seen"
  /\ seen' = Observation
  /\ arrived' = {}
  /\ UNCHANGED <<admissionVersion, queue, busy, hand, provider, accepted, ended>>

\* A mutant: two idle probes of the same protocol.
SameProtocol == seen.sealed = sealed'

\* The same protocol, and for a fenced agent the same admissionVersion.
SameBoundary ==
  /\ seen.sealed = sealed'
  /\ sealed' => seen.version = admissionVersion

Confirm(q) ==
  /\ Running
  /\ gate = "seen"
  /\ probes < MaxProbes
  /\ probes' = probes + 1
  /\ Arm(q)
  /\ gate' = IF ~IsBusy /\ SameBoundary THEN "allowed" ELSE "refused"
  /\ UNCHANGED <<admissionVersion, queue, busy, hand, provider, seen, accepted,
                 arrived, ended>>

\* stop(), for the replacement the gate allowed or for another reason: the lease
\* is disposed of without its callback, the inbox is cleared, the process ends.
Stop ==
  /\ Running
  /\ pc' = "stopped"
  /\ state' = "idle"
  /\ queue' = {}
  /\ UNCHANGED <<holder, due, sealed, admissionVersion, busy, hand, provider,
                 control, accepted, arrived, ended>>

(***************************************************************************)
(* The inbox.                                                              *)
(***************************************************************************)

\* A loop parked in next() gets the row, otherwise it is queued.
Deliver(r) ==
  /\ accepted' = accepted \cup {r}
  /\ IF pc = "parked"
     THEN pc' = "got" /\ hand' = r /\ UNCHANGED queue
     ELSE queue' = queue \cup {r} /\ UNCHANGED loop

\* tryPush: a sealed inbox refuses.
TryPush(r) ==
  /\ Running
  /\ r \notin accepted
  /\ ~sealed
  /\ admissionVersion' = admissionVersion + 1
  /\ arrived' = arrived \cup {r}
  /\ Deliver(r)
  /\ UNCHANGED <<lease, busy, provider, control, ended>>

\* pushFront by the recovery pump is neither fenced nor counted.
PumpRow(r) ==
  /\ Running
  /\ r \notin accepted
  /\ Deliver(r)
  /\ UNCHANGED <<lease, admissionVersion, busy, provider, control, arrived, ended>>

(***************************************************************************)
(* The main loop.                                                          *)
(***************************************************************************)

\* No lease: wait for the provider's deadline, or take a row, or park.
TakeNext ==
  /\ pc = "top"
  /\ ~Live
  /\ ReadInactive
  /\ \/ notBefore /\ pc' = "deadline" /\ UNCHANGED <<hand, queue>>
     \/ /\ ~notBefore /\ queue = {}
        /\ pc' = "parked" /\ UNCHANGED <<hand, queue>>
     \/ \E r \in queue :
          /\ ~notBefore
          /\ pc' = "got" /\ hand' = r /\ queue' = queue \ {r}
  /\ UNCHANGED <<admissionVersion, busy, provider, control, accepted, arrived, ended>>

\* waitForRuntimeRollDrainRelease: promote the lease, install the waiter.
AwaitRelease ==
  /\ pc = "top"
  /\ Live
  /\ ReadyIfIdle
  /\ pc' = "waiting"
  /\ UNCHANGED <<admissionVersion, queue, busy, hand, provider, control, accepted,
                 arrived, ended>>

\* "The lease may have expired between the first check and waiter install."
\* The callback found no waiter; the second check removes it again.
ExpiredBeforeWaiting ==
  /\ pc = "top"
  /\ Live
  /\ Expire
  /\ pc' = "top"
  /\ UNCHANGED <<admissionVersion, queue, busy, hand, provider, control, accepted,
                 arrived, ended>>

\* The provider's deadline passes.
DeadlinePasses ==
  /\ notBefore
  /\ notBefore' = FALSE
  /\ pc' = IF pc = "deadline" THEN "top" ELSE pc
  /\ UNCHANGED <<lease, admissionVersion, queue, busy, hand, stored, control,
                 accepted, arrived, ended>>

\* A row that arrives while a lease is live goes back.
PutBack ==
  /\ pc = "got"
  /\ Live
  /\ queue' = queue \cup {hand}
  /\ hand' = NoRow
  /\ pc' = "top"
  /\ ReadyIfIdle
  /\ UNCHANGED <<admissionVersion, busy, provider, control, accepted, arrived, ended>>

\* A mutant: the lease is looked at before next() only.
AdmitUnchecked ==
  /\ pc = "got"
  /\ IF Live THEN UNCHANGED lease ELSE ReadInactive
  /\ pc' = "admitted"
  /\ UNCHANGED <<admissionVersion, queue, busy, hand, provider, control, accepted,
                 arrived, ended>>

Admit ==
  /\ pc = "got"
  /\ ~Live
  /\ ReadInactive
  /\ pc' = "admitted"
  /\ UNCHANGED <<admissionVersion, queue, busy, hand, provider, control, accepted,
                 arrived, ended>>

\* processMessage: the row leaves the hand when its outcome is known.
BeginTurn ==
  /\ pc = "admitted"
  /\ busy' = TRUE
  /\ pc' = "turn"
  /\ UNCHANGED <<lease, admissionVersion, queue, hand, provider, control, accepted,
                 arrived, ended>>

\* A replay that is already completed, or a message from an unknown channel.
ReturnAtOnce ==
  /\ pc = "admitted"
  /\ pc' = "returned"
  /\ hand' = NoRow
  /\ done' = done \cup {hand}
  /\ stored' = IF stored = hand THEN NoRow ELSE stored
  /\ UNCHANGED <<lease, admissionVersion, queue, busy, notBefore, control, accepted,
                 arrived, dropped>>

InTurn ==
  /\ pc = "turn"
  /\ hand' = NoRow
  /\ UNCHANGED <<admissionVersion, busy, control, accepted, arrived>>

FinishTurn ==
  /\ InTurn
  /\ pc' = "unwinding"
  /\ done' = done \cup {hand}
  /\ stored' = IF stored = hand THEN NoRow ELSE stored
  /\ UNCHANGED <<lease, queue, notBefore, dropped>>

\* A mutant: the row is left to its upstream.
CheckpointDropped ==
  /\ InTurn
  /\ Live
  /\ pc' = "unwinding"
  /\ UNCHANGED <<lease, queue, provider, ended>>

\* checkpointRuntimeRollAfterTurn: the exact row goes back, unacknowledged.
Checkpoint ==
  /\ InTurn
  /\ Live
  /\ queue' = queue \cup {hand}
  /\ pc' = "unwinding"
  /\ UNCHANGED <<lease, provider, ended>>

\* The prefix could not be warmed and there is no deadline: the row goes back.
RetryTurn ==
  /\ InTurn
  /\ queue' = queue \cup {hand}
  /\ pc' = "unwinding"
  /\ UNCHANGED <<lease, provider, ended>>

\* The provider refuses until later.  One input can be stored with it.
DeferTurn ==
  /\ InTurn
  /\ stored \in {NoRow, hand}
  /\ stored' = hand
  /\ notBefore' = TRUE
  /\ queue' = queue \cup {hand}
  /\ pc' = "unwinding"
  /\ UNCHANGED <<lease, ended>>

\* A failed compaction abandons the row; with another input stored, a deferral
\* in executeTurns throws, and the finally block still clears busy.
AbandonTurn ==
  /\ InTurn
  /\ pc' = "unwinding"
  /\ dropped' = dropped \cup {hand}
  /\ UNCHANGED <<lease, queue, provider, done>>

\* The same deferral before the turn, when prewarming meets the provider's
\* deadline, throws outside of any finally that clears busy.
PrewarmThrows ==
  /\ InTurn
  /\ stored \notin {NoRow, hand}
  /\ notBefore' = TRUE
  /\ pc' = "top"
  /\ dropped' = dropped \cup {hand}
  /\ UNCHANGED <<lease, queue, stored, done>>

Unwind ==
  /\ pc = "unwinding"
  /\ busy' = FALSE
  /\ pc' = "returned"
  /\ UNCHANGED <<lease, admissionVersion, queue, hand, provider, control, accepted,
                 arrived, ended>>

\* processAdmittedInboxMessage returns and the loop goes on.
Return ==
  /\ pc = "returned"
  /\ pc' = "top"
  /\ UNCHANGED <<lease, admissionVersion, queue, busy, hand, provider, control,
                 accepted, arrived, ended>>

(***************************************************************************)
(* The specification.                                                      *)
(***************************************************************************)
Init ==
  /\ state = "idle" /\ holder = NoRequest /\ due = FALSE /\ sealed = FALSE
  /\ admissionVersion = 0 /\ queue = {} /\ busy = FALSE
  /\ pc = "top" /\ hand = NoRow
  /\ notBefore = FALSE /\ stored = NoRow
  /\ gate = "refused" /\ seen = [sealed |-> FALSE, version |-> 0] /\ probes = 0
  /\ accepted = {} /\ arrived = {} /\ done = {} /\ dropped = {}

\* The outcome of a turn.
TurnEnds == Checkpoint \/ RetryTurn \/ DeferTurn \/ AbandonTurn \/ PrewarmThrows

LoopSteps ==
  \/ TakeNext \/ AwaitRelease \/ ExpiredBeforeWaiting
  \/ PutBack \/ Admit \/ BeginTurn \/ ReturnAtOnce \/ Unwind \/ Return

Next ==
  \/ BecomesDue \/ TimerFires \/ DeadlinePasses \/ Stop
  \/ \E q \in Requests : Probe(q) \/ Confirm(q)
  \/ \E r \in Rows : TryPush(r) \/ PumpRow(r)
  \/ LoopSteps \/ FinishTurn \/ TurnEnds

\* Time passes, the thread runs, and a turn that is resumed again and again
\* ends at last.  Nothing is assumed of the controller.
Fairness ==
  /\ WF_vars(BecomesDue) /\ WF_vars(TimerFires) /\ WF_vars(DeadlinePasses)
  /\ WF_vars(LoopSteps)
  /\ SF_vars(FinishTurn)

Spec == Init /\ [][Next]_vars
FairSpec == Spec /\ Fairness

\* What the drain promises about turns, and how this module keeps it.
Boundary == INSTANCE TurnBoundary WITH
  held <- state = "ready",
  working <- Admitted

(***************************************************************************)
(* Properties.                                                             *)
(***************************************************************************)

\* Every variable has its type, and the loop holds a row exactly where it must.
TypeOK ==
  /\ state \in {"idle", "draining", "ready"}
  /\ holder \in Requests \cup {NoRequest}
  /\ due \in BOOLEAN /\ sealed \in BOOLEAN /\ busy \in BOOLEAN /\ notBefore \in BOOLEAN
  /\ admissionVersion \in Nat /\ probes \in 0 .. MaxProbes
  /\ queue \subseteq Rows
  /\ pc \in {"top", "waiting", "deadline", "parked", "got", "admitted", "turn",
             "unwinding", "returned", "stopped"}
  /\ hand \in Rows \cup {NoRow} /\ stored \in Rows \cup {NoRow}
  /\ pc \in {"got", "admitted", "turn"} => hand # NoRow
  /\ hand # NoRow => pc \in {"got", "admitted", "turn", "stopped"}
  /\ gate \in {"refused", "seen", "allowed"}
  /\ seen \in [sealed : BOOLEAN, version : Nat]
  /\ accepted \subseteq Rows /\ arrived \subseteq Rows
  /\ done \subseteq Rows /\ dropped \subseteq Rows

\* "Promote draining -> ready only after the admitted-row stack has unwound":
\* while the lease is ready no row is admitted, and none will be until the lease
\* is gone, whoever extends it, takes it over or notices late that it lapsed.
ReadyMeansIdle == state = "ready" => ~IsBusy

\* A lease that ends leaves nobody behind, whoever notices that it has lapsed and
\* whoever takes it over: ingress is closed only under a ready lease, and a loop
\* that waits for the release has somebody who will release it.
NobodyStranded ==
  /\ Running /\ sealed => state = "ready"
  /\ pc = "waiting" => state # "idle"

\* However often a row is put back at a boundary, deferred or retried, every
\* accepted row is in exactly one place: the queue, the loop, or the history.
AcceptedKept ==
  Running =>
    /\ accepted = queue \cup ({hand} \ {NoRow}) \cup done \cup dropped
    /\ hand \notin queue
    /\ (queue \cup {hand}) \cap (done \cup dropped) = {}
    /\ done \cap dropped = {}

\* While a fenced agent is allowed to be replaced and its lease has not lapsed,
\* no row has come in through a channel since the first of the two probes.
QuietReplacement ==
  gate = "allowed" /\ state = "ready" /\ Fenceable => arrived = {}

\* "A failed controller cannot park a healthy agent": what was accepted is
\* completed, or given up by its turn, unless the process is stopped.
EventuallyServed == \A r \in Rows : r \in accepted ~> r \in done \cup dropped \/ ~Running

\* The drain implements the abstract turn boundary: no turn begins while it is
\* held, and it is held only between turns.
ImplementsBoundary == Boundary!Spec
==============================================================================
