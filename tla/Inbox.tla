-------------------------------- MODULE Inbox --------------------------------
(***************************************************************************)
(* The stable-priority inbox of a gateway agent process                    *)
(* (src/src/gateway/inbox.ts), together with the one consumer that calls   *)
(* it: the serial main loop of agent-process.ts, which holds at most one   *)
(* row and may put it back (pushFront) or put it back as an admitted       *)
(* delivery (resumeAdmitted).                                              *)
(*                                                                         *)
(* Each method of the class runs to completion on the JavaScript thread,   *)
(* so each is one atomic action; channels, timers and the loop interleave  *)
(* between them.                                                           *)
(*                                                                         *)
(* A row is an InboundMessage object.  Its content is abstracted to its    *)
(* kind, which is all the regular expressions of the file tell apart, and  *)
(* its task key.                                                           *)
(***************************************************************************)
EXTENDS Integers, Sequences, SeqFilter

CONSTANTS
  Keys,      (* Task and alert keys that notifications carry.             *)
  NoKey,     (* The null of gatewayTaskNotificationKey.                   *)
  PushKinds, (* The kinds of message that channels, cron and timers push. *)
  FrontKinds,(* The kinds of row that are restored or replayed.           *)
  MaxRows    (* Bound on the objects a behaviour creates.                 *)

VARIABLES
  queue,                    (* Queued rows, head first.                       *)
  admittedContinuations,    (* Ids of the objects in the WeakSet.             *)
  resolver,                 (* TRUE when the loop is parked inside next().    *)
  nextArrivalSequence,
  coalescedHeartbeatCount,
  ingressSealed,
  admissionVersion,
  workSessionActive,
  hand,                     (* The row the main loop holds: {} or {row}.      *)
  phase,                    (* "starting", "running" or "stopped".            *)
  nextId                    (* Identity of the next object.                   *)

inboxVars == <<queue, admittedContinuations, resolver, nextArrivalSequence,
               coalescedHeartbeatCount, ingressSealed, admissionVersion,
               workSessionActive>>
vars == <<inboxVars, hand, phase, nextId>>

(***************************************************************************)
(* Kinds of message.                                                       *)
(*   direct    a user or control message                                   *)
(*   heartbeat the idle checkpoint, source = 'heartbeat'                   *)
(*   cron      source = 'cron'                                             *)
(*   task      a Pulse [Task Assigned] or [Task Update] notice             *)
(*   alert     a Connect [Alert] notice                                    *)
(*   hint      another routine-task hint ([Review Seat Starvation], ...)   *)
(*   digest    the synthetic row that stands for several task notices      *)
(***************************************************************************)
Kind == {"direct", "heartbeat", "cron", "task", "alert", "hint", "digest"}

\* gatewayInboxPriority: the rank of the class that gatewayInboxClass gives.
Priority(kind) ==
  CASE kind = "direct"    -> 0
    [] kind = "heartbeat" -> 1
    [] kind = "cron"      -> 2
    [] OTHER              -> 3

\* isWorkingDeferredTaskNotification: held while a work session is active.
Deferred(kind) == kind \in {"task", "alert"}

ASSUME InboxAssumption ==
  /\ NoKey \notin Keys
  /\ PushKinds \subseteq Kind \ {"digest"}
  /\ FrontKinds \subseteq Kind
  /\ MaxRows \in Nat

Row == [id : Nat, kind : Kind, key : Keys \cup {NoKey}, seq : Int]

\* gatewayTaskNotificationKey is null outside the routine-task class.
KeysOf(kind) == IF Priority(kind) = 3 THEN Keys \cup {NoKey} ELSE {NoKey}

NewRow(kind, key) ==
  [id |-> nextId, kind |-> kind, key |-> key, seq |-> nextArrivalSequence]

IsContinuation(row) == row.id \in admittedContinuations

(***************************************************************************)
(* The private helpers.                                                    *)
(***************************************************************************)

\* Mutant: an admitted row is as replaceable as a hint.
DuplicatesOfAnyRow(m) ==
  {i \in DOMAIN queue : m.key # NoKey /\ queue[i].key = m.key}

\* Queue positions of the row that a notification with m's key replaces.
Duplicates(m) ==
  {i \in DOMAIN queue : /\ ~IsContinuation(queue[i])
                        /\ m.key # NoKey
                        /\ queue[i].key = m.key}

\* Mutant: inserts ahead of its own class.
NotHigherPriority(m) == {i \in DOMAIN queue : Priority(queue[i].kind) >= Priority(m.kind)}

LowerPriority(m) == {i \in DOMAIN queue : Priority(queue[i].kind) > Priority(m.kind)}

\* enqueueMessage: replace the row with the same key, else insert by priority.
Enqueued(m) ==
  IF Duplicates(m) # {}
  THEN LET i == Least(Duplicates(m))
       IN  [queue EXCEPT ![i] = [m EXCEPT !.seq = queue[i].seq]]
  ELSE IF LowerPriority(m) # {}
       THEN InsertAt(queue, Least(LowerPriority(m)), m)
       ELSE Append(queue, m)

\* A replacement keeps the arrival sequence of the row it replaces.
SequenceAfter(m) ==
  IF Duplicates(m) # {} THEN nextArrivalSequence ELSE nextArrivalSequence + 1

Notices(q) == {r \in Elems(q) : Deferred(r.kind) /\ ~IsContinuation(r)}

\* dropWorkingDeferred
WithoutNotices(q) == Filter(q, Elems(q) \ Notices(q))

\* The task notices takeWorkingDeferredAdmission admits: alerts stay parked.
Held(q) == {r \in Notices(q) : r.kind # "alert"}

KeyOfFirst(s) ==
  LET keyed == {i \in DOMAIN s : s[i].key # NoKey}
  IN  IF keyed = {} THEN NoKey ELSE s[Least(keyed)].key

\* takeWorkingDeferredAdmission: a single notice as it is, several as a digest.
Admission(q, id) ==
  LET held == Filter(q, Held(q))
  IN  IF Len(held) = 1 THEN held[1]
      ELSE [id |-> id, kind |-> "digest", key |-> KeyOfFirst(held), seq |-> held[1].seq]

WithoutHeld(q) == Filter(q, Elems(q) \ Held(q))

\* A digest is a new object.
IdAfterAdmission(q, id) == IF Len(Filter(q, Held(q))) = 1 THEN id ELSE id + 1

\* What admitting a row of this kind leaves of the work session.
SessionAfter(kind) == kind # "heartbeat"

\* Mutant: the work session does not hold task notices.
ParkedAlertsOnly(row) == ~IsContinuation(row) /\ row.kind = "alert"

\* The rows takeAdmissible passes over.
Parked(row) ==
  /\ Deferred(row.kind)
  /\ ~IsContinuation(row)
  /\ workSessionActive \/ row.kind = "alert"

\* Mutant: only the head of the queue is looked at.
AdmissibleHead == {i \in DOMAIN queue : i = 1 /\ ~Parked(queue[i])}

Admissible == {i \in DOMAIN queue : ~Parked(queue[i])}
Continuations == {i \in DOMAIN queue : IsContinuation(queue[i])}

\* Mutant: the queued rows are not looked at.
EarliestUnqueued == nextArrivalSequence

\* The arrival sequence pushFront gives one row: below every queued row.
EarliestQueued == Least({queue[i].seq : i \in DOMAIN queue} \cup {nextArrivalSequence})

(***************************************************************************)
(* tryPush: one action for each of its paths.  A sealed inbox refuses.     *)
(***************************************************************************)
Accept ==
  /\ nextId < MaxRows
  /\ ~ingressSealed
  /\ admissionVersion' = admissionVersion + 1

\* Mutant: a notice never wakes the loop.
NeverWakes(kind) == TRUE

StaysQueued(kind) == ~resolver \/ workSessionActive \/ kind = "alert"

\* A task or alert notice is queued, and wakes nobody.
PushNoticeHeld(kind, key) ==
  /\ Accept
  /\ Deferred(kind)
  /\ StaysQueued(kind)
  /\ queue' = Enqueued(NewRow(kind, key))
  /\ nextArrivalSequence' = SequenceAfter(NewRow(kind, key))
  /\ nextId' = nextId + 1
  /\ UNCHANGED <<admittedContinuations, resolver, coalescedHeartbeatCount,
                 ingressSealed, workSessionActive, hand, phase>>

\* A task notice wakes an idle loop, with every other notice that was held.
PushNoticeWakes(key) ==
  /\ Accept
  /\ resolver
  /\ ~workSessionActive
  /\ LET q == Enqueued(NewRow("task", key))
     IN  /\ hand' = {Admission(q, nextId + 1)}
         /\ queue' = WithoutHeld(q)
         /\ nextId' = IdAfterAdmission(q, nextId + 1)
  /\ resolver' = FALSE
  /\ nextArrivalSequence' = SequenceAfter(NewRow("task", key))
  /\ UNCHANGED <<admittedContinuations, coalescedHeartbeatCount, ingressSealed,
                 workSessionActive, phase>>

\* Any other message goes straight to a waiting loop.
PushToWaiter(kind, key) ==
  /\ Accept
  /\ ~Deferred(kind)
  /\ resolver
  /\ resolver' = FALSE
  /\ hand' = {NewRow(kind, key)}
  /\ queue' = IF kind = "heartbeat" THEN WithoutNotices(queue) ELSE queue
  /\ workSessionActive' = SessionAfter(kind)
  /\ nextId' = nextId + 1
  /\ UNCHANGED <<admittedContinuations, nextArrivalSequence,
                 coalescedHeartbeatCount, ingressSealed, phase>>

HeartbeatQueued == \E r \in Elems(queue) : r.kind = "heartbeat"

\* A heartbeat behind a queued heartbeat is only counted.
CoalesceHeartbeat ==
  /\ Accept
  /\ ~resolver
  /\ HeartbeatQueued
  /\ coalescedHeartbeatCount' = coalescedHeartbeatCount + 1
  /\ nextId' = nextId + 1
  /\ UNCHANGED <<queue, admittedContinuations, resolver, nextArrivalSequence,
                 ingressSealed, workSessionActive, hand, phase>>

PushQueued(kind, key) ==
  /\ Accept
  /\ ~Deferred(kind)
  /\ ~resolver
  /\ kind = "heartbeat" => ~HeartbeatQueued
  /\ queue' = Enqueued(NewRow(kind, key))
  /\ nextArrivalSequence' = SequenceAfter(NewRow(kind, key))
  /\ nextId' = nextId + 1
  /\ UNCHANGED <<admittedContinuations, resolver, coalescedHeartbeatCount,
                 ingressSealed, workSessionActive, hand, phase>>

\* Channels, the cron scheduler and the heartbeat timer never push a digest.
TryPush ==
  \E kind \in PushKinds : \E key \in KeysOf(kind) :
    \/ PushNoticeHeld(kind, key)
    \/ kind = "task" /\ PushNoticeWakes(key)
    \/ PushToWaiter(kind, key)
    \/ kind = "heartbeat" /\ CoalesceHeartbeat
    \/ PushQueued(kind, key)

(***************************************************************************)
(* next(), called by the loop when it holds nothing: takeAdmissible, or    *)
(* park.                                                                   *)
(***************************************************************************)
CallsNext == phase = "running" /\ hand = {} /\ ~resolver

\* The resumed delivery goes first, whatever its kind, and loses its mark.
TakeContinuation ==
  /\ CallsNext
  /\ Continuations # {}
  /\ LET i == Least(Continuations)
     IN  /\ hand' = {queue[i]}
         /\ queue' = DeleteAt(queue, i)
         /\ admittedContinuations' = admittedContinuations \ {queue[i].id}
  /\ UNCHANGED <<resolver, nextArrivalSequence, coalescedHeartbeatCount,
                 ingressSealed, admissionVersion, workSessionActive, phase, nextId>>

TakeNotices ==
  /\ CallsNext
  /\ Continuations = {}
  /\ Admissible # {}
  /\ Deferred(queue[Least(Admissible)].kind)
  /\ hand' = {Admission(queue, nextId)}
  /\ queue' = WithoutHeld(queue)
  /\ nextId' = IdAfterAdmission(queue, nextId)
  /\ UNCHANGED <<admittedContinuations, resolver, nextArrivalSequence,
                 coalescedHeartbeatCount, ingressSealed, admissionVersion,
                 workSessionActive, phase>>

TakeRow ==
  /\ CallsNext
  /\ Continuations = {}
  /\ Admissible # {}
  /\ LET i    == Least(Admissible)
         row  == queue[i]
         rest == DeleteAt(queue, i)
         beat == row.kind = "heartbeat"
     IN  /\ ~Deferred(row.kind)
         /\ hand' = {row}
         /\ queue' = IF beat THEN WithoutNotices(rest) ELSE rest
         /\ workSessionActive' = SessionAfter(row.kind)
         /\ coalescedHeartbeatCount' = IF beat THEN 0 ELSE coalescedHeartbeatCount
  /\ UNCHANGED <<admittedContinuations, resolver, nextArrivalSequence,
                 ingressSealed, admissionVersion, phase, nextId>>

Park ==
  /\ CallsNext
  /\ Continuations = {}
  /\ Admissible = {}
  /\ resolver' = TRUE
  /\ UNCHANGED <<queue, admittedContinuations, nextArrivalSequence,
                 coalescedHeartbeatCount, ingressSealed, admissionVersion,
                 workSessionActive, hand, phase, nextId>>

(***************************************************************************)
(* pushFront and resumeAdmitted.                                           *)
(***************************************************************************)

\* pushFront([row]) with no waiter: the row becomes the head of the queue.
PutFirst(row) == queue' = <<[row EXCEPT !.seq = EarliestQueued - 1]>> \o queue

\* pushFront([row]): to the waiter if there is one.
PushFront(row) ==
  IF resolver
  THEN hand' = {row} /\ resolver' = FALSE /\ UNCHANGED queue
  ELSE PutFirst(row) /\ UNCHANGED <<hand, resolver>>

\* The loop puts the row it holds back, unmarked (drain, prewarm failure).
PutBack(row) ==
  /\ hand = {row}
  /\ PutFirst(row)
  /\ hand' = {}
  /\ UNCHANGED <<admittedContinuations, resolver, nextArrivalSequence,
                 coalescedHeartbeatCount, ingressSealed, admissionVersion,
                 workSessionActive, phase, nextId>>

\* The loop puts the row it holds back as an admitted delivery (deferral).
Resume(row) ==
  /\ hand = {row}
  /\ PutFirst(row)
  /\ admittedContinuations' = admittedContinuations \cup {row.id}
  /\ hand' = {}
  /\ UNCHANGED <<resolver, nextArrivalSequence, coalescedHeartbeatCount,
                 ingressSealed, admissionVersion, workSessionActive, phase, nextId>>

\* restoreProviderDeferredInputs, before the loop's first next().
Restore(kind, key) ==
  /\ phase = "starting"
  /\ nextId < MaxRows
  /\ PutFirst(NewRow(kind, key))
  /\ admittedContinuations' = admittedContinuations \cup {nextId}
  /\ nextId' = nextId + 1
  /\ UNCHANGED <<resolver, nextArrivalSequence, coalescedHeartbeatCount,
                 ingressSealed, admissionVersion, workSessionActive, hand, phase>>

\* The recovery bootstrap or one replayed row, from a turn or from a timer.
Replay(kind, key) ==
  /\ phase # "stopped"
  /\ nextId < MaxRows
  /\ PushFront(NewRow(kind, key))
  /\ nextId' = nextId + 1
  /\ UNCHANGED <<admittedContinuations, nextArrivalSequence, coalescedHeartbeatCount,
                 ingressSealed, admissionVersion, workSessionActive, phase>>

\* The loop has finished with the row it holds.
Finish ==
  /\ hand # {}
  /\ hand' = {}
  /\ UNCHANGED <<inboxVars, phase, nextId>>

(***************************************************************************)
(* The remaining methods.                                                  *)
(***************************************************************************)

\* drainForRecovery: the generation fence of a turn detaches every row.  The
\* weak set only ever holds queued rows, so its entries go with them.
Drain ==
  /\ hand # {}
  /\ queue' = << >>
  /\ admittedContinuations' = {}
  /\ coalescedHeartbeatCount' = 0
  /\ UNCHANGED <<resolver, nextArrivalSequence, ingressSealed,
                 admissionVersion, workSessionActive, hand, phase, nextId>>

SealIngress ==
  /\ hand = {}
  /\ ~ingressSealed
  /\ ingressSealed' = TRUE
  /\ UNCHANGED <<queue, admittedContinuations, resolver, nextArrivalSequence,
                 coalescedHeartbeatCount, admissionVersion, workSessionActive,
                 hand, phase, nextId>>

UnsealIngress ==
  /\ ingressSealed
  /\ ingressSealed' = FALSE
  /\ UNCHANGED <<queue, admittedContinuations, resolver, nextArrivalSequence,
                 coalescedHeartbeatCount, admissionVersion, workSessionActive,
                 hand, phase, nextId>>

Start ==
  /\ phase = "starting"
  /\ phase' = "running"
  /\ UNCHANGED <<inboxVars, hand, nextId>>

\* stop() clears the inbox; the loop calls next() no more.
Clear ==
  /\ phase = "running"
  /\ phase' = "stopped"
  /\ queue' = << >>
  /\ nextArrivalSequence' = 0
  /\ coalescedHeartbeatCount' = 0
  /\ workSessionActive' = FALSE
  /\ admittedContinuations' = {}
  /\ UNCHANGED <<resolver, ingressSealed, admissionVersion, hand, nextId>>

Init ==
  /\ queue = << >>
  /\ admittedContinuations = {}
  /\ resolver = FALSE
  /\ nextArrivalSequence = 0
  /\ coalescedHeartbeatCount = 0
  /\ ingressSealed = FALSE
  /\ admissionVersion = 0
  /\ workSessionActive = FALSE
  /\ hand = {}
  /\ phase = "starting"
  /\ nextId = 0

\* The step of the loop inside next().
LoopNext == TakeContinuation \/ TakeNotices \/ TakeRow \/ Park

PutBackAny == \E row \in hand : PutBack(row)
ResumeAny == \E row \in hand : Resume(row)
RestoreAny == \E kind \in FrontKinds : \E key \in KeysOf(kind) : Restore(kind, key)
ReplayAny == \E kind \in FrontKinds : \E key \in KeysOf(kind) : Replay(kind, key)

Next ==
  \/ TryPush
  \/ LoopNext
  \/ PutBackAny \/ ResumeAny \/ RestoreAny \/ ReplayAny
  \/ Finish
  \/ Drain \/ SealIngress \/ UnsealIngress \/ Start \/ Clear

Spec == Init /\ [][Next]_vars

(***************************************************************************)
(* Properties.                                                             *)
(***************************************************************************)

\* Every variable has its type; the loop is parked only with an empty hand,
\* and a hand holds one row.
TypeOK ==
  /\ queue \in Seq(Row)
  /\ admittedContinuations \subseteq Nat
  /\ resolver \in BOOLEAN
  /\ nextArrivalSequence \in Nat
  /\ coalescedHeartbeatCount \in Nat
  /\ ingressSealed \in BOOLEAN
  /\ admissionVersion \in Nat
  /\ workSessionActive \in BOOLEAN
  /\ hand \subseteq Row /\ \A r, s \in hand : r = s
  /\ phase \in {"starting", "running", "stopped"}
  /\ nextId \in Nat

\* No lost wakeup: whenever the loop is parked in next(), every queued row is
\* one that takeAdmissible would pass over, so no admissible row waits for a
\* push that may never come.
NoLostWakeup ==
  resolver => hand = {} /\ \A row \in Elems(queue) : Parked(row)

\* What NoLostWakeup needs to be inductive: no row and no weak-set entry has
\* an id not yet issued, and the loop cannot be parked before it runs.
IdsIssued ==
  /\ \A row \in Elems(queue) \cup hand : row.id < nextId
  /\ \A n \in admittedContinuations : n < nextId

NotParkedAtStart == phase = "starting" => ~resolver

IInv == TypeOK /\ IdsIssued /\ NotParkedAtStart /\ NoLostWakeup

\* The arrival sequences of queued rows are distinct and below the counter, so
\* the order in which drainForRecovery sorts the detached rows is total.
ArrivalSequencesDistinct ==
  /\ \A i, j \in DOMAIN queue : i # j => queue[i].seq # queue[j].seq
  /\ \A i \in DOMAIN queue : queue[i].seq < nextArrivalSequence

\* A row put back with resumeAdmitted is delivery state: no later notification
\* replaces it, no digest absorbs it and no heartbeat drops it.  It leaves the
\* queue only as the row handed to the loop, or with the whole queue.
ContinuationKept ==
  [][\A row \in Elems(queue) :
        IsContinuation(row) /\ ~Drain /\ ~Clear
          => row \in Elems(queue') \/ hand' = {row}]_vars

\* While a work session is active a held notice stays queued until a newer
\* notice with its key takes its place, the heartbeat is admitted, or the
\* whole queue is detached: it never reaches the loop and never vanishes.
NoticesHeld ==
  [][workSessionActive /\ ~Drain /\ ~Clear
       => \A row \in Notices(queue) :
            \/ row \in Elems(queue')
            \/ \E new \in Elems(queue') : new.key = row.key /\ new.seq = row.seq
            \/ \E new \in hand' : new.kind = "heartbeat"]_vars

\* Higher classes first, and FIFO within a class.
PriorityOrder ==
  \A i, j \in DOMAIN queue : i < j => Priority(queue[i].kind) <= Priority(queue[j].kind)
FifoWithinClass ==
  \A i, j \in DOMAIN queue :
    i < j /\ Priority(queue[i].kind) = Priority(queue[j].kind) => queue[i].seq < queue[j].seq

Fronting == PutBackAny \/ ResumeAny \/ RestoreAny \/ ReplayAny

\* Once the queue is in priority and FIFO order, every step that puts no row
\* in front keeps it so: pushes, replacements, admissions and drops.
OrderKept ==
  [][PriorityOrder /\ FifoWithinClass /\ ~Fronting
       => PriorityOrder' /\ FifoWithinClass']_vars

(***************************************************************************)
(* Liveness: the loop keeps calling next(), and a turn it starts comes to  *)
(* its end however often the row is put back on the way.                   *)
(***************************************************************************)
Fairness == WF_vars(LoopNext) /\ SF_vars(Finish) /\ WF_vars(Start)

FairSpec == Spec /\ Fairness

\* Every row that is not a parked notice is handed over eventually, whatever
\* is parked in front of it, unless the inbox is cleared.
EventuallyTaken ==
  \A n \in 0..MaxRows :
    (\E row \in Elems(queue) : row.id = n /\ ~Deferred(row.kind))
      ~> ((\A row \in Elems(queue) : row.id # n) \/ phase = "stopped")
==============================================================================
