---------------------------- MODULE DeferredReplay ----------------------------
(***************************************************************************)
(* The expensive-turn guard's recovery and the replay of the rows it       *)
(* deferred (src/gateway/agent-process.ts, src/state/store.ts).  A turn    *)
(* that trips the guard drains the inbox into the ledger of an episode,    *)
(* compacts the transcript, and queues a bootstrap turn; once a bootstrap  *)
(* is verified, a pump hands the rows back to the inbox one at a time.     *)
(*                                                                         *)
(* The head and the ledger are tables of the session store and survive a   *)
(* crash; the inbox, the row in hand and the pump do not.  One action is   *)
(* what the thread does between two awaits.                                *)
(*                                                                         *)
(* Abstractions: rows are numbered as they arrive; the inbox hands over    *)
(* any row (its order is Inbox's subject); the guard trips in any turn;    *)
(* times are not measured.  A drained bootstrap is dropped: its later      *)
(* replay, in an episode already verified, records nothing.                *)
(***************************************************************************)
EXTENDS Naturals, FiniteSets, FiniteSetsExt

CONSTANTS
  MaxRows,      \* bound: messages that arrive
  MaxEpisodes,  \* bound: recovery episodes begun
  MaxCrashes,   \* bound: crashes of the process
  MaxAttempts   \* 2 in the code: bootstrap turns of an episode

ASSUME ReplayAssumption ==
  /\ MaxRows \in Nat
  /\ MaxEpisodes \in Nat
  /\ MaxCrashes \in Nat
  /\ MaxAttempts \in Nat \ {0}

VARIABLES
  head,      \* session_recovery_heads: the session's episode
  ledger,    \* session_recovery_deferred: the state of a row in an episode
  arrived,   \* rows pushed so far
  inbox,     \* items queued
  hand,      \* the item processInboxMessage() works on
  stage,     \* where its turn is
  pump,      \* deferredReplayEpisodeId, 0 when null
  inFlight,  \* deferredReplayInFlight
  timer,     \* deferredReplayTimer is armed
  paused,    \* remainingPauseMs() > 0
  paced,     \* spacing or sample budget forbid a release
  runs,      \* history: turns completed of a row
  approved,  \* history: episodes of which a bootstrap was verified
  gone,      \* history: rows the process forgot, as any row it never drained
  crashes

vars == <<head, ledger, arrived, inbox, hand, stage, pump, inFlight, timer,
          paused, paced, runs, approved, gone, crashes>>

durable == <<head, ledger>>
replay == <<pump, inFlight, timer>>
history == <<runs, approved, gone, crashes>>

Rows == 1..MaxRows
Episodes == 1..MaxEpisodes

\* Row 0 is the bootstrap of its episode; episode 0 is a row never deferred.
Item == [row : 0..MaxRows, episode : 0..MaxEpisodes]
Nothing == [row |-> 0, episode |-> 0]
Bootstrap(e) == [row |-> 0, episode |-> e]

TypeOK ==
  /\ head \in [episode : 0..MaxEpisodes, attempts : 0..MaxAttempts,
               state : {"none", "guard_tripped", "recovery_pending",
                        "verified", "exhausted"}]
  /\ ledger \in [Episodes ->
                  [Rows -> {"none", "deferred", "releasing", "replayed"}]]
  /\ arrived \in 0..MaxRows
  /\ inbox \subseteq Item
  /\ hand \in Item
  /\ stage \in {"idle", "turn", "compacting", "tripped", "ended", "resuming"}
  /\ pump \in 0..MaxEpisodes
  /\ inFlight \in BOOLEAN
  /\ timer \in BOOLEAN
  /\ paused \in BOOLEAN
  /\ paced \in BOOLEAN
  /\ runs \in [Rows -> Nat]
  /\ gone \subseteq Rows /\ approved \subseteq Episodes
  /\ crashes \in 0..MaxCrashes

Init ==
  /\ head = [episode |-> 0, attempts |-> 0, state |-> "none"]
  /\ ledger = [e \in Episodes |-> [r \in Rows |-> "none"]]
  /\ arrived = 0
  /\ inbox = {}
  /\ hand = Nothing
  /\ stage = "idle"
  /\ pump = 0
  /\ inFlight = FALSE
  /\ timer = FALSE
  /\ paused = FALSE
  /\ paced = FALSE
  /\ runs = [r \in Rows |-> 0]
  /\ gone = {} /\ approved = {}
  /\ crashes = 0

-----------------------------------------------------------------------------
\* Mutants: only the rows never released; every row ever deferred; the last left.
ListNeverReleased(rows) == {r \in Rows : rows[r] = "deferred"}
ListEveryRow(rows) == {r \in Rows : rows[r] # "none"}
ListNewest(rows) ==
  LET left == {r \in Rows : rows[r] \in {"deferred", "releasing"}} IN
  {r \in left : \A q \in left : q <= r}

\* listDeferredRecoveryMessages(): whatever is not yet replayed.
ListDeferred(rows) == {r \in Rows : rows[r] \in {"deferred", "releasing"}}

\* The inserts of begin/append: a row drained again keeps its state.
Defer(rows, drained) ==
  [r \in Rows |-> IF rows[r] = "none" /\ \E i \in drained : i.row = r
                  THEN "deferred" ELSE rows[r]]

\* Must the pump wait?  It then arms its timer.
MustWait(box) == paused \/ paced \/ box # {}

\* pumpDeferredReplay(), with its fields (from), the inbox and the ledger as
\* the caller left them: nothing while a row is in flight or the timer armed;
\* else it waits, or releases the first row left, or is done.
Fields(episode, busy, armed) ==
  [episode |-> episode, busy |-> busy, armed |-> armed]

Keep(from, box, led) ==
  /\ inFlight' = from.busy
  /\ inbox' = box
  /\ ledger' = led
  /\ UNCHANGED paced

Release(from, row, box, led) ==
  /\ pump' = from.episode
  /\ inFlight' = TRUE
  /\ timer' = from.armed
  /\ inbox' = box \cup {[row |-> row, episode |-> from.episode]}
  /\ ledger' = [led EXCEPT ![from.episode][row] = "releasing"]
  /\ paced' = TRUE

\* Mutant: the pump that waits without arming its timer.
PumpGivesUp(from, box, led) ==
  IF from.episode = 0 \/ from.busy \/ from.armed \/ MustWait(box)
  THEN pump' = from.episode /\ timer' = from.armed /\ Keep(from, box, led)
  ELSE LET left == ListDeferred(led[from.episode]) IN
       IF left = {}
       THEN pump' = 0 /\ timer' = from.armed /\ Keep(from, box, led)
       ELSE Release(from, Min(left), box, led)

Pump(from, box, led) ==
  IF from.episode = 0 \/ from.busy \/ from.armed
  THEN pump' = from.episode /\ timer' = from.armed /\ Keep(from, box, led)
  ELSE IF MustWait(box)
  THEN pump' = from.episode /\ timer' = TRUE /\ Keep(from, box, led)
  ELSE LET left == ListDeferred(led[from.episode]) IN
       IF left = {}
       THEN pump' = 0 /\ timer' = from.armed /\ Keep(from, box, led)
       ELSE Release(from, Min(left), box, led)

\* enqueueExpensiveTurnRecoveryBootstrap().
WithBootstrap(box, h) ==
  IF h.state = "recovery_pending" /\ h.attempts < MaxAttempts
  THEN box \cup {Bootstrap(h.episode)} ELSE box

-----------------------------------------------------------------------------
Arrive ==
  /\ arrived < MaxRows
  /\ arrived' = arrived + 1
  /\ inbox' = inbox \cup {[row |-> arrived + 1, episode |-> 0]}
  /\ UNCHANGED <<durable, hand, stage, replay, paused, paced, history>>

\* processNextInboxMessage(); the turn waits for the pause with its row held.
Take(item) ==
  /\ stage = "idle"
  /\ item \in inbox
  /\ inbox' = inbox \ {item}
  /\ hand' = item
  /\ stage' = "turn"
  /\ UNCHANGED <<durable, arrived, replay, paused, paced, history>>

\* beginExpensiveTurnRecovery(): an episode that is not finished takes the
\* drained rows too; else a new one becomes the session's head.
Unfinished(h) == h.state \in {"guard_tripped", "recovery_pending"}

\* Mutant: the re-entry forgets what the caller has drained.
BeginForgetsOnReentry(drained) ==
  IF Unfinished(head)
  THEN UNCHANGED <<ledger, head>>
  ELSE /\ head' = [episode |-> head.episode + 1, attempts |-> 0,
                   state |-> "guard_tripped"]
       /\ ledger' = [ledger EXCEPT ![head.episode + 1] = Defer(@, drained)]

Begin(drained) ==
  IF Unfinished(head)
  THEN /\ ledger' = [ledger EXCEPT ![head.episode] = Defer(@, drained)]
       /\ UNCHANGED head
  ELSE /\ head' = [episode |-> head.episode + 1, attempts |-> 0,
                   state |-> "guard_tripped"]
       /\ ledger' = [ledger EXCEPT ![head.episode + 1] = Defer(@, drained)]

\* The turn in hand trips the guard.  The inbox is drained before the store
\* is asked; a pending episode only gets another bootstrap.
Trip ==
  /\ stage = "turn" /\ ~paused
  /\ Unfinished(head) \/ head.episode < MaxEpisodes
  /\ paused' = TRUE
  /\ Begin(inbox)
  /\ IF head.state = "recovery_pending"
     THEN inbox' = WithBootstrap({}, head) /\ stage' = "tripped"
     ELSE inbox' = {} /\ stage' = "compacting"
  /\ UNCHANGED <<arrived, hand, replay, paced, history>>

\* The successor is committed, with what arrived during the compaction; a
\* restart commits without draining again.
Publish(box) ==
  /\ head' = [head EXCEPT !.state = "recovery_pending"]
  /\ inbox' = WithBootstrap(box, head')

Commit ==
  /\ stage = "compacting"
  /\ ledger' = [ledger EXCEPT ![head.episode] = Defer(@, inbox)]
  /\ Publish({})
  /\ stage' = "tripped"
  /\ UNCHANGED <<arrived, hand, replay, paused, paced, history>>

\* compactMessagesRequired() or its validation throws: the head stays as is.
CompactionFails ==
  /\ stage = "compacting"
  /\ stage' = "tripped"
  /\ UNCHANGED <<durable, arrived, inbox, hand, replay, paused, paced, history>>

TurnOver == stage = "tripped" \/ (stage = "turn" /\ ~paused)

\* The turn of a row ends, well or not; it may have filled the guard's window.
EndTurn ==
  /\ TurnOver /\ hand.row # 0
  /\ stage' = "ended"
  /\ runs' = [runs EXCEPT ![hand.row] = @ + 1]
  /\ paced' \in {paced, TRUE}
  /\ UNCHANGED <<durable, arrived, inbox, hand, replay, paused, approved, gone, crashes>>

\* finishExpensiveTurnRecoveryBootstrap(), of the head's pending episode only.
Verdict(verified) ==
  LET attempt == head.attempts + 1 IN
  IF verified THEN "verified"
  ELSE IF attempt >= MaxAttempts THEN "exhausted" ELSE head.state

EndBootstrap(verified) ==
  /\ TurnOver /\ hand.row = 0
  /\ hand' = Nothing /\ stage' = "idle"
  /\ IF head.episode = hand.episode /\ head.state = "recovery_pending"
     THEN /\ head' = [head EXCEPT !.attempts = @ + 1,
                                  !.state = Verdict(verified)]
          /\ approved' = IF verified THEN approved \cup {head.episode} ELSE approved
          /\ IF verified
             THEN Pump(Fields(head.episode, inFlight, timer), inbox, ledger)
             ELSE /\ inbox' = WithBootstrap(inbox, head')
                  /\ UNCHANGED <<ledger, replay, paced>>
     ELSE UNCHANGED <<durable, approved, inbox, replay, paced>>
  /\ UNCHANGED <<arrived, paused, runs, gone, crashes>>

\* The end of processInboxMessage(): a replayed row is acknowledged, and lets
\* the pump of its episode go on.
Acknowledge ==
  /\ stage = "ended"
  /\ hand' = Nothing /\ stage' = "idle"
  /\ IF hand.episode = 0
     THEN UNCHANGED <<ledger, inbox, replay, paced>>
     ELSE LET acked ==
                [ledger EXCEPT ![hand.episode][hand.row] = "replayed"] IN
          IF pump = hand.episode
          THEN Pump(Fields(pump, FALSE, timer), inbox, acked)
          ELSE ledger' = acked /\ UNCHANGED <<inbox, replay, paced>>
  /\ UNCHANGED <<head, arrived, paused, history>>

\* The rows that nothing durable knows.
Forgotten(items) ==
  {i.row : i \in {j \in items : j.row # 0 /\ j.episode = 0}}

\* processMessage() returns false: the provider or a rollout defers the row
\* back to the inbox, or a discarded compaction abandons it.
PutBack ==
  /\ stage = "turn" /\ ~paused
  /\ inbox' = inbox \cup {hand}
  /\ hand' = Nothing /\ stage' = "idle"
  /\ UNCHANGED <<durable, arrived, replay, paused, paced, history>>

Abandon ==
  /\ stage = "turn" /\ ~paused
  /\ hand' = Nothing /\ stage' = "idle"
  /\ gone' = gone \cup Forgotten({hand})
  /\ UNCHANGED <<durable, arrived, inbox, replay, paused, paced, runs, approved, crashes>>

\* The timer callback clears the field before the pump looks at it.
TimerFires ==
  /\ timer
  /\ Pump(Fields(pump, inFlight, FALSE), inbox, ledger)
  /\ UNCHANGED <<head, arrived, hand, stage, paused, history>>

PauseEnds ==
  /\ paused
  /\ paused' = FALSE
  /\ UNCHANGED <<durable, arrived, inbox, hand, stage, replay, paced, history>>

PaceEnds ==
  /\ paced
  /\ paced' = FALSE
  /\ UNCHANGED <<durable, arrived, inbox, hand, stage, replay, paused, history>>

-----------------------------------------------------------------------------
\* The process dies, or stops: stop() clears the inbox and the pump as well.
Crash ==
  /\ crashes < MaxCrashes
  /\ crashes' = crashes + 1
  /\ gone' = gone \cup Forgotten(inbox \cup {hand})
  /\ inbox' = {} /\ hand' = Nothing /\ stage' = "resuming"
  /\ pump' = 0 /\ inFlight' = FALSE /\ timer' = FALSE
  /\ paused' = FALSE /\ paced' = FALSE
  /\ UNCHANGED <<durable, arrived, runs, approved>>

\* resumeExpensiveTurnRecoveryAtStartup(), after the channels have started and
\* before the loop takes a row.
Resume ==
  /\ stage = "resuming"
  /\ stage' = "idle"
  /\ IF head.state = "verified"
     THEN /\ Pump(Fields(head.episode, inFlight, timer), inbox, ledger)
          /\ UNCHANGED head
     ELSE /\ IF head.state = "guard_tripped"
             THEN Publish(inbox)
             ELSE inbox' = WithBootstrap(inbox, head) /\ UNCHANGED head
          /\ UNCHANGED <<ledger, replay, paced>>
  /\ UNCHANGED <<arrived, hand, paused, history>>

-----------------------------------------------------------------------------
Next ==
  \/ Arrive
  \/ \E item \in inbox : Take(item)
  \/ Trip \/ Commit \/ CompactionFails
  \/ EndTurn
  \/ \E verified \in BOOLEAN : EndBootstrap(verified)
  \/ Acknowledge
  \/ PutBack \/ Abandon
  \/ TimerFires \/ PauseEnds \/ PaceEnds
  \/ Crash \/ Resume

Spec == Init /\ [][Next]_vars

\* The loop takes rows and finishes them, timers fire; a provider that puts a
\* turn off does not put it off for ever.
Fairness ==
  /\ WF_vars(\E item \in inbox : Take(item))
  /\ SF_vars(EndTurn)
  /\ SF_vars(\E verified \in BOOLEAN : EndBootstrap(verified))
  /\ WF_vars(Commit \/ CompactionFails)
  /\ WF_vars(Acknowledge)
  /\ WF_vars(TimerFires)
  /\ WF_vars(PauseEnds)
  /\ WF_vars(PaceEnds)
  /\ WF_vars(Resume)

FairSpec == Spec /\ Fairness

-----------------------------------------------------------------------------
Unreplayed(e, r) == ledger[e][r] \in {"deferred", "releasing"}

Queued(r) == \E i \in inbox \cup {hand} : i.row = r

\* An episode never has two rows released and not acknowledged, whatever
\* crashes and re-trips come between (agent-process.ts:4228: "at most one row
\* is ever in `releasing`").
OneReleasing ==
  \A e \in Episodes :
    Cardinality({r \in Rows : ledger[e][r] = "releasing"}) <= 1

\* A row that arrived is queued, in hand, waiting in some episode, finished,
\* or was forgotten by a crash before any drain: the drains and the commit of
\* recoverSessionAfterExpensiveTurnGuard() lose none, re-entries included.
NothingDropped ==
  \A r \in 1..arrived :
    \/ Queued(r) \/ runs[r] > 0 \/ r \in gone
    \/ \E e \in Episodes : Unreplayed(e, r)

\* Each extra run of a row costs a crash: the acknowledgement, the pump and
\* a row deferred in two episodes never run it again by themselves.
RepeatedOnlyByCrash == \A r \in Rows : runs[r] <= 1 + crashes

\* The pump believes a row is in flight that neither waits nor runs.
Stalled == inFlight /\ \A i \in inbox \cup {hand} : i.episode # pump

Replayable(e, r) ==
  head.episode = e /\ head.state = "verified" /\ Unreplayed(e, r)

\* The tables of the recovery, read with the turns that were completed.
Ledger == INSTANCE RowLedger WITH
  Row <- Rows, Episode <- Episodes, current <- head.episode, open <- Unfinished(head)

\* The recovery implements RowLedger over crashes, re-trips and failed attempts:
\* rows are let go by verified episodes only, in order and one at a time, are
\* done with only after a turn, and none runs that the head still holds back.
ImplementsLedger == Ledger!Spec

\* Every row of a verified episode is replayed, through crashes, pauses and
\* the turns of other rows, unless another episode begins or the pump loses
\* track of the row it has in flight.
EventuallyReplayed ==
  \A e \in Episodes : \A r \in Rows :
    Replayable(e, r) ~> (~Replayable(e, r) \/ Stalled)

\* Claimed by agent-process.ts:4229: "Rows this pump has not dispatched stay
\* `deferred`, which is what makes a mid-drain fence re-drainable".
\* A row of a verified episode runs in the end, in this episode or in one that
\* a turn of the drain makes the guard begin.
Redrainable ==
  \A e \in Episodes : \A r \in Rows :
    Replayable(e, r) ~> (runs[r] > 0 \/ Stalled)
=============================================================================
