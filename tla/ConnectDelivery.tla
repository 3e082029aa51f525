--------------------------- MODULE ConnectDelivery ---------------------------
(***************************************************************************)
(* How one Connect message reaches the gateway agent and is acknowledged:  *)
(* the Connect server's processing-ack contract (external), the ingress of *)
(* connect-client/index.ts and channels/connect.ts, the serial loop of     *)
(* agent-process.ts, and its durable ledger in state/store.ts.             *)
(*                                                                         *)
(* The socket, the process and the ledger fail independently: frames and   *)
(* acks in flight are lost with the connection, and everything but the     *)
(* ledger is lost with the process.                                        *)
(*                                                                         *)
(* The inbox is abstracted to what module Inbox shows of it: a resumed     *)
(* delivery is taken first, any other row may be next, and held notices    *)
(* may be dropped.                                                         *)
(***************************************************************************)
EXTENDS Integers, Sequences, SeqFilter

CONSTANTS
  Direct,     (* Messages that start a turn.                               *)
  Notices,    (* Task notices, acknowledged on receipt.                    *)
  Probes,     (* Liveness probes, acknowledged and dropped on receipt.     *)
  Silent,     (* Terminal messages (thanks, reactions) dropped at ingress. *)
  NoMessage,
  ReplayCap,  (* SHIZUHA_CONNECT_MAX_MISSED_MESSAGES.                      *)
  Window,     (* The size of the client's idempotency window.              *)
  MaxLosses,  (* Bound on the connections lost.                            *)
  MaxCrashes  (* Bound on the restarts of the process.                     *)

Messages == Direct \cup Notices \cup Probes \cup Silent

ASSUME ConnectAssumption ==
  /\ NoMessage \notin Messages
  /\ Direct \cap (Notices \cup Probes \cup Silent) = {}
  /\ {ReplayCap, MaxLosses, MaxCrashes} \subseteq Nat
  /\ Window \in Nat \ {0}

VARIABLES
  posted,     (* The server's rows, oldest first.                          *)
  acked,      (* The rows the server has marked processed.                 *)
  link,       (* "up" while this process has an open socket.               *)
  wire,       (* Frames on their way to the client.                        *)
  ackWire,    (* Acknowledgements on their way to the server.              *)
  recentInboundMessageIds, (* Oldest first.                                *)
  missedReplayAccepted,
  pending,    (* How many rows of each message the inbox holds.            *)
  resumed,    (* The message whose row is an admitted continuation.        *)
  hand,       (* The message the loop is processing.                       *)
  stage,      (* How far the loop is with it.                              *)
  ledger,     (* session_inbound_processing.state, durable.                *)
  deferred,   (* gateway_provider_deferrals.message_id, durable.           *)
  dropped,    (* History: what this process gave up without completing.    *)
  losses, crashes

serverVars == <<posted, acked>>
socketVars == <<link, wire, ackWire>>
clientVars == <<recentInboundMessageIds, missedReplayAccepted>>
loopVars   == <<hand, stage>>
durable    == <<ledger, deferred>>
counters   == <<losses, crashes>>
vars == <<serverVars, socketVars, clientVars, loopVars, durable, counters,
          pending, resumed, dropped>>

Frames == [message : Messages, type : {"new_message", "missed_message"}]

Frame(m, type) == [message |-> m, type |-> type]

\* ackMessageProcessed: only an open socket sends it.
AckSent(m) == IF link = "up" THEN ackWire \cup {m} ELSE ackWire

(***************************************************************************)
(* The server and the network.                                             *)
(***************************************************************************)

\* A message is stored, and sent to the agent if it is connected.
Post(m) ==
  /\ m \notin Elems(posted)
  /\ posted' = Append(posted, m)
  /\ wire' = IF link = "up" THEN Append(wire, Frame(m, "new_message")) ELSE wire
  /\ UNCHANGED <<acked, link, ackWire, clientVars, loopVars, durable, counters,
                 pending, resumed, dropped>>

Replay == [i \in DOMAIN Filter(posted, Elems(posted) \ acked) |->
             Frame(Filter(posted, Elems(posted) \ acked)[i], "missed_message")]

\* The socket opens: every row not yet marked processed is replayed.
Connect ==
  /\ link = "down"
  /\ link' = "up"
  /\ wire' = Replay
  /\ missedReplayAccepted' = 0
  /\ UNCHANGED <<serverVars, ackWire, recentInboundMessageIds, loopVars, durable,
                 counters, pending, resumed, dropped>>

\* The connection is lost with what is in flight; the client sees it closed.
Lose ==
  /\ link = "up"
  /\ losses < MaxLosses
  /\ losses' = losses + 1
  /\ link' = "down"
  /\ wire' = << >>
  /\ ackWire' = {}
  /\ UNCHANGED <<serverVars, clientVars, loopVars, durable, crashes, pending,
                 resumed, dropped>>

AckArrives(m) ==
  /\ m \in ackWire
  /\ acked' = acked \cup {m}
  /\ ackWire' = ackWire \ {m}
  /\ UNCHANGED <<posted, link, wire, clientVars, loopVars, durable, counters,
                 pending, resumed, dropped>>

(***************************************************************************)
(* handleMessage and ConnectChannel.onMessage: one frame.                  *)
(***************************************************************************)
Known(m) == m \in Elems(recentInboundMessageIds)

\* The idempotency window forgets its oldest id when it is full.
Remembered(m) ==
  LET s == Append(recentInboundMessageIds, m)
  IN  IF Len(s) > Window THEN Tail(s) ELSE s

OverCap(type) == type = "missed_message" /\ missedReplayAccepted >= ReplayCap

NextFrame ==
  /\ link = "up"
  /\ wire # << >>
  /\ wire' = Tail(wire)
  /\ UNCHANGED <<serverVars, link, loopVars, durable, counters, resumed>>

\* A frame the client has already seen, whatever became of that one.
SuppressDuplicate ==
  /\ NextFrame
  /\ Known(Head(wire).message)
  /\ UNCHANGED <<ackWire, clientVars, pending, dropped>>

\* Terminal content, and a replay over the cap, are remembered all the same.
DropAtIngress ==
  /\ NextFrame
  /\ LET m == Head(wire).message
     IN  /\ ~Known(m)
         /\ m \in Silent \/ OverCap(Head(wire).type)
         /\ recentInboundMessageIds' = Remembered(m)
         /\ dropped' = dropped \cup {m}
  /\ UNCHANGED <<ackWire, missedReplayAccepted, pending>>

Admit ==
  /\ NextFrame
  /\ LET m    == Head(wire).message
         type == Head(wire).type
     IN  /\ ~Known(m) /\ m \notin Silent /\ ~OverCap(type)
         /\ recentInboundMessageIds' = Remembered(m)
         /\ missedReplayAccepted' =
              missedReplayAccepted + IF type = "missed_message" THEN 1 ELSE 0
         /\ pending' = IF m \in Probes THEN pending ELSE [pending EXCEPT ![m] = @ + 1]
         /\ ackWire' = IF m \in Probes \cup Notices THEN AckSent(m) ELSE ackWire
  /\ UNCHANGED dropped

\* The heartbeat or a digest takes the held notices out of the inbox.
DropNotice(m) ==
  /\ m \in Notices \ resumed
  /\ pending[m] > 0
  /\ pending' = [pending EXCEPT ![m] = 0]
  /\ UNCHANGED <<serverVars, socketVars, clientVars, loopVars, durable, counters,
                 resumed, dropped>>

(***************************************************************************)
(* processInboxMessage.                                                    *)
(***************************************************************************)

\* Mutants: the durable ledger is not consulted; a started message counts.
NeverCompleted(m) == FALSE
AlreadyStarted(m) == ledger[m] # "none"

Completed(m) == ledger[m] = "completed"

Dequeue(m) ==
  /\ hand = NoMessage
  /\ pending[m] > 0
  /\ resumed # {} => m \in resumed
  /\ pending' = [pending EXCEPT ![m] = @ - 1]
  /\ resumed' = resumed \ {m}

\* A replay of a completed message is acknowledged, not executed.
AckReplay(m) ==
  /\ Dequeue(m)
  /\ Completed(m)
  /\ deferred' = deferred \ {m}
  /\ ackWire' = AckSent(m)
  /\ UNCHANGED <<serverVars, link, wire, clientVars, loopVars, ledger, counters, dropped>>

\* markInboundProcessingAdmitted is an INSERT OR IGNORE.
StartTurn(m) ==
  /\ Dequeue(m)
  /\ ~Completed(m)
  /\ hand' = m
  /\ stage' = "turn"
  /\ ledger' = [ledger EXCEPT ![m] = IF @ = "none" THEN "admitted" ELSE @]
  /\ UNCHANGED <<serverVars, socketVars, clientVars, deferred, counters, dropped>>

Settled == hand' = NoMessage /\ stage' = "idle"

\* processMessage comes to its end: reply sent, or a terminal error reported.
EndTurn ==
  /\ stage = "turn"
  /\ stage' = "ran"
  /\ UNCHANGED <<serverVars, socketVars, clientVars, hand, durable, counters,
                 pending, resumed, dropped>>

\* The provider refuses: the input is stored, then resumed at the head.
DeferInput ==
  /\ stage = "turn"
  /\ deferred \subseteq {hand}
  /\ deferred' = {hand}
  /\ pending' = [pending EXCEPT ![hand] = @ + 1]
  /\ resumed' = {hand}
  /\ Settled
  /\ UNCHANGED <<serverVars, socketVars, clientVars, ledger, counters, dropped>>

\* Another input is still stored: deferProviderInput throws, the row is gone.
DeferRefused ==
  /\ stage = "turn"
  /\ ~(deferred \subseteq {hand})
  /\ dropped' = dropped \cup {hand}
  /\ Settled
  /\ UNCHANGED <<serverVars, socketVars, clientVars, durable, counters, pending, resumed>>

\* A failed compaction ends the turn with the input neither done nor queued.
AbandonInput ==
  /\ stage = "turn"
  /\ dropped' = dropped \cup {hand}
  /\ Settled
  /\ UNCHANGED <<serverVars, socketVars, clientVars, durable, counters, pending, resumed>>

\* Mutant: the row is not put back.
NotRequeued == pending

Requeued == [pending EXCEPT ![hand] = @ + 1]

\* A failed prewarm or a rollout checkpoint puts the row back.
PutBackInput ==
  /\ stage = "turn"
  /\ pending' = Requeued
  /\ Settled
  /\ UNCHANGED <<serverVars, socketVars, clientVars, durable, counters, resumed, dropped>>

\* completeProviderInput, markInboundProcessingCompleted, ackProcessed.
ClearDeferred ==
  /\ stage = "ran"
  /\ deferred' = deferred \ {hand}
  /\ stage' = "cleared"
  /\ UNCHANGED <<serverVars, socketVars, clientVars, hand, ledger, counters,
                 pending, resumed, dropped>>

RecordCompleted ==
  /\ stage = "cleared"
  /\ ledger' = [ledger EXCEPT ![hand] = "completed"]
  /\ stage' = "recorded"
  /\ UNCHANGED <<serverVars, socketVars, clientVars, hand, deferred, counters,
                 pending, resumed, dropped>>

\* Mutant: the ack is sent before the completion is recorded.
AckableEarly == stage \in {"cleared", "recorded"}

Ackable == stage = "recorded"

SendAck ==
  /\ Ackable
  /\ ackWire' = AckSent(hand)
  /\ Settled
  /\ UNCHANGED <<serverVars, link, wire, clientVars, durable, counters, pending,
                 resumed, dropped>>

\* Mutant: the stored input waits for a redelivery.
NotRestored == [m \in Messages |-> 0]

Restored == [m \in Messages |-> IF m \in deferred THEN 1 ELSE 0]

\* The process is replaced: only the ledger survives, and the stored input is
\* restored before the loop starts.
Restart ==
  /\ crashes < MaxCrashes
  /\ crashes' = crashes + 1
  /\ link' = "down" /\ wire' = << >> /\ ackWire' = {}
  /\ recentInboundMessageIds' = << >>
  /\ missedReplayAccepted' = 0
  /\ pending' = Restored
  /\ resumed' = deferred
  /\ Settled
  /\ dropped' = {}
  /\ UNCHANGED <<serverVars, durable, losses>>

Init ==
  /\ posted = << >> /\ acked = {}
  /\ link = "down" /\ wire = << >> /\ ackWire = {}
  /\ recentInboundMessageIds = << >> /\ missedReplayAccepted = 0
  /\ pending = [m \in Messages |-> 0] /\ resumed = {}
  /\ hand = NoMessage /\ stage = "idle"
  /\ ledger = [m \in Messages |-> "none"] /\ deferred = {}
  /\ dropped = {} /\ losses = 0 /\ crashes = 0

Receive == SuppressDuplicate \/ DropAtIngress \/ Admit
Take == \E m \in Messages : AckReplay(m) \/ StartTurn(m)
Settle == ClearDeferred \/ RecordCompleted \/ SendAck

Next ==
  \/ \E m \in Messages : Post(m) \/ AckArrives(m) \/ DropNotice(m)
  \/ Connect \/ Lose \/ Restart
  \/ Receive
  \/ Take
  \/ EndTurn \/ DeferInput \/ DeferRefused \/ AbandonInput \/ PutBackInput
  \/ Settle

Spec == Init /\ [][Next]_vars

(***************************************************************************)
(* The client reconnects, frames and acks arrive while the connection      *)
(* lasts, and the loop takes rows; a turn that is started again and again  *)
(* comes to its end once.                                                  *)
(***************************************************************************)
Fairness ==
  /\ WF_vars(Connect) /\ WF_vars(Receive) /\ WF_vars(Take) /\ WF_vars(Settle)
  /\ WF_vars(\E m \in Messages : AckArrives(m))
  /\ SF_vars(EndTurn)

FairSpec == Spec /\ Fairness

\* The direct message whose turn has begun and is not yet in the ledger.
Working == IF stage \in {"turn", "ran", "cleared"} THEN {hand} \cap Direct ELSE {}

\* What the server may rely on: the direct messages it stores, the ledger, and
\* the acknowledgements that have arrived.
Reliable == INSTANCE ReliableDelivery WITH
  Message <- Direct,
  stored  <- Elems(posted) \cap Direct,
  working <- Working,
  done    <- {m \in Direct : ledger[m] = "completed"},
  told    <- acked \cap Direct

(***************************************************************************)
(* Properties.                                                             *)
(***************************************************************************)
Stage == {"idle", "turn", "ran", "cleared", "recorded"}

\* Every variable has its type, and the loop is idle exactly when it holds
\* no message.
TypeOK ==
  /\ posted \in Seq(Messages) /\ acked \subseteq Messages
  /\ link \in {"up", "down"}
  /\ wire \in Seq(Frames)
  /\ ackWire \subseteq Messages
  /\ recentInboundMessageIds \in Seq(Messages)
  /\ missedReplayAccepted \in Nat
  /\ pending \in [Messages -> Nat] /\ resumed \subseteq Messages
  /\ hand \in Messages \cup {NoMessage} /\ stage \in Stage
  /\ (stage = "idle") <=> (hand = NoMessage)
  /\ ledger \in [Messages -> {"none", "admitted", "completed"}]
  /\ deferred \subseteq Messages /\ dropped \subseteq Messages
  /\ losses \in Nat /\ crashes \in Nat

\* The server never hears of a direct message before the ledger has it as
\* completed: no crash can lose a message that is acknowledged.
AckMeansCompleted ==
  \A m \in Direct : m \in acked \cup ackWire => ledger[m] = "completed"

\* Completed work is never executed again, and nothing the server was told is
\* done is still being executed: across replays on reconnect, restored inputs,
\* several queued copies of one message and restarts of the process.
NeverRunAgain ==
  stage = "turn" =>
    ledger[hand] # "completed" /\ (hand \in Direct => hand \notin acked \cup ackWire)

\* A direct message that is not completed has a copy that will be executed: it
\* is in the loop or the inbox or on the wire, or the client will not suppress
\* its replay.  The exceptions are the ones this process gave up.
DirectNotLost ==
  \A m \in (Elems(posted) \cap Direct) \ dropped :
    \/ ledger[m] = "completed"
    \/ hand = m
    \/ pending[m] > 0
    \/ ~Known(m) /\ m \notin acked

\* At most one provider input is stored, and a direct one is also queued or in
\* the loop, unless this process gave it up: what blocks the deferral of other
\* inputs is itself going to be completed.
DeferredIsQueued ==
  \A m \in deferred :
    /\ deferred = {m}
    /\ m \in Direct \ dropped => hand = m \/ pending[m] > 0

\* Over replays, restored inputs, lost connections and restarts, the delivery
\* implements ReliableDelivery: a direct message is run only if the server
\* stored it and the ledger has not, is recorded once, and only then
\* acknowledged, and neither the ledger nor the server ever takes that back.
ImplementsReliable == Reliable!Spec

\* Every direct message is completed eventually, over lost connections and
\* restarts, unless the process that received it gives it up.
EventuallyCompleted ==
  \A m \in Direct : m \in Elems(posted) ~> ledger[m] = "completed" \/ m \in dropped

\* "Connect processing ack was not sent; durable replay will retry it":
\* the server eventually hears of every completed direct message.
EventuallyAcked ==
  \A m \in Direct : ledger[m] = "completed" ~> m \in acked
==============================================================================
