------------------------------ MODULE DaemonLink ------------------------------
(***************************************************************************)
(* The daemon's link to Hive (src/daemon/daemon-link-client.ts): one       *)
(* WebSocket at a time, over which Hive sends configurations of an agent   *)
(* (runtime lanes, numbered by generation), deletions and recovery         *)
(* actions, and the daemon answers.  The highest lane applied is kept in a *)
(* file (runtime-lane-fence-state.ts), so that a frame delayed over a      *)
(* reconnection or a restart does not undo a newer one.                    *)
(*                                                                         *)
(* One action is what the thread does between two awaits.  What a frame    *)
(* asks for is done when the handler calls the daemon, as the callbacks of *)
(* manager.ts do; the handler goes on later, when the callback's promise   *)
(* has settled.                                                            *)
(*                                                                         *)
(* Abstractions: one agent (lanes of several share only the file, written  *)
(* whole in one step); a lane is its generation and digest; frames without *)
(* a lane, snapshots and heartbeats, which change nothing here, are left   *)
(* out.  Hive is external: it may send any lane at any time, late ones and *)
(* conflicting ones too, and sends the newest again until it is answered.  *)
(***************************************************************************)
EXTENDS Naturals, FiniteSets

CONSTANTS
  MaxGeneration,  \* the newest lane that Hive desires
  Overlap,        \* may a lane arrive while another is being applied?
  MaxPending,     \* bound: handlers, and probes, under way when another comes
  MaxMishaps      \* bound: connections lost, crashes, and starts after a stop

ASSUME LinkAssumption ==
  /\ MaxGeneration \in Nat \ {0}
  /\ Overlap \in BOOLEAN
  /\ MaxPending \in Nat \ {0}
  /\ MaxMishaps \in Nat

\* Hive desires the "a" of each generation; the "b" of an older one conflicts.
Lane == {l \in [generation : 1..MaxGeneration, digest : {"a", "b"}] :
           l.generation = MaxGeneration => l.digest = "a"}
NoLane == [generation |-> 0, digest |-> "a"]
Desired == [generation |-> MaxGeneration, digest |-> "a"]

VARIABLES
  run,               \* "new", "running" or "stopped"
  ws,                \* generation of the current socket, 0 when null
  socketGeneration,
  sockets,           \* sockets whose close event is still to come
  connected,         \* registered with Hive; the heartbeat timer is set then
  reconnectTimer,
  fence,             \* appliedRuntimeLanes, of the agent
  file,              \* the same on disk
  config,            \* the lane in the agent's persisted configuration
  exists,            \* the agent has not been deleted
  handlers,          \* frames whose handler awaits the daemon
  probes,            \* health probes under way
  acked,             \* Hive: lanes answered with ok
  reported,          \* Hive: the lane of the last health snapshot
  mishaps

socketVars == <<ws, socketGeneration, sockets, connected, reconnectTimer>>
laneVars == <<fence, file, config, exists>>
pending == <<handlers, probes>>
hive == <<acked, reported>>
vars == <<run, socketVars, laneVars, pending, hive, mishaps>>

\* A connection may be dead some time before its close event.
Socket == [generation : Nat, phase : {"connecting", "open", "dead"}]
Handler == [kind : {"config"}, socket : Nat, lane : Lane, ok : BOOLEAN]
  \cup [kind : {"delete", "recovery"}, socket : Nat, lane : {NoLane}, ok : BOOLEAN]
Probe == [socket : Nat, lane : Lane]

TypeOK ==
  /\ run \in {"new", "running", "stopped"}
  /\ ws \in Nat /\ socketGeneration \in Nat
  /\ sockets \subseteq Socket
  /\ connected \in BOOLEAN /\ reconnectTimer \in BOOLEAN
  /\ fence \in Lane \cup {NoLane}
  /\ file \in Lane \cup {NoLane}
  /\ config \in Lane \cup {NoLane}
  /\ exists \in BOOLEAN
  /\ handlers \subseteq Handler
  /\ probes \subseteq Probe
  /\ acked \subseteq Lane
  /\ reported \in Lane \cup {NoLane}
  /\ mishaps \in 0..MaxMishaps

Init ==
  /\ run = "new"
  /\ ws = 0 /\ socketGeneration = 0
  /\ sockets = {}
  /\ connected = FALSE /\ reconnectTimer = FALSE
  /\ fence = NoLane /\ file = NoLane /\ config = NoLane
  /\ exists = TRUE
  /\ handlers = {} /\ probes = {}
  /\ acked = {} /\ reported = NoLane
  /\ mishaps = 0

-----------------------------------------------------------------------------
\* Mutant: any generation will do while the link runs.
IsCurrentWhileRunning(generation) == run = "running"

IsCurrent(generation) == run = "running" /\ ws = generation

\* Does what the client sends now reach Hive?
Heard == \E s \in sockets : s.generation = ws /\ s.phase = "open"

\* connect(): a new socket takes over.
Connect ==
  /\ socketGeneration' = socketGeneration + 1
  /\ ws' = socketGeneration + 1
  /\ sockets' = sockets \cup
       {[generation |-> socketGeneration + 1, phase |-> "connecting"]}
  /\ connected' = FALSE

Mishap == mishaps < MaxMishaps /\ mishaps' = mishaps + 1

Start ==
  /\ \/ run = "new" /\ UNCHANGED mishaps
     \/ run = "stopped" /\ Mishap
  /\ run' = "running"
  /\ Connect
  /\ UNCHANGED <<reconnectTimer, laneVars, pending, hive>>

Stop ==
  /\ run = "running"
  /\ run' = "stopped"
  /\ ws' = 0
  /\ socketGeneration' = socketGeneration + 1
  /\ connected' = FALSE
  /\ reconnectTimer' = FALSE
  /\ UNCHANGED <<sockets, laneVars, pending, hive, mishaps>>

TimerFires ==
  /\ reconnectTimer
  /\ reconnectTimer' = FALSE
  /\ Connect
  /\ UNCHANGED <<run, laneVars, pending, hive, mishaps>>

Becomes(s, phase) == (sockets \ {s}) \cup {[s EXCEPT !.phase = phase]}

\* The handshake ends and the client registers.
Open(s) ==
  /\ s.phase = "connecting"
  /\ IsCurrent(s.generation)
  /\ sockets' = Becomes(s, "open")
  /\ UNCHANGED <<run, ws, socketGeneration, connected, reconnectTimer,
                 laneVars, pending, hive, mishaps>>

RegisterAck(s) ==
  /\ s.phase = "open"
  /\ IsCurrent(s.generation)
  /\ connected' = TRUE
  /\ UNCHANGED <<run, ws, socketGeneration, sockets, reconnectTimer,
                 laneVars, pending, hive, mishaps>>

Break(s) ==
  /\ s.phase # "dead"
  /\ Mishap
  /\ sockets' = Becomes(s, "dead")
  /\ UNCHANGED <<run, ws, socketGeneration, connected, reconnectTimer,
                 laneVars, pending, hive>>

\* Mutant: the close handler that leaves reconnecting to the error handler.
ClosesQuietly ==
  /\ ws' = 0
  /\ connected' = FALSE
  /\ UNCHANGED reconnectTimer

HandleClose ==
  /\ ws' = 0
  /\ connected' = FALSE
  /\ reconnectTimer' = TRUE

\* A dead socket, or one that stop() closes, reports its end.
Close(s) ==
  /\ s.phase = "dead" \/ s.generation # ws
  /\ sockets' = sockets \ {s}
  /\ \/ IsCurrent(s.generation) /\ HandleClose
     \/ ~IsCurrent(s.generation) /\ UNCHANGED <<ws, connected, reconnectTimer>>
  /\ UNCHANGED <<run, socketGeneration, laneVars, pending, hive, mishaps>>

-----------------------------------------------------------------------------
\* A frame reaches the handler only on the current socket.
Delivered(s) == s.phase = "open" /\ connected /\ IsCurrent(s.generation)

\* "stale_or_conflicting_runtime_lane_generation".
Stale(lane) ==
  \/ lane.generation < fence.generation
  \/ lane.generation = fence.generation /\ lane.digest # fence.digest

Awaiting(kind, s, lane, ok) ==
  [kind |-> kind, socket |-> s.generation, lane |-> lane, ok |-> ok]

Busy(s) == \E h \in handlers : h.kind = "config" /\ h.socket = s.generation

\* The lane of the fence again: answered at once, and probed once more.
Replay(s, lane) ==
  /\ Delivered(s)
  /\ lane = fence
  /\ Cardinality(probes) < MaxPending
  /\ acked' = acked \cup {lane}
  /\ probes' = probes \cup {[socket |-> s.generation, lane |-> lane]}
  /\ UNCHANGED <<run, socketVars, laneVars, handlers, reported, mishaps>>

\* handleConfigFrame() up to the await: applyConfig() is called, and has
\* persisted the lane or refused it.
Apply(s, lane, ok) ==
  /\ Delivered(s)
  /\ Overlap \/ ~Busy(s)
  /\ lane # fence /\ ~Stale(lane)
  /\ ok => exists
  /\ config' = IF ok THEN lane ELSE config
  /\ handlers' = handlers \cup {Awaiting("config", s, lane, ok)}
  /\ UNCHANGED <<run, socketVars, fence, file, exists, probes, hive, mishaps>>

\* handleDeleteAgentFrame() and handleRecoveryActionFrame() up to theirs.
Delete(s, ok) ==
  /\ Delivered(s)
  /\ Cardinality(handlers) < MaxPending
  /\ exists' = (exists /\ ~ok)
  /\ handlers' = handlers \cup {Awaiting("delete", s, NoLane, ok)}
  /\ UNCHANGED <<run, socketVars, fence, file, config, probes, hive, mishaps>>

Recover(s) ==
  /\ Delivered(s)
  /\ Cardinality(handlers) < MaxPending
  /\ handlers' = handlers \cup {Awaiting("recovery", s, NoLane, TRUE)}
  /\ UNCHANGED <<run, socketVars, laneVars, probes, hive, mishaps>>

\* Mutants: the fence kept in memory although its file was not written, the
\* lane recorded although refused.
RecordKept(h, written) ==
  IF h.kind = "config" /\ h.ok
  THEN fence' = h.lane /\ file' = (IF written THEN h.lane ELSE file)
  ELSE UNCHANGED <<fence, file>>

RecordRefused(h, written) ==
  IF h.kind = "config" /\ written
  THEN fence' = h.lane /\ file' = h.lane
  ELSE UNCHANGED <<fence, file>>

\* The fence is set and written; a write that fails puts the old one back.
Record(h, written) ==
  IF h.kind = "config" /\ h.ok /\ written
  THEN fence' = h.lane /\ file' = h.lane
  ELSE UNCHANGED <<fence, file>>

\* The handler goes on: on its own socket it records the lane, answers, and
\* begins a probe; otherwise it drops what it knows.
Settle(h, written) ==
  /\ IsCurrent(h.socket)
  /\ Record(h, written)
  /\ handlers' = handlers \ {h}
  /\ LET done == h.kind = "config" /\ h.ok /\ written IN
       /\ acked' = IF done /\ Heard THEN acked \cup {h.lane} ELSE acked
       /\ probes' = IF done
                    THEN probes \cup {[socket |-> h.socket, lane |-> h.lane]}
                    ELSE probes
  /\ UNCHANGED <<run, socketVars, config, exists, reported, mishaps>>

Overtaken(h) ==
  /\ ~IsCurrent(h.socket)
  /\ handlers' = handlers \ {h}
  /\ UNCHANGED <<run, socketVars, laneVars, probes, hive, mishaps>>

\* Mutant: a probe that reports whatever lane it was begun for.
StillCurrent(p) == IsCurrent(p.socket)

StillApplied(p) == IsCurrent(p.socket) /\ fence = p.lane

\* emitRuntimeLaneHealth() after its await.
ProbeAnswers(p) ==
  /\ probes' = probes \ {p}
  /\ reported' = IF StillApplied(p) /\ Heard THEN p.lane ELSE reported
  /\ UNCHANGED <<run, socketVars, laneVars, handlers, acked, mishaps>>

\* The daemon dies and is started again with the file it left.
Crash ==
  /\ Mishap
  /\ run' = "new"
  /\ ws' = 0 /\ socketGeneration' = 0
  /\ sockets' = {}
  /\ connected' = FALSE /\ reconnectTimer' = FALSE
  /\ fence' = file
  /\ handlers' = {} /\ probes' = {}
  /\ UNCHANGED <<file, config, exists, hive>>

-----------------------------------------------------------------------------
SocketEvents ==
  \E s \in sockets : Open(s) \/ RegisterAck(s) \/ Break(s) \/ Close(s)

Frames ==
  \E s \in sockets :
    \/ \E lane \in Lane : Replay(s, lane)
    \/ \E lane \in Lane, ok \in BOOLEAN : Apply(s, lane, ok)
    \/ \E ok \in BOOLEAN : Delete(s, ok)
    \/ Recover(s)

Continues(h) == Overtaken(h) \/ \E written \in BOOLEAN : Settle(h, written)

Next ==
  \/ Start \/ Stop \/ TimerFires \/ Crash
  \/ SocketEvents \/ Frames
  \/ \E h \in handlers : Continues(h)
  \/ \E p \in probes : ProbeAnswers(p)

Spec == Init /\ [][Next]_vars

\* The daemon starts its link, timers fire, sockets report what becomes of
\* them, promises settle.  Hive sends the desired lane until it is answered,
\* and neither the daemon nor the disk refuses it for ever.
Fairness ==
  /\ WF_vars(run = "new" /\ Start)
  /\ WF_vars(TimerFires)
  /\ WF_vars(\E s \in sockets : Open(s))
  /\ WF_vars(\E s \in sockets : RegisterAck(s))
  /\ WF_vars(\E s \in sockets : Close(s))
  /\ WF_vars(\E h \in handlers : h.kind = "config" /\ Continues(h))
  /\ WF_vars(\E p \in probes : ProbeAnswers(p))
  /\ SF_vars(\E s \in sockets : Apply(s, Desired, TRUE))
  /\ SF_vars(\E s \in sockets : Replay(s, Desired))
  /\ SF_vars(\E h \in handlers : h.ok /\ h.lane = Desired /\ Settle(h, TRUE))

FairSpec == Spec /\ Fairness

-----------------------------------------------------------------------------
\* A running link has one socket of its own or the timer for the next, a
\* stopped one neither, and is registered on its own socket only: late events
\* of sockets that were closed or replaced neither tear the new one down nor
\* arm a second timer (isCurrentSocket).
OneLink ==
  LET own == {s \in sockets : s.generation = ws} IN
  /\ run = "running" => (own # {}) # reconnectTimer
  /\ run # "running" => own = {} /\ ~reconnectTimer
  /\ connected => \E s \in own : s.phase # "connecting"

\* What Hive was told is applied is in the file, or superseded there: no
\* refused write, restart, late or conflicting lane, and no handler that
\* outlived its socket (handleConfigFrame after its await) makes the daemon
\* accept what it must refuse after that answer ("Highest durably applied lane
\* per agent. Health probes are fenced to it.", daemon-link-client.ts:351).
AckedIsDurable ==
  \A lane \in acked : lane.generation < file.generation \/ lane = file

\* The fence never runs ahead of the agent's configuration: no lane is
\* recorded that was refused, or that a later frame has already undone.
FenceIsApplied ==
  exists => fence.generation < config.generation \/ fence = config

\* Hive never hears of the health of an older lane after that of a newer one,
\* however late a probe answers (the fence compared in emitRuntimeLaneHealth).
HealthNotOlder ==
  [][reported'.generation >= reported.generation]_vars

\* Hive hears in the end that the desired lane is applied, over losses,
\* refusals, failed writes and restarts, while the agent exists.
EventuallyAcked ==
  run = "running" ~> (Desired \in acked \/ run # "running" \/ ~exists)
=============================================================================
