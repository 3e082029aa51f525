------------------------------ MODULE LinkProofs ------------------------------
(***************************************************************************)
(* Proofs about the daemon's link, for every newest generation and any     *)
(* number of losses, crashes and restarts.  The theorems about lanes take  *)
(* it that no lane arrives while another is being applied; two that pass   *)
(* the check before either is recorded would lower the fence.              *)
(***************************************************************************)
EXTENDS DaemonLink, TLAPS

AnyLane == Lane \cup {NoLane}

\* Sockets are numbered as they are made, and so are the sockets' handlers.
Numbered ==
  /\ ws <= socketGeneration
  /\ \A s \in sockets : s.generation \in 1..socketGeneration
  /\ \A h \in handlers : h.socket \in 1..socketGeneration

\* OneLink, with its sets of sockets spelt out.
HasOwn == \E s \in sockets : s.generation = ws

HasUsable == \E s \in sockets : s.generation = ws /\ s.phase # "connecting"

Linked ==
  /\ run = "running" => (HasOwn <=> ~reconnectTimer)
  /\ run # "running" => ~HasOwn /\ ~reconnectTimer
  /\ connected => HasUsable

SocketInv == TypeOK /\ Numbered /\ Linked

\* A lane that the agent's configuration has, or is past.
AtMost(lane, other) == lane.generation < other.generation \/ lane = other

\* A handler that can still record a lane: its lane is above the fence, and
\* the daemon has it.
Live(h) == h.kind = "config" /\ h.socket = ws

HandlersGood ==
  /\ \A h \in handlers : Live(h) => h.lane.generation > fence.generation
  /\ \A h \in handlers : Live(h) /\ h.ok /\ exists => AtMost(h.lane, config)
  /\ \A h, k \in handlers : Live(h) /\ Live(k) => h = k

LaneInv ==
  /\ fence = file
  /\ HandlersGood
  /\ AckedIsDurable
  /\ FenceIsApplied
  /\ reported.generation <= fence.generation

-----------------------------------------------------------------------------
\* Generations of lanes are numbers; a lane proper has one above NoLane's.
LEMMA Generations ==
  /\ \A l \in AnyLane : l.generation \in Nat
  /\ \A l \in Lane : l.generation > 0
  /\ NoLane \in AnyLane
BY LinkAssumption DEF AnyLane, Lane, NoLane

\* A lane is its generation and its digest, which is all that the comparison
\* of handleConfigFrame looks at.
LEMMA SameLane ==
  ASSUME NEW l \in AnyLane, NEW m \in AnyLane,
         l.generation = m.generation, l.digest = m.digest
  PROVE  l = m
BY DEF AnyLane, Lane, NoLane

\* What passes the check of handleConfigFrame is above the fence.
LEMMA Passes ==
  ASSUME TypeOK, NEW lane \in Lane, lane # fence, ~Stale(lane)
  PROVE  lane.generation > fence.generation
BY Generations, SameLane DEF TypeOK, Stale, AnyLane

-----------------------------------------------------------------------------
\* A socket that changes phase stays a Socket.
LEMMA BecomesType ==
  ASSUME TypeOK, NEW s \in sockets, NEW phase \in {"connecting", "open", "dead"}
  PROVE  Becomes(s, phase) \subseteq Socket
BY DEF TypeOK, Becomes, Socket

SocketType ==
  /\ run \in {"new", "running", "stopped"}
  /\ ws \in Nat /\ socketGeneration \in Nat
  /\ sockets \subseteq Socket
  /\ mishaps \in 0..MaxMishaps

FlagType == connected \in BOOLEAN /\ reconnectTimer \in BOOLEAN

LaneType ==
  /\ fence \in AnyLane /\ file \in AnyLane /\ config \in AnyLane
  /\ exists \in BOOLEAN
  /\ handlers \subseteq Handler /\ probes \subseteq Probe
  /\ acked \subseteq Lane /\ reported \in AnyLane

\* TypeOK in three parts, of which an action disturbs one or two.
LEMMA TypeParts ==
  /\ TypeOK <=> SocketType /\ FlagType /\ LaneType
  /\ TypeOK' <=> SocketType' /\ FlagType' /\ LaneType'
BY Zenon DEF TypeOK, SocketType, FlagType, LaneType, AnyLane

\* A step that leaves lanes, handlers and Hive alone keeps their types.
LEMMA LaneTypeStays ==
  ASSUME LaneType, UNCHANGED <<laneVars, pending, hive>>
  PROVE  LaneType'
BY Zenon DEF LaneType, laneVars, pending, hive

\* A step that leaves the sockets alone keeps theirs.
LEMMA SocketTypeStays ==
  ASSUME SocketType, FlagType, UNCHANGED <<run, socketVars, mishaps>>
  PROVE  SocketType' /\ FlagType'
BY Zenon DEF SocketType, FlagType, socketVars

\* The bound on mishaps stays.
LEMMA MishapType ==
  ASSUME mishaps \in 0..MaxMishaps, Mishap
  PROVE  mishaps' \in 0..MaxMishaps
BY LinkAssumption DEF Mishap

\* The socket that connect() makes is a Socket.
LEMMA NewSocket ==
  ASSUME SocketType
  PROVE  [generation |-> socketGeneration + 1, phase |-> "connecting"] \in Socket
BY DEF SocketType, Socket

\* Starting, stopping, timers and crashes keep the types.
LEMMA LifeTypes ==
  ASSUME TypeOK, Start \/ Stop \/ TimerFires \/ Crash
  PROVE  TypeOK'
<1> USE TypeParts
<1>1. CASE Start
  <2>1. SocketType'
    BY <1>1, MishapType, NewSocket DEF SocketType, Start, Connect
  <2>2. FlagType'
    BY <1>1, Zenon DEF FlagType, Start, Connect
  <2>3. LaneType'
    BY <1>1, LaneTypeStays DEF Start
  <2> QED
    BY <2>1, <2>2, <2>3
<1>2. CASE Stop
  <2>1. SocketType'
    BY <1>2 DEF SocketType, Stop
  <2>2. FlagType'
    BY <1>2, Zenon DEF FlagType, Stop
  <2>3. LaneType'
    BY <1>2, LaneTypeStays DEF Stop
  <2> QED
    BY <2>1, <2>2, <2>3
<1>3. CASE TimerFires
  <2>1. SocketType'
    BY <1>3, NewSocket DEF SocketType, TimerFires, Connect
  <2>2. FlagType'
    BY <1>3, Zenon DEF FlagType, TimerFires, Connect
  <2>3. LaneType'
    BY <1>3, LaneTypeStays DEF TimerFires
  <2> QED
    BY <2>1, <2>2, <2>3
<1>4. CASE Crash
  <2>1. SocketType'
    BY <1>4, MishapType DEF SocketType, Crash
  <2>2. FlagType'
    BY <1>4, Zenon DEF FlagType, Crash
  <2>3. LaneType'
    BY <1>4, Zenon DEF LaneType, Crash, hive
  <2> QED
    BY <2>1, <2>2, <2>3
<1> QED
  BY <1>1, <1>2, <1>3, <1>4

\* So do the events of sockets.
LEMMA SocketTypes ==
  ASSUME TypeOK, NEW s \in sockets, Open(s) \/ RegisterAck(s) \/ Break(s) \/ Close(s)
  PROVE  TypeOK'
<1> USE TypeParts
<1>0. LaneType'
  BY LaneTypeStays DEF Open, RegisterAck, Break, Close
<1>1. FlagType'
  BY Zenon DEF FlagType, Open, RegisterAck, Break, Close, HandleClose
<1>2. CASE Open(s)
  BY <1>0, <1>1, <1>2, BecomesType DEF SocketType, Open
<1>3. CASE RegisterAck(s)
  BY <1>0, <1>1, <1>3 DEF SocketType, RegisterAck
<1>4. CASE Break(s)
  BY <1>0, <1>1, <1>4, BecomesType, MishapType DEF SocketType, Break
<1>5. CASE Close(s)
  BY <1>0, <1>1, <1>5 DEF SocketType, Close, HandleClose
<1> QED
  BY <1>2, <1>3, <1>4, <1>5

\* So do the frames that Hive sends.
LEMMA FrameTypes ==
  ASSUME TypeOK, Frames
  PROVE  TypeOK'
<1> USE TypeParts
<1>1. ASSUME NEW s \in sockets, NEW lane \in Lane, Replay(s, lane)
      PROVE  TypeOK'
  <2>1. [socket |-> s.generation, lane |-> lane] \in Probe
    BY DEF SocketType, Socket, Probe
  <2>2. LaneType'
    BY <1>1, <2>1 DEF LaneType, Replay, laneVars
  <2> QED
    BY <1>1, <2>2, SocketTypeStays DEF Replay
<1>2. ASSUME NEW s \in sockets, NEW lane \in Lane, NEW ok \in BOOLEAN, Apply(s, lane, ok)
      PROVE  TypeOK'
  <2>1. Awaiting("config", s, lane, ok) \in Handler
    BY DEF SocketType, Socket, Awaiting, Handler
  <2>2. config' \in AnyLane
    BY <1>2 DEF LaneType, Apply, AnyLane
  <2>3. handlers' \subseteq Handler
    BY <1>2, <2>1 DEF LaneType, Apply
  <2>4. LaneType'
    BY <1>2, <2>2, <2>3, Zenon DEF LaneType, Apply, hive
  <2> QED
    BY <1>2, <2>4, SocketTypeStays DEF Apply
<1>3. ASSUME NEW s \in sockets, NEW ok \in BOOLEAN, Delete(s, ok)
      PROVE  TypeOK'
  <2>1. Awaiting("delete", s, NoLane, ok) \in Handler
    BY DEF SocketType, Socket, Awaiting, Handler
  <2>2. exists' \in BOOLEAN
    BY <1>3, Zenon DEF LaneType, Delete
  <2>3. handlers' \subseteq Handler
    BY <1>3, <2>1 DEF LaneType, Delete
  <2>4. LaneType'
    BY <1>3, <2>2, <2>3, Zenon DEF LaneType, Delete, hive
  <2> QED
    BY <1>3, <2>4, SocketTypeStays DEF Delete
<1>4. ASSUME NEW s \in sockets, Recover(s)
      PROVE  TypeOK'
  <2>1. Awaiting("recovery", s, NoLane, TRUE) \in Handler
    BY DEF SocketType, Socket, Awaiting, Handler
  <2>2. handlers' \subseteq Handler
    BY <1>4, <2>1 DEF LaneType, Recover
  <2>3. LaneType'
    BY <1>4, <2>2, Zenon DEF LaneType, Recover, laneVars, hive
  <2> QED
    BY <1>4, <2>3, SocketTypeStays DEF Recover
<1> QED
  BY <1>1, <1>2, <1>3, <1>4 DEF Frames

\* So do handlers that go on, and probes that end.
LEMMA ContinuationTypes ==
  ASSUME TypeOK,
         \/ \E h \in handlers : Continues(h)
         \/ \E p \in probes : ProbeAnswers(p)
  PROVE  TypeOK'
<1> USE TypeParts
<1>1. ASSUME NEW h \in handlers, NEW written \in BOOLEAN, Settle(h, written)
      PROVE  TypeOK'
  <2>1. h \in Handler
    BY DEF LaneType
  <2>2. h.kind = "config" => h.lane \in Lane
    BY <2>1 DEF Handler
  <2>3. fence' \in AnyLane /\ file' \in AnyLane
    BY <1>1, <2>2 DEF LaneType, Settle, Record, AnyLane
  <2>4. acked' \subseteq Lane
    BY <1>1, <2>2 DEF LaneType, Settle
  <2>5. h.kind = "config" => [socket |-> h.socket, lane |-> h.lane] \in Probe
    BY <2>1, <2>2 DEF Handler, Probe
  <2>6. probes' \subseteq Probe
    BY <1>1, <2>5 DEF LaneType, Settle
  <2>7. handlers' \subseteq Handler
    BY <1>1 DEF LaneType, Settle
  <2>8. LaneType'
    BY <1>1, <2>3, <2>4, <2>6, <2>7, Zenon DEF LaneType, Settle
  <2> QED
    BY <1>1, <2>8, SocketTypeStays DEF Settle
<1>2. ASSUME NEW h \in handlers, Overtaken(h)
      PROVE  TypeOK'
  <2>1. LaneType'
    BY <1>2 DEF LaneType, Overtaken, laneVars, hive
  <2> QED
    BY <1>2, <2>1, SocketTypeStays DEF Overtaken
<1>3. ASSUME NEW p \in probes, ProbeAnswers(p)
      PROVE  TypeOK'
  <2>1. p.lane \in AnyLane
    BY DEF LaneType, Probe, AnyLane
  <2>2. LaneType'
    BY <1>3, <2>1 DEF LaneType, ProbeAnswers, laneVars
  <2> QED
    BY <1>3, <2>2, SocketTypeStays DEF ProbeAnswers
<1> QED
  BY <1>1, <1>2, <1>3 DEF Continues

\* The first state has the types, ...
LEMMA InitTypes == Init => TypeOK
<1> SUFFICES ASSUME Init PROVE TypeOK
  OBVIOUS
<1>1. SocketType
  BY LinkAssumption DEF Init, SocketType
<1>2. FlagType
  BY DEF Init, FlagType
<1>3. LaneType
  BY Generations DEF Init, LaneType
<1> QED
  BY <1>1, <1>2, <1>3, TypeParts

\* ... and every step of the link keeps them.
LEMMA NextTypes == TypeOK /\ [Next]_vars => TypeOK'
<1> SUFFICES ASSUME TypeOK, [Next]_vars PROVE TypeOK'
  OBVIOUS
<1>1. CASE SocketEvents
  BY <1>1, SocketTypes DEF SocketEvents
<1>2. CASE UNCHANGED vars
  BY <1>2, TypeParts, LaneTypeStays, SocketTypeStays DEF vars
<1> QED
  BY <1>1, <1>2, LifeTypes, FrameTypes, ContinuationTypes DEF Next

\* Every variable of the link keeps its type.
THEOREM TypeCorrect == Spec => []TypeOK
BY InitTypes, NextTypes, PTL DEF Spec

-----------------------------------------------------------------------------
\* Linked is what OneLink says.
LEMMA LinkedIsOneLink == FlagType /\ Linked => OneLink
BY Zenon DEF FlagType, Linked, OneLink, HasOwn, HasUsable

\* A step that leaves the sockets alone keeps them linked.
LEMMA LinkedStays ==
  ASSUME Linked, UNCHANGED <<run, socketVars>>
  PROVE  Linked'
BY Zenon DEF Linked, HasOwn, HasUsable, socketVars

\* connect() numbers its socket above all others and makes it the current one.
LEMMA ConnectNumbers ==
  ASSUME SocketType, Numbered, Connect, handlers' = handlers
  PROVE  Numbered' /\ HasOwn'
<1>1. Numbered'
  BY DEF SocketType, Socket, Numbered, Connect
<1>2. HasOwn'
  <2> DEFINE new == [generation |-> socketGeneration + 1, phase |-> "connecting"]
  <2>1. new \in sockets' /\ new.generation = ws'
    BY DEF Connect
  <2> QED
    BY <2>1, Zenon DEF HasOwn
<1> QED
  BY <1>1, <1>2

\* A socket that changes phase keeps its number, and so its place.
LEMMA BecomesKeeps ==
  ASSUME SocketType, NEW s \in sockets, NEW phase, sockets' = Becomes(s, phase),
         ws' = ws
  PROVE  /\ HasOwn' <=> HasOwn
         /\ HasUsable /\ phase # "connecting" => HasUsable'
         /\ \A t \in sockets' : \E u \in sockets : t.generation = u.generation
<1> DEFINE new == [s EXCEPT !.phase = phase]
<1>1. new.generation = s.generation /\ new.phase = phase
  BY DEF SocketType, Socket
<1>2. sockets' = (sockets \ {s}) \cup {new}
  BY DEF Becomes
<1> HIDE DEF new
<1> QED
  BY <1>1, <1>2 DEF HasOwn, HasUsable

\* Starting, stopping, timers and crashes keep the link single.
LEMMA LifeLinks ==
  ASSUME SocketInv, Start \/ Stop \/ TimerFires \/ Crash
  PROVE  Numbered' /\ Linked'
<1>0. SocketType /\ Numbered /\ Linked
  BY TypeParts DEF SocketInv
<1>1. CASE Start
  <2>1. handlers' = handlers
    BY <1>1 DEF Start, pending
  <2>2. Numbered' /\ HasOwn'
    BY <1>0, <1>1, <2>1, ConnectNumbers DEF Start
  <2>3. ~reconnectTimer
    BY <1>0, <1>1 DEF Start, Linked
  <2>4. Linked'
    BY <1>1, <2>2, <2>3 DEF Start, Connect, Linked
  <2> QED
    BY <2>2, <2>4
<1>2. CASE Stop
  <2>1. Numbered'
    BY <1>0, <1>2 DEF SocketType, Numbered, Stop, pending
  <2>2. ~HasOwn'
    BY <1>0, <1>2 DEF Numbered, HasOwn, Stop
  <2>3. Linked'
    BY <1>2, <2>2 DEF Linked, Stop
  <2> QED
    BY <2>1, <2>3
<1>3. CASE TimerFires
  <2>1. handlers' = handlers
    BY <1>3 DEF TimerFires, pending
  <2>2. Numbered' /\ HasOwn'
    BY <1>0, <1>3, <2>1, ConnectNumbers DEF TimerFires
  <2>3. run = "running"
    BY <1>0, <1>3 DEF TimerFires, Linked
  <2>4. Linked'
    BY <1>3, <2>2, <2>3 DEF TimerFires, Connect, Linked
  <2> QED
    BY <2>2, <2>4
<1>4. CASE Crash
  <2>1. Numbered'
    BY <1>4 DEF Numbered, Crash
  <2>2. ~HasOwn'
    BY <1>4 DEF HasOwn, Crash
  <2>3. Linked'
    BY <1>4, <2>2 DEF Linked, Crash
  <2> QED
    BY <2>1, <2>3
<1> QED
  BY <1>1, <1>2, <1>3, <1>4

\* So do the events of sockets, those of sockets long replaced too.
LEMMA SocketLinks ==
  ASSUME SocketInv, NEW s \in sockets, Open(s) \/ RegisterAck(s) \/ Break(s) \/ Close(s)
  PROVE  Numbered' /\ Linked'
<1>0. SocketType /\ Numbered /\ Linked
  BY TypeParts DEF SocketInv
<1>1. CASE Open(s)
  <2>1. /\ HasOwn' <=> HasOwn
        /\ HasUsable => HasUsable'
        /\ \A t \in sockets' : \E u \in sockets : t.generation = u.generation
    BY <1>0, <1>1, BecomesKeeps DEF Open
  <2>2. Numbered'
    BY <1>0, <1>1, <2>1 DEF Numbered, Open, pending
  <2>3. Linked'
    BY <1>0, <1>1, <2>1, Zenon DEF Linked, Open
  <2> QED
    BY <2>2, <2>3
<1>2. CASE RegisterAck(s)
  <2>1. HasOwn' <=> HasOwn
    BY <1>2 DEF HasOwn, RegisterAck
  <2>2. HasUsable'
    BY <1>2 DEF HasUsable, RegisterAck, IsCurrent
  <2>3. Numbered'
    BY <1>0, <1>2 DEF Numbered, RegisterAck, pending
  <2>4. Linked'
    BY <1>0, <1>2, <2>1, <2>2, Zenon DEF Linked, RegisterAck
  <2> QED
    BY <2>3, <2>4
<1>3. CASE Break(s)
  <2>1. /\ HasOwn' <=> HasOwn
        /\ HasUsable => HasUsable'
        /\ \A t \in sockets' : \E u \in sockets : t.generation = u.generation
    BY <1>0, <1>3, BecomesKeeps DEF Break
  <2>2. Numbered'
    BY <1>0, <1>3, <2>1 DEF Numbered, Break, pending
  <2>3. Linked'
    BY <1>0, <1>3, <2>1, Zenon DEF Linked, Break
  <2> QED
    BY <2>2, <2>3
<1>4. CASE Close(s)
  <2>1. CASE IsCurrent(s.generation) /\ HandleClose
    <3>1. Numbered'
      BY <1>0, <1>4, <2>1 DEF SocketType, Numbered, Close, HandleClose, pending
    <3>2. ~HasOwn'
      BY <1>0, <1>4, <2>1 DEF Numbered, HasOwn, Close, HandleClose
    <3>3. Linked'
      BY <1>4, <2>1, <3>2, Zenon DEF Linked, Close, HandleClose, IsCurrent
    <3> QED
      BY <3>1, <3>3
  <2>2. CASE ~IsCurrent(s.generation) /\ UNCHANGED <<ws, connected, reconnectTimer>>
    <3>1. Numbered'
      BY <1>0, <1>4, <2>2 DEF Numbered, Close, pending
    <3>2. s.generation # ws
      BY <1>0, <2>2 DEF IsCurrent, Linked, HasOwn
    <3>3. /\ HasOwn' <=> HasOwn
          /\ HasUsable' <=> HasUsable
      BY <1>4, <2>2, <3>2 DEF HasOwn, HasUsable, Close
    <3>4. Linked'
      BY <1>0, <1>4, <2>2, <3>3, Zenon DEF Linked, Close
    <3> QED
      BY <3>1, <3>4
  <2> QED
    BY <1>4, <2>1, <2>2 DEF Close
<1> QED
  BY <1>1, <1>2, <1>3, <1>4

\* So do frames, whose handlers belong to the socket they came by, and
\* handlers and probes that go on.
LEMMA HandlerLinks ==
  ASSUME SocketInv,
         \/ Frames
         \/ \E h \in handlers : Continues(h)
         \/ \E p \in probes : ProbeAnswers(p)
  PROVE  Numbered' /\ Linked'
<1>0. Numbered /\ Linked
  BY DEF SocketInv
<1>1. ASSUME NEW s \in sockets, NEW lane \in Lane, Replay(s, lane)
      PROVE  Numbered' /\ Linked'
  BY <1>0, <1>1, LinkedStays DEF Numbered, Replay, socketVars
<1>2. ASSUME NEW s \in sockets, NEW kind, NEW lane, NEW ok,
             handlers' = handlers \cup {Awaiting(kind, s, lane, ok)},
             UNCHANGED <<run, socketVars>>
      PROVE  Numbered' /\ Linked'
  <2>1. Awaiting(kind, s, lane, ok).socket = s.generation
    BY DEF Awaiting
  <2>2. Numbered'
    BY <1>0, <1>2, <2>1 DEF Numbered, socketVars
  <2> QED
    BY <1>0, <1>2, <2>2, LinkedStays
<1>3. Frames => Numbered' /\ Linked'
  BY <1>1, <1>2 DEF Frames, Apply, Delete, Recover
<1>4. ASSUME NEW h \in handlers, Continues(h)
      PROVE  Numbered' /\ Linked'
  BY <1>0, <1>4, LinkedStays DEF Continues, Settle, Overtaken, Numbered, socketVars
<1>5. ASSUME NEW p \in probes, ProbeAnswers(p)
      PROVE  Numbered' /\ Linked'
  BY <1>0, <1>5, LinkedStays DEF ProbeAnswers, Numbered, socketVars
<1> QED
  BY <1>3, <1>4, <1>5

\* The numbering of sockets and the single link are kept by every step.
LEMMA SocketInvariance == Spec => []SocketInv
<1>1. Init => SocketInv
  <2> SUFFICES ASSUME Init PROVE SocketInv
    OBVIOUS
  <2>1. Numbered
    BY DEF Init, Numbered
  <2>2. ~HasOwn
    BY DEF Init, HasOwn
  <2>3. Linked
    BY <2>2 DEF Init, Linked
  <2> QED
    BY <2>1, <2>3, InitTypes DEF SocketInv
<1>2. SocketInv /\ [Next]_vars => SocketInv'
  <2> SUFFICES ASSUME SocketInv, [Next]_vars PROVE SocketInv'
    OBVIOUS
  <2>1. TypeOK'
    BY NextTypes DEF SocketInv
  <2>2. CASE UNCHANGED vars
    <3>1. Numbered'
      BY <2>2 DEF SocketInv, Numbered, vars, socketVars, pending
    <3>2. Linked'
      BY <2>2, LinkedStays DEF SocketInv, vars
    <3> QED
      BY <2>1, <3>1, <3>2 DEF SocketInv
  <2>3. CASE SocketEvents
    BY <2>1, <2>3, SocketLinks DEF SocketEvents, SocketInv
  <2> QED
    BY <2>1, <2>2, <2>3, LifeLinks, HandlerLinks DEF Next, SocketInv
<1> QED
  BY <1>1, <1>2, PTL DEF Spec

\* Late events of closed or replaced sockets neither tear a link down nor
\* make a second one (isCurrentSocket).
THEOREM SingleLink == Spec => []OneLink
<1>1. SocketInv => OneLink
  BY TypeParts, LinkedIsOneLink DEF SocketInv
<1> QED
  BY <1>1, SocketInvariance, PTL

-----------------------------------------------------------------------------
\* A step that changes only the sockets, and gives ws no number of a pending
\* handler, keeps the lanes in order.
LEMMA SocketsOnly ==
  ASSUME LaneInv, UNCHANGED <<laneVars, pending, hive>>,
         ws' = ws \/ \A h \in handlers : h.socket # ws'
  PROVE  LaneInv'
<1>1. UNCHANGED <<fence, file, config, exists, handlers, acked, reported>>
  BY DEF laneVars, pending, hive
<1>2. HandlersGood'
  BY <1>1 DEF LaneInv, HandlersGood, Live, AtMost
<1> QED
  BY <1>1, <1>2 DEF LaneInv, AckedIsDurable, FenceIsApplied

\* Starting, stopping, timers and the events of sockets are such steps.
LEMMA LinkLanes ==
  ASSUME SocketInv, LaneInv, Start \/ Stop \/ TimerFires \/ SocketEvents
  PROVE  LaneInv'
<1>1. /\ ws \in Nat /\ socketGeneration \in Nat
      /\ \A h \in handlers : h.socket \in 1..socketGeneration
  BY DEF SocketInv, TypeOK, Numbered
<1>2. UNCHANGED <<laneVars, pending, hive>>
  BY DEF Start, Stop, TimerFires, SocketEvents, Open, RegisterAck, Break, Close
<1>3. ws' \in {ws, 0, socketGeneration + 1}
  BY DEF Start, Stop, TimerFires, Connect, SocketEvents, Open, RegisterAck,
         Break, Close, HandleClose
<1>4. ws' = ws \/ \A h \in handlers : h.socket # ws'
  BY <1>1, <1>3
<1> QED
  BY <1>2, <1>4, SocketsOnly

\* A crash leaves the file, which readRuntimeLaneFences() reads, and no handler.
LEMMA CrashLanes ==
  ASSUME LaneInv, Crash
  PROVE  LaneInv'
<1>1. /\ fence' = fence
      /\ UNCHANGED <<file, config, exists, acked, reported>>
      /\ handlers' = {}
  BY DEF LaneInv, Crash, hive
<1>2. HandlersGood'
  BY <1>1 DEF HandlersGood
<1> QED
  BY <1>1, <1>2 DEF LaneInv, AckedIsDurable, FenceIsApplied

\* A replayed lane is the fence's, and so the file's.
LEMMA ReplayLanes ==
  ASSUME LaneInv, NEW s \in sockets, NEW lane \in Lane, Replay(s, lane)
  PROVE  LaneInv'
<1>1. /\ UNCHANGED <<ws, fence, file, config, exists, handlers, reported>>
      /\ acked' = acked \cup {lane} /\ lane = fence
  BY DEF Replay, socketVars, laneVars
<1>2. HandlersGood'
  BY <1>1 DEF LaneInv, HandlersGood, Live, AtMost
<1>3. AckedIsDurable'
  BY <1>1 DEF LaneInv, AckedIsDurable
<1> QED
  BY <1>1, <1>2, <1>3 DEF LaneInv, FenceIsApplied

\* A lane that is applied is above the fence, and alone on its socket.
LEMMA ApplyLanes ==
  ASSUME ~Overlap, SocketInv, LaneInv,
         NEW s \in sockets, NEW lane \in Lane, NEW ok \in BOOLEAN, Apply(s, lane, ok)
  PROVE  LaneInv'
<1> DEFINE new == Awaiting("config", s, lane, ok)
<1>1. /\ UNCHANGED <<ws, fence, file, exists, acked, reported>>
      /\ handlers' = handlers \cup {new}
      /\ config' = IF ok THEN lane ELSE config
  BY DEF Apply, socketVars, hive
<1>2. /\ new.kind = "config" /\ new.socket = ws
      /\ new.lane = lane /\ new.ok = ok
  BY DEF Apply, Delivered, IsCurrent, Awaiting
<1>3. lane.generation > fence.generation
  BY Passes DEF SocketInv, Apply
<1>4. \A h \in handlers : ~Live(h)
  BY DEF Apply, Delivered, IsCurrent, Busy, Live
<1> HIDE DEF new
<1>5. \A h \in handlers' : Live(h)' => h = new
  BY <1>1, <1>4 DEF Live
<1>6. Live(new)' => new.lane.generation > fence'.generation
  BY <1>1, <1>2, <1>3
<1>7. new.ok => AtMost(new.lane, config')
  BY <1>1, <1>2 DEF AtMost
<1>8. HandlersGood'
  BY <1>5, <1>6, <1>7, Zenon DEF HandlersGood, AtMost
<1>9. FenceIsApplied'
  <2>1. CASE ok
    BY <1>1, <1>3, <2>1 DEF FenceIsApplied
  <2>2. CASE ~ok
    BY <1>1, <2>2 DEF LaneInv, FenceIsApplied
  <2> QED
    BY <2>1, <2>2
<1> QED
  BY <1>1, <1>8, <1>9 DEF LaneInv, AckedIsDurable

\* A deletion or a recovery touches no lane.
LEMMA OtherLanes ==
  ASSUME LaneInv, NEW h, h.kind # "config", handlers' = handlers \cup {h},
         UNCHANGED <<socketVars, fence, file, config, hive>>, exists' => exists
  PROVE  LaneInv'
<1>1. UNCHANGED <<ws, acked, reported>>
  BY DEF socketVars, hive
<1>2. \A k \in handlers' : Live(k)' => k \in handlers /\ Live(k)
  BY <1>1 DEF Live
<1>3. HandlersGood'
  BY <1>1, <1>2, Zenon DEF LaneInv, HandlersGood, AtMost
<1>4. FenceIsApplied'
  BY Zenon DEF LaneInv, FenceIsApplied
<1> QED
  BY <1>1, <1>3, <1>4 DEF LaneInv, AckedIsDurable

\* Every frame keeps the lanes in order.
LEMMA FrameLanes ==
  ASSUME ~Overlap, SocketInv, LaneInv, Frames
  PROVE  LaneInv'
<1>1. ASSUME NEW s \in sockets, NEW ok \in BOOLEAN, Delete(s, ok)
      PROVE  LaneInv'
  <2>1. Awaiting("delete", s, NoLane, ok).kind # "config"
    BY DEF Awaiting
  <2>2. exists' => exists
    BY <1>1, Zenon DEF Delete
  <2> QED
    BY <1>1, <2>1, <2>2, OtherLanes DEF Delete
<1>2. ASSUME NEW s \in sockets, Recover(s)
      PROVE  LaneInv'
  <2>1. Awaiting("recovery", s, NoLane, TRUE).kind # "config"
    BY DEF Awaiting
  <2>2. UNCHANGED <<fence, file, config, exists>>
    BY <1>2 DEF Recover, laneVars
  <2>3. exists' => exists
    BY <2>2, Zenon
  <2> QED
    BY <1>2, <2>1, <2>2, <2>3, OtherLanes DEF Recover
<1> QED
  BY <1>1, <1>2, ReplayLanes, ApplyLanes DEF Frames

\* A handler that goes on records a lane above the fence that the daemon has,
\* and no other handler of its socket can record one.
LEMMA SettleLanes ==
  ASSUME SocketInv, LaneInv, NEW h \in handlers, NEW written \in BOOLEAN,
         Settle(h, written)
  PROVE  LaneInv'
<1>1. /\ UNCHANGED <<ws, config, exists, reported>>
      /\ handlers' = handlers \ {h}
      /\ h.socket = ws
  BY DEF Settle, socketVars, IsCurrent
<1>2. h \in Handler /\ fence \in AnyLane /\ reported \in AnyLane /\ acked \subseteq Lane
  BY DEF SocketInv, TypeOK, AnyLane
<1>3. CASE h.kind = "config" /\ h.ok /\ written
  <2>1. /\ fence' = h.lane /\ file' = h.lane
        /\ acked' \subseteq acked \cup {h.lane}
    BY <1>3 DEF Settle, Record
  <2>2. Live(h)
    BY <1>1, <1>3 DEF Live
  <2>3. h.lane \in Lane /\ h.lane.generation > fence.generation
    BY <1>2, <1>3, <2>2 DEF Handler, LaneInv, HandlersGood
  <2>4. \A k \in handlers' : ~Live(k)'
    BY <1>1, <2>2 DEF LaneInv, HandlersGood, Live
  <2>5. HandlersGood'
    BY <2>4, Zenon DEF HandlersGood
  <2>6. AckedIsDurable'
    <3>1. \A lane \in acked : lane.generation < h.lane.generation
      BY <1>2, <2>3, Generations DEF LaneInv, AckedIsDurable, AnyLane
    <3> QED
      BY <2>1, <3>1 DEF AckedIsDurable
  <2>7. exists => AtMost(h.lane, config)
    BY <1>3, <2>2, Zenon DEF LaneInv, HandlersGood
  <2>8. FenceIsApplied'
    BY <1>1, <2>1, <2>7, Zenon DEF FenceIsApplied, AtMost
  <2>9. reported'.generation <= fence'.generation
    BY <1>1, <1>2, <2>1, <2>3, Generations DEF LaneInv, AnyLane
  <2> QED
    BY <2>1, <2>5, <2>6, <2>8, <2>9 DEF LaneInv
<1>4. CASE ~(h.kind = "config" /\ h.ok /\ written)
  <2>1. UNCHANGED <<fence, file, acked>>
    BY <1>4 DEF Settle, Record
  <2>2. HandlersGood'
    BY <1>1, <2>1, Zenon DEF LaneInv, HandlersGood, Live, AtMost
  <2>3. FenceIsApplied'
    BY <1>1, <2>1, Zenon DEF LaneInv, FenceIsApplied
  <2> QED
    BY <1>1, <2>1, <2>2, <2>3 DEF LaneInv, AckedIsDurable
<1> QED
  BY <1>3, <1>4

\* A handler of a lost socket, and a probe, record nothing; a probe reports the
\* fence's lane or none.
LEMMA EndLanes ==
  ASSUME SocketInv, LaneInv,
         \/ \E h \in handlers : Overtaken(h)
         \/ \E p \in probes : ProbeAnswers(p)
  PROVE  LaneInv'
<1>1. /\ UNCHANGED <<ws, fence, file, config, exists, acked>>
      /\ handlers' \subseteq handlers
  BY DEF Overtaken, ProbeAnswers, socketVars, laneVars, hive
<1>2. reported' = reported \/ reported' = fence
  BY DEF Overtaken, ProbeAnswers, hive, StillApplied
<1>3. HandlersGood'
  BY <1>1, Zenon DEF LaneInv, HandlersGood, Live, AtMost
<1>4. FenceIsApplied'
  BY <1>1, Zenon DEF LaneInv, FenceIsApplied
<1>5. fence.generation \in Nat
  BY Generations DEF SocketInv, TypeOK, AnyLane
<1> QED
  BY <1>1, <1>2, <1>3, <1>4, <1>5 DEF LaneInv, AckedIsDurable

\* Every step keeps the lanes in order, when they are applied one at a time.
LEMMA LaneStep ==
  ASSUME ~Overlap, SocketInv, LaneInv, [Next]_vars
  PROVE  LaneInv'
<1>1. CASE UNCHANGED vars
  BY <1>1, SocketsOnly DEF vars, socketVars
<1>2. CASE \E h \in handlers : Continues(h)
  BY <1>2, SettleLanes, EndLanes DEF Continues
<1> QED
  BY <1>1, <1>2, LinkLanes, CrashLanes, FrameLanes, EndLanes DEF Next

\* The lanes are in order from the start.
LEMMA LaneInit == Init => LaneInv
BY Generations DEF Init, LaneInv, HandlersGood, AckedIsDurable, FenceIsApplied

\* Together they are an invariant.
LEMMA LaneInvariance ==
  ASSUME ~Overlap
  PROVE  Spec => []LaneInv
<1>1. SocketInv /\ LaneInv /\ [Next]_vars => LaneInv'
  BY LaneStep
<1> QED
  BY <1>1, LaneInit, SocketInvariance, PTL DEF Spec

\* A lane that Hive was told is applied is in the file or superseded there.
THEOREM AckedDurable ==
  ASSUME ~Overlap
  PROVE  Spec => []AckedIsDurable
<1>1. LaneInv => AckedIsDurable
  BY DEF LaneInv
<1> QED
  BY <1>1, LaneInvariance, PTL

\* The fence never runs ahead of the agent's configuration.
THEOREM FenceApplied ==
  ASSUME ~Overlap
  PROVE  Spec => []FenceIsApplied
<1>1. LaneInv => FenceIsApplied
  BY DEF LaneInv
<1> QED
  BY <1>1, LaneInvariance, PTL

\* Hive hears of no older lane's health after a newer one's.
THEOREM HealthOrdered ==
  ASSUME ~Overlap
  PROVE  Spec => HealthNotOlder
<1>1. SocketInv /\ LaneInv /\ [Next]_vars => (reported'.generation >= reported.generation \/ UNCHANGED vars)
  <2> SUFFICES ASSUME SocketInv, LaneInv, Next
               PROVE  reported'.generation >= reported.generation
    OBVIOUS
  <2>1. reported' = reported \/ reported' = fence
    BY DEF Next, Start, Stop, TimerFires, Crash, SocketEvents, Open,
           RegisterAck, Break, Close, Frames, Replay, Apply, Delete, Recover,
           Continues, Settle, Overtaken, ProbeAnswers, StillApplied, hive
  <2>2. reported.generation \in Nat /\ fence.generation \in Nat
    BY Generations DEF SocketInv, TypeOK, AnyLane
  <2> QED
    BY <2>1, <2>2 DEF LaneInv
<1>2. SocketInv /\ LaneInv /\ [Next]_vars => [reported'.generation >= reported.generation]_vars
  BY <1>1
<1> QED
  BY <1>2, LaneInvariance, SocketInvariance, PTL DEF Spec, HealthNotOlder
=============================================================================
