---------------------------- MODULE ConnectProofs ----------------------------
(***************************************************************************)
(* Proofs about the delivery and acknowledgement of Connect messages, for  *)
(* every set of messages, window, replay cap, and number of lost           *)
(* connections and restarts.                                               *)
(***************************************************************************)
EXTENDS ConnectDelivery, WellFoundedInduction, TLAPS

\* What ackProcessed may be called with, and what the ledger knows of the
\* message in the loop at each stage.
StageRecorded ==
  /\ stage = "recorded" => ledger[hand] = "completed"
  /\ stage \in {"turn", "ran", "cleared"} => ledger[hand] # "completed"
  /\ stage \in {"cleared", "recorded"} => hand \notin deferred

\* The client knows only of messages the server has stored.
OnlyPosted ==
  /\ \A i \in DOMAIN wire : wire[i].message \in Elems(posted)
  /\ Elems(recentInboundMessageIds) \subseteq Elems(posted)

IInv ==
  /\ TypeOK
  /\ OnlyPosted
  /\ StageRecorded
  /\ AckMeansCompleted
  /\ DirectNotLost
  /\ DeferredIsQueued

(***************************************************************************)
(* The sequences.                                                          *)
(***************************************************************************)

\* Every non-empty set of naturals has a least element.  The lemmas on Filter
\* use it as their induction principle: a least counterexample is contradictory.
LEMMA LeastNat ==
  ASSUME NEW T, T \subseteq Nat, T # {}
  PROVE  \E m \in T : \A n \in T : m <= n
<1> DEFINE R == OpToRel(<, Nat)
<1>1. IsWellFoundedOn(R, Nat)
  BY NatLessThanWellFounded
<1>2. \A y, m \in Nat : <<y, m>> \in R <=> y < m
  BY DEF OpToRel
<1> HIDE DEF R
<1>3. PICK m \in T : \A y \in T : ~(<<y, m>> \in R)
  BY <1>1, WFMin
<1>4. \A y \in T : ~(y < m)
  BY <1>2, <1>3, Zenon
<1>5. \A n \in T : m <= n
  BY <1>4
<1> QED
  BY <1>5

\* One unfolding of the recursive definition of FilterFcn.
IsFilterFcn(f, s, S, k) ==
  f = [n \in 0..k |-> IF n = 0 THEN << >>
                      ELSE IF s[n] \in S THEN Append(f[n - 1], s[n])
                      ELSE f[n - 1]]

LEMMA FilterFcnExists ==
  ASSUME NEW s, NEW S, NEW k \in Nat
  PROVE  \E f : IsFilterFcn(f, s, S, k)
<1> DEFINE T == {n \in Nat : ~ \E f : IsFilterFcn(f, s, S, n)}
<1> SUFFICES ASSUME T # {} PROVE FALSE
  OBVIOUS
<1>1. PICK m \in T : \A n \in T : m <= n
  <2>1. T \subseteq Nat
    OBVIOUS
  <2> HIDE DEF T
  <2> QED
    BY <2>1, LeastNat
<1>2. m # 0
  <2>1. IsFilterFcn([n \in 0..0 |-> << >>], s, S, 0)
    BY DEF IsFilterFcn
  <2> QED
    BY <1>1, <2>1
<1>3. m - 1 \in Nat /\ m - 1 \notin T
  BY <1>1, <1>2
<1>4. PICK g : IsFilterFcn(g, s, S, m - 1)
  BY <1>3
<1> DEFINE v == IF s[m] \in S THEN Append(g[m - 1], s[m]) ELSE g[m - 1]
           h == [n \in 0..m |-> IF n = m THEN v ELSE g[n]]
<1>5. /\ DOMAIN g = 0..(m - 1)
      /\ \A n \in 0..(m - 1) : g[n] = IF n = 0 THEN << >>
                                      ELSE IF s[n] \in S THEN Append(g[n - 1], s[n])
                                      ELSE g[n - 1]
  BY <1>4 DEF IsFilterFcn
<1>6. h[m] = v /\ \A n \in 0..(m - 1) : h[n] = g[n]
  BY <1>3
<1>7. h = [n \in 0..m |-> h[n]]
  OBVIOUS
<1>8. ASSUME NEW n \in 0..m
      PROVE  h[n] = IF n = 0 THEN << >>
                    ELSE IF s[n] \in S THEN Append(h[n - 1], s[n])
                    ELSE h[n - 1]
  <2> HIDE DEF h
  <2>1. CASE n = m
    BY <2>1, <1>2, <1>3, <1>6
  <2>2. CASE n # m /\ n # 0
    <3>1. n \in 0..(m - 1) /\ n - 1 \in 0..(m - 1)
      BY <2>2, <1>3
    <3> QED
      BY <3>1, <2>2, <1>5, <1>6
  <2>3. CASE n = 0
    <3>1. 0 \in 0..(m - 1)
      BY <1>3
    <3> QED
      BY <3>1, <2>3, <1>5, <1>6
  <2> QED
    BY <2>1, <2>2, <2>3
<1>9. IsFilterFcn(h, s, S, m)
  <2> HIDE DEF h
  <2> QED
    BY <1>7, <1>8 DEF IsFilterFcn
<1> QED
  BY <1>9, <1>1

LEMMA FilterFcnUnfolds ==
  ASSUME NEW s, NEW S, Len(s) \in Nat
  PROVE  IsFilterFcn(FilterFcn(s, S), s, S, Len(s))
<1>1. \E f : IsFilterFcn(f, s, S, Len(s))
  BY FilterFcnExists
<1> QED
  BY <1>1 DEF FilterFcn, IsFilterFcn

\* Filter keeps elements of its sequence.
LEMMA FilterType ==
  ASSUME NEW E, NEW s \in Seq(E), NEW S
  PROVE  Filter(s, S) \in Seq(E)
<1> DEFINE F == FilterFcn(s, S)
           T == {n \in Nat : n <= Len(s) /\ F[n] \notin Seq(E)}
<1>1. \A n \in 0..Len(s) : F[n] = IF n = 0 THEN << >>
                                  ELSE IF s[n] \in S THEN Append(F[n - 1], s[n])
                                  ELSE F[n - 1]
  <2>1. IsFilterFcn(F, s, S, Len(s))
    BY FilterFcnUnfolds
  <2> HIDE DEF F
  <2> QED
    BY <2>1 DEF IsFilterFcn
<1> HIDE DEF F
<1>2. ASSUME T # {} PROVE FALSE
  <2>1. PICK n \in T : \A i \in T : n <= i
    <3>1. T \subseteq Nat
      OBVIOUS
    <3> HIDE DEF T
    <3> QED
      BY <1>2, <3>1, LeastNat
  <2>2. F[0] = << >> /\ << >> \in Seq(E) /\ Len(s) \in Nat
    BY <1>1
  <2>3. n \in 1..Len(s) /\ n - 1 \in 0..Len(s) /\ n - 1 \in Nat
    <3>1. n \in Nat /\ n <= Len(s) /\ F[n] \notin Seq(E)
      BY <2>1
    <3>2. n # 0
      BY <2>2, <3>1
    <3> QED
      BY <2>2, <3>1, <3>2
  <2>4. F[n - 1] \in Seq(E)
    BY <2>1, <2>3
  <2>5. F[n] = IF s[n] \in S THEN Append(F[n - 1], s[n]) ELSE F[n - 1]
    BY <1>1, <2>3
  <2>6. F[n] \in Seq(E)
    BY <2>3, <2>4, <2>5
  <2> QED
    BY <2>6
<1>3. F[Len(s)] \in Seq(E)
  BY <1>2
<1> QED
  BY <1>3 DEF Filter, F

LEMMA AppendElems ==
  ASSUME NEW E, NEW s \in Seq(E), NEW e \in E
  PROVE  Elems(Append(s, e)) = Elems(s) \cup {e}
<1> DEFINE t == Append(s, e)
<1>1. /\ DOMAIN t = 1..(Len(s) + 1) /\ t[Len(s) + 1] = e
      /\ DOMAIN s = 1..Len(s)
      /\ \A i \in 1..Len(s) : t[i] = s[i]
  OBVIOUS
<1> HIDE DEF t
<1>2. Elems(t) = Elems(s) \cup {e}
  BY <1>1 DEF Elems
<1> QED
  BY <1>2 DEF t

\* The replay sends whole frames of stored messages.
LEMMA ReplayType ==
  ASSUME posted \in Seq(Messages)
  PROVE  /\ Replay \in Seq(Frames)
         /\ \A i \in DOMAIN Replay : Replay[i].message \in Elems(posted)
<1> DEFINE R == Filter(posted, Elems(posted) \ acked)
<1>1. R \in Seq(Elems(posted)) /\ Elems(posted) \subseteq Messages
  <2>1. posted \in Seq(Elems(posted)) /\ Elems(posted) \subseteq Messages
    BY DEF Elems
  <2> QED
    BY <2>1, FilterType
<1>2. Replay = [i \in DOMAIN R |-> Frame(R[i], "missed_message")]
  BY DEF Replay
<1> HIDE DEF R
<1>3. /\ DOMAIN R = 1..Len(R) /\ Len(R) \in Nat
      /\ \A i \in 1..Len(R) : R[i] \in Elems(posted) /\ R[i] \in Messages
  BY <1>1
<1> QED
  BY <1>2, <1>3 DEF Frame, Frames

\* The window gains m and gains nothing else.
LEMMA RememberedWindow ==
  ASSUME recentInboundMessageIds \in Seq(Messages), NEW m \in Messages,
         Window \in Nat \ {0}
  PROVE  /\ Remembered(m) \in Seq(Messages)
         /\ Elems(Remembered(m)) \subseteq Elems(recentInboundMessageIds) \cup {m}
<1> DEFINE s == Append(recentInboundMessageIds, m)
<1>1. s \in Seq(Messages) /\ Len(s) = Len(recentInboundMessageIds) + 1
  OBVIOUS
<1>2. Elems(s) = Elems(recentInboundMessageIds) \cup {m}
  BY AppendElems
<1>3. Remembered(m) = IF Len(s) > Window THEN Tail(s) ELSE s
  BY DEF Remembered
<1> HIDE DEF s
<1>4. Tail(s) \in Seq(Messages) /\ Elems(Tail(s)) \subseteq Elems(s)
  <2>1. s # << >>
    BY <1>1
  <2>2. /\ Tail(s) \in Seq(Messages)
        /\ DOMAIN Tail(s) = 1..(Len(s) - 1)
        /\ \A i \in 1..(Len(s) - 1) : Tail(s)[i] = s[i + 1] /\ i + 1 \in DOMAIN s
    BY <1>1, <2>1
  <2> QED
    BY <2>2 DEF Elems
<1> QED
  BY <1>1, <1>2, <1>3, <1>4

\* shift() of a non-empty sequence.
LEMMA HeadTail ==
  ASSUME NEW E, NEW s \in Seq(E), s # << >>
  PROVE  Head(s) \in E /\ Tail(s) \in Seq(E)
OBVIOUS

(***************************************************************************)
(* Type correctness.                                                       *)
(***************************************************************************)
LEMMA TypeStep ==
  ASSUME TypeOK, Next
  PROVE  TypeOK'
<1> USE ConnectAssumption
<1>1. ASSUME NEW m \in Messages, Post(m)
      PROVE  TypeOK'
  <2>1. Frame(m, "new_message") \in Frames
    BY DEF Frame, Frames
  <2>2. Append(wire, Frame(m, "new_message"))
          \in Seq(Frames)
    BY <2>1 DEF TypeOK
  <2>3. posted' \in Seq(Messages) /\ wire' \in Seq(Frames)
    BY <1>1, <2>2 DEF Post, TypeOK
  <2> QED
    BY <1>1, <2>3 DEF Post, TypeOK, clientVars, loopVars, durable, counters
<1>2. ASSUME NEW m \in Messages, AckArrives(m)
      PROVE  TypeOK'
  BY <1>2 DEF AckArrives, TypeOK, clientVars, loopVars, durable, counters
<1>3. ASSUME NEW m \in Messages, DropNotice(m)
      PROVE  TypeOK'
  BY <1>3 DEF DropNotice, TypeOK, serverVars, socketVars, clientVars, loopVars, durable, counters
<1>4. CASE Connect
  BY <1>4, ReplayType DEF Connect, TypeOK, serverVars, loopVars, durable, counters
<1>5. CASE Lose
  BY <1>5 DEF Lose, TypeOK, serverVars, clientVars, loopVars, durable
<1>6. CASE Restart
  BY <1>6 DEF Restart, Restored, Settled, TypeOK, Stage, serverVars, durable
<1>7. CASE Receive
  <2>1. /\ Tail(wire) \in Seq(Frames)
        /\ Head(wire).message \in Messages
        /\ NextFrame
    <3>1. NextFrame
      BY <1>7 DEF Receive, SuppressDuplicate, DropAtIngress, Admit
    <3>2. wire \in Seq(Frames) /\ wire # << >>
      BY <3>1 DEF NextFrame, TypeOK
    <3>3. Head(wire) \in Frames /\ Tail(wire) \in Seq(Frames)
      BY <3>2, HeadTail
    <3> QED
      BY <3>1, <3>3 DEF Frames
  <2>2. CASE SuppressDuplicate
    BY <2>1, <2>2 DEF SuppressDuplicate, NextFrame, TypeOK, serverVars, clientVars, loopVars,
                      durable, counters
  <2>3. CASE DropAtIngress
    <3>1. /\ recentInboundMessageIds' = Remembered(Head(wire).message)
          /\ dropped' = dropped \cup {Head(wire).message}
          /\ UNCHANGED <<ackWire, missedReplayAccepted, pending>>
      BY <2>3 DEF DropAtIngress
    <3>2. recentInboundMessageIds' \in Seq(Messages)
      BY <2>1, <3>1, RememberedWindow DEF TypeOK
    <3> QED
      BY <2>1, <3>1, <3>2 DEF NextFrame, TypeOK, serverVars, loopVars, durable, counters
  <2>4. CASE Admit
    <3> DEFINE m == Head(wire).message
    <3>1. /\ recentInboundMessageIds' = Remembered(m)
          /\ missedReplayAccepted' =
               missedReplayAccepted + IF Head(wire).type = "missed_message" THEN 1 ELSE 0
          /\ pending' = IF m \in Probes THEN pending ELSE [pending EXCEPT ![m] = @ + 1]
          /\ ackWire' = IF m \in Probes \cup Notices THEN AckSent(m) ELSE ackWire
          /\ UNCHANGED dropped
      BY <2>4 DEF Admit
    <3>2. m \in Messages
      BY <2>1
    <3> HIDE DEF m
    <3>3. recentInboundMessageIds' \in Seq(Messages)
      BY <3>1, <3>2, RememberedWindow DEF TypeOK
    <3>4. missedReplayAccepted' \in Nat /\ pending' \in [Messages -> Nat]
      BY <3>1, <3>2 DEF TypeOK
    <3>5. ackWire' \subseteq Messages
      BY <3>1, <3>2 DEF TypeOK, AckSent
    <3> QED
      BY <2>1, <3>1, <3>3, <3>4, <3>5 DEF NextFrame, TypeOK, serverVars, loopVars, durable,
                                         counters
  <2> QED
    BY <1>7, <2>2, <2>3, <2>4 DEF Receive
<1>8. ASSUME NEW m \in Messages, AckReplay(m)
      PROVE  TypeOK'
  BY <1>8 DEF AckReplay, Dequeue, AckSent, TypeOK, serverVars, clientVars, loopVars, counters
<1>9. ASSUME NEW m \in Messages, StartTurn(m)
      PROVE  TypeOK'
  BY <1>9 DEF StartTurn, Dequeue, TypeOK, Stage, serverVars, socketVars, clientVars, counters
<1>10. CASE EndTurn
  BY <1>10 DEF EndTurn, TypeOK, Stage, serverVars, socketVars, clientVars, durable, counters
<1>11. CASE DeferInput \/ PutBackInput
  <2>1. hand \in Messages
    BY <1>11 DEF DeferInput, PutBackInput, TypeOK
  <2>2. pending' = [pending EXCEPT ![hand] = @ + 1]
    BY <1>11 DEF DeferInput, PutBackInput, Requeued
  <2>3. pending' \in [Messages -> Nat]
    BY <2>1, <2>2 DEF TypeOK
  <2> QED
    BY <1>11, <2>1, <2>3 DEF DeferInput, PutBackInput, Settled, TypeOK, Stage, serverVars,
                             socketVars, clientVars, durable, counters
<1>12. CASE DeferRefused \/ AbandonInput
  BY <1>12 DEF DeferRefused, AbandonInput, Settled, TypeOK, Stage, serverVars, socketVars,
               clientVars, durable, counters
<1>13. CASE ClearDeferred
  BY <1>13 DEF ClearDeferred, TypeOK, Stage, serverVars, socketVars, clientVars, counters
<1>14. CASE RecordCompleted
  BY <1>14 DEF RecordCompleted, TypeOK, Stage, serverVars, socketVars, clientVars, counters
<1>15. CASE SendAck
  BY <1>15 DEF SendAck, Ackable, Settled, AckSent, TypeOK, Stage, serverVars, clientVars,
               durable, counters
<1> QED
  BY <1>1, <1>2, <1>3, <1>4, <1>5, <1>6, <1>7, <1>8, <1>9, <1>10, <1>11, <1>12, <1>13,
     <1>14, <1>15 DEF Next, Take, Settle
(***************************************************************************)
(* The ledger and the acknowledgements.                                    *)
(***************************************************************************)
LEMMA LedgerStep ==
  ASSUME TypeOK, StageRecorded, AckMeansCompleted, Next
  PROVE  StageRecorded' /\ AckMeansCompleted'
<1> USE ConnectAssumption
<1>1. ASSUME NEW m \in Messages, Post(m) \/ AckArrives(m) \/ DropNotice(m)
      PROVE  StageRecorded' /\ AckMeansCompleted'
  BY <1>1 DEF Post, AckArrives, DropNotice, StageRecorded, AckMeansCompleted, serverVars,
              socketVars, loopVars, durable
<1>2. CASE Connect \/ Lose
  BY <1>2 DEF Connect, Lose, StageRecorded, AckMeansCompleted, serverVars, loopVars, durable
<1>3. CASE Restart
  BY <1>3 DEF Restart, Settled, StageRecorded, AckMeansCompleted, serverVars, durable
<1>4. CASE SuppressDuplicate \/ DropAtIngress
  BY <1>4 DEF SuppressDuplicate, DropAtIngress, NextFrame, StageRecorded, AckMeansCompleted,
              serverVars, loopVars, durable
<1>5. CASE Admit
  <2>1. ackWire' \subseteq ackWire \cup Probes \cup Notices
    BY <1>5 DEF Admit, AckSent
  <2> QED
    BY <1>5, <2>1 DEF Admit, NextFrame, StageRecorded, AckMeansCompleted, serverVars, loopVars,
                      durable
<1>6. ASSUME NEW m \in Messages, AckReplay(m)
      PROVE  StageRecorded' /\ AckMeansCompleted'
  BY <1>6 DEF AckReplay, Dequeue, Completed, AckSent, TypeOK, StageRecorded, AckMeansCompleted,
              serverVars, loopVars
<1>7. ASSUME NEW m \in Messages, StartTurn(m)
      PROVE  StageRecorded' /\ AckMeansCompleted'
  BY <1>7 DEF StartTurn, Dequeue, Completed, TypeOK, StageRecorded, AckMeansCompleted,
              serverVars, socketVars
<1>8. CASE EndTurn
  BY <1>8 DEF EndTurn, TypeOK, StageRecorded, AckMeansCompleted, serverVars, socketVars, durable
<1>9. CASE DeferInput \/ DeferRefused \/ AbandonInput \/ PutBackInput
  BY <1>9 DEF DeferInput, DeferRefused, AbandonInput, PutBackInput, Settled, StageRecorded,
              AckMeansCompleted, serverVars, socketVars, durable
<1>10. CASE ClearDeferred
  BY <1>10 DEF ClearDeferred, StageRecorded, AckMeansCompleted, serverVars, socketVars
<1>11. CASE RecordCompleted
  BY <1>11 DEF RecordCompleted, TypeOK, StageRecorded, AckMeansCompleted, serverVars, socketVars
<1>12. CASE SendAck
  BY <1>12 DEF SendAck, Ackable, AckSent, Settled, StageRecorded, AckMeansCompleted, serverVars,
               durable
<1> QED
  BY <1>1, <1>2, <1>3, <1>4, <1>5, <1>6, <1>7, <1>8, <1>9, <1>10, <1>11, <1>12
     DEF Next, Receive, Take, Settle

(***************************************************************************)
(* What the client knows of.                                               *)
(***************************************************************************)
LEMMA PostedStep ==
  ASSUME TypeOK, OnlyPosted, Next
  PROVE  OnlyPosted' /\ Elems(posted) \subseteq Elems(posted')
<1> USE ConnectAssumption
<1>1. ASSUME NEW m \in Messages, Post(m)
      PROVE  OnlyPosted' /\ Elems(posted) \subseteq Elems(posted')
  <2>1. Elems(posted') = Elems(posted) \cup {m}
    BY <1>1, AppendElems DEF Post, TypeOK
  <2>2. \A i \in DOMAIN wire' : wire'[i].message \in Elems(posted) \cup {m}
    <3>1. CASE wire' = wire
      BY <3>1 DEF OnlyPosted
    <3>2. CASE wire' = Append(wire, Frame(m, "new_message"))
      <4>1. /\ DOMAIN wire' = 1..(Len(wire) + 1) /\ DOMAIN wire = 1..Len(wire)
            /\ Len(wire) \in Nat
            /\ wire'[Len(wire) + 1] = Frame(m, "new_message")
            /\ \A i \in 1..Len(wire) : wire'[i] = wire[i]
        BY <3>2 DEF TypeOK
      <4>2. Frame(m, "new_message").message = m
        BY DEF Frame
      <4> QED
        BY <4>1, <4>2 DEF OnlyPosted
    <3> QED
      BY <1>1, <3>1, <3>2 DEF Post
  <2> QED
    BY <1>1, <2>1, <2>2 DEF Post, OnlyPosted, clientVars
<1>2. CASE Connect
  <2>1. /\ wire' = Replay /\ posted' = posted
        /\ recentInboundMessageIds' = recentInboundMessageIds
    BY <1>2 DEF Connect, serverVars
  <2>2. \A i \in DOMAIN Replay : Replay[i].message \in Elems(posted)
    BY ReplayType DEF TypeOK
  <2> QED
    BY <2>1, <2>2 DEF OnlyPosted
<1>3. CASE Lose \/ Restart
  <2>1. /\ wire' = << >> /\ posted' = posted
        /\ \/ recentInboundMessageIds' = recentInboundMessageIds
           \/ recentInboundMessageIds' = << >>
    BY <1>3 DEF Lose, Restart, serverVars, clientVars
  <2>2. DOMAIN << >> = {} /\ Elems(<< >>) = {}
    BY DEF Elems
  <2> QED
    BY <2>1, <2>2 DEF OnlyPosted
<1>4. CASE Receive
  <2>1. NextFrame
    BY <1>4 DEF Receive, SuppressDuplicate, DropAtIngress, Admit
  <2>2. /\ wire # << >> /\ wire \in Seq(Frames) /\ wire' = Tail(wire) /\ posted' = posted
    BY <2>1 DEF NextFrame, TypeOK, serverVars
  <2>3. /\ Head(wire) = wire[1] /\ 1 \in DOMAIN wire
        /\ \A i \in DOMAIN Tail(wire) : Tail(wire)[i] = wire[i + 1] /\ i + 1 \in DOMAIN wire
        /\ Head(wire) \in Frames
    BY <2>2
  <2>4. Head(wire).message \in Messages
    BY <2>3 DEF Frames
  <2>5. \/ recentInboundMessageIds' = recentInboundMessageIds
        \/ recentInboundMessageIds' = Remembered(Head(wire).message)
    BY <1>4 DEF Receive, SuppressDuplicate, DropAtIngress, Admit, clientVars
  <2>6. Elems(recentInboundMessageIds') \subseteq
          Elems(recentInboundMessageIds) \cup {Head(wire).message}
    BY <2>4, <2>5, RememberedWindow DEF TypeOK
  <2> QED
    BY <2>2, <2>3, <2>6 DEF OnlyPosted
<1>5. ASSUME UNCHANGED <<posted, wire, recentInboundMessageIds>>
      PROVE  OnlyPosted' /\ Elems(posted) \subseteq Elems(posted')
  BY <1>5 DEF OnlyPosted
<1>6. ASSUME NEW m \in Messages, AckArrives(m) \/ DropNotice(m) \/ AckReplay(m) \/ StartTurn(m)
      PROVE  UNCHANGED <<posted, wire, recentInboundMessageIds>>
  BY <1>6 DEF AckArrives, DropNotice, AckReplay, StartTurn, serverVars, socketVars, clientVars
<1>7. ASSUME EndTurn \/ DeferInput \/ DeferRefused \/ AbandonInput \/ PutBackInput \/ Settle
      PROVE  UNCHANGED <<posted, wire, recentInboundMessageIds>>
  BY <1>7 DEF EndTurn, DeferInput, DeferRefused, AbandonInput, PutBackInput, Settle,
              ClearDeferred, RecordCompleted, SendAck, serverVars, socketVars, clientVars
<1> QED
  BY <1>1, <1>2, <1>3, <1>4, <1>5, <1>6, <1>7 DEF Next, Take
(***************************************************************************)
(* The stored input, and the copies of a direct message.                   *)
(***************************************************************************)

\* The message in the loop is a message, and the loop is idle otherwise.
LEMMA InHand ==
  ASSUME TypeOK, stage # "idle"
  PROVE  hand \in Messages
BY DEF TypeOK

LEMMA DeferredStep ==
  ASSUME TypeOK, StageRecorded, DeferredIsQueued, Next
  PROVE  DeferredIsQueued'
<1> USE ConnectAssumption
<1>1. ASSUME UNCHANGED <<deferred, dropped, pending, hand>>
      PROVE  DeferredIsQueued'
  BY <1>1 DEF DeferredIsQueued
<1>2. ASSUME NEW m \in Messages, Post(m) \/ AckArrives(m)
      PROVE  DeferredIsQueued'
  BY <1>1, <1>2 DEF Post, AckArrives, loopVars, durable
<1>3. ASSUME NEW m \in Messages, DropNotice(m)
      PROVE  DeferredIsQueued'
  BY <1>3 DEF DropNotice, DeferredIsQueued, TypeOK, Messages, loopVars, durable
<1>4. CASE Connect \/ Lose \/ SuppressDuplicate
  BY <1>1, <1>4 DEF Connect, Lose, SuppressDuplicate, NextFrame, loopVars, durable
<1>5. CASE DropAtIngress
  BY <1>5 DEF DropAtIngress, NextFrame, DeferredIsQueued, loopVars, durable
<1>6. CASE Admit
  <2>1. \A m \in Messages : pending[m] > 0 => pending'[m] > 0
    BY <1>6 DEF Admit, TypeOK
  <2> QED
    BY <1>6, <2>1 DEF Admit, NextFrame, DeferredIsQueued, TypeOK, loopVars, durable
<1>7. ASSUME NEW m \in Messages, AckReplay(m)
      PROVE  DeferredIsQueued'
  BY <1>7 DEF AckReplay, Dequeue, DeferredIsQueued, TypeOK, loopVars
<1>8. ASSUME NEW m \in Messages, StartTurn(m)
      PROVE  DeferredIsQueued'
  BY <1>8 DEF StartTurn, Dequeue, DeferredIsQueued, TypeOK
<1>9. CASE EndTurn
  BY <1>1, <1>9 DEF EndTurn, durable
<1>10. CASE DeferInput
  BY <1>10, InHand DEF DeferInput, DeferredIsQueued, TypeOK
<1>11. CASE DeferRefused \/ AbandonInput
  BY <1>11 DEF DeferRefused, AbandonInput, Settled, DeferredIsQueued, durable
<1>12. CASE PutBackInput
  BY <1>12, InHand DEF PutBackInput, Requeued, Settled, DeferredIsQueued, TypeOK, durable
<1>13. CASE ClearDeferred
  BY <1>13 DEF ClearDeferred, DeferredIsQueued
<1>14. CASE RecordCompleted
  BY <1>1, <1>14 DEF RecordCompleted
<1>15. CASE SendAck
  BY <1>15 DEF SendAck, Ackable, Settled, StageRecorded, DeferredIsQueued, durable
<1>16. CASE Restart
  BY <1>16 DEF Restart, Restored, DeferredIsQueued, TypeOK, durable
<1> QED
  BY <1>2, <1>3, <1>4, <1>5, <1>6, <1>7, <1>8, <1>9, <1>10, <1>11, <1>12, <1>13, <1>14, <1>15,
     <1>16 DEF Next, Receive, Take, Settle

LEMMA NotLostStep ==
  ASSUME TypeOK, OnlyPosted, StageRecorded, AckMeansCompleted, DirectNotLost, Next
  PROVE  DirectNotLost'
<1> USE ConnectAssumption
<1>1. ASSUME UNCHANGED <<posted, acked, dropped, ledger, hand, pending, recentInboundMessageIds>>
      PROVE  DirectNotLost'
  BY <1>1 DEF DirectNotLost, Known
<1>2. ASSUME NEW m \in Messages, Post(m)
      PROVE  DirectNotLost'
  <2>1. Elems(posted') = Elems(posted) \cup {m}
    BY <1>2, AppendElems DEF Post, TypeOK
  <2>2. m \notin Elems(recentInboundMessageIds)
    BY <1>2 DEF Post, OnlyPosted
  <2> QED
    BY <1>2, <2>1, <2>2 DEF Post, DirectNotLost, AckMeansCompleted, Known, clientVars,
                            loopVars, durable
<1>3. ASSUME NEW m \in Messages, AckArrives(m)
      PROVE  DirectNotLost'
  BY <1>3 DEF AckArrives, DirectNotLost, AckMeansCompleted, Known, clientVars, loopVars, durable
<1>4. ASSUME NEW m \in Messages, DropNotice(m)
      PROVE  DirectNotLost'
  BY <1>4 DEF DropNotice, DirectNotLost, Known, TypeOK, Messages, serverVars, clientVars,
              loopVars, durable
<1>5. CASE Connect \/ Lose \/ SuppressDuplicate
  BY <1>1, <1>5 DEF Connect, Lose, SuppressDuplicate, NextFrame, serverVars, clientVars,
                    loopVars, durable
<1>6. CASE DropAtIngress \/ Admit
  <2> DEFINE m == Head(wire).message
  <2>1. /\ m \in Messages
        /\ recentInboundMessageIds' = Remembered(m)
        /\ UNCHANGED <<posted, acked, ledger, hand>>
    <3>1. NextFrame /\ recentInboundMessageIds' = Remembered(m)
      BY <1>6 DEF DropAtIngress, Admit
    <3>2. Head(wire) \in Frames
      BY <3>1, HeadTail DEF NextFrame, TypeOK
    <3> QED
      BY <3>1, <3>2 DEF NextFrame, Frames, serverVars, loopVars, durable
  <2>2. Elems(recentInboundMessageIds') \subseteq Elems(recentInboundMessageIds) \cup {m}
    BY <2>1, RememberedWindow DEF TypeOK
  <2>3. dropped \subseteq dropped'
    BY <1>6 DEF DropAtIngress, Admit
  <2>4. \A n \in Messages : pending[n] > 0 => pending'[n] > 0
    <3>1. \/ pending' = pending
          \/ pending' = [pending EXCEPT ![m] = @ + 1]
      <4>1. CASE DropAtIngress
        BY <4>1 DEF DropAtIngress
      <4>2. CASE Admit
        BY <4>2 DEF Admit
      <4> QED
        BY <1>6, <4>1, <4>2
    <3>2. m \in Messages /\ pending \in [Messages -> Nat]
      BY <2>1 DEF TypeOK
    <3> HIDE DEF m
    <3>3. CASE pending' = [pending EXCEPT ![m] = @ + 1]
      BY <3>2, <3>3
    <3>4. CASE pending' = pending
      BY <3>4
    <3> QED
      BY <3>1, <3>3, <3>4
  <2>5. m \in Direct => m \in dropped' \/ pending'[m] > 0
    BY <1>6, <2>1 DEF DropAtIngress, Admit, TypeOK
  <2> HIDE DEF m
  <2> QED
    BY <2>1, <2>2, <2>3, <2>4, <2>5 DEF DirectNotLost, Known, Messages
<1>7. ASSUME NEW m \in Messages, AckReplay(m)
      PROVE  DirectNotLost'
  BY <1>7 DEF AckReplay, Dequeue, Completed, DirectNotLost, Known, TypeOK, Messages, serverVars,
              clientVars, loopVars
<1>8. ASSUME NEW m \in Messages, StartTurn(m)
      PROVE  DirectNotLost'
  BY <1>8 DEF StartTurn, Dequeue, Completed, DirectNotLost, Known, TypeOK, Messages, serverVars,
              clientVars
<1>9. CASE EndTurn \/ ClearDeferred
  BY <1>1, <1>9 DEF EndTurn, ClearDeferred, serverVars, clientVars, durable
<1>10. CASE DeferInput \/ PutBackInput
  <2>1. /\ hand \in Messages /\ pending' = [pending EXCEPT ![hand] = @ + 1]
        /\ UNCHANGED <<posted, acked, dropped, ledger, recentInboundMessageIds>>
    BY <1>10, InHand DEF DeferInput, PutBackInput, Requeued, serverVars, clientVars, durable
  <2>2. pending'[hand] > 0 /\ \A n \in Messages : pending[n] > 0 => pending'[n] > 0
    BY <2>1 DEF TypeOK
  <2> QED
    BY <2>1, <2>2 DEF DirectNotLost, Known, Messages
<1>11. CASE DeferRefused \/ AbandonInput
  BY <1>11 DEF DeferRefused, AbandonInput, Settled, DirectNotLost, Known, serverVars, clientVars,
               durable
<1>12. CASE RecordCompleted
  BY <1>12, InHand DEF RecordCompleted, DirectNotLost, Known, TypeOK, Messages, serverVars,
                       clientVars
<1>13. CASE SendAck
  BY <1>13 DEF SendAck, Ackable, Settled, StageRecorded, DirectNotLost, Known, serverVars,
               clientVars, durable
<1>14. CASE Restart
  <2>1. Elems(recentInboundMessageIds') = {}
    BY <1>14 DEF Restart, Elems
  <2> QED
    BY <1>14, <2>1 DEF Restart, DirectNotLost, AckMeansCompleted, Known, serverVars, durable
<1> QED
  BY <1>2, <1>3, <1>4, <1>5, <1>6, <1>7, <1>8, <1>9, <1>10, <1>11, <1>12, <1>13, <1>14
     DEF Next, Receive, Take, Settle
(***************************************************************************)
(* The theorems.                                                           *)
(***************************************************************************)

\* The strengthened invariant, over every action of the server, the network,
\* the client, the loop and the restart.
THEOREM Invariance == Spec => []IInv
<1> USE ConnectAssumption
<1>1. Init => IInv
  <2> SUFFICES ASSUME Init PROVE IInv
    OBVIOUS
  <2>1. Elems(<< >>) = {} /\ DOMAIN << >> = {}
    BY DEF Elems
  <2>2. TypeOK
    BY DEF Init, TypeOK, Stage
  <2> QED
    BY <2>1, <2>2 DEF Init, IInv, OnlyPosted, StageRecorded, AckMeansCompleted, DirectNotLost,
                      DeferredIsQueued
<1>2. IInv /\ [Next]_vars => IInv'
  <2> SUFFICES ASSUME IInv, [Next]_vars PROVE IInv'
    OBVIOUS
  <2>1. CASE Next
    BY <2>1, TypeStep, PostedStep, LedgerStep, DeferredStep, NotLostStep DEF IInv
  <2>2. CASE UNCHANGED vars
    <3>1. UNCHANGED <<posted, acked, link, wire, ackWire, recentInboundMessageIds,
                      missedReplayAccepted, pending, resumed, hand, stage, ledger, deferred,
                      dropped, losses, crashes>>
      BY <2>2 DEF vars, serverVars, socketVars, clientVars, loopVars, durable, counters
    <3> QED
      BY <3>1 DEF IInv, TypeOK, OnlyPosted, StageRecorded, AckMeansCompleted, DirectNotLost,
                  DeferredIsQueued, Known
  <2> QED
    BY <2>1, <2>2
<1> QED
  BY <1>1, <1>2, PTL DEF Spec

\* Every variable of the delivery has its type, and the loop is idle exactly
\* when it holds no message.
THEOREM TypeCorrect == Spec => []TypeOK
<1>1. IInv => TypeOK
  BY DEF IInv
<1> QED
  BY <1>1, Invariance, PTL

\* agent.message_processed is only ever sent for a direct message whose
\* completion is already in the ledger, so no restart loses acknowledged work.
THEOREM AckIsDurable == Spec => []AckMeansCompleted
<1>1. IInv => AckMeansCompleted
  BY DEF IInv
<1> QED
  BY <1>1, Invariance, PTL

\* A completed message never starts a second turn, and no turn is running for
\* a message the server was told is processed.
THEOREM CompletedRunsNoMore == Spec => []NeverRunAgain
<1>1. IInv => NeverRunAgain
  BY InHand DEF IInv, StageRecorded, AckMeansCompleted, NeverRunAgain
<1> QED
  BY <1>1, Invariance, PTL

\* Between the socket, the idempotency window, the inbox, the loop and the
\* ledger, some copy of an unfinished direct message can still be executed.
THEOREM NothingSilentlyLost == Spec => []DirectNotLost
<1>1. IInv => DirectNotLost
  BY DEF IInv
<1> QED
  BY <1>1, Invariance, PTL

\* The stored provider input is unique, and a direct one is queued again by
\* the deferral, the rollout checkpoint and the restart alike.
THEOREM StoredInputQueued == Spec => []DeferredIsQueued
<1>1. IInv => DeferredIsQueued
  BY DEF IInv
<1> QED
  BY <1>1, Invariance, PTL

(***************************************************************************)
(* The refinement of ReliableDelivery.                                     *)
(***************************************************************************)

\* Whatever is queued, stored or worked on came from the server.
CopiesPosted ==
  \A m \in Messages : pending[m] > 0 \/ m \in deferred \/ hand = m => m \in Elems(posted)

\* A copy of a message is made from another copy, or from a frame.
LEMMA CopiesStep ==
  ASSUME TypeOK, OnlyPosted, CopiesPosted, Next
  PROVE  CopiesPosted'
<1> USE ConnectAssumption
<1>1. Elems(posted) \subseteq Elems(posted')
  BY PostedStep
<1>2. ASSUME \A m \in Messages : /\ pending'[m] > 0 => pending[m] > 0 \/ m \in Elems(posted)
                                 /\ m \in deferred' => m \in Elems(posted)
                                 /\ hand' = m => m \in Elems(posted)
      PROVE  CopiesPosted'
  BY <1>1, <1>2 DEF CopiesPosted
<1>3. ASSUME UNCHANGED <<pending, hand>>, deferred' \subseteq deferred
      PROVE  CopiesPosted'
  BY <1>2, <1>3 DEF CopiesPosted
<1>4. ASSUME NEW m \in Messages, Post(m) \/ AckArrives(m)
      PROVE  CopiesPosted'
  BY <1>3, <1>4 DEF Post, AckArrives, loopVars, durable
<1>5. CASE Connect \/ Lose \/ SuppressDuplicate \/ DropAtIngress
  BY <1>3, <1>5 DEF Connect, Lose, SuppressDuplicate, DropAtIngress, NextFrame, loopVars, durable
<1>6. ASSUME NEW m \in Messages, DropNotice(m)
      PROVE  CopiesPosted'
  BY <1>2, <1>6 DEF DropNotice, CopiesPosted, TypeOK, loopVars, durable
<1>7. CASE Admit
  <2> DEFINE m == Head(wire).message
  <2>1. /\ NextFrame
        /\ pending' = pending \/ pending' = [pending EXCEPT ![m] = @ + 1]
    BY <1>7 DEF Admit
  <2>2. m \in Elems(posted)
    <3>1. wire # << >> /\ wire \in Seq(Frames)
      BY <2>1 DEF NextFrame, TypeOK
    <3>2. Head(wire) = wire[1] /\ 1 \in DOMAIN wire
      BY <3>1
    <3> QED
      BY <3>2 DEF OnlyPosted
  <2>3. UNCHANGED <<hand, deferred>> /\ pending \in [Messages -> Nat]
    BY <2>1 DEF NextFrame, TypeOK, loopVars, durable
  <2> HIDE DEF m
  <2>4. \A n \in Messages : pending'[n] > 0 => pending[n] > 0 \/ n \in Elems(posted)
    BY <2>1, <2>2, <2>3
  <2> QED
    BY <1>2, <2>3, <2>4 DEF CopiesPosted
<1>8. ASSUME NEW m \in Messages, AckReplay(m) \/ StartTurn(m)
      PROVE  CopiesPosted'
  <2>1. /\ pending[m] > 0 /\ pending' = [pending EXCEPT ![m] = @ - 1]
        /\ deferred' \subseteq deferred
        /\ hand' = hand \/ hand' = m
        /\ pending \in [Messages -> Nat]
    BY <1>8 DEF AckReplay, StartTurn, Dequeue, TypeOK, loopVars
  <2>2. \A n \in Messages : pending'[n] > 0 => pending[n] > 0
    BY <2>1
  <2> QED
    BY <1>2, <2>1, <2>2 DEF CopiesPosted
<1>9. CASE EndTurn \/ ClearDeferred \/ RecordCompleted
  BY <1>3, <1>9 DEF EndTurn, ClearDeferred, RecordCompleted, durable
<1>10. CASE DeferInput \/ PutBackInput
  <2>1. /\ hand \in Messages /\ pending' = [pending EXCEPT ![hand] = @ + 1]
        /\ deferred' \subseteq deferred \cup {hand}
        /\ hand' = NoMessage
        /\ pending \in [Messages -> Nat]
    BY <1>10, InHand DEF DeferInput, PutBackInput, Requeued, Settled, TypeOK, durable
  <2>2. \A n \in Messages : pending'[n] > 0 => pending[n] > 0 \/ n = hand
    BY <2>1
  <2> QED
    BY <1>2, <2>1, <2>2 DEF CopiesPosted
<1>11. CASE DeferRefused \/ AbandonInput \/ SendAck
  BY <1>2, <1>11 DEF DeferRefused, AbandonInput, SendAck, Settled, CopiesPosted, durable
<1>12. CASE Restart
  BY <1>2, <1>12 DEF Restart, Restored, Settled, CopiesPosted, durable
<1> QED
  BY <1>4, <1>5, <1>6, <1>7, <1>8, <1>9, <1>10, <1>11, <1>12 DEF Next, Receive, Take, Settle

\* Every step of the delivery is one of ReliableDelivery, or none.
LEMMA ReliableStep ==
  ASSUME IInv, CopiesPosted, Next
  PROVE  [Reliable!Next]_<<Elems(posted) \cap Direct, Working,
                           {m \in Direct : ledger[m] = "completed"}, acked \cap Direct>>
<1> DEFINE Done == {m \in Direct : ledger[m] = "completed"}
           Told == acked \cap Direct
           Stored == Elems(posted) \cap Direct
<1> USE ConnectAssumption
<1>1. ASSUME UNCHANGED <<posted, ledger, acked>>, Working' = Working \/ Working' = {}
      PROVE  [Reliable!Next]_<<Stored, Working, Done, Told>>
  <2>1. CASE Working' = Working
    BY <1>1, <2>1
  <2>2. CASE Working' = {} /\ Working # {}
    BY <1>1, <2>2 DEF Reliable!Next, Reliable!Interrupt
  <2> QED
    BY <1>1, <2>1, <2>2
<1>2. ASSUME NEW m \in Messages, Post(m)
      PROVE  [Reliable!Next]_<<Stored, Working, Done, Told>>
  <2>1. /\ Elems(posted') = Elems(posted) \cup {m}
        /\ Working' = Working /\ Done' = Done /\ Told' = Told
    BY <1>2, AppendElems DEF Post, IInv, TypeOK, Working, loopVars, durable
  <2>2. CASE m \in Direct
    <3>1. Reliable!Store(m)
      BY <2>1, <2>2 DEF Reliable!Store
    <3> QED
      BY <2>2, <3>1 DEF Reliable!Next
  <2>3. CASE m \notin Direct
    BY <2>1, <2>3
  <2> QED
    BY <2>2, <2>3
<1>3. ASSUME NEW m \in Messages, AckArrives(m)
      PROVE  [Reliable!Next]_<<Stored, Working, Done, Told>>
  <2>1. /\ m \in ackWire /\ acked' = acked \cup {m}
        /\ Working' = Working /\ Done' = Done /\ Stored' = Stored
    BY <1>3 DEF AckArrives, Working, loopVars, durable
  <2>2. CASE m \in Direct
    <3>1. Reliable!Tell(m)
      BY <2>1, <2>2 DEF Reliable!Tell, IInv, AckMeansCompleted
    <3> QED
      BY <2>2, <3>1 DEF Reliable!Next
  <2>3. CASE m \notin Direct
    BY <2>1, <2>3
  <2> QED
    BY <2>2, <2>3
<1>4. ASSUME NEW m \in Messages, DropNotice(m) \/ AckReplay(m)
      PROVE  [Reliable!Next]_<<Stored, Working, Done, Told>>
  BY <1>1, <1>4 DEF DropNotice, AckReplay, Working, serverVars, loopVars, durable
<1>5. CASE Connect \/ Lose \/ Receive \/ Restart
  <2>1. UNCHANGED <<posted, ledger, acked>>
    BY <1>5 DEF Connect, Lose, Receive, SuppressDuplicate, DropAtIngress, Admit, NextFrame,
                Restart, serverVars, durable
  <2>2. Working' = Working \/ Working' = {}
    BY <1>5 DEF Connect, Lose, Receive, SuppressDuplicate, DropAtIngress, Admit, NextFrame,
                Restart, Settled, Working, loopVars
  <2> QED
    BY <1>1, <2>1, <2>2
<1>6. ASSUME NEW m \in Messages, StartTurn(m)
      PROVE  [Reliable!Next]_<<Stored, Working, Done, Told>>
  <2>1. /\ stage = "idle" /\ pending[m] > 0 /\ ledger[m] # "completed"
        /\ hand' = m /\ stage' = "turn"
        /\ ledger' = [ledger EXCEPT ![m] = IF @ = "none" THEN "admitted" ELSE @]
        /\ UNCHANGED <<posted, acked>>
    BY <1>6 DEF StartTurn, Dequeue, Completed, IInv, TypeOK, serverVars
  <2>2. Working = {} /\ Working' = {m} \cap Direct
    BY <2>1 DEF Working
  <2>3. Done' = Done
    BY <2>1 DEF IInv, TypeOK, Messages
  <2>4. Stored' = Stored /\ Told' = Told
    BY <2>1
  <2>5. m \in Elems(posted)
    BY <2>1 DEF CopiesPosted
  <2>6. m \in Direct => m \notin Told
    BY <2>1 DEF IInv, AckMeansCompleted
  <2>7. CASE m \in Direct
    <3>1. Reliable!Begin(m)
      BY <2>1, <2>2, <2>3, <2>4, <2>5, <2>6, <2>7 DEF Reliable!Begin
    <3> QED
      BY <2>7, <3>1 DEF Reliable!Next
  <2>8. CASE m \notin Direct
    BY <2>2, <2>3, <2>4, <2>8
  <2> QED
    BY <2>7, <2>8
<1>7. CASE EndTurn \/ ClearDeferred
  BY <1>1, <1>7 DEF EndTurn, ClearDeferred, Working, serverVars, durable
<1>8. CASE DeferInput \/ DeferRefused \/ AbandonInput \/ PutBackInput \/ SendAck
  BY <1>1, <1>8 DEF DeferInput, DeferRefused, AbandonInput, PutBackInput, SendAck, Settled,
                    Working, serverVars, durable
<1>9. CASE RecordCompleted
  <2>1. /\ stage = "cleared" /\ stage' = "recorded" /\ hand \in Messages
        /\ ledger' = [ledger EXCEPT ![hand] = "completed"]
        /\ UNCHANGED <<posted, acked>>
    BY <1>9, InHand DEF RecordCompleted, IInv, serverVars
  <2>2. Working = {hand} \cap Direct /\ Working' = {}
    BY <2>1 DEF Working
  <2>3. Done' = Done \cup ({hand} \cap Direct)
    BY <2>1 DEF IInv, TypeOK, Messages
  <2>4. Stored' = Stored /\ Told' = Told
    BY <2>1
  <2>5. CASE hand \in Direct
    <3>1. PICK m \in Direct : m = hand
      BY <2>5
    <3>2. Reliable!Record(m)
      BY <2>2, <2>3, <2>4, <3>1 DEF Reliable!Record
    <3> QED
      BY <3>2 DEF Reliable!Next
  <2>6. CASE hand \notin Direct
    BY <2>2, <2>3, <2>4, <2>6
  <2> QED
    BY <2>5, <2>6
<1> QED
  BY <1>2, <1>3, <1>4, <1>5, <1>6, <1>7, <1>8, <1>9 DEF Next, Take, Settle

\* Over replays, restored inputs, lost connections and restarts, a direct
\* message is run only while it is stored and unrecorded, is recorded once, and
\* only then acknowledged: the delivery implements ReliableDelivery.
THEOREM Implements == Spec => ImplementsReliable
<1> DEFINE mapped == <<Elems(posted) \cap Direct, Working,
                       {m \in Direct : ledger[m] = "completed"}, acked \cap Direct>>
<1>1. Init => CopiesPosted
  BY ConnectAssumption DEF Init, CopiesPosted
<1>2. TypeOK /\ OnlyPosted /\ CopiesPosted /\ [Next]_vars => CopiesPosted'
  <2>1. ASSUME CopiesPosted, UNCHANGED vars
        PROVE  CopiesPosted'
    BY <2>1 DEF CopiesPosted, vars, serverVars, loopVars, durable
  <2> QED
    BY <2>1, CopiesStep
<1>3. IInv => TypeOK /\ OnlyPosted
  BY DEF IInv
<1>4. Init => Reliable!Init
  <2>1. Elems(<< >>) = {}
    BY DEF Elems
  <2> QED
    BY <2>1 DEF Init, Reliable!Init, Working, Messages
<1>5. IInv /\ CopiesPosted /\ [Next]_vars => [Reliable!Next]_mapped
  <2>1. ASSUME UNCHANGED vars
        PROVE  UNCHANGED mapped
    BY <2>1 DEF vars, serverVars, loopVars, durable, Working
  <2> QED
    BY <2>1, ReliableStep
<1> QED
  BY <1>1, <1>2, <1>3, <1>4, <1>5, Invariance, PTL DEF Spec, ImplementsReliable, Reliable!Spec
==============================================================================
