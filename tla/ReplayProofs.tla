------------------------------ MODULE ReplayProofs ------------------------------
(***************************************************************************)
(* Proofs about the replay of deferred rows, for any number of rows,       *)
(* episodes, bootstrap attempts and crashes.                               *)
(***************************************************************************)
EXTENDS DeferredReplay, FiniteSetTheorems, WellFoundedInduction, TLAPS

LedgerType == [Episodes -> [Rows -> {"none", "deferred", "releasing", "replayed"}]]

HeadType == [episode : 0..MaxEpisodes, attempts : 0..MaxAttempts,
             state : {"none", "guard_tripped", "recovery_pending",
                      "verified", "exhausted"}]

Left(L, e, r) == L[e][r] \in {"deferred", "releasing"}

\* The rows of an episode are released only once it is verified, ...
ReleasedLate(L, h) ==
  \A e \in Episodes : \A r \in Rows : L[e][r] \in {"releasing", "replayed"} =>
    e < h.episode \/ (e = h.episode /\ h.state = "verified")

\* ... in their order, ...
ReleasedInOrder(L) ==
  \A e \in Episodes : \A r, q \in Rows :
    L[e][r] = "releasing" /\ Left(L, e, q) => r <= q

\* ... and replayed when they have run.
ReplayedRan(L, n) ==
  \A e \in Episodes : \A r \in Rows : L[e][r] = "replayed" => n[r] > 0

LedgerGood(L, h, n) ==
  L \in LedgerType /\ ReleasedLate(L, h) /\ ReleasedInOrder(L) /\ ReplayedRan(L, n)

\* An item of an episode stands for a row it has released.
Out(L, e, r) == L[e][r] \in {"releasing", "replayed"}

ItemsGood(items, L) ==
  \A i \in items : i.row # 0 /\ i.episode # 0 => Out(L, i.episode, i.row)

\* The pump works on a verified episode, or on one before the head.
PumpGood(p, h) ==
  p # 0 => p < h.episode \/ (p = h.episode /\ h.state = "verified")

HeadGood(h) ==
  /\ h.state # "none" => h.episode # 0
  /\ h.state \in {"guard_tripped", "recovery_pending"} => h.attempts < MaxAttempts

StageGood ==
  /\ stage = "compacting" => head.state = "guard_tripped"
  /\ stage \in {"idle", "resuming"} => hand = Nothing
  /\ stage = "ended" => hand.row # 0 /\ runs[hand.row] > 0

\* Row r has not been dropped.
Kept(items, L, n, forgotten, r) ==
  \/ \E i \in items : i.row = r
  \/ n[r] > 0
  \/ r \in forgotten
  \/ \E e \in Episodes : Left(L, e, r)

AllKept == \A r \in 1..arrived : Kept(inbox \cup {hand}, ledger, runs, gone, r)

IInv ==
  /\ TypeOK
  /\ LedgerGood(ledger, head, runs)
  /\ ItemsGood(inbox \cup {hand}, ledger)
  /\ PumpGood(pump, head)
  /\ HeadGood(head)
  /\ StageGood
  /\ AllKept

-----------------------------------------------------------------------------
LEMMA RowsAreNat == /\ Rows \subseteq Nat /\ Episodes \subseteq Nat
                    /\ 0 \notin Rows /\ 0 \notin Episodes
BY ReplayAssumption DEF Rows, Episodes

\* Every non-empty set of naturals has a least element.
LEMMA LeastNat ==
  ASSUME NEW T, T \subseteq Nat, T # {}
  PROVE  \E m \in T : \A n \in T : m <= n
<1> DEFINE R == OpToRel(<, Nat)
<1>1. IsWellFoundedOn(R, Nat)
  BY NatLessThanWellFounded
<1>2. \A y, m \in Nat : <<y, m>> \in R <=> y < m
  BY DEF OpToRel
<1> HIDE DEF R
<1>3. PICK m \in T : \A y \in T : ~(<<y, m>> \in R)
  BY <1>1, WFMin
<1>4. \A y \in T : ~(y < m)
  BY <1>2, <1>3, Zenon
<1>5. \A n \in T : m <= n
  BY <1>4
<1> QED
  BY <1>5

LEMMA MinLeft ==
  ASSUME NEW S, S \subseteq Rows, S # {}
  PROVE  Min(S) \in S /\ \A q \in S : Min(S) <= q
BY LeastNat, RowsAreNat DEF Min

LEMMA ItemType ==
  ASSUME NEW r \in Rows, NEW e \in Episodes
  PROVE  [row |-> r, episode |-> e] \in Item
BY ReplayAssumption DEF Rows, Episodes, Item

\* What a call of the pump may do: release the first row left, or nothing.
Released(e, box, led) ==
  \E r \in Rows :
    /\ Left(led, e, r)
    /\ \A q \in Rows : Left(led, e, q) => r <= q
    /\ ledger' = [led EXCEPT ![e][r] = "releasing"]
    /\ inbox' = box \cup {[row |-> r, episode |-> e]}

LEMMA PumpDoes ==
  ASSUME NEW from, NEW box, NEW led, from.episode \in 0..MaxEpisodes,
         Pump(from, box, led)
  PROVE  /\ \/ ledger' = led /\ inbox' = box
            \/ from.episode \in Episodes /\ Released(from.episode, box, led)
         /\ pump' \in {0, from.episode}
         /\ inFlight' \in {TRUE, from.busy}
         /\ timer' \in {TRUE, from.armed}
         /\ paced' \in {TRUE, paced}
<1> DEFINE e == from.episode
           left == ListDeferred(led[e])
<1>1. CASE e = 0 \/ from.busy \/ from.armed \/ MustWait(box) \/ left = {}
  BY <1>1 DEF Pump, Keep
<1>2. CASE ~(e = 0 \/ from.busy \/ from.armed \/ MustWait(box) \/ left = {})
  <2>1. Release(from, Min(left), box, led)
    BY <1>2 DEF Pump
  <2>2. left \subseteq Rows /\ \A r \in Rows : r \in left <=> Left(led, e, r)
    BY DEF ListDeferred, Left
  <2>3. e \in Episodes
    BY <1>2, ReplayAssumption DEF Episodes
  <2>4. Min(left) \in left /\ \A q \in left : Min(left) <= q
    BY <1>2, <2>2, MinLeft
  <2>5. /\ ledger' = [led EXCEPT ![e][Min(left)] = "releasing"]
        /\ inbox' = box \cup {[row |-> Min(left), episode |-> e]}
    BY <2>1 DEF Release
  <2> HIDE DEF left
  <2>6. Released(e, box, led)
    BY <2>2, <2>4, <2>5 DEF Released
  <2> QED
    BY <2>1, <2>3, <2>6 DEF Release
<1> QED
  BY <1>1, <1>2

\* One entry of the ledger changes.
Updates(M, L, e, r, v) == M = [L EXCEPT ![e][r] = v]

LEMMA LedgerExcept ==
  ASSUME NEW L \in LedgerType, NEW e \in Episodes, NEW r \in Rows,
         NEW v \in {"none", "deferred", "releasing", "replayed"}, NEW M,
         Updates(M, L, e, r, v)
  PROVE  /\ M \in LedgerType
         /\ M[e][r] = v
         /\ \A d \in Episodes : \A q \in Rows :
              ~(d = e /\ q = r) => M[d][q] = L[d][q]
<1>1. M = [L EXCEPT ![e] = [L[e] EXCEPT ![r] = v]]
  BY DEF LedgerType, Updates
<1>2. L[e] \in [Rows -> {"none", "deferred", "releasing", "replayed"}]
  BY DEF LedgerType
<1>3. [L[e] EXCEPT ![r] = v] \in
        [Rows -> {"none", "deferred", "releasing", "replayed"}]
  BY <1>2
<1>4. M \in LedgerType /\ M[e] = [L[e] EXCEPT ![r] = v]
  BY <1>1, <1>3 DEF LedgerType
<1>5. \A d \in Episodes \ {e} : M[d] = L[d]
  BY <1>1 DEF LedgerType
<1> QED
  BY <1>2, <1>4, <1>5

\* A release keeps the ledger in order: the row is the first one left.
LEMMA ReleaseKeeps ==
  ASSUME NEW led, NEW h, NEW n, LedgerGood(led, h, n), NEW e \in Episodes,
         e < h.episode \/ (e = h.episode /\ h.state = "verified"),
         NEW r \in Rows, Left(led, e, r),
         \A q \in Rows : Left(led, e, q) => r <= q,
         NEW M, Updates(M, led, e, r, "releasing")
  PROVE  /\ LedgerGood(M, h, n)
         /\ \A d \in Episodes : \A q \in Rows : /\ Left(M, d, q) <=> Left(led, d, q)
                                                /\ Out(led, d, q) => Out(M, d, q)
<1>1. /\ M \in LedgerType
      /\ M[e][r] = "releasing"
      /\ \A d \in Episodes : \A q \in Rows :
           ~(d = e /\ q = r) => M[d][q] = led[d][q]
  <2>1. led \in LedgerType
    BY DEF LedgerGood
  <2> QED
    BY <2>1, LedgerExcept
<1>2. led[e][r] \in {"deferred", "releasing"}
  BY DEF Left
<1>3. \A d \in Episodes : \A q \in Rows : /\ Left(M, d, q) <=> Left(led, d, q)
                                          /\ Out(led, d, q) => Out(M, d, q)
  BY <1>1, <1>2 DEF Left, Out
<1>4. ReleasedLate(M, h)
  BY <1>1 DEF LedgerGood, ReleasedLate
<1>5. ReleasedInOrder(M)
  <2> SUFFICES ASSUME NEW d \in Episodes, NEW p \in Rows, NEW q \in Rows,
                      M[d][p] = "releasing", Left(M, d, q)
               PROVE  p <= q
    BY DEF ReleasedInOrder
  <2>1. Left(led, d, q)
    BY <1>3
  <2>2. CASE d = e /\ p = r
    BY <2>1, <2>2
  <2>3. CASE ~(d = e /\ p = r)
    BY <1>1, <2>1, <2>3 DEF LedgerGood, ReleasedInOrder
  <2> QED
    BY <2>2, <2>3
<1>6. ReplayedRan(M, n)
  BY <1>1 DEF LedgerGood, ReplayedRan
<1> QED
  BY <1>1, <1>3, <1>4, <1>5, <1>6 DEF LedgerGood

LEMMA DeferRows ==
  ASSUME NEW R \in [Rows -> {"none", "deferred", "releasing", "replayed"}],
         NEW drained
  PROVE  /\ Defer(R, drained) \in
              [Rows -> {"none", "deferred", "releasing", "replayed"}]
         /\ \A r \in Rows :
              /\ R[r] # "none" => Defer(R, drained)[r] = R[r]
              /\ R[r] = "none" => Defer(R, drained)[r] \in {"none", "deferred"}
              /\ (\E i \in drained : i.row = r) => Defer(R, drained)[r] # "none"
BY DEF Defer

Drains(M, L, e, drained) == M = [L EXCEPT ![e] = Defer(@, drained)]

\* A drain only adds deferred rows, to an episode that releases none yet.
LEMMA DeferKeeps ==
  ASSUME NEW led, NEW h, NEW n, LedgerGood(led, h, n), NEW e \in Episodes,
         e = h.episode, h.state # "verified", NEW drained, NEW M,
         Drains(M, led, e, drained)
  PROVE  /\ LedgerGood(M, h, n)
         /\ \A d \in Episodes : \A q \in Rows :
              /\ Left(led, d, q) => Left(M, d, q)
              /\ Out(led, d, q) => Out(M, d, q)
         /\ \A q \in Rows : (\E i \in drained : i.row = q) => Left(M, e, q)
<1>1. /\ led \in LedgerType /\ ReleasedLate(led, h)
      /\ ReleasedInOrder(led) /\ ReplayedRan(led, n)
  BY DEF LedgerGood
<1>2. led[e] \in [Rows -> {"none", "deferred", "releasing", "replayed"}]
  BY <1>1 DEF LedgerType
<1>3. M = [led EXCEPT ![e] = Defer(led[e], drained)]
  BY <1>1 DEF LedgerType, Drains
<1> DEFINE D == Defer(led[e], drained)
<1>4. /\ D \in [Rows -> {"none", "deferred", "releasing", "replayed"}]
      /\ \A r \in Rows :
           /\ led[e][r] # "none" => D[r] = led[e][r]
           /\ led[e][r] = "none" => D[r] \in {"none", "deferred"}
           /\ (\E i \in drained : i.row = r) => D[r] # "none"
  BY <1>2, DeferRows
<1> HIDE DEF D
<1>5. M \in LedgerType /\ M[e] = D /\ \A d \in Episodes \ {e} : M[d] = led[d]
  BY <1>1, <1>3, <1>4 DEF LedgerType, D
<1>6. \A r \in Rows : M[e][r] \in {"none", "deferred"}
  <2>1. \A r \in Rows : led[e][r] \in {"none", "deferred"}
    BY <1>1, <1>2, RowsAreNat DEF ReleasedLate
  <2> QED
    BY <1>4, <1>5, <2>1
<1>7. ReleasedLate(M, h) /\ ReplayedRan(M, n)
  BY <1>1, <1>5, <1>6 DEF ReleasedLate, ReplayedRan
<1>8. ReleasedInOrder(M)
  BY <1>1, <1>5, <1>6 DEF ReleasedInOrder, Left
<1>9. \A d \in Episodes : \A q \in Rows :
        /\ Left(led, d, q) => Left(M, d, q)
        /\ Out(led, d, q) => Out(M, d, q)
  BY <1>4, <1>5 DEF Left, Out
<1>10. \A q \in Rows : (\E i \in drained : i.row = q) => Left(M, e, q)
  BY <1>4, <1>5, <1>6 DEF Left
<1> QED
  BY <1>5, <1>7, <1>8, <1>9, <1>10 DEF LedgerGood

\* The ledger stays good under a head that only moves on.
LEMMA HeadMoves ==
  ASSUME NEW L, NEW n, NEW h \in HeadType, NEW k \in HeadType,
         LedgerGood(L, h, n), h.episode <= k.episode,
         h.episode = k.episode => h.state # "verified" \/ k.state = "verified"
  PROVE  LedgerGood(L, k, n)
BY RowsAreNat, ReplayAssumption DEF LedgerGood, ReleasedLate, HeadType

-----------------------------------------------------------------------------
\* What the row survives in, however the ledger grows.
Grows(L, M) == \A e \in Episodes : \A r \in Rows :
  /\ Left(L, e, r) => Left(M, e, r)
  /\ Out(L, e, r) => Out(M, e, r)

\* Any call of the pump, from what its caller left.
LEMMA PumpKeeps ==
  ASSUME NEW from, NEW box, NEW led, NEW h, NEW n, NEW held,
         Pump(from, box, led), from.episode \in 0..MaxEpisodes,
         LedgerGood(led, h, n), PumpGood(from.episode, h), box \subseteq Item,
         ItemsGood(box \cup {held}, led), held \in Item
  PROVE  /\ LedgerGood(ledger', h, n)
         /\ PumpGood(pump', h)
         /\ pump' \in 0..MaxEpisodes
         /\ inbox' \subseteq Item
         /\ box \subseteq inbox'
         /\ ItemsGood(inbox' \cup {held}, ledger')
         /\ Grows(led, ledger')
<1> DEFINE e == from.episode
<1>1. /\ \/ ledger' = led /\ inbox' = box
         \/ e \in Episodes /\ Released(e, box, led)
      /\ pump' \in {0, e}
  BY PumpDoes
<1>2. PumpGood(pump', h) /\ pump' \in 0..MaxEpisodes
  BY <1>1, ReplayAssumption DEF PumpGood
<1>3. CASE ledger' = led /\ inbox' = box
  BY <1>2, <1>3 DEF Grows
<1>4. CASE e \in Episodes /\ Released(e, box, led)
  <2>1. PICK r \in Rows :
          /\ Left(led, e, r)
          /\ \A q \in Rows : Left(led, e, q) => r <= q
          /\ Updates(ledger', led, e, r, "releasing")
          /\ inbox' = box \cup {[row |-> r, episode |-> e]}
    BY <1>4 DEF Released, Updates
  <2>2. e < h.episode \/ (e = h.episode /\ h.state = "verified")
    BY <1>4, RowsAreNat DEF PumpGood
  <2>3. /\ LedgerGood(ledger', h, n)
        /\ \A d \in Episodes : \A q \in Rows :
             /\ Left(ledger', d, q) <=> Left(led, d, q)
             /\ Out(led, d, q) => Out(ledger', d, q)
    BY <1>4, <2>1, <2>2, ReleaseKeeps
  <2>4. Grows(led, ledger')
    BY <2>3 DEF Grows
  <2> DEFINE new == [row |-> r, episode |-> e]
  <2>5. new \in Item /\ new.row = r /\ new.episode = e
    BY <1>4, ItemType
  <2>6. inbox' = box \cup {new}
    BY <2>1
  <2>7. Out(ledger', e, r)
    <3>1. led \in LedgerType
      BY DEF LedgerGood
    <3>2. ledger'[e][r] = "releasing"
      BY <1>4, <2>1, <3>1, LedgerExcept
    <3> QED
      BY <3>2 DEF Out
  <2> HIDE DEF new
  <2>8. \A i \in box \cup {held} :
          i.row # 0 /\ i.episode # 0 => i.row \in Rows /\ i.episode \in Episodes
    BY ReplayAssumption DEF Item, Rows, Episodes
  <2>9. ItemsGood(inbox' \cup {held}, ledger')
    BY <2>3, <2>5, <2>6, <2>7, <2>8 DEF ItemsGood
  <2> QED
    BY <1>2, <2>3, <2>4, <2>5, <2>6, <2>9
<1> QED
  BY <1>1, <1>3, <1>4

LEMMA BootstrapType == \A e \in 0..MaxEpisodes : Bootstrap(e) \in Item
BY ReplayAssumption DEF Bootstrap, Item

\* A bootstrap is added at most; its row is 0.
LEMMA WithBootstrapItems ==
  ASSUME NEW box, box \subseteq Item, NEW h \in HeadType
  PROVE  /\ WithBootstrap(box, h) \subseteq Item
         /\ box \subseteq WithBootstrap(box, h)
         /\ \A i \in WithBootstrap(box, h) \ box : i.row = 0
<1>1. h.episode \in 0..MaxEpisodes
  BY DEF HeadType
<1>2. Bootstrap(h.episode) \in Item /\ Bootstrap(h.episode).row = 0
  BY <1>1, BootstrapType DEF Bootstrap
<1> QED
  BY <1>2 DEF WithBootstrap

LEMMA ItemsBounded ==
  \A i \in Item : /\ i.row # 0 => i.row \in Rows
                  /\ i.episode # 0 => i.episode \in Episodes
BY ReplayAssumption DEF Item, Rows, Episodes

\* Items stay good when the ledger grows and only bootstraps are added.
LEMMA ItemsKeep ==
  ASSUME NEW items, items \subseteq Item, NEW L, NEW M, Grows(L, M),
         ItemsGood(items, L), NEW more, \A i \in more \ items : i.row = 0
  PROVE  ItemsGood(more, M)
BY ItemsBounded DEF ItemsGood, Grows

\* A drain by the head's episode, or by a new one.
LEMMA BeginKeeps ==
  ASSUME TypeOK, LedgerGood(ledger, head, runs), PumpGood(pump, head),
         HeadGood(head), NEW drained, Begin(drained),
         Unfinished(head) \/ head.episode < MaxEpisodes
  PROVE  /\ LedgerGood(ledger', head', runs)
         /\ PumpGood(pump, head')
         /\ HeadGood(head')
         /\ head' \in HeadType
         /\ Unfinished(head) => head' = head
         /\ ~Unfinished(head) => head'.state = "guard_tripped"
         /\ Grows(ledger, ledger')
         /\ \A q \in Rows :
              (\E i \in drained : i.row = q) => \E e \in Episodes : Left(ledger', e, q)
<1>0. head \in HeadType /\ ledger \in LedgerType /\ pump \in 0..MaxEpisodes
  BY DEF TypeOK, HeadType, LedgerType
<1>1. CASE Unfinished(head)
  <2>1. head' = head /\ Drains(ledger', ledger, head.episode, drained)
    BY <1>1 DEF Begin, Drains
  <2>2. head.episode \in Episodes /\ head.state # "verified"
    BY <1>0, <1>1, ReplayAssumption DEF HeadGood, HeadType, Unfinished, Episodes
  <2>3. /\ LedgerGood(ledger', head, runs)
        /\ \A d \in Episodes : \A q \in Rows :
             /\ Left(ledger, d, q) => Left(ledger', d, q)
             /\ Out(ledger, d, q) => Out(ledger', d, q)
        /\ \A q \in Rows :
             (\E i \in drained : i.row = q) => Left(ledger', head.episode, q)
    BY <2>1, <2>2, DeferKeeps
  <2> QED
    BY <1>0, <1>1, <2>1, <2>2, <2>3 DEF Grows
<1>2. CASE ~Unfinished(head)
  <2> DEFINE new == [episode |-> head.episode + 1, attempts |-> 0,
                     state |-> "guard_tripped"]
  <2>1. head' = new /\ Drains(ledger', ledger, head.episode + 1, drained)
    BY <1>2 DEF Begin, Drains
  <2>2. head.episode \in Nat /\ head.episode + 1 \in Episodes
    BY <1>0, <1>2, ReplayAssumption DEF HeadType, Episodes
  <2>3. new \in HeadType /\ new.episode = head.episode + 1
        /\ new.state = "guard_tripped" /\ new.attempts = 0
    BY <2>2, ReplayAssumption DEF HeadType, Episodes
  <2> HIDE DEF new
  <2>4. LedgerGood(ledger, new, runs)
    BY <1>0, <2>2, <2>3, HeadMoves
  <2>5. /\ LedgerGood(ledger', new, runs)
        /\ \A d \in Episodes : \A q \in Rows :
             /\ Left(ledger, d, q) => Left(ledger', d, q)
             /\ Out(ledger, d, q) => Out(ledger', d, q)
        /\ \A q \in Rows :
             (\E i \in drained : i.row = q) => Left(ledger', head.episode + 1, q)
    BY <2>1, <2>2, <2>3, <2>4, DeferKeeps
  <2>6. PumpGood(pump, new) /\ HeadGood(new)
    BY <1>0, <2>2, <2>3, ReplayAssumption DEF PumpGood, HeadGood
  <2> QED
    BY <1>2, <2>1, <2>2, <2>3, <2>5, <2>6 DEF Grows
<1> QED
  BY <1>1, <1>2

-----------------------------------------------------------------------------
KeptNext(r) == Kept(inbox' \cup {hand'}, ledger', runs', gone', r)

\* No row is dropped when each way of being kept leads to one.
LEMMA KeptStays ==
  ASSUME TypeOK, AllKept, arrived' = arrived, gone \subseteq gone',
         \A r \in Rows : runs[r] > 0 => runs'[r] > 0,
         \A i \in inbox \cup {hand} : i.row \in Rows => KeptNext(i.row),
         \A e \in Episodes : \A r \in Rows : Left(ledger, e, r) => KeptNext(r)
  PROVE  AllKept'
<1>1. \A r \in 1..arrived : r \in Rows
  BY ReplayAssumption DEF TypeOK, Rows
<1>2. \A r \in Rows : Kept(inbox \cup {hand}, ledger, runs, gone, r) => KeptNext(r)
  BY DEF Kept, KeptNext
<1>3. \A r \in 1..arrived : KeptNext(r)
  BY <1>1, <1>2 DEF AllKept
<1> QED
  BY <1>3 DEF AllKept, KeptNext

\* A ledger that grows keeps its rows.
LEMMA GrowsKeeps ==
  ASSUME Grows(ledger, ledger')
  PROVE  \A e \in Episodes : \A r \in Rows : Left(ledger, e, r) => KeptNext(r)
BY DEF Grows, Kept, KeptNext

LEMMA GrowsSame == ASSUME NEW L PROVE Grows(L, L)
BY DEF Grows

LEMMA ArriveKeeps ==
  ASSUME IInv, Arrive
  PROVE  IInv'
<1> DEFINE new == [row |-> arrived + 1, episode |-> 0]
<1>1. arrived' \in 0..MaxRows /\ arrived \in Nat /\ arrived' = arrived + 1
  BY ReplayAssumption DEF Arrive, IInv, TypeOK
<1>2. new \in Item /\ new.row = arrived + 1 /\ new.episode = 0
  BY <1>1, ReplayAssumption DEF Item
<1>3. /\ inbox' = inbox \cup {new}
      /\ UNCHANGED <<head, ledger, hand, stage, pump, inFlight, timer, paused,
                     paced, runs, approved, gone, crashes>>
  BY DEF Arrive, durable, replay, history
<1> HIDE DEF new
<1>4. TypeOK'
  BY <1>1, <1>2, <1>3 DEF IInv, TypeOK
<1>5. ItemsGood(inbox' \cup {hand'}, ledger')
  BY <1>2, <1>3 DEF IInv, ItemsGood
<1>6. AllKept'
  <2> SUFFICES ASSUME NEW r \in 1..arrived'
               PROVE  Kept(inbox' \cup {hand'}, ledger', runs', gone', r)
    BY DEF AllKept
  <2>1. CASE r = arrived + 1
    BY <1>2, <1>3, <2>1 DEF Kept
  <2>2. CASE r \in 1..arrived
    <3>1. Kept(inbox \cup {hand}, ledger, runs, gone, r)
      BY <2>2 DEF IInv, AllKept
    <3> QED
      BY <1>3, <3>1 DEF Kept
  <2> QED
    BY <1>1, <2>1, <2>2
<1> QED
  BY <1>3, <1>4, <1>5, <1>6 DEF IInv, StageGood

LEMMA TakeKeeps ==
  ASSUME IInv, NEW item \in inbox, Take(item)
  PROVE  IInv'
<1>1. /\ stage = "idle" /\ stage' = "turn" /\ hand' = item
      /\ inbox' = inbox \ {item}
      /\ UNCHANGED <<head, ledger, arrived, pump, inFlight, timer, paused,
                     paced, runs, approved, gone, crashes>>
  BY DEF Take, durable, replay, history
<1>2. hand = Nothing /\ 0 \notin Rows
  BY <1>1, RowsAreNat DEF IInv, StageGood
<1>3. TypeOK'
  BY <1>1 DEF IInv, TypeOK
<1>4. ItemsGood(inbox' \cup {hand'}, ledger')
  BY <1>1 DEF IInv, ItemsGood
<1>5. \A i \in inbox \cup {hand} : i.row \in Rows => KeptNext(i.row)
  BY <1>1, <1>2 DEF KeptNext, Kept, Nothing
<1>6. AllKept'
  <2>1. \A e \in Episodes : \A r \in Rows : Left(ledger, e, r) => KeptNext(r)
    BY <1>1, GrowsSame, GrowsKeeps
  <2> QED
    BY <1>1, <1>5, <2>1, KeptStays DEF IInv
<1> QED
  BY <1>1, <1>3, <1>4, <1>6 DEF IInv, StageGood

\* The guard's drain: every row it takes from the inbox is in an episode.
LEMMA TripKeeps ==
  ASSUME IInv, Trip
  PROVE  IInv'
<1>1. /\ stage = "turn" /\ Begin(inbox)
      /\ Unfinished(head) \/ head.episode < MaxEpisodes
      /\ paused' = TRUE
      /\ UNCHANGED <<arrived, hand, pump, inFlight, timer, paced, runs, approved, gone,
                     crashes>>
  BY DEF Trip, replay, history
<1>2. /\ LedgerGood(ledger', head', runs)
      /\ PumpGood(pump, head')
      /\ HeadGood(head')
      /\ head' \in HeadType
      /\ Unfinished(head) => head' = head
      /\ ~Unfinished(head) => head'.state = "guard_tripped"
      /\ Grows(ledger, ledger')
      /\ \A q \in Rows :
           (\E i \in inbox : i.row = q) => \E e \in Episodes : Left(ledger', e, q)
  BY <1>1, BeginKeeps DEF IInv
<1>3. head \in HeadType
  BY DEF IInv, TypeOK, HeadType
<1>4. /\ inbox' \subseteq Item
      /\ \A i \in inbox' : i.row = 0
      /\ stage' \in {"compacting", "tripped"}
      /\ stage' = "compacting" => head'.state = "guard_tripped"
  <2>1. CASE head.state = "recovery_pending"
    BY <1>3, <2>1, WithBootstrapItems DEF Trip
  <2>2. CASE head.state # "recovery_pending"
    BY <1>2, <2>2 DEF Trip, Unfinished
  <2> QED
    BY <2>1, <2>2
<1>5. ledger' \in LedgerType
  BY <1>2 DEF LedgerGood
<1>6. TypeOK'
  BY <1>1, <1>2, <1>4, <1>5 DEF IInv, TypeOK, HeadType, LedgerType
<1>7. ItemsGood(inbox' \cup {hand'}, ledger')
  <2>1. inbox \cup {hand} \subseteq Item /\ ItemsGood(inbox \cup {hand}, ledger)
    BY DEF IInv, TypeOK
  <2>2. \A i \in (inbox' \cup {hand'}) \ (inbox \cup {hand}) : i.row = 0
    BY <1>1, <1>4
  <2> QED
    BY <1>2, <2>1, <2>2, ItemsKeep
<1>8. AllKept'
  <2>1. \A i \in inbox \cup {hand} : i.row \in Rows => KeptNext(i.row)
    BY <1>1, <1>2 DEF KeptNext, Kept
  <2>2. \A e \in Episodes : \A r \in Rows : Left(ledger, e, r) => KeptNext(r)
    BY <1>2, GrowsKeeps
  <2> QED
    BY <1>1, <2>1, <2>2, KeptStays DEF IInv
<1> QED
  BY <1>1, <1>2, <1>4, <1>6, <1>7, <1>8 DEF IInv, StageGood

\* The head that publishes its successor.
Publishes(k, h) == k = [h EXCEPT !.state = "recovery_pending"]

LEMMA PublishKeeps ==
  ASSUME NEW h \in HeadType, NEW n, NEW L, LedgerGood(L, h, n),
         h.state = "guard_tripped", HeadGood(h), PumpGood(pump, h),
         NEW k, Publishes(k, h)
  PROVE  /\ k \in HeadType /\ k.state = "recovery_pending"
         /\ k.episode = h.episode
         /\ LedgerGood(L, k, n) /\ HeadGood(k) /\ PumpGood(pump, k)
<1>1. /\ k \in HeadType /\ k.state = "recovery_pending"
      /\ k.episode = h.episode /\ k.attempts = h.attempts
  BY DEF HeadType, Publishes
<1>2. h.episode \in Nat
  BY ReplayAssumption DEF HeadType
<1>3. LedgerGood(L, k, n)
  BY <1>1, <1>2, HeadMoves
<1> QED
  BY <1>1, <1>3 DEF HeadGood, PumpGood

\* What arrived during the compaction is deferred with the rest.
LEMMA CommitKeeps ==
  ASSUME IInv, Commit
  PROVE  IInv'
<1>1. /\ stage = "compacting" /\ stage' = "tripped"
      /\ Drains(ledger', ledger, head.episode, inbox)
      /\ Publishes(head', head)
      /\ inbox' = WithBootstrap({}, head')
      /\ UNCHANGED <<arrived, hand, pump, inFlight, timer, paused, paced, runs,
                     approved, gone, crashes>>
  BY DEF Commit, Publish, Publishes, Drains, replay, history
<1>2. /\ head \in HeadType /\ head.state = "guard_tripped" /\ HeadGood(head)
      /\ PumpGood(pump, head) /\ LedgerGood(ledger, head, runs)
  BY <1>1 DEF IInv, StageGood, TypeOK, HeadType
<1>3. head.episode \in Episodes
  BY <1>2, ItemsBounded, ReplayAssumption DEF HeadGood, HeadType, Episodes
<1>4. /\ LedgerGood(ledger', head, runs)
      /\ \A d \in Episodes : \A q \in Rows :
           /\ Left(ledger, d, q) => Left(ledger', d, q)
           /\ Out(ledger, d, q) => Out(ledger', d, q)
      /\ \A q \in Rows :
           (\E i \in inbox : i.row = q) => Left(ledger', head.episode, q)
  BY <1>1, <1>2, <1>3, DeferKeeps
<1>5. /\ head' \in HeadType /\ LedgerGood(ledger', head', runs)
      /\ HeadGood(head') /\ PumpGood(pump, head')
  BY <1>1, <1>2, <1>4, PublishKeeps
<1>6. inbox' \subseteq Item /\ \A i \in inbox' : i.row = 0
  BY <1>1, <1>5, WithBootstrapItems
<1>7. TypeOK'
  <2>1. ledger' \in LedgerType
    BY <1>5 DEF LedgerGood
  <2> QED
    BY <1>1, <1>5, <1>6, <2>1 DEF IInv, TypeOK, HeadType, LedgerType
<1>8. Grows(ledger, ledger')
  BY <1>4 DEF Grows
<1>9. ItemsGood(inbox' \cup {hand'}, ledger')
  <2>1. inbox \cup {hand} \subseteq Item /\ ItemsGood(inbox \cup {hand}, ledger)
    BY DEF IInv, TypeOK
  <2>2. \A i \in (inbox' \cup {hand'}) \ (inbox \cup {hand}) : i.row = 0
    BY <1>1, <1>6
  <2> QED
    BY <1>8, <2>1, <2>2, ItemsKeep
<1>10. AllKept'
  <2>1. \A i \in inbox \cup {hand} : i.row \in Rows => KeptNext(i.row)
    BY <1>1, <1>3, <1>4 DEF KeptNext, Kept
  <2>2. \A e \in Episodes : \A r \in Rows : Left(ledger, e, r) => KeptNext(r)
    BY <1>8, GrowsKeeps
  <2> QED
    BY <1>1, <2>1, <2>2, KeptStays DEF IInv
<1> QED
  BY <1>1, <1>5, <1>7, <1>9, <1>10 DEF IInv, StageGood

\* The turn of a row ends.
LEMMA EndTurnKeeps ==
  ASSUME IInv, EndTurn
  PROVE  IInv'
<1>1. /\ hand.row # 0 /\ stage' = "ended"
      /\ runs' = [runs EXCEPT ![hand.row] = @ + 1]
      /\ paced' \in {paced, TRUE}
      /\ UNCHANGED <<head, ledger, arrived, inbox, hand, pump, inFlight, timer,
                     paused, approved, gone, crashes>>
  BY DEF EndTurn, durable, replay
<1>2. hand.row \in Rows /\ runs \in [Rows -> Nat]
  BY <1>1, ItemsBounded DEF IInv, TypeOK
<1>3. /\ runs' \in [Rows -> Nat] /\ runs'[hand.row] > 0
      /\ \A r \in Rows : runs[r] > 0 => runs'[r] > 0
  BY <1>1, <1>2
<1>4. TypeOK'
  BY <1>1, <1>3 DEF IInv, TypeOK
<1>5. LedgerGood(ledger', head', runs')
  BY <1>1, <1>3 DEF IInv, LedgerGood, ReplayedRan
<1>6. AllKept'
  <2>1. \A i \in inbox \cup {hand} : i.row \in Rows => KeptNext(i.row)
    BY <1>1 DEF KeptNext, Kept
  <2>2. \A e \in Episodes : \A r \in Rows : Left(ledger, e, r) => KeptNext(r)
    BY <1>1, GrowsSame, GrowsKeeps
  <2> QED
    BY <1>1, <1>3, <2>1, <2>2, KeptStays DEF IInv
<1> QED
  BY <1>1, <1>3, <1>4, <1>5, <1>6 DEF IInv, StageGood

\* A call of the pump with the head and the hand as the action leaves them.
LEMMA PumpStep ==
  ASSUME IInv, NEW from, NEW box, NEW led, Pump(from, box, led),
         from.episode \in 0..MaxEpisodes, from.busy \in BOOLEAN,
         from.armed \in BOOLEAN,
         LedgerGood(led, head', runs), PumpGood(from.episode, head'),
         box \subseteq Item, ItemsGood(box \cup {hand'}, led), hand' \in Item,
         head' \in HeadType, HeadGood(head'), StageGood',
         stage' \in {"idle", "turn", "compacting", "tripped", "ended", "resuming"},
         UNCHANGED <<arrived, paused, runs, gone, crashes>>, approved' \subseteq Episodes,
         \A i \in inbox \cup {hand} : i.row \in Rows =>
           (\E k \in box \cup {hand'} : k.row = i.row) \/ runs[i.row] > 0,
         \A e \in Episodes : \A r \in Rows :
           Left(ledger, e, r) => Left(led, e, r) \/ runs[r] > 0
  PROVE  IInv'
<1>1. /\ LedgerGood(ledger', head', runs)
      /\ PumpGood(pump', head')
      /\ pump' \in 0..MaxEpisodes
      /\ inbox' \subseteq Item
      /\ box \subseteq inbox'
      /\ ItemsGood(inbox' \cup {hand'}, ledger')
      /\ Grows(led, ledger')
  BY PumpKeeps
<1>2. inFlight' \in BOOLEAN /\ timer' \in BOOLEAN /\ paced' \in BOOLEAN
  BY PumpDoes DEF IInv, TypeOK
<1>3. ledger' \in LedgerType
  BY <1>1 DEF LedgerGood
<1>4. TypeOK'
  BY <1>1, <1>2, <1>3 DEF IInv, TypeOK, HeadType, LedgerType
<1>5. AllKept'
  <2>1. \A i \in inbox \cup {hand} : i.row \in Rows => KeptNext(i.row)
    BY <1>1 DEF KeptNext, Kept
  <2>2. \A e \in Episodes : \A r \in Rows : Left(ledger, e, r) => KeptNext(r)
    BY <1>1 DEF KeptNext, Kept, Grows
  <2> QED
    BY <2>1, <2>2, KeptStays DEF IInv
<1> QED
  BY <1>1, <1>4, <1>5 DEF IInv

LEMMA NothingType == Nothing \in Item /\ Nothing.row = 0 /\ Nothing.episode = 0
BY ReplayAssumption DEF Nothing, Item

\* The timer lets the pump go on with its episode.
LEMMA TimerKeeps ==
  ASSUME IInv, TimerFires
  PROVE  IInv'
<1> DEFINE from == Fields(pump, inFlight, FALSE)
<1>1. /\ Pump(from, inbox, ledger)
      /\ UNCHANGED <<head, arrived, hand, stage, paused, runs, approved, gone, crashes>>
  BY DEF TimerFires, history
<1>2. from.episode = pump /\ from.busy = inFlight /\ from.armed = FALSE
  BY DEF Fields
<1> HIDE DEF from
<1>3. /\ from.episode \in 0..MaxEpisodes /\ from.busy \in BOOLEAN
      /\ from.armed \in BOOLEAN
      /\ PumpGood(from.episode, head')
  BY <1>1, <1>2 DEF IInv, TypeOK
<1>4. /\ LedgerGood(ledger, head', runs) /\ inbox \subseteq Item
      /\ ItemsGood(inbox \cup {hand'}, ledger) /\ hand' \in Item
      /\ head' \in HeadType /\ HeadGood(head') /\ StageGood'
      /\ stage' \in {"idle", "turn", "compacting", "tripped", "ended", "resuming"}
  BY <1>1 DEF IInv, TypeOK, HeadType, StageGood
<1>5. \A i \in inbox \cup {hand} : i.row \in Rows =>
        (\E k \in inbox \cup {hand'} : k.row = i.row) \/ runs[i.row] > 0
  BY <1>1
<1>6. approved' \subseteq Episodes
  BY <1>1 DEF IInv, TypeOK
<1> QED
  BY <1>1, <1>3, <1>4, <1>5, <1>6, PumpStep

\* The verdict of a bootstrap moves the head, and may start the pump.
LEMMA EndBootstrapKeeps ==
  ASSUME IInv, NEW verified \in BOOLEAN, EndBootstrap(verified)
  PROVE  IInv'
<1>1. /\ hand.row = 0 /\ hand' = Nothing /\ stage' = "idle"
      /\ UNCHANGED <<arrived, paused, runs, gone, crashes>>
  BY DEF EndBootstrap, history
<1>0. approved' \subseteq Episodes
  <2>1. CASE head.episode = hand.episode /\ head.state = "recovery_pending"
    <3>1. head.episode \in Episodes
      BY <2>1, ReplayAssumption DEF IInv, TypeOK, HeadGood, Episodes
    <3>2. approved' \in {approved, approved \cup {head.episode}}
      BY <2>1 DEF EndBootstrap
    <3> QED
      BY <3>1, <3>2 DEF IInv, TypeOK
  <2>2. CASE ~(head.episode = hand.episode /\ head.state = "recovery_pending")
    BY <2>2 DEF EndBootstrap, IInv, TypeOK
  <2> QED
    BY <2>1, <2>2
<1>2. /\ hand' \in Item /\ StageGood'
      /\ stage' \in {"idle", "turn", "compacting", "tripped", "ended", "resuming"}
      /\ ItemsGood(inbox \cup {hand'}, ledger)
  BY <1>1, NothingType DEF StageGood, IInv, ItemsGood
<1>3. \A i \in inbox \cup {hand} : i.row \in Rows =>
        (\E k \in inbox \cup {hand'} : k.row = i.row) \/ runs[i.row] > 0
  BY <1>1, RowsAreNat
<1>4. /\ head \in HeadType /\ LedgerGood(ledger, head, runs)
      /\ inbox \subseteq Item /\ PumpGood(pump, head) /\ HeadGood(head)
  BY DEF IInv, TypeOK, HeadType
<1>5. CASE ~(head.episode = hand.episode /\ head.state = "recovery_pending")
  <2>1. UNCHANGED <<head, ledger, inbox, pump, inFlight, timer, paced>>
    BY <1>5 DEF EndBootstrap, durable, replay
  <2>2. TypeOK'
    BY <1>0, <1>1, <1>2, <2>1 DEF IInv, TypeOK
  <2>3. AllKept'
    <3>1. \A i \in inbox \cup {hand} : i.row \in Rows => KeptNext(i.row)
      BY <1>1, <1>3, <2>1 DEF KeptNext, Kept
    <3>2. \A e \in Episodes : \A r \in Rows : Left(ledger, e, r) => KeptNext(r)
      BY <2>1, GrowsSame, GrowsKeeps
    <3> QED
      BY <1>1, <3>1, <3>2, KeptStays DEF IInv
  <2> QED
    BY <1>1, <1>2, <2>1, <2>2, <2>3 DEF IInv
<1>6. CASE head.episode = hand.episode /\ head.state = "recovery_pending"
  <2>1. head' = [head EXCEPT !.attempts = @ + 1, !.state = Verdict(verified)]
    BY <1>6 DEF EndBootstrap
  <2>2. head.attempts < MaxAttempts /\ head.attempts \in Nat
        /\ head.episode \in Nat
    BY <1>4, <1>6, ReplayAssumption DEF HeadGood, HeadType
  <2>3. /\ Verdict(verified) \in {"verified", "exhausted", "recovery_pending"}
        /\ verified <=> Verdict(verified) = "verified"
        /\ Verdict(verified) = "recovery_pending" =>
             head.attempts + 1 < MaxAttempts
    BY <1>6, <2>2, ReplayAssumption DEF Verdict
  <2>4. /\ head' \in HeadType /\ head'.episode = head.episode
        /\ head'.state = Verdict(verified)
        /\ head'.attempts = head.attempts + 1
    <3> DEFINE a == head.attempts + 1
               v == Verdict(verified)
    <3>1. /\ a \in 0..MaxAttempts
          /\ v \in {"none", "guard_tripped", "recovery_pending", "verified",
                   "exhausted"}
      BY <2>2, <2>3, ReplayAssumption
    <3>2. head' = [head EXCEPT !.attempts = a, !.state = v]
      BY <2>1
    <3> HIDE DEF a, v
    <3>3. /\ head' \in HeadType /\ head'.episode = head.episode
          /\ head'.state = v /\ head'.attempts = a
      BY <1>4, <3>1, <3>2 DEF HeadType
    <3> QED
      BY <3>3 DEF a, v
  <2>5. HeadGood(head')
    BY <1>4, <1>6, <2>3, <2>4 DEF HeadGood
  <2>6. LedgerGood(ledger, head', runs)
    BY <1>4, <1>6, <2>2, <2>4, HeadMoves
  <2>7. CASE verified
    <3> DEFINE from == Fields(head.episode, inFlight, timer)
    <3>1. Pump(from, inbox, ledger)
      BY <1>6, <2>7 DEF EndBootstrap
    <3>2. /\ from.episode = head.episode /\ from.busy = inFlight
          /\ from.armed = timer
      BY DEF Fields
    <3> HIDE DEF from
    <3>3. /\ from.episode \in 0..MaxEpisodes /\ from.busy \in BOOLEAN
          /\ from.armed \in BOOLEAN
          /\ PumpGood(from.episode, head')
      BY <2>3, <2>4, <2>7, <3>2 DEF IInv, TypeOK, PumpGood
    <3> QED
      BY <1>0, <1>1, <1>2, <1>3, <1>4, <2>4, <2>5, <2>6, <3>1, <3>3, PumpStep
  <2>8. CASE ~verified
    <3>1. /\ inbox' = WithBootstrap(inbox, head')
          /\ UNCHANGED <<ledger, pump, inFlight, timer, paced>>
      BY <1>6, <2>8 DEF EndBootstrap, replay
    <3>2. /\ inbox' \subseteq Item /\ inbox \subseteq inbox'
          /\ \A i \in inbox' \ inbox : i.row = 0
      BY <1>4, <2>4, <3>1, WithBootstrapItems
    <3>3. PumpGood(pump, head')
      BY <1>4, <1>6, <2>4 DEF PumpGood
    <3>4. ItemsGood(inbox' \cup {hand'}, ledger')
      BY <1>2, <3>1, <3>2 DEF ItemsGood
    <3>5. TypeOK'
      BY <1>0, <1>1, <1>2, <2>4, <3>1, <3>2 DEF IInv, TypeOK, HeadType
    <3>6. AllKept'
      <4>1. \A i \in inbox \cup {hand} : i.row \in Rows => KeptNext(i.row)
        BY <1>1, <1>3, <3>2 DEF KeptNext, Kept
      <4>2. \A e \in Episodes : \A r \in Rows : Left(ledger, e, r) => KeptNext(r)
        BY <3>1, GrowsSame, GrowsKeeps
      <4> QED
        BY <1>1, <4>1, <4>2, KeptStays DEF IInv
    <3> QED
      BY <1>1, <1>2, <2>5, <2>6, <3>1, <3>3, <3>4, <3>5, <3>6 DEF IInv
  <2> QED
    BY <2>7, <2>8
<1> QED
  BY <1>5, <1>6

\* A row that has run leaves its episode, and only it does.
LEMMA AcknowledgeRow ==
  ASSUME NEW led, NEW h, NEW n, LedgerGood(led, h, n), NEW e \in Episodes,
         NEW r \in Rows, Out(led, e, r), n[r] > 0,
         NEW M, Updates(M, led, e, r, "replayed")
  PROVE  /\ LedgerGood(M, h, n)
         /\ \A d \in Episodes : \A q \in Rows :
              /\ Left(led, d, q) => Left(M, d, q) \/ n[q] > 0
              /\ Out(led, d, q) => Out(M, d, q)
<1>0. led \in LedgerType
  BY DEF LedgerGood
<1>1. /\ M \in LedgerType
      /\ M[e][r] = "replayed"
      /\ \A d \in Episodes : \A q \in Rows :
           ~(d = e /\ q = r) => M[d][q] = led[d][q]
  BY <1>0, LedgerExcept
<1>2. ReleasedLate(M, h) /\ ReplayedRan(M, n)
  BY <1>1 DEF LedgerGood, ReleasedLate, ReplayedRan, Out
<1>3. ReleasedInOrder(M)
  BY <1>1 DEF LedgerGood, ReleasedInOrder, Left
<1> QED
  BY <1>1, <1>2, <1>3 DEF LedgerGood, Left, Out

LEMMA AcknowledgeKeeps ==
  ASSUME IInv, Acknowledge
  PROVE  IInv'
<1>1. /\ stage = "ended" /\ hand' = Nothing /\ stage' = "idle"
      /\ UNCHANGED <<head, arrived, paused, runs, approved, gone, crashes>>
  BY DEF Acknowledge, history
<1>2. /\ hand.row # 0 /\ runs[hand.row] > 0 /\ hand \in Item
  BY <1>1 DEF IInv, StageGood, TypeOK
<1>3. hand.row \in Rows /\ (hand.episode # 0 => hand.episode \in Episodes)
  BY <1>2, ItemsBounded
<1>4. /\ hand' \in Item /\ StageGood' /\ inbox \subseteq Item
      /\ stage' \in {"idle", "turn", "compacting", "tripped", "ended", "resuming"}
      /\ head' \in HeadType /\ HeadGood(head') /\ PumpGood(pump, head')
      /\ LedgerGood(ledger, head', runs)
      /\ ItemsGood(inbox \cup {hand'}, ledger)
  BY <1>1, NothingType DEF StageGood, IInv, TypeOK, HeadType, ItemsGood
<1>5. \A i \in inbox \cup {hand} : i.row \in Rows =>
        (\E k \in inbox \cup {hand'} : k.row = i.row) \/ runs[i.row] > 0
  BY <1>2
<1>6. ASSUME NEW led, LedgerGood(led, head', runs),
             ItemsGood(inbox \cup {hand'}, led), inbox' = inbox, ledger' = led,
             UNCHANGED <<pump, inFlight, timer, paced>>,
             \A e \in Episodes : \A r \in Rows :
               Left(ledger, e, r) => Left(led, e, r) \/ runs[r] > 0
      PROVE  IInv'
  <2>1. led \in LedgerType
    BY <1>6 DEF LedgerGood
  <2>2. TypeOK'
    BY <1>1, <1>4, <1>6, <2>1 DEF IInv, TypeOK, LedgerType
  <2>3. AllKept'
    <3>1. \A i \in inbox \cup {hand} : i.row \in Rows => KeptNext(i.row)
      BY <1>1, <1>5, <1>6 DEF KeptNext, Kept
    <3>2. \A e \in Episodes : \A r \in Rows : Left(ledger, e, r) => KeptNext(r)
      BY <1>1, <1>6 DEF KeptNext, Kept
    <3> QED
      BY <1>1, <3>1, <3>2, KeptStays DEF IInv
  <2> QED
    BY <1>1, <1>4, <1>6, <2>2, <2>3 DEF IInv
<1>7. CASE hand.episode = 0
  BY <1>4, <1>6, <1>7 DEF Acknowledge, replay
<1>8. CASE hand.episode # 0
  <2> DEFINE acked == [ledger EXCEPT ![hand.episode][hand.row] = "replayed"]
  <2>1. Updates(acked, ledger, hand.episode, hand.row, "replayed")
    BY DEF Updates
  <2>2. IF pump = hand.episode
        THEN Pump(Fields(pump, FALSE, timer), inbox, acked)
        ELSE ledger' = acked /\ UNCHANGED <<inbox, pump, inFlight, timer, paced>>
    BY <1>8 DEF Acknowledge, replay
  <2> HIDE DEF acked
  <2>3. Out(ledger, hand.episode, hand.row)
    BY <1>2, <1>8 DEF IInv, ItemsGood
  <2>4. /\ LedgerGood(acked, head', runs)
        /\ \A d \in Episodes : \A q \in Rows :
             /\ Left(ledger, d, q) => Left(acked, d, q) \/ runs[q] > 0
             /\ Out(ledger, d, q) => Out(acked, d, q)
    BY <1>2, <1>3, <1>4, <1>8, <2>1, <2>3, AcknowledgeRow
  <2>5. ItemsGood(inbox \cup {hand'}, acked)
    BY <1>4, <2>4, ItemsBounded DEF ItemsGood
  <2>6. CASE pump = hand.episode
    <3> DEFINE from == Fields(pump, FALSE, timer)
    <3>1. Pump(from, inbox, acked)
      BY <2>2, <2>6
    <3>2. from.episode = pump /\ from.busy = FALSE /\ from.armed = timer
      BY DEF Fields
    <3> HIDE DEF from
    <3>3. /\ from.episode \in 0..MaxEpisodes /\ from.busy \in BOOLEAN
          /\ from.armed \in BOOLEAN
          /\ PumpGood(from.episode, head')
      BY <1>4, <3>2 DEF IInv, TypeOK
    <3>4. approved' \subseteq Episodes
      BY <1>1, <1>4 DEF IInv, TypeOK
    <3> QED
      BY <1>1, <1>4, <1>5, <2>4, <2>5, <3>1, <3>3, <3>4, PumpStep
  <2>7. CASE pump # hand.episode
    BY <1>6, <2>2, <2>4, <2>5, <2>7
  <2> QED
    BY <2>6, <2>7
<1> QED
  BY <1>7, <1>8

LEMMA ForgottenRows ==
  ASSUME NEW items, items \subseteq Item
  PROVE  Forgotten(items) \subseteq Rows
BY ItemsBounded DEF Forgotten

\* A row of an episode is there, in its ledger or with its run.
LEMMA OutKept ==
  ASSUME IInv, NEW i \in inbox \cup {hand}, i.row # 0, i.episode # 0,
         ledger' = ledger, runs' = runs
  PROVE  KeptNext(i.row)
<1>1. i.row \in Rows /\ i.episode \in Episodes
  BY ItemsBounded DEF IInv, TypeOK
<1>2. Out(ledger, i.episode, i.row)
  BY DEF IInv, ItemsGood
<1> QED
  BY <1>1, <1>2 DEF IInv, LedgerGood, ReplayedRan, Out, Left, KeptNext, Kept

\* Whatever is forgotten is recorded; the rest is in the inbox or an episode.
LEMMA ForgetKeeps ==
  ASSUME IInv, NEW lost, lost \subseteq inbox \cup {hand},
         gone' = gone \cup Forgotten(lost),
         \A i \in (inbox \cup {hand}) \ lost : i \in inbox' \cup {hand'},
         UNCHANGED <<ledger, arrived, runs>>
  PROVE  AllKept' /\ gone' \subseteq Rows
<1>1. gone' \subseteq Rows
  <2>1. lost \subseteq Item
    BY DEF IInv, TypeOK
  <2> QED
    BY <2>1, ForgottenRows DEF IInv, TypeOK
<1>2. \A i \in inbox \cup {hand} : i.row \in Rows => KeptNext(i.row)
  <2> SUFFICES ASSUME NEW i \in inbox \cup {hand}, i.row \in Rows
               PROVE  KeptNext(i.row)
    OBVIOUS
  <2>1. i.row # 0
    BY RowsAreNat
  <2>2. CASE i \notin lost
    BY <2>2 DEF KeptNext, Kept
  <2>3. CASE i \in lost /\ i.episode = 0
    BY <2>1, <2>3 DEF Forgotten, KeptNext, Kept
  <2>4. CASE i.episode # 0
    BY <2>1, <2>4, OutKept
  <2> QED
    BY <2>2, <2>3, <2>4
<1>3. \A e \in Episodes : \A r \in Rows : Left(ledger, e, r) => KeptNext(r)
  BY GrowsSame, GrowsKeeps
<1>4. AllKept'
  BY <1>2, <1>3, KeptStays DEF IInv
<1> QED
  BY <1>1, <1>4

\* The row goes back to the inbox, or is given up.
LEMMA ReturnKeeps ==
  ASSUME IInv, PutBack \/ Abandon
  PROVE  IInv'
<1>1. /\ hand' = Nothing /\ stage' = "idle"
      /\ inbox' \in {inbox, inbox \cup {hand}}
      /\ UNCHANGED <<head, ledger, arrived, pump, inFlight, timer, paused, paced,
                     runs, approved, crashes>>
  BY DEF PutBack, Abandon, durable, replay, history
<1>2. AllKept' /\ gone' \subseteq Rows
  <2>1. CASE PutBack
    <3>1. /\ {} \subseteq inbox \cup {hand}
          /\ gone' = gone \cup Forgotten({})
          /\ \A i \in (inbox \cup {hand}) \ {} : i \in inbox' \cup {hand'}
      BY <2>1 DEF PutBack, Forgotten, history
    <3> QED
      BY <1>1, <3>1, ForgetKeeps
  <2>2. CASE Abandon
    <3>1. /\ {hand} \subseteq inbox \cup {hand}
          /\ gone' = gone \cup Forgotten({hand})
          /\ \A i \in (inbox \cup {hand}) \ {hand} : i \in inbox' \cup {hand'}
      BY <2>2 DEF Abandon
    <3> QED
      BY <1>1, <3>1, ForgetKeeps
  <2> QED
    BY <2>1, <2>2
<1>3. inbox' \subseteq Item /\ hand' \in Item
  BY <1>1, NothingType DEF IInv, TypeOK
<1>4. TypeOK'
  BY <1>1, <1>2, <1>3 DEF IInv, TypeOK
<1>5. ItemsGood(inbox' \cup {hand'}, ledger')
  BY <1>1, NothingType DEF IInv, ItemsGood
<1> QED
  BY <1>1, <1>2, <1>4, <1>5 DEF IInv, StageGood

\* A crash: the ledger and the history keep what the inbox held.
LEMMA CrashKeeps ==
  ASSUME IInv, Crash
  PROVE  IInv'
<1>1. /\ hand' = Nothing /\ stage' = "resuming" /\ inbox' = {} /\ pump' = 0
      /\ inFlight' = FALSE /\ timer' = FALSE /\ paused' = FALSE /\ paced' = FALSE
      /\ crashes < MaxCrashes /\ crashes' = crashes + 1
      /\ gone' = gone \cup Forgotten(inbox \cup {hand})
      /\ UNCHANGED <<head, ledger, arrived, runs, approved>>
  BY DEF Crash, durable
<1>2. AllKept' /\ gone' \subseteq Rows
  BY <1>1, ForgetKeeps
<1>3. crashes' \in 0..MaxCrashes /\ pump' \in 0..MaxEpisodes
  BY <1>1, ReplayAssumption DEF IInv, TypeOK
<1>4. TypeOK'
  BY <1>1, <1>2, <1>3, NothingType DEF IInv, TypeOK
<1>5. ItemsGood(inbox' \cup {hand'}, ledger')
  BY <1>1, NothingType DEF ItemsGood
<1> QED
  BY <1>1, <1>2, <1>4, <1>5 DEF IInv, StageGood, PumpGood

\* A failed compaction, the end of the pause and of the pace move no row.
LEMMA IdleKeeps ==
  ASSUME IInv, CompactionFails \/ PauseEnds \/ PaceEnds
  PROVE  IInv'
<1>1. /\ UNCHANGED <<head, ledger, arrived, inbox, hand, pump, inFlight, timer,
                     runs, approved, gone, crashes>>
      /\ stage' = stage \/ stage' = "tripped"
      /\ paused' \in {paused, FALSE} /\ paced' \in {paced, FALSE}
  BY DEF CompactionFails, PauseEnds, PaceEnds, durable, replay, history
<1>2. TypeOK'
  BY <1>1 DEF IInv, TypeOK
<1>3. AllKept'
  BY <1>1 DEF IInv, AllKept
<1>4. StageGood'
  BY <1>1 DEF IInv, StageGood
<1> QED
  BY <1>1, <1>2, <1>3, <1>4 DEF IInv

\* Only bootstraps join the inbox, and the head moves to a good one.
LEMMA BootstrapsOnly ==
  ASSUME IInv, NEW more, inbox' = more, more \subseteq Item, inbox \subseteq more,
         \A i \in more \ inbox : i.row = 0,
         head' \in HeadType, LedgerGood(ledger, head', runs), HeadGood(head'),
         PumpGood(pump, head'), stage' = "idle", hand' = Nothing, hand = Nothing,
         UNCHANGED <<ledger, arrived, pump, inFlight, timer, paused, paced, runs,
                     approved, gone, crashes>>
  PROVE  IInv'
<1>1. TypeOK'
  BY NothingType DEF IInv, TypeOK, HeadType
<1>2. ItemsGood(inbox' \cup {hand'}, ledger')
  BY DEF IInv, ItemsGood
<1>3. AllKept'
  <2>1. \A i \in inbox \cup {hand} : i.row \in Rows => KeptNext(i.row)
    BY DEF KeptNext, Kept
  <2>2. \A e \in Episodes : \A r \in Rows : Left(ledger, e, r) => KeptNext(r)
    BY GrowsSame, GrowsKeeps
  <2> QED
    BY <2>1, <2>2, KeptStays DEF IInv
<1>4. StageGood'
  BY DEF StageGood
<1> QED
  BY <1>1, <1>2, <1>3, <1>4 DEF IInv

\* The restart goes on with the head it finds.
LEMMA ResumeKeeps ==
  ASSUME IInv, Resume
  PROVE  IInv'
<1>1. /\ stage = "resuming" /\ stage' = "idle"
      /\ UNCHANGED <<arrived, hand, paused, runs, approved, gone, crashes>>
  BY DEF Resume, history
<1>2. hand = Nothing /\ hand' = Nothing /\ hand' \in Item
  BY <1>1 DEF IInv, StageGood, TypeOK
<1>3. /\ head \in HeadType /\ LedgerGood(ledger, head, runs) /\ HeadGood(head)
      /\ PumpGood(pump, head) /\ inbox \subseteq Item
      /\ ItemsGood(inbox \cup {hand}, ledger)
  BY DEF IInv, TypeOK, HeadType
<1>4. CASE head.state = "verified"
  <2> DEFINE from == Fields(head.episode, inFlight, timer)
  <2>1. Pump(from, inbox, ledger) /\ head' = head
    BY <1>4 DEF Resume
  <2>2. /\ from.episode = head.episode /\ from.busy = inFlight
        /\ from.armed = timer
    BY DEF Fields
  <2> HIDE DEF from
  <2>3. /\ from.episode \in 0..MaxEpisodes /\ from.busy \in BOOLEAN
        /\ from.armed \in BOOLEAN
        /\ PumpGood(from.episode, head')
    BY <1>4, <2>1, <2>2 DEF IInv, TypeOK, PumpGood
  <2>4. \A i \in inbox \cup {hand} : i.row \in Rows =>
          (\E k \in inbox \cup {hand'} : k.row = i.row) \/ runs[i.row] > 0
    BY <1>1
  <2>5. StageGood'
    BY <1>1, <1>2 DEF StageGood
  <2>6. ItemsGood(inbox \cup {hand'}, ledger)
    BY <1>1, <1>3
  <2>7. /\ LedgerGood(ledger, head', runs) /\ head' \in HeadType
        /\ HeadGood(head')
    BY <1>3, <2>1
  <2>8. stage' \in {"idle", "turn", "compacting", "tripped", "ended", "resuming"}
    BY <1>1
  <2>9. approved' \subseteq Episodes
    BY <1>1 DEF IInv, TypeOK, Resume, history
  <2> QED
    BY <1>1, <1>2, <1>3, <2>1, <2>3, <2>4, <2>5, <2>6, <2>7, <2>8, <2>9,
       PumpStep
<1>5. CASE head.state # "verified"
  <2>1. UNCHANGED <<ledger, pump, inFlight, timer, paced>>
    BY <1>5 DEF Resume, replay
  <2>2. /\ head' \in HeadType /\ LedgerGood(ledger, head', runs)
        /\ HeadGood(head') /\ PumpGood(pump, head')
        /\ inbox' = WithBootstrap(inbox, head')
    <3>1. CASE head.state = "guard_tripped"
      <4>1. Publishes(head', head) /\ inbox' = WithBootstrap(inbox, head')
        BY <1>5, <3>1 DEF Resume, Publish, Publishes
      <4> QED
        BY <1>3, <3>1, <4>1, PublishKeeps
    <3>2. CASE head.state # "guard_tripped"
      BY <1>3, <1>5, <3>2 DEF Resume
    <3> QED
      BY <3>1, <3>2
  <2>3. /\ inbox' \subseteq Item /\ inbox \subseteq inbox'
        /\ \A i \in inbox' \ inbox : i.row = 0
    BY <1>3, <2>2, WithBootstrapItems
  <2> QED
    BY <1>1, <1>2, <2>1, <2>2, <2>3, BootstrapsOnly
<1> QED
  BY <1>4, <1>5

-----------------------------------------------------------------------------
\* The strengthened invariant of the guard's recovery and of the replay.
THEOREM Invariance == Spec => []IInv
<1>1. Init => IInv
  <2> SUFFICES ASSUME Init PROVE IInv
    OBVIOUS
  <2>1. TypeOK
    <3>1. head = [episode |-> 0, attempts |-> 0, state |-> "none"]
      BY DEF Init
    <3>2. 0 \in 0..MaxEpisodes /\ 0 \in 0..MaxAttempts /\ 0 \in 0..MaxRows
          /\ 0 \in 0..MaxCrashes
      BY ReplayAssumption
    <3>3. head \in HeadType
      BY <3>1, <3>2 DEF HeadType
    <3>4. ledger \in LedgerType /\ runs \in [Rows -> Nat]
      BY DEF Init, LedgerType
    <3>5. hand \in Item
      BY NothingType DEF Init
    <3>6. /\ arrived \in 0..MaxRows /\ pump \in 0..MaxEpisodes
          /\ crashes \in 0..MaxCrashes /\ inbox \subseteq Item /\ gone \subseteq Rows
          /\ approved \subseteq Episodes
      BY <3>2 DEF Init
    <3>7. /\ stage \in {"idle", "turn", "compacting", "tripped", "ended", "resuming"}
          /\ inFlight \in BOOLEAN /\ timer \in BOOLEAN
          /\ paused \in BOOLEAN /\ paced \in BOOLEAN
      BY DEF Init
    <3> QED
      BY <3>3, <3>4, <3>5, <3>6, <3>7 DEF TypeOK, HeadType, LedgerType
  <2>2. LedgerGood(ledger, head, runs)
    <3>1. ledger \in LedgerType
      BY DEF Init, LedgerType
    <3>2. \A e \in Episodes : \A r \in Rows : ledger[e][r] = "none"
      BY DEF Init
    <3> QED
      BY <3>1, <3>2 DEF LedgerGood, ReleasedLate, ReleasedInOrder, ReplayedRan
  <2>3. /\ ItemsGood(inbox \cup {hand}, ledger) /\ PumpGood(pump, head)
        /\ HeadGood(head) /\ StageGood
    BY NothingType DEF Init, ItemsGood, PumpGood, HeadGood, StageGood
  <2>4. AllKept
    BY DEF Init, AllKept
  <2> QED
    BY <2>1, <2>2, <2>3, <2>4 DEF IInv
<1>2. IInv /\ [Next]_vars => IInv'
  <2> SUFFICES ASSUME IInv, [Next]_vars PROVE IInv'
    OBVIOUS
  <2>1. CASE Next
    BY <2>1, ArriveKeeps, TakeKeeps, TripKeeps, CommitKeeps, IdleKeeps,
       EndTurnKeeps, EndBootstrapKeeps, AcknowledgeKeeps, ReturnKeeps,
       TimerKeeps, CrashKeeps, ResumeKeeps DEF Next
  <2>2. CASE UNCHANGED vars
    <3>1. UNCHANGED <<head, ledger, arrived, inbox, hand, stage, pump, inFlight,
                      timer, paused, paced, runs, approved, gone, crashes>>
      BY <2>2 DEF vars
    <3>2. TypeOK'
      BY <3>1 DEF IInv, TypeOK
    <3>3. AllKept'
      BY <3>1 DEF IInv, AllKept
    <3> QED
      BY <3>1, <3>2, <3>3 DEF IInv, StageGood
  <2> QED
    BY <2>1, <2>2
<1> QED
  BY <1>1, <1>2, PTL DEF Spec

\* Every variable of the recovery and of the replay keeps its type.
THEOREM TypeCorrect == Spec => []TypeOK
<1>1. IInv => TypeOK
  BY DEF IInv
<1> QED
  BY <1>1, Invariance, PTL

\* No drain, commit, restart or acknowledgement drops a row that arrived.
THEOREM NoRowDropped == Spec => []NothingDropped
<1>1. IInv => NothingDropped
  BY DEF IInv, AllKept, Kept, Left, NothingDropped, Queued, Unreplayed
<1> QED
  BY <1>1, Invariance, PTL

\* The pump of a session has one row of an episode out at a time.
THEOREM OneRowOut == Spec => []OneReleasing
<1>1. IInv => OneReleasing
  <2> SUFFICES ASSUME IInv, NEW e \in Episodes
               PROVE  Cardinality({r \in Rows : ledger[e][r] = "releasing"}) <= 1
    BY DEF OneReleasing
  <2> DEFINE out == {r \in Rows : ledger[e][r] = "releasing"}
  <2>1. ReleasedInOrder(ledger)
    BY DEF IInv, LedgerGood
  <2>2. \A r, q \in out : r <= q
    BY <2>1 DEF ReleasedInOrder, Left
  <2>3. \A r, q \in out : r = q
    BY <2>2, RowsAreNat
  <2>4. CASE out = {}
    BY <2>4, FS_EmptySet
  <2>5. CASE out # {}
    <3>1. PICK r \in out : TRUE
      BY <2>5
    <3>2. out = {r}
      BY <2>3, <3>1
    <3>3. Cardinality({r}) = 1
      BY FS_Singleton
    <3> QED
      BY <3>2, <3>3
  <2> QED
    BY <2>4, <2>5
<1> QED
  BY <1>1, Invariance, PTL
-----------------------------------------------------------------------------
(***************************************************************************)
(* A row runs again only after a crash.  Between two crashes there is one  *)
(* way at most in which a row may still run: one item, or one episode that *)
(* is yet to release it.                                                   *)
(***************************************************************************)

\* The episodes that may release a row again: the pump's or the head's, unless
\* the pump has the row out.
Dues(L, ep, p, busy) ==
  [r \in Rows |-> {e \in Episodes \cap {p, ep} :
                     Left(L, e, r) /\ (e = p /\ busy => L[e][r] = "deferred")}]

\* A row has one item, in the inbox or in hand.
OneItem(box, held) ==
  /\ \A i, j \in box \cup {held} : i.row = j.row /\ i.row # 0 => i = j
  /\ held.row # 0 => held \notin box

\* A released item is out in its episode; the pump knows of its own.
OutKnown(L, ep, p, busy, items) ==
  \A i \in items : i.row # 0 /\ i.episode # 0 =>
    /\ L[i.episode][i.row] = "releasing"
    /\ i.episode \in {p, ep} => i.episode = p /\ busy

\* A row that is due is due in one episode, and is neither queued nor in hand.
DueOnce(D, items) ==
  \A r \in Rows : D[r] # {} =>
    /\ \A i \in items : i.row # r
    /\ \A e, d \in D[r] : e = d

MayRun(D, box, held, st, r) ==
  \/ \E i \in box : i.row = r
  \/ held.row = r /\ st # "ended"
  \/ D[r] # {}

\* A row that may still run has a run to spare.
RunsLeft(D, box, held, st, n, c) ==
  \A r \in Rows :
    /\ n[r] <= c + 1
    /\ MayRun(D, box, held, st, r) => n[r] <= c

OneCopy(L, ep, p, busy, box, held, st, n, c) ==
  /\ OneItem(box, held)
  /\ OutKnown(L, ep, p, busy, box \cup {held})
  /\ DueOnce(Dues(L, ep, p, busy), box \cup {held})
  /\ RunsLeft(Dues(L, ep, p, busy), box, held, st, n, c)

\* Nothing is known of a row that has not arrived, or in a later episode.
Unheard(L, ep, a, n, items) ==
  /\ \A r \in Rows : \A e \in Episodes : r > a \/ e > ep => L[e][r] = "none"
  /\ \A r \in Rows : r > a => n[r] = 0 /\ \A i \in items : i.row # r

CopyInv ==
  /\ OneCopy(ledger, head.episode, pump, inFlight, inbox, hand, stage, runs, crashes)
  /\ Unheard(ledger, head.episode, arrived, runs, inbox \cup {hand})
  /\ stage = "resuming" => pump = 0 /\ ~inFlight /\ ~timer

\* Fewer episodes have the row due, ...
LEMMA FewerDues ==
  ASSUME NEW L, NEW ep, NEW p, NEW busy, NEW box, NEW held, NEW st, NEW n, NEW c,
         OneCopy(L, ep, p, busy, box, held, st, n, c),
         NEW M, NEW eq, NEW q, NEW b,
         \A r \in Rows : Dues(M, eq, q, b)[r] \subseteq Dues(L, ep, p, busy)[r],
         OutKnown(M, eq, q, b, box \cup {held})
  PROVE  OneCopy(M, eq, q, b, box, held, st, n, c)
<1> DEFINE D == Dues(L, ep, p, busy)
           E == Dues(M, eq, q, b)
<1>1. /\ OneItem(box, held) /\ DueOnce(D, box \cup {held})
      /\ RunsLeft(D, box, held, st, n, c)
      /\ \A r \in Rows : E[r] \subseteq D[r]
  BY DEF OneCopy
<1> HIDE DEF D, E
<1>2. DueOnce(E, box \cup {held})
  BY <1>1 DEF DueOnce
<1>3. RunsLeft(E, box, held, st, n, c)
  BY <1>1 DEF RunsLeft, MayRun
<1> QED
  BY <1>1, <1>2, <1>3 DEF OneCopy, E

\* ... or there are fewer items, none of which can run that could not before.
LEMMA FewerItems ==
  ASSUME NEW L, NEW ep, NEW p, NEW busy, NEW box, NEW held, NEW st, NEW n, NEW c,
         OneCopy(L, ep, p, busy, box, held, st, n, c),
         NEW box2, NEW held2, NEW st2,
         \A i \in box2 \cup {held2} : i.row # 0 => i \in box \cup {held},
         held2.row # 0 => held2 \notin box2,
         \A i \in box2 : i.row # 0 => i \in box \/ st # "ended",
         held2.row # 0 => held2 \in box \/ st # "ended" \/ st2 = "ended"
  PROVE  OneCopy(L, ep, p, busy, box2, held2, st2, n, c)
<1> DEFINE D == Dues(L, ep, p, busy)
<1>1. /\ OneItem(box, held) /\ DueOnce(D, box \cup {held})
      /\ RunsLeft(D, box, held, st, n, c)
      /\ OutKnown(L, ep, p, busy, box \cup {held})
  BY DEF OneCopy
<1> HIDE DEF D
<1>2. OneItem(box2, held2)
  BY <1>1 DEF OneItem
<1>3. DueOnce(D, box2 \cup {held2})
  BY <1>1, RowsAreNat DEF DueOnce
<1>4. OutKnown(L, ep, p, busy, box2 \cup {held2})
  BY <1>1 DEF OutKnown
<1>5. ASSUME NEW r \in Rows, MayRun(D, box2, held2, st2, r)
      PROVE  MayRun(D, box, held, st, r)
  <2>1. r # 0
    BY RowsAreNat
  <2>2. CASE \E i \in box2 : i.row = r
    BY <2>1, <2>2 DEF MayRun
  <2>3. CASE held2.row = r /\ st2 # "ended"
    BY <2>1, <2>3 DEF MayRun
  <2>4. CASE D[r] # {}
    BY <2>4 DEF MayRun
  <2> QED
    BY <1>5, <2>2, <2>3, <2>4 DEF MayRun
<1>6. RunsLeft(D, box2, held2, st2, n, c)
  BY <1>1, <1>5 DEF RunsLeft
<1> QED
  BY <1>2, <1>3, <1>4, <1>6 DEF OneCopy, D

\* The pump waits for its timer or a row, is done, or releases a row.
LEMMA PumpOutcomes ==
  ASSUME NEW from, NEW box, NEW led, from.episode \in 0..MaxEpisodes,
         Pump(from, box, led)
  PROVE  \/ /\ pump' = from.episode /\ inFlight' = from.busy
            /\ inbox' = box /\ ledger' = led
         \/ /\ pump' = 0 /\ inFlight' = from.busy /\ ~from.busy
            /\ inbox' = box /\ ledger' = led
            /\ \A r \in Rows : ~Left(led, from.episode, r)
         \/ /\ pump' = from.episode /\ inFlight' = TRUE /\ ~from.busy
            /\ from.episode \in Episodes
            /\ Released(from.episode, box, led)
<1> DEFINE e == from.episode
           left == ListDeferred(led[e])
<1>1. CASE e = 0 \/ from.busy \/ from.armed \/ MustWait(box)
  BY <1>1 DEF Pump, Keep
<1>2. CASE ~(e = 0 \/ from.busy \/ from.armed \/ MustWait(box)) /\ left = {}
  <2>1. pump' = 0 /\ inFlight' = from.busy /\ inbox' = box /\ ledger' = led
    BY <1>2 DEF Pump, Keep
  <2>2. \A r \in Rows : ~Left(led, e, r)
    BY <1>2 DEF ListDeferred, Left
  <2> QED
    BY <1>2, <2>1, <2>2
<1>3. CASE ~(e = 0 \/ from.busy \/ from.armed \/ MustWait(box)) /\ left # {}
  <2>1. Release(from, Min(left), box, led)
    BY <1>3 DEF Pump
  <2>2. left \subseteq Rows /\ \A r \in Rows : r \in left <=> Left(led, e, r)
    BY DEF ListDeferred, Left
  <2>3. e \in Episodes
    BY <1>3, ReplayAssumption DEF Episodes
  <2>4. Min(left) \in left /\ \A q \in left : Min(left) <= q
    BY <1>3, <2>2, MinLeft
  <2>5. /\ ledger' = [led EXCEPT ![e][Min(left)] = "releasing"]
        /\ inbox' = box \cup {[row |-> Min(left), episode |-> e]}
        /\ pump' = e /\ inFlight' = TRUE
    BY <2>1 DEF Release
  <2> HIDE DEF left
  <2>6. Released(e, box, led)
    BY <2>2, <2>4, <2>5 DEF Released
  <2> QED
    BY <1>3, <2>3, <2>5, <2>6
<1> QED
  BY <1>1, <1>2, <1>3

\* A release takes a row that was due, and it is due no more.
LEMMA ReleaseCopies ==
  ASSUME NEW led \in LedgerType, NEW ep, NEW e \in Episodes, NEW box, NEW held,
         NEW st, NEW n, NEW c, box \cup {held} \subseteq Item,
         OneCopy(led, ep, e, FALSE, box, held, st, n, c),
         NEW M, NEW r \in Rows, Left(led, e, r), Updates(M, led, e, r, "releasing"),
         NEW box2, box2 = box \cup {[row |-> r, episode |-> e]}
  PROVE  OneCopy(M, ep, e, TRUE, box2, held, st, n, c)
<1> DEFINE D == Dues(led, ep, e, FALSE)
           E == Dues(M, ep, e, TRUE)
           new == [row |-> r, episode |-> e]
<1>1. /\ M \in LedgerType /\ M[e][r] = "releasing"
      /\ \A d \in Episodes : \A q \in Rows :
           ~(d = e /\ q = r) => M[d][q] = led[d][q]
  BY LedgerExcept
<1>2. e \in D[r] /\ r # 0 /\ e # 0
  BY RowsAreNat DEF Dues
<1>3. new.row = r /\ new.episode = e /\ box2 = box \cup {new}
  OBVIOUS
<1>4. \A q \in Rows : E[q] \subseteq D[q]
  <2> SUFFICES ASSUME NEW q \in Rows, NEW d \in E[q] PROVE d \in D[q]
    OBVIOUS
  <2>1. d \in Episodes
    BY DEF Dues
  <2>2. (d = e \/ d = ep) /\ Left(M, d, q) /\ (d = e => M[d][q] = "deferred")
    BY <2>1 DEF Dues
  <2>3. Left(led, d, q)
    BY <1>1, <2>1, <2>2 DEF Left
  <2> QED
    BY <2>1, <2>2, <2>3 DEF Dues
<1>5. /\ OneItem(box, held) /\ DueOnce(D, box \cup {held})
      /\ RunsLeft(D, box, held, st, n, c)
      /\ OutKnown(led, ep, e, FALSE, box \cup {held})
  BY DEF OneCopy
<1>6. E[r] = {}
  <2> SUFFICES ASSUME NEW d \in E[r] PROVE FALSE
    OBVIOUS
  <2>1. d = e
    BY <1>2, <1>4, <1>5 DEF DueOnce
  <2>2. M[e][r] = "deferred"
    BY <2>1 DEF Dues
  <2> QED
    BY <1>1, <2>2
<1> HIDE DEF D, E, new
<1>7. \A i \in box \cup {held} : i.row # r
  BY <1>2, <1>5 DEF DueOnce
<1>8. OneItem(box2, held)
  BY <1>3, <1>5, <1>7 DEF OneItem
<1>9. OutKnown(M, ep, e, TRUE, box2 \cup {held})
  <2> SUFFICES ASSUME NEW i \in box2 \cup {held}, i.row # 0, i.episode # 0
               PROVE  /\ M[i.episode][i.row] = "releasing"
                      /\ i.episode \in {e, ep} => i.episode = e
    BY DEF OutKnown
  <2>1. CASE i = new
    BY <1>1, <1>3, <2>1
  <2>2. CASE i \in box \cup {held}
    <3>1. led[i.episode][i.row] = "releasing" /\ i.episode \notin {e, ep}
      BY <1>5, <2>2 DEF OutKnown
    <3>2. i.row \in Rows /\ i.episode \in Episodes
      BY <2>2, ItemsBounded
    <3> QED
      BY <1>1, <3>1, <3>2
  <2> QED
    BY <1>3, <2>1, <2>2
<1>10. DueOnce(E, box2 \cup {held})
  BY <1>3, <1>4, <1>5, <1>6 DEF DueOnce
<1>11. RunsLeft(E, box2, held, st, n, c)
  <2> SUFFICES ASSUME NEW q \in Rows, MayRun(E, box2, held, st, q)
               PROVE  MayRun(D, box, held, st, q)
    BY <1>5 DEF RunsLeft
  <2>1. CASE q = r
    BY <1>2, <2>1 DEF MayRun
  <2>2. CASE q # r
    BY <1>3, <1>4, <2>2 DEF MayRun
  <2> QED
    BY <2>1, <2>2
<1> QED
  BY <1>8, <1>9, <1>10, <1>11 DEF OneCopy, E

\* Any call of the pump.
LEMMA PumpCopies ==
  ASSUME NEW from, NEW box, NEW led \in LedgerType, NEW ep, NEW held, NEW st,
         NEW n, NEW c, from.episode \in 0..MaxEpisodes, from.busy \in BOOLEAN,
         Pump(from, box, led), box \cup {held} \subseteq Item,
         OneCopy(led, ep, from.episode, from.busy, box, held, st, n, c)
  PROVE  OneCopy(ledger', ep, pump', inFlight', inbox', held, st, n, c)
<1> DEFINE e == from.episode
<1>1. CASE /\ pump' = e /\ inFlight' = from.busy
           /\ inbox' = box /\ ledger' = led
  BY <1>1
<1>2. CASE /\ pump' = 0 /\ inFlight' = from.busy /\ ~from.busy
           /\ inbox' = box /\ ledger' = led
           /\ \A r \in Rows : ~Left(led, e, r)
  <2> DEFINE b == from.busy
  <2>1. \A r \in Rows : Dues(led, ep, 0, b)[r] \subseteq Dues(led, ep, e, b)[r]
    BY <1>2, RowsAreNat DEF Dues
  <2>2. OutKnown(led, ep, e, b, box \cup {held})
    BY DEF OneCopy
  <2>3. OutKnown(led, ep, 0, b, box \cup {held})
    BY <1>2, <2>2 DEF OutKnown
  <2>4. OneCopy(led, ep, e, b, box, held, st, n, c)
    OBVIOUS
  <2> HIDE DEF b
  <2>5. OneCopy(led, ep, 0, b, box, held, st, n, c)
    BY <2>1, <2>3, <2>4, FewerDues
  <2> QED
    BY <1>2, <2>5 DEF b
<1>3. CASE /\ pump' = e /\ inFlight' = TRUE /\ ~from.busy
           /\ e \in Episodes
           /\ Released(e, box, led)
  <2>1. PICK r \in Rows :
          /\ Left(led, e, r)
          /\ Updates(ledger', led, e, r, "releasing")
          /\ inbox' = box \cup {[row |-> r, episode |-> e]}
    BY <1>3 DEF Released, Updates
  <2>2. from.busy = FALSE
    BY <1>3
  <2>3. OneCopy(led, ep, e, FALSE, box, held, st, n, c)
    BY <2>2
  <2>4. OneCopy(ledger', ep, e, TRUE, inbox', held, st, n, c)
    BY <1>3, <2>1, <2>3, ReleaseCopies
  <2> QED
    BY <1>3, <2>4
<1> QED
  BY <1>1, <1>2, <1>3, PumpOutcomes

\* Items move between inbox and hand, or are given up.
LEMMA MoveCopies ==
  ASSUME CopyInv, UNCHANGED <<ledger, pump, inFlight, arrived, runs, crashes>>,
         head'.episode = head.episode, stage' # "resuming",
         \A i \in inbox' \cup {hand'} : i.row # 0 => i \in inbox \cup {hand},
         hand'.row # 0 => hand' \notin inbox',
         \A i \in inbox' : i.row # 0 => i \in inbox \/ stage # "ended",
         hand'.row # 0 => hand' \in inbox \/ stage # "ended" \/ stage' = "ended"
  PROVE  CopyInv'
<1>1. OneCopy(ledger, head.episode, pump, inFlight, inbox', hand', stage', runs, crashes)
  BY FewerItems DEF CopyInv
<1>2. OneCopy(ledger, head.episode, pump, inFlight, inbox, hand, stage, runs, crashes)'
  BY <1>1
<1>3. Unheard(ledger, head.episode, arrived, runs, inbox \cup {hand})'
  BY RowsAreNat DEF CopyInv, Unheard
<1> QED
  BY <1>2, <1>3 DEF CopyInv

LEMMA CopiesHere ==
  ASSUME CopyInv
  PROVE  /\ OneItem(inbox, hand)
         /\ OutKnown(ledger, head.episode, pump, inFlight, inbox \cup {hand})
         /\ DueOnce(Dues(ledger, head.episode, pump, inFlight), inbox \cup {hand})
         /\ RunsLeft(Dues(ledger, head.episode, pump, inFlight), inbox, hand,
                     stage, runs, crashes)
BY DEF CopyInv, OneCopy

\* The steps that only move an item.
LEMMA MovesCopies ==
  ASSUME IInv, CopyInv,
         \/ \E item \in inbox : Take(item)
         \/ CompactionFails \/ PutBack \/ Abandon \/ PauseEnds \/ PaceEnds
  PROVE  CopyInv'
<1>1. /\ UNCHANGED <<ledger, pump, inFlight, arrived, runs, crashes>>
      /\ head'.episode = head.episode
  BY DEF Take, CompactionFails, PutBack, Abandon, PauseEnds, PaceEnds, durable,
         replay, history
<1>2. /\ stage \in {"idle", "resuming"} => hand = Nothing
      /\ hand.row # 0 => hand \notin inbox
  BY CopiesHere DEF IInv, StageGood, OneItem
<1>3. ASSUME NEW item \in inbox, Take(item)
      PROVE  CopyInv'
  <2>1. /\ stage = "idle" /\ inbox' = inbox \ {item} /\ hand' = item
        /\ stage' = "turn"
    BY <1>3 DEF Take
  <2> QED
    BY <1>1, <2>1, MoveCopies
<1>4. CASE PutBack \/ Abandon
  <2>1. /\ stage = "turn" /\ hand' = Nothing /\ stage' = "idle"
        /\ inbox' \in {inbox, inbox \cup {hand}}
    BY <1>4 DEF PutBack, Abandon
  <2> QED
    BY <1>1, <2>1, MoveCopies, NothingType
<1>5. CASE CompactionFails \/ PauseEnds \/ PaceEnds
  <2>1. /\ UNCHANGED <<inbox, hand, timer>>
        /\ \/ stage = "compacting" /\ stage' = "tripped"
           \/ stage' = stage
    BY <1>5 DEF CompactionFails, PauseEnds, PaceEnds, replay
  <2>2. CASE stage' # "resuming"
    BY <1>1, <1>2, <2>1, <2>2, MoveCopies
  <2>3. CASE stage' = "resuming"
    <3>1. stage' = stage
      BY <2>1, <2>3
    <3> QED
      BY <1>1, <2>1, <3>1 DEF CopyInv
  <2> QED
    BY <2>2, <2>3
<1> QED
  BY <1>3, <1>4, <1>5

\* A row that arrives has neither run nor been deferred.
LEMMA ArriveCopies ==
  ASSUME IInv, CopyInv, Arrive
  PROVE  CopyInv'
<1> DEFINE new == [row |-> arrived + 1, episode |-> 0]
           D == Dues(ledger, head.episode, pump, inFlight)
<1>1. arrived \in Nat /\ arrived + 1 \in Rows /\ arrived' = arrived + 1
  BY ReplayAssumption DEF Arrive, IInv, TypeOK, Rows
<1>2. new.row = arrived + 1 /\ new.episode = 0 /\ inbox' = inbox \cup {new}
  BY DEF Arrive
<1>3. UNCHANGED <<head, ledger, hand, stage, pump, inFlight, timer, runs, crashes>>
  BY DEF Arrive, durable, replay, history
<1>4. /\ \A e \in Episodes : ledger[e][arrived + 1] = "none"
      /\ runs[arrived + 1] = 0
      /\ \A i \in inbox \cup {hand} : i.row # arrived + 1
  <2>1. arrived + 1 > arrived
    BY <1>1
  <2>2. Unheard(ledger, head.episode, arrived, runs, inbox \cup {hand})
    BY DEF CopyInv
  <2> QED
    BY <1>1, <2>1, <2>2 DEF Unheard
<1>5. D[arrived + 1] = {}
  BY <1>1, <1>4 DEF Dues, Left
<1>6. crashes \in Nat
  BY ReplayAssumption DEF IInv, TypeOK
<1> HIDE DEF new, D
<1>7. /\ OneItem(inbox, hand) /\ DueOnce(D, inbox \cup {hand})
      /\ RunsLeft(D, inbox, hand, stage, runs, crashes)
      /\ OutKnown(ledger, head.episode, pump, inFlight, inbox \cup {hand})
  BY CopiesHere DEF D
<1>8. OneItem(inbox', hand)
  BY <1>2, <1>4, <1>7 DEF OneItem
<1>9. OutKnown(ledger, head.episode, pump, inFlight, inbox' \cup {hand})
  BY <1>2, <1>7 DEF OutKnown
<1>10. DueOnce(D, inbox' \cup {hand})
  BY <1>2, <1>5, <1>7 DEF DueOnce
<1>11. RunsLeft(D, inbox', hand, stage, runs, crashes)
  <2> SUFFICES ASSUME NEW r \in Rows, MayRun(D, inbox', hand, stage, r)
               PROVE  runs[r] <= crashes
    BY <1>7 DEF RunsLeft
  <2>1. CASE r = arrived + 1
    BY <1>4, <1>6, <2>1
  <2>2. CASE r # arrived + 1
    BY <1>2, <1>7, <2>2 DEF RunsLeft, MayRun
  <2> QED
    BY <2>1, <2>2
<1>12. OneCopy(ledger, head.episode, pump, inFlight, inbox', hand, stage, runs, crashes)
  BY <1>8, <1>9, <1>10, <1>11 DEF OneCopy, D
<1>13. OneCopy(ledger, head.episode, pump, inFlight, inbox, hand, stage, runs, crashes)'
  BY <1>3, <1>12
<1>14. Unheard(ledger, head.episode, arrived, runs, inbox \cup {hand})'
  <2>1. \A r \in Rows : r > arrived' => r > arrived /\ r # arrived + 1
    BY <1>1, RowsAreNat
  <2> QED
    BY <1>2, <1>3, <2>1 DEF CopyInv, Unheard
<1> QED
  BY <1>3, <1>13, <1>14 DEF CopyInv

\* A run uses up the one way in which the row could run.
LEMMA EndTurnCopies ==
  ASSUME IInv, CopyInv, EndTurn
  PROVE  CopyInv'
<1> DEFINE D == Dues(ledger, head.episode, pump, inFlight)
<1>1. /\ hand.row # 0 /\ stage' = "ended" /\ stage # "ended" /\ stage # "resuming"
      /\ runs' = [runs EXCEPT ![hand.row] = @ + 1]
      /\ UNCHANGED <<head, ledger, arrived, inbox, hand, pump, inFlight, crashes>>
  BY DEF EndTurn, TurnOver, durable, replay
<1>2. hand.row \in Rows /\ runs \in [Rows -> Nat] /\ crashes \in Nat
  BY <1>1, ItemsBounded, ReplayAssumption DEF IInv, TypeOK
<1> HIDE DEF D
<1>3. /\ OneItem(inbox, hand) /\ DueOnce(D, inbox \cup {hand})
      /\ RunsLeft(D, inbox, hand, stage, runs, crashes)
      /\ OutKnown(ledger, head.episode, pump, inFlight, inbox \cup {hand})
  BY CopiesHere DEF D
<1>4. runs[hand.row] <= crashes
  BY <1>1, <1>2, <1>3 DEF RunsLeft, MayRun
<1>5. ~MayRun(D, inbox, hand, "ended", hand.row)
  BY <1>1, <1>2, <1>3 DEF MayRun, OneItem, DueOnce
<1>6. RunsLeft(D, inbox, hand, "ended", runs', crashes)
  <2> SUFFICES ASSUME NEW r \in Rows
               PROVE  /\ runs'[r] <= crashes + 1
                      /\ MayRun(D, inbox, hand, "ended", r) => runs'[r] <= crashes
    BY DEF RunsLeft
  <2>1. CASE r = hand.row
    BY <1>1, <1>2, <1>4, <1>5, <2>1
  <2>2. CASE r # hand.row
    <3>1. runs'[r] = runs[r]
      BY <1>1, <1>2, <2>2
    <3>2. MayRun(D, inbox, hand, "ended", r) => MayRun(D, inbox, hand, stage, r)
      BY <2>2 DEF MayRun
    <3> QED
      BY <1>3, <3>1, <3>2 DEF RunsLeft
  <2> QED
    BY <2>1, <2>2
<1>7. OneCopy(ledger, head.episode, pump, inFlight, inbox, hand, "ended", runs', crashes)
  BY <1>3, <1>6 DEF OneCopy, D
<1>8. OneCopy(ledger, head.episode, pump, inFlight, inbox, hand, stage, runs, crashes)'
  BY <1>1, <1>7
<1>9. Unheard(ledger, head.episode, arrived, runs, inbox \cup {hand})'
  BY <1>1, <1>2 DEF CopyInv, Unheard
<1> QED
  BY <1>1, <1>8, <1>9 DEF CopyInv

\* Whatever a crash leaves in the head's episode may run once more.
LEMMA CrashCopies ==
  ASSUME IInv, CopyInv, Crash
  PROVE  CopyInv'
<1> DEFINE D == Dues(ledger, head.episode, 0, FALSE)
<1>1. /\ hand' = Nothing /\ inbox' = {} /\ stage' = "resuming"
      /\ pump' = 0 /\ inFlight' = FALSE /\ timer' = FALSE /\ crashes' = crashes + 1
      /\ UNCHANGED <<head, ledger, arrived, runs>>
  BY DEF Crash, durable
<1>2. crashes \in Nat /\ runs \in [Rows -> Nat]
  BY ReplayAssumption DEF IInv, TypeOK
<1>3. \A r \in Rows : \A e, d \in D[r] : e = d
  BY RowsAreNat DEF Dues
<1> HIDE DEF D
<1>4. OneItem({}, Nothing) /\ DueOnce(D, {} \cup {Nothing})
      /\ OutKnown(ledger, head.episode, 0, FALSE, {} \cup {Nothing})
  BY <1>3, NothingType, RowsAreNat DEF OneItem, DueOnce, OutKnown
<1>5. \A r \in Rows : runs[r] <= crashes + 1
  BY CopiesHere DEF RunsLeft
<1>6. RunsLeft(D, {}, Nothing, "resuming", runs, crashes + 1)
  BY <1>2, <1>5 DEF RunsLeft
<1>7. OneCopy(ledger, head.episode, 0, FALSE, {}, Nothing, "resuming", runs, crashes + 1)
  BY <1>4, <1>6 DEF OneCopy, D
<1>8. OneCopy(ledger, head.episode, pump, inFlight, inbox, hand, stage, runs, crashes)'
  BY <1>1, <1>7
<1>9. Unheard(ledger, head.episode, arrived, runs, inbox \cup {hand})'
  BY <1>1, NothingType, RowsAreNat DEF CopyInv, Unheard
<1> QED
  BY <1>1, <1>8, <1>9 DEF CopyInv

LEMMA DeferOthers ==
  ASSUME NEW R \in [Rows -> {"none", "deferred", "releasing", "replayed"}],
         NEW drained, NEW r \in Rows, \A i \in drained : i.row # r
  PROVE  Defer(R, drained)[r] = R[r]
BY DEF Defer

\* A drained row is due in the episode that took it, and in no other.
LEMMA DrainCopies ==
  ASSUME NEW L \in LedgerType, NEW ep, NEW p, NEW busy, NEW box, NEW held, NEW st,
         NEW n, NEW c, OneCopy(L, ep, p, busy, box, held, st, n, c),
         box \cup {held} \subseteq Item, st # "ended",
         NEW eq \in Episodes, p # eq, NEW M, Drains(M, L, eq, box),
         \A r \in Rows : L[eq][r] \in {"none", "deferred"},
         eq # ep => \A r \in Rows : L[eq][r] = "none",
         NEW box2, \A i \in box2 : i.row = 0
  PROVE  OneCopy(M, eq, p, busy, box2, held, st, n, c)
<1> DEFINE D == Dues(L, ep, p, busy)
           E == Dues(M, eq, p, busy)
           R == L[eq]
           S == Defer(R, box)
<1>1. R \in [Rows -> {"none", "deferred", "releasing", "replayed"}]
  BY DEF LedgerType
<1>2. /\ S \in [Rows -> {"none", "deferred", "releasing", "replayed"}]
      /\ \A r \in Rows : /\ R[r] # "none" => S[r] = R[r]
                         /\ R[r] = "none" => S[r] \in {"none", "deferred"}
                         /\ (\A i \in box : i.row # r) => S[r] = R[r]
  BY <1>1, DeferRows, DeferOthers
<1>3. M = [L EXCEPT ![eq] = S]
  BY DEF LedgerType, Drains
<1> HIDE DEF S
<1>4. M[eq] = S /\ \A e \in Episodes \ {eq} : M[e] = L[e]
  BY <1>3 DEF LedgerType
<1>5. /\ OneItem(box, held) /\ DueOnce(D, box \cup {held})
      /\ RunsLeft(D, box, held, st, n, c)
      /\ OutKnown(L, ep, p, busy, box \cup {held})
  BY DEF OneCopy
<1>6. \A r \in Rows : p \in E[r] => p \in D[r]
  BY <1>4 DEF Dues, Left
<1>7. ASSUME NEW r \in Rows, \A i \in box : i.row # r
      PROVE  E[r] \subseteq D[r]
  <2>1. S[r] = L[eq][r]
    BY <1>2, <1>7
  <2>2. \A e \in Episodes : M[e][r] = L[e][r]
    BY <1>4, <2>1
  <2>3. Left(L, eq, r) => eq = ep
    BY DEF Left
  <2> QED
    BY <2>2, <2>3 DEF Dues, Left
<1>8. \A r \in Rows : E[r] \subseteq {p, eq}
  BY DEF Dues
<1> HIDE DEF D, E
<1>9. ASSUME NEW r \in Rows, NEW i \in box, i.row = r
      PROVE  E[r] \subseteq {eq}
  <2>1. D[r] = {}
    BY <1>5, <1>9 DEF DueOnce
  <2> QED
    BY <1>6, <1>8, <2>1
<1>10. OneItem(box2, held)
  BY <1>5 DEF OneItem
<1>11. OutKnown(M, eq, p, busy, box2 \cup {held})
  <2> SUFFICES ASSUME held.row # 0, held.episode # 0
               PROVE  /\ M[held.episode][held.row] = "releasing"
                      /\ held.episode \in {p, eq} => held.episode = p /\ busy
    BY DEF OutKnown
  <2>1. held.row \in Rows /\ held.episode \in Episodes
    BY ItemsBounded
  <2>2. /\ L[held.episode][held.row] = "releasing"
        /\ held.episode = p => busy
    BY <1>5 DEF OutKnown
  <2>3. held.episode # eq
    BY <2>1, <2>2
  <2> QED
    BY <1>4, <2>1, <2>2, <2>3
<1>12. \A r \in Rows : held.row = r => \A i \in box : i.row # r
  BY <1>5, RowsAreNat DEF OneItem
<1>13. DueOnce(E, box2 \cup {held})
  <2> SUFFICES ASSUME NEW r \in Rows, E[r] # {}
               PROVE  /\ \A i \in box2 \cup {held} : i.row # r
                      /\ \A e, d \in E[r] : e = d
    BY DEF DueOnce
  <2>0. r # 0
    BY RowsAreNat
  <2>1. CASE \A i \in box : i.row # r
    BY <1>5, <1>7, <2>0, <2>1 DEF DueOnce
  <2>2. CASE \E i \in box : i.row = r
    BY <1>9, <1>12, <2>0, <2>2
  <2> QED
    BY <2>1, <2>2
<1>14. RunsLeft(E, box2, held, st, n, c)
  <2> SUFFICES ASSUME NEW r \in Rows, MayRun(E, box2, held, st, r)
               PROVE  MayRun(D, box, held, st, r)
    BY <1>5 DEF RunsLeft
  <2>0. r # 0
    BY RowsAreNat
  <2>1. CASE \A i \in box : i.row # r
    BY <1>7, <2>0, <2>1 DEF MayRun
  <2>2. CASE \E i \in box : i.row = r
    BY <2>2 DEF MayRun
  <2> QED
    BY <2>1, <2>2
<1> QED
  BY <1>10, <1>11, <1>13, <1>14 DEF OneCopy, E

\* A row that has not arrived is not drained.
LEMMA DrainUnheard ==
  ASSUME NEW L \in LedgerType, NEW ep \in Nat, NEW a, NEW n, NEW box, NEW held,
         Unheard(L, ep, a, n, box \cup {held}),
         NEW eq \in Episodes, ep <= eq, NEW M, Drains(M, L, eq, box),
         NEW box2, \A i \in box2 : i.row = 0
  PROVE  Unheard(M, eq, a, n, box2 \cup {held})
<1> DEFINE S == Defer(L[eq], box)
<1>1. L[eq] \in [Rows -> {"none", "deferred", "releasing", "replayed"}]
  BY DEF LedgerType
<1>2. \A r \in Rows : (\A i \in box : i.row # r) => S[r] = L[eq][r]
  BY <1>1, DeferOthers
<1>3. M = [L EXCEPT ![eq] = S]
  BY DEF LedgerType, Drains
<1> HIDE DEF S
<1>4. M[eq] = S /\ \A e \in Episodes \ {eq} : M[e] = L[e]
  BY <1>3 DEF LedgerType
<1>5. /\ \A r \in Rows : \A e \in Episodes : r > a \/ e > ep => L[e][r] = "none"
      /\ \A r \in Rows : r > a => n[r] = 0 /\ \A i \in box \cup {held} : i.row # r
  BY DEF Unheard
<1>6. \A e \in Episodes : e > eq => e > ep /\ e # eq
  BY RowsAreNat
<1>7. \A r \in Rows : \A e \in Episodes : r > a \/ e > eq => M[e][r] = "none"
  <2> SUFFICES ASSUME NEW r \in Rows, NEW e \in Episodes, r > a \/ e > eq
               PROVE  M[e][r] = "none"
    OBVIOUS
  <2>1. CASE e = eq
    <3>1. r > a
      BY <2>1, RowsAreNat
    <3> QED
      BY <1>2, <1>4, <1>5, <2>1, <3>1
  <2>2. CASE e # eq
    BY <1>4, <1>5, <1>6, <2>2
  <2> QED
    BY <2>1, <2>2
<1> QED
  BY <1>5, <1>7, RowsAreNat DEF Unheard

\* The guard drains the inbox into the open episode, or into a new one.
LEMMA DrainsCopies ==
  ASSUME IInv, CopyInv, Trip \/ Commit
  PROVE  CopyInv'
<1>1. /\ stage # "ended" /\ stage' \notin {"ended", "resuming"}
      /\ UNCHANGED <<arrived, hand, pump, inFlight, runs, crashes>>
  BY DEF Trip, Commit, replay, history
<1>2. /\ head \in HeadType /\ ledger \in LedgerType
      /\ pump \in 0..MaxEpisodes /\ inbox \cup {hand} \subseteq Item
      /\ HeadGood(head) /\ PumpGood(pump, head) /\ ReleasedLate(ledger, head)
  BY DEF IInv, TypeOK, HeadType, LedgerType, LedgerGood
<1>3. head.episode \in Nat /\ pump \in Nat /\ head.episode <= MaxEpisodes
  BY <1>2, ReplayAssumption DEF HeadType
<1>4. PICK eq \in Episodes :
        /\ head'.episode = eq
        /\ Drains(ledger', ledger, eq, inbox)
        /\ head.episode <= eq /\ pump # eq
        /\ \A r \in Rows : ledger[eq][r] \in {"none", "deferred"}
        /\ eq # head.episode => \A r \in Rows : ledger[eq][r] = "none"
  <2>1. CASE Commit \/ (Trip /\ Unfinished(head))
    <3>1. /\ head'.episode = head.episode
          /\ Drains(ledger', ledger, head.episode, inbox)
          /\ Unfinished(head)
      <4>1. CASE Commit
        <5>1. /\ Publishes(head', head)
              /\ Drains(ledger', ledger, head.episode, inbox)
              /\ head.state = "guard_tripped"
          BY <4>1 DEF Commit, Publish, Publishes, Drains, IInv, StageGood
        <5> QED
          BY <1>2, <5>1 DEF Publishes, HeadType, Unfinished
      <4>2. CASE Trip /\ Unfinished(head)
        BY <4>2 DEF Trip, Begin, Drains
      <4> QED
        BY <2>1, <4>1, <4>2
    <3>2. head.episode \in Episodes /\ head.state # "verified"
      BY <1>2, <1>3, <3>1, ReplayAssumption DEF HeadGood, Unfinished, Episodes
    <3>3. pump # head.episode
      BY <1>3, <3>2, RowsAreNat DEF PumpGood, IInv
    <3>4. \A r \in Rows : ledger[head.episode][r] \in {"none", "deferred"}
      BY <1>2, <1>3, <3>2 DEF ReleasedLate, LedgerType
    <3> QED
      BY <1>3, <3>1, <3>2, <3>3, <3>4
  <2>2. CASE Trip /\ ~Unfinished(head)
    <3>1. /\ head'.episode = head.episode + 1
          /\ Drains(ledger', ledger, head.episode + 1, inbox)
          /\ head.episode < MaxEpisodes
      BY <2>2 DEF Trip, Begin, Drains
    <3>2. head.episode + 1 \in Episodes /\ head.episode + 1 > head.episode
      BY <1>3, <3>1, ReplayAssumption DEF Episodes
    <3>3. pump # head.episode + 1
      BY <1>2, <1>3 DEF PumpGood
    <3>4. \A r \in Rows : ledger[head.episode + 1][r] = "none"
      BY <3>2 DEF CopyInv, Unheard
    <3> QED
      BY <1>3, <3>1, <3>2, <3>3, <3>4
  <2> QED
    BY <2>1, <2>2
<1>5. \A i \in inbox' : i.row = 0
  <2>1. \A h : \A i \in WithBootstrap({}, h) : i.row = 0
    BY DEF WithBootstrap, Bootstrap
  <2> QED
    BY <2>1 DEF Trip, Commit, Publish
<1>6. OneCopy(ledger, head.episode, pump, inFlight, inbox, hand, stage, runs, crashes)
  BY DEF CopyInv
<1>7. OneCopy(ledger', eq, pump, inFlight, inbox', hand, stage, runs, crashes)
  BY <1>1, <1>2, <1>4, <1>5, <1>6, DrainCopies
<1>8. hand.row # 0 => hand \notin inbox'
  BY <1>5
<1>9. OneCopy(ledger', eq, pump, inFlight, inbox', hand, stage', runs, crashes)
  BY <1>1, <1>7, <1>8, FewerItems
<1>10. OneCopy(ledger, head.episode, pump, inFlight, inbox, hand, stage, runs, crashes)'
  BY <1>1, <1>4, <1>9
<1>11. Unheard(ledger', eq, arrived, runs, inbox' \cup {hand})
  BY <1>2, <1>3, <1>4, <1>5, DrainUnheard DEF CopyInv
<1>12. Unheard(ledger, head.episode, arrived, runs, inbox \cup {hand})'
  BY <1>1, <1>4, <1>11
<1> QED
  BY <1>1, <1>10, <1>12 DEF CopyInv

\* The pump goes on after an action that left it one copy of each row.
LEMMA PumpedCopies ==
  ASSUME IInv, CopyInv, NEW from, NEW led \in LedgerType, Pump(from, inbox, led),
         from.episode \in 0..MaxEpisodes, from.busy \in BOOLEAN,
         PumpGood(from.episode, head'), head' \in HeadType,
         head'.episode = head.episode, hand' \in Item, stage' # "resuming",
         \A i \in {hand'} : i.row # 0 => i = hand,
         \A r \in Rows : \A e \in Episodes :
           ledger[e][r] = "none" => led[e][r] = "none",
         OneCopy(led, head.episode, from.episode, from.busy, inbox, hand', stage',
                 runs, crashes),
         UNCHANGED <<arrived, runs, crashes>>
  PROVE  CopyInv'
<1>1. inbox \cup {hand'} \subseteq Item
  BY DEF IInv, TypeOK
<1>2. OneCopy(ledger', head.episode, pump', inFlight', inbox', hand', stage', runs,
              crashes)
  BY <1>1, PumpCopies
<1>3. OneCopy(ledger, head.episode, pump, inFlight, inbox, hand, stage, runs, crashes)'
  BY <1>2
<1>4. /\ \A r \in Rows : \A e \in Episodes :
           r > arrived \/ e > head.episode => led[e][r] = "none"
      /\ \A r \in Rows : r > arrived =>
           runs[r] = 0 /\ \A i \in inbox \cup {hand'} : i.row # r
  BY RowsAreNat DEF CopyInv, Unheard
<1>5. CASE ledger' = led /\ inbox' = inbox
  BY <1>3, <1>4, <1>5 DEF CopyInv, Unheard
<1>6. CASE from.episode \in Episodes /\ Released(from.episode, inbox, led)
  <2>1. PICK r \in Rows :
          /\ Left(led, from.episode, r)
          /\ Updates(ledger', led, from.episode, r, "releasing")
          /\ inbox' = inbox \cup {[row |-> r, episode |-> from.episode]}
    BY <1>6 DEF Released, Updates
  <2>2. \A d \in Episodes : \A q \in Rows :
          ~(d = from.episode /\ q = r) => ledger'[d][q] = led[d][q]
    BY <1>6, <2>1, LedgerExcept
  <2>3. led[from.episode][r] # "none"
    BY <2>1 DEF Left
  <2>4. Unheard(ledger, head.episode, arrived, runs, inbox \cup {hand})'
    <3>1. \A q \in Rows : \A e \in Episodes :
            q > arrived \/ e > head.episode => ledger'[e][q] = "none"
      BY <1>4, <1>6, <2>2, <2>3
    <3>2. \A q \in Rows : q > arrived =>
            runs[q] = 0 /\ \A i \in inbox' \cup {hand'} : i.row # q
      BY <1>4, <1>6, <2>1, <2>3
    <3> QED
      BY <3>1, <3>2 DEF Unheard
  <2> QED
    BY <1>3, <2>4 DEF CopyInv
<1> QED
  BY <1>5, <1>6, PumpDoes

LEMMA TimerCopies ==
  ASSUME IInv, CopyInv, TimerFires
  PROVE  CopyInv'
<1> DEFINE from == Fields(pump, inFlight, FALSE)
<1>1. /\ Pump(from, inbox, ledger)
      /\ UNCHANGED <<head, arrived, hand, stage, runs, crashes>>
      /\ stage # "resuming"
  BY DEF TimerFires, CopyInv, history
<1>2. from.episode = pump /\ from.busy = inFlight
  BY DEF Fields
<1> HIDE DEF from
<1>3. /\ ledger \in LedgerType /\ head' \in HeadType /\ hand' \in Item
      /\ pump \in 0..MaxEpisodes /\ inFlight \in BOOLEAN /\ PumpGood(pump, head')
  BY <1>1 DEF IInv, TypeOK, LedgerType, HeadType
<1>4. OneCopy(ledger, head.episode, pump, inFlight, inbox, hand', stage', runs, crashes)
  BY <1>1 DEF CopyInv
<1>5. OneCopy(ledger, head.episode, from.episode, from.busy, inbox, hand', stage',
              runs, crashes)
  BY <1>2, <1>4
<1> QED
  BY <1>1, <1>2, <1>3, <1>5, PumpedCopies

\* The row that has run leaves its episode before the pump goes on.
LEMMA AcknowledgeCopies ==
  ASSUME IInv, CopyInv, Acknowledge
  PROVE  CopyInv'
<1>1. /\ stage = "ended" /\ hand' = Nothing /\ stage' = "idle"
      /\ UNCHANGED <<head, arrived, runs, crashes>>
  BY DEF Acknowledge, history
<1>2. /\ hand.row # 0 /\ hand \in Item /\ ledger \in LedgerType
      /\ head' \in HeadType /\ hand' \in Item /\ PumpGood(pump, head')
      /\ pump \in 0..MaxEpisodes /\ ReleasedInOrder(ledger)
  BY <1>1, NothingType DEF IInv, StageGood, TypeOK, LedgerType, HeadType, LedgerGood
<1>3. hand.row \in Rows /\ (hand.episode # 0 => hand.episode \in Episodes)
  BY <1>2, ItemsBounded
<1>4. OneCopy(ledger, head.episode, pump, inFlight, inbox, hand, stage, runs, crashes)
  BY DEF CopyInv
<1>5. CASE hand.episode = 0
  <2>1. UNCHANGED <<ledger, inbox, pump, inFlight>>
    BY <1>5 DEF Acknowledge, replay
  <2> QED
    BY <1>1, <2>1, MoveCopies, NothingType
<1>6. CASE hand.episode # 0
  <2> DEFINE acked == [ledger EXCEPT ![hand.episode][hand.row] = "replayed"]
             busy == IF pump = hand.episode THEN FALSE ELSE inFlight
  <2>1. Updates(acked, ledger, hand.episode, hand.row, "replayed")
    BY DEF Updates
  <2>2. IF pump = hand.episode
        THEN Pump(Fields(pump, FALSE, timer), inbox, acked)
        ELSE ledger' = acked /\ UNCHANGED <<inbox, pump, inFlight>>
    BY <1>6 DEF Acknowledge, replay
  <2> HIDE DEF acked
  <2>3. /\ acked \in LedgerType
        /\ acked[hand.episode][hand.row] = "replayed"
        /\ \A d \in Episodes : \A q \in Rows :
             ~(d = hand.episode /\ q = hand.row) => acked[d][q] = ledger[d][q]
    BY <1>2, <1>3, <1>6, <2>1, LedgerExcept
  <2>4. /\ ledger[hand.episode][hand.row] = "releasing"
        /\ OneItem(inbox, hand)
        /\ OutKnown(ledger, head.episode, pump, inFlight, inbox \cup {hand})
    BY <1>2, <1>6, CopiesHere DEF OutKnown
  <2>5. \A q \in Rows : q # hand.row => ledger[hand.episode][q] # "releasing"
    <3>1. \A q \in Rows : ledger[hand.episode][q] = "releasing" =>
            q <= hand.row /\ hand.row <= q
      BY <1>2, <1>3, <1>6, <2>4 DEF ReleasedInOrder, Left
    <3>2. Rows \subseteq Nat /\ hand.row \in Nat
      BY <1>3, RowsAreNat
    <3>3. \A a, b \in Nat : a <= b /\ b <= a => a = b
      OBVIOUS
    <3> QED
      BY <3>1, <3>2, <3>3
  <2>6. \A r \in Rows : Dues(acked, head.episode, pump, busy)[r] \subseteq
                        Dues(ledger, head.episode, pump, inFlight)[r]
    <3> SUFFICES ASSUME NEW r \in Rows, NEW e \in Episodes,
                        e = pump \/ e = head.episode, Left(acked, e, r),
                        e = pump /\ busy => acked[e][r] = "deferred"
                 PROVE  /\ Left(ledger, e, r)
                        /\ e = pump /\ inFlight => ledger[e][r] = "deferred"
      BY DEF Dues
    <3>1. ~(e = hand.episode /\ r = hand.row)
      BY <2>3 DEF Left
    <3>2. acked[e][r] = ledger[e][r]
      BY <2>3, <3>1
    <3>3. CASE e = hand.episode
      BY <2>5, <3>1, <3>2, <3>3 DEF Left
    <3>4. CASE e # hand.episode
      BY <3>2, <3>4 DEF Left
    <3> QED
      BY <3>3, <3>4
  <2>7. OneCopy(ledger, head.episode, pump, inFlight, inbox, Nothing, "idle", runs,
                crashes)
    BY <1>1, <1>4, FewerItems, NothingType
  <2>8. OutKnown(acked, head.episode, pump, busy, inbox \cup {Nothing})
    <3> SUFFICES ASSUME NEW i \in inbox, i.row # 0, i.episode # 0
                 PROVE  /\ acked[i.episode][i.row] = "releasing"
                        /\ i.episode \in {pump, head.episode} =>
                             i.episode = pump /\ busy
      BY NothingType DEF OutKnown
    <3>1. i.row \in Rows /\ i.episode \in Episodes
      BY ItemsBounded DEF IInv, TypeOK
    <3>2. /\ ledger[i.episode][i.row] = "releasing"
          /\ i.episode \in {pump, head.episode} => i.episode = pump /\ inFlight
      BY <2>4 DEF OutKnown
    <3>3. i.row # hand.row
      BY <1>2, <2>4 DEF OneItem
    <3>4. i.episode # hand.episode
      BY <2>5, <3>1, <3>2, <3>3
    <3> QED
      BY <2>3, <3>1, <3>2, <3>4
  <2> HIDE DEF busy
  <2>9. OneCopy(acked, head.episode, pump, busy, inbox, Nothing, "idle", runs, crashes)
    BY <2>6, <2>7, <2>8, FewerDues
  <2>10. \A r \in Rows : \A e \in Episodes :
           ledger[e][r] = "none" => acked[e][r] = "none"
    BY <2>3, <2>4
  <2>11. CASE pump = hand.episode
    <3> DEFINE from == Fields(pump, FALSE, timer)
    <3>1. Pump(from, inbox, acked)
      BY <2>2, <2>11
    <3>2. from.episode = pump /\ from.busy = FALSE
      BY DEF Fields
    <3> HIDE DEF from
    <3>3. from.busy = busy
      BY <2>11, <3>2 DEF busy
    <3>4. OneCopy(acked, head.episode, from.episode, from.busy, inbox, hand', stage',
                  runs, crashes)
      BY <1>1, <2>9, <3>2, <3>3
    <3>5. /\ from.episode \in 0..MaxEpisodes /\ from.busy \in BOOLEAN
          /\ PumpGood(from.episode, head') /\ head'.episode = head.episode
          /\ \A i \in {hand'} : i.row # 0 => i = hand
          /\ stage' # "resuming"
      BY <1>1, <1>2, <3>2, NothingType
    <3> QED
      BY <1>1, <1>2, <2>3, <2>10, <3>1, <3>4, <3>5, PumpedCopies
  <2>12. CASE pump # hand.episode
    <3>1. ledger' = acked /\ UNCHANGED <<inbox, pump, inFlight>> /\ busy = inFlight
      BY <2>2, <2>12 DEF busy
    <3>2. OneCopy(ledger, head.episode, pump, inFlight, inbox, hand, stage, runs, crashes)'
      BY <1>1, <2>9, <3>1
    <3>3. Unheard(ledger, head.episode, arrived, runs, inbox \cup {hand})'
      BY <1>1, <2>10, <3>1, NothingType, RowsAreNat DEF CopyInv, Unheard
    <3> QED
      BY <1>1, <3>2, <3>3 DEF CopyInv
  <2> QED
    BY <2>11, <2>12
<1> QED
  BY <1>5, <1>6

\* The pump moves to the head's episode, none of whose rows is out.
LEMMA MoveToHead ==
  ASSUME CopyInv, IInv, NEW held, held.row = 0, NEW st, NEW busy,
         \A i \in inbox : i.row # 0 /\ i.episode # 0 => i.episode # head.episode,
         busy = inFlight, pump # head.episode
  PROVE  OneCopy(ledger, head.episode, head.episode, busy, inbox, held, st, runs,
                 crashes)
<1> DEFINE ep == head.episode
<1>1. OneCopy(ledger, ep, pump, inFlight, inbox, hand, stage, runs, crashes)
  BY DEF CopyInv
<1>2. OneCopy(ledger, ep, pump, inFlight, inbox, held, st, runs, crashes)
  BY <1>1, FewerItems
<1>3. OutKnown(ledger, ep, pump, inFlight, inbox \cup {held})
  BY <1>2 DEF OneCopy
<1>4. OutKnown(ledger, ep, ep, busy, inbox \cup {held})
  BY <1>3 DEF OutKnown
<1>5. \A r \in Rows : Dues(ledger, ep, ep, busy)[r] \subseteq
                      Dues(ledger, ep, pump, inFlight)[r]
  BY DEF Dues
<1> QED
  BY <1>2, <1>4, <1>5, FewerDues

\* The verdict of a bootstrap starts the pump on the head, or none.
LEMMA EndBootstrapCopies ==
  ASSUME IInv, IInv', CopyInv, NEW verified \in BOOLEAN, EndBootstrap(verified)
  PROVE  CopyInv'
<1>1. /\ hand.row = 0 /\ hand' = Nothing /\ stage' = "idle" /\ stage # "ended"
      /\ UNCHANGED <<arrived, runs, crashes>>
  BY DEF EndBootstrap, TurnOver, history
<1>2. head \in HeadType /\ head' \in HeadType /\ ledger \in LedgerType
      /\ PumpGood(pump, head) /\ ReleasedLate(ledger, head) /\ inbox \subseteq Item
      /\ inFlight \in BOOLEAN
  BY DEF IInv, TypeOK, HeadType, LedgerType, LedgerGood
<1>3. head'.episode = head.episode
  BY <1>2 DEF EndBootstrap, HeadType, durable
<1>4. CASE /\ head.episode = hand.episode /\ head.state = "recovery_pending"
           /\ verified
  <2> DEFINE from == Fields(head.episode, inFlight, timer)
  <2>1. Pump(from, inbox, ledger)
    BY <1>4 DEF EndBootstrap
  <2>2. from.episode = head.episode /\ from.busy = inFlight
    BY DEF Fields
  <2> HIDE DEF from
  <2>3. head'.state = "verified"
    BY <1>2, <1>4 DEF EndBootstrap, Verdict, HeadType
  <2>4. head.episode \in 0..MaxEpisodes /\ head.episode \in Nat
    BY <1>2, ReplayAssumption DEF HeadType
  <2>5. PumpGood(from.episode, head')
    BY <1>3, <2>2, <2>3 DEF PumpGood
  <2>6. \A i \in inbox : i.row # 0 /\ i.episode # 0 => i.episode # head.episode
    <3> SUFFICES ASSUME NEW i \in inbox, i.row # 0, i.episode # 0,
                        i.episode = head.episode
                 PROVE  FALSE
      OBVIOUS
    <3>1. i.row \in Rows /\ i.episode \in Episodes
      BY <1>2, ItemsBounded
    <3>2. ledger[i.episode][i.row] = "releasing"
      BY CopiesHere DEF OutKnown
    <3> QED
      BY <1>2, <1>4, <2>4, <3>1, <3>2 DEF ReleasedLate
  <2>7. CASE pump # head.episode
    <3>1. OneCopy(ledger, head.episode, head.episode, inFlight, inbox, hand', stage',
                  runs, crashes)
      BY <1>1, <2>6, <2>7, MoveToHead, NothingType
    <3>2. OneCopy(ledger, head.episode, from.episode, from.busy, inbox, hand', stage',
                  runs, crashes)
      BY <2>2, <3>1
    <3>3. /\ \A i \in {hand'} : i.row # 0 => i = hand
          /\ hand' \in Item /\ stage' # "resuming"
      BY <1>1, NothingType
    <3> QED
      BY <1>1, <1>2, <1>3, <2>1, <2>2, <2>4, <2>5, <3>2, <3>3, PumpedCopies
  <2>8. CASE pump = head.episode
    <3>1. head.episode = 0
      BY <1>2, <1>4, <2>4, <2>8 DEF PumpGood
    <3> QED
      BY <1>4, <3>1 DEF IInv, HeadGood
  <2> QED
    BY <2>7, <2>8
<1>5. CASE ~(/\ head.episode = hand.episode /\ head.state = "recovery_pending"
             /\ verified)
  <2>1. /\ UNCHANGED <<ledger, pump, inFlight>>
        /\ inbox' = inbox \/ inbox' = WithBootstrap(inbox, head')
    BY <1>5 DEF EndBootstrap, durable, replay
  <2>2. \A i \in inbox' : i.row # 0 => i \in inbox
    BY <1>2, <2>1, WithBootstrapItems
  <2> QED
    BY <1>1, <1>3, <2>1, <2>2, MoveCopies, NothingType
<1> QED
  BY <1>4, <1>5

\* The restart gives the head's episode to the pump, or queues a bootstrap.
LEMMA ResumeCopies ==
  ASSUME IInv, IInv', CopyInv, Resume
  PROVE  CopyInv'
<1>1. /\ stage = "resuming" /\ stage' = "idle" /\ hand' = hand /\ hand = Nothing
      /\ UNCHANGED <<arrived, runs, crashes>>
  BY DEF Resume, history, IInv, StageGood
<1>2. /\ head \in HeadType /\ head' \in HeadType /\ ledger \in LedgerType
      /\ inbox \subseteq Item /\ inFlight \in BOOLEAN
  BY DEF IInv, TypeOK, HeadType, LedgerType
<1>3. pump = 0 /\ ~inFlight
  BY <1>1 DEF CopyInv
<1>4. CASE head.state = "verified"
  <2> DEFINE from == Fields(head.episode, inFlight, timer)
  <2>1. Pump(from, inbox, ledger) /\ head' = head
    BY <1>4 DEF Resume
  <2>2. from.episode = head.episode /\ from.busy = inFlight
    BY DEF Fields
  <2> HIDE DEF from
  <2>3. head.episode # 0 /\ head.episode \in 0..MaxEpisodes
    BY <1>2, <1>4 DEF HeadType, IInv, HeadGood
  <2>4. PumpGood(from.episode, head')
    BY <1>4, <2>1, <2>2 DEF PumpGood
  <2>5. \A i \in inbox : i.row # 0 /\ i.episode # 0 => i.episode # head.episode
    <3>1. \A i \in inbox : i.row # 0 /\ i.episode # 0 =>
            (i.episode \in {pump, head.episode} => inFlight)
      BY CopiesHere DEF OutKnown
    <3> QED
      BY <1>3, <3>1
  <2>6. OneCopy(ledger, head.episode, head.episode, inFlight, inbox, hand', stage',
                runs, crashes)
    BY <1>1, <1>3, <2>3, <2>5, MoveToHead, NothingType
  <2>7. OneCopy(ledger, head.episode, from.episode, from.busy, inbox, hand', stage',
                runs, crashes)
    BY <2>2, <2>6
  <2>8. /\ \A i \in {hand'} : i.row # 0 => i = hand
        /\ hand' \in Item /\ stage' # "resuming"
    BY <1>1, NothingType
  <2> QED
    BY <1>1, <1>2, <2>1, <2>2, <2>3, <2>4, <2>7, <2>8, PumpedCopies
<1>5. CASE head.state # "verified"
  <2>1. /\ UNCHANGED <<ledger, pump, inFlight>>
        /\ head'.episode = head.episode
        /\ inbox' = WithBootstrap(inbox, head')
    BY <1>2, <1>5 DEF Resume, Publish, HeadType, replay
  <2>2. \A i \in inbox' : i.row # 0 => i \in inbox
    BY <1>2, <2>1, WithBootstrapItems
  <2> QED
    BY <1>1, <2>1, <2>2, MoveCopies, NothingType
<1> QED
  BY <1>4, <1>5

\* Between crashes each row has one way at most to run again.
LEMMA CopyInvariance == Spec => []CopyInv
<1>1. Init => CopyInv
  <2> SUFFICES ASSUME Init PROVE CopyInv
    OBVIOUS
  <2>1. /\ inbox = {} /\ hand = Nothing /\ stage = "idle" /\ crashes = 0
        /\ \A r \in Rows : runs[r] = 0
        /\ \A e \in Episodes : \A r \in Rows : ledger[e][r] = "none"
    BY DEF Init
  <2> DEFINE D == Dues(ledger, head.episode, pump, inFlight)
  <2>2. \A r \in Rows : D[r] = {}
    BY <2>1 DEF Dues, Left
  <2> HIDE DEF D
  <2>3. /\ OneItem(inbox, hand) /\ DueOnce(D, inbox \cup {hand})
        /\ OutKnown(ledger, head.episode, pump, inFlight, inbox \cup {hand})
    BY <2>1, <2>2, NothingType DEF OneItem, DueOnce, OutKnown
  <2>4. RunsLeft(D, inbox, hand, stage, runs, crashes)
    BY <2>1 DEF RunsLeft
  <2>5. Unheard(ledger, head.episode, arrived, runs, inbox \cup {hand})
    BY <2>1, NothingType, RowsAreNat DEF Unheard
  <2> QED
    BY <2>1, <2>3, <2>4, <2>5 DEF CopyInv, OneCopy, D
<1>2. IInv /\ IInv' /\ CopyInv /\ [Next]_vars => CopyInv'
  <2> SUFFICES ASSUME IInv, IInv', CopyInv, [Next]_vars PROVE CopyInv'
    OBVIOUS
  <2>1. CASE Next
    BY <2>1, ArriveCopies, MovesCopies, DrainsCopies, EndTurnCopies,
       EndBootstrapCopies, AcknowledgeCopies, TimerCopies, CrashCopies,
       ResumeCopies DEF Next
  <2>2. CASE UNCHANGED vars
    BY <2>2 DEF vars, durable, replay, history, CopyInv
  <2> QED
    BY <2>1, <2>2
<1> QED
  BY <1>1, <1>2, Invariance, PTL DEF Spec

\* A row runs again only after a crash, however often it is drained, released,
\* put off or displaced by another episode.
THEOREM RepeatsAfterCrash == Spec => []RepeatedOnlyByCrash
<1>1. IInv /\ CopyInv => RepeatedOnlyByCrash
  <2> SUFFICES ASSUME IInv, CopyInv, NEW r \in Rows PROVE runs[r] <= 1 + crashes
    BY DEF RepeatedOnlyByCrash
  <2>1. runs[r] <= crashes + 1
    BY CopiesHere DEF RunsLeft
  <2>2. crashes \in Nat
    BY ReplayAssumption DEF IInv, TypeOK
  <2> QED
    BY <2>1, <2>2
<1> QED
  BY <1>1, Invariance, CopyInvariance, PTL
-----------------------------------------------------------------------------
(***************************************************************************)
(* The recovery implements RowLedger.  Every call of the pump lets one row *)
(* go or changes nothing, and is made for an approved episode.             *)
(***************************************************************************)

\* The pump's episode, and the head's once it is verified, are approved.
ApprovedGood(p, h, a) ==
  /\ p # 0 => p \in a
  /\ h.state = "verified" => h.episode \in a

Rest == UNCHANGED <<head.episode, Unfinished(head), approved, ledger, runs>>

LEMMA RestStutters ==
  ASSUME Rest
  PROVE  [Ledger!Next]_<<head.episode, Unfinished(head), approved, ledger, runs>>
BY DEF Rest

\* A call of the pump is a step of RowLedger.
LEMMA PumpLets ==
  ASSUME NEW from, NEW box, NEW led, from.episode \in 0..MaxEpisodes,
         Pump(from, box, led), ReleasedInOrder(led),
         from.episode # 0 => from.episode \in approved'
  PROVE  /\ ledger' = led \/ Ledger!LetsGo(led)
         /\ pump' # 0 => pump' \in approved'
<1> DEFINE e == from.episode
<1>1. /\ ledger' = led \/ (e \in Episodes /\ Released(e, box, led))
      /\ pump' \in {0, e}
  BY PumpDoes
<1>2. CASE e \in Episodes /\ Released(e, box, led)
  <2>1. PICK r \in Rows :
          /\ Left(led, e, r)
          /\ \A q \in Rows : Left(led, e, q) => r <= q
          /\ ledger' = [led EXCEPT ![e][r] = "releasing"]
    BY <1>2 DEF Released
  <2>2. \A q \in Rows : led[e][q] = "releasing" => q = r
    <3>1. \A q \in Rows : led[e][q] = "releasing" => r <= q /\ q <= r
      BY <1>2, <2>1 DEF ReleasedInOrder, Left
    <3>2. \A a, b \in Rows : a <= b /\ b <= a => a = b
      BY RowsAreNat
    <3> QED
      BY <3>1, <3>2
  <2>3. e \in approved'
    BY <1>2, RowsAreNat
  <2>4. Ledger!LetsGo(led)
    BY <2>1, <2>2, <2>3 DEF Ledger!LetsGo, Left
  <2> QED
    BY <1>1, <2>4
<1> QED
  BY <1>1, <1>2

\* A drain holds back the rows of the inbox.
LEMMA DrainHolds ==
  ASSUME NEW e \in Episodes, NEW box, ledger \in LedgerType
  PROVE  \E S \in SUBSET Rows :
           [ledger EXCEPT ![e] = Defer(@, box)] = Ledger!Held(e, S)
<1> DEFINE S == {r \in Rows : \E i \in box : i.row = r}
<1>1. Defer(ledger[e], box) =
        [r \in Rows |-> IF ledger[e][r] = "none" /\ r \in S
                        THEN "deferred" ELSE ledger[e][r]]
  BY DEF Defer
<1>2. [ledger EXCEPT ![e] = Defer(@, box)] = Ledger!Held(e, S)
  BY <1>1 DEF Ledger!Held
<1> QED
  BY <1>2

\* A trip of the guard begins an episode or extends the head's.
LEMMA TripLedger ==
  ASSUME IInv, ApprovedGood(pump, head, approved), Trip
  PROVE  /\ Ledger!Next
         /\ ApprovedGood(pump, head, approved)'
<1>1. /\ UNCHANGED <<pump, approved, runs>>
      /\ Begin(inbox)
      /\ Unfinished(head) \/ head.episode < MaxEpisodes
  BY DEF Trip, replay, history
<1>2. head \in HeadType /\ ledger \in LedgerType /\ head.episode \in 0..MaxEpisodes
  BY DEF IInv, TypeOK, HeadType, LedgerType
<1>3. CASE Unfinished(head)
  <2>1. /\ head' = head
        /\ ledger' = [ledger EXCEPT ![head.episode] = Defer(@, inbox)]
    BY <1>1, <1>3 DEF Begin
  <2>2. head.episode \in Episodes
    BY <1>2, <1>3, ReplayAssumption DEF IInv, HeadGood, Unfinished, Episodes
  <2>3. PICK S \in SUBSET Rows : ledger' = Ledger!Held(head.episode, S)
    BY <1>2, <2>1, <2>2, DrainHolds
  <2>4. Ledger!Extend(S)
    BY <1>1, <1>3, <2>1, <2>3 DEF Ledger!Extend
  <2>5. ApprovedGood(pump, head, approved)'
    BY <1>1, <2>1 DEF ApprovedGood
  <2> QED
    BY <2>4, <2>5, Zenon DEF Ledger!Next
<1>4. CASE ~Unfinished(head)
  <2>1. /\ head' = [episode |-> head.episode + 1, attempts |-> 0,
                    state |-> "guard_tripped"]
        /\ ledger' = [ledger EXCEPT ![head.episode + 1] = Defer(@, inbox)]
    BY <1>1, <1>4 DEF Begin
  <2>2. head.episode + 1 \in Episodes
    BY <1>1, <1>2, <1>4, ReplayAssumption DEF Episodes
  <2>3. PICK S \in SUBSET Rows : ledger' = Ledger!Held(head.episode + 1, S)
    BY <1>2, <2>1, <2>2, DrainHolds
  <2>4. head'.episode = head.episode + 1 /\ head'.state = "guard_tripped"
    BY <2>1
  <2>5. Unfinished(head')
    BY <2>4 DEF Unfinished
  <2>6. Ledger!Begin(S)
    BY <1>1, <1>4, <2>2, <2>3, <2>4, <2>5 DEF Ledger!Begin, Unfinished
  <2>7. ApprovedGood(pump, head, approved)'
    BY <1>1, <2>4 DEF ApprovedGood
  <2> QED
    BY <2>6, <2>7, Zenon DEF Ledger!Next
<1> QED
  BY <1>3, <1>4

\* The commit of the compaction holds back what arrived meanwhile.
LEMMA CommitLedger ==
  ASSUME IInv, ApprovedGood(pump, head, approved), Commit
  PROVE  /\ Ledger!Next
         /\ ApprovedGood(pump, head, approved)'
<1>1. /\ UNCHANGED <<pump, approved, runs>>
      /\ head' = [head EXCEPT !.state = "recovery_pending"]
      /\ ledger' = [ledger EXCEPT ![head.episode] = Defer(@, inbox)]
      /\ head.state = "guard_tripped"
  BY DEF Commit, Publish, replay, history, IInv, StageGood
<1>2. head \in HeadType /\ ledger \in LedgerType
  BY DEF IInv, TypeOK, HeadType, LedgerType
<1>3. head.episode \in Episodes
  BY <1>1, <1>2, ReplayAssumption DEF IInv, HeadGood, HeadType, Episodes
<1>4. head'.episode = head.episode /\ head'.state = "recovery_pending"
  BY <1>1, <1>2 DEF HeadType
<1>5. Unfinished(head) /\ Unfinished(head')
  BY <1>1, <1>4 DEF Unfinished
<1>6. PICK S \in SUBSET Rows : ledger' = Ledger!Held(head.episode, S)
  BY <1>1, <1>2, <1>3, DrainHolds
<1>7. Ledger!Extend(S)
  BY <1>1, <1>4, <1>5, <1>6 DEF Ledger!Extend, Unfinished
<1>8. ApprovedGood(pump, head, approved)'
  BY <1>1, <1>4 DEF ApprovedGood
<1> QED
  BY <1>7, <1>8, Zenon DEF Ledger!Next

\* No turn ends of a row that the head holds back: such a row has no item.
LEMMA EndTurnLedger ==
  ASSUME IInv, CopyInv, ApprovedGood(pump, head, approved), EndTurn
  PROVE  /\ Ledger!Next
         /\ ApprovedGood(pump, head, approved)'
<1>1. /\ hand.row # 0 /\ hand \in Item
      /\ runs' = [runs EXCEPT ![hand.row] = @ + 1]
      /\ UNCHANGED <<head, ledger, pump, approved>>
  BY DEF EndTurn, durable, replay, IInv, TypeOK
<1>2. hand.row \in Rows
  BY <1>1, ItemsBounded
<1>3. ASSUME head.episode \in Episodes, ledger[head.episode][hand.row] = "deferred"
      PROVE  FALSE
  <2>1. head.episode \in Dues(ledger, head.episode, pump, inFlight)[hand.row]
    BY <1>2, <1>3 DEF Dues, Left
  <2>2. \A i \in inbox \cup {hand} : i.row # hand.row
    BY <1>2, <2>1, CopiesHere DEF DueOnce
  <2> QED
    BY <2>2
<1>4. Ledger!Run(hand.row)
  BY <1>1, <1>3 DEF Ledger!Run, Unfinished
<1>5. ApprovedGood(pump, head, approved)'
  BY <1>1 DEF ApprovedGood
<1> QED
  BY <1>2, <1>4, <1>5, Zenon DEF Ledger!Next

\* A verdict approves the head's episode, rejects it, or leaves it open.
LEMMA EndBootstrapLedger ==
  ASSUME IInv, ApprovedGood(pump, head, approved),
         NEW verified \in BOOLEAN, EndBootstrap(verified)
  PROVE  /\ Rest \/ Ledger!Next
         /\ ApprovedGood(pump, head, approved)'
<1>1. /\ head \in HeadType /\ ReleasedInOrder(ledger) /\ approved \subseteq Episodes
      /\ runs' = runs
  BY DEF IInv, TypeOK, HeadType, LedgerGood, EndBootstrap
<1>2. CASE /\ head.episode = hand.episode /\ head.state = "recovery_pending"
           /\ verified
  <2> DEFINE from == Fields(head.episode, inFlight, timer)
  <2>1. /\ Pump(from, inbox, ledger)
        /\ approved' = approved \cup {head.episode}
    BY <1>2 DEF EndBootstrap
  <2>2. head'.episode = head.episode /\ head'.state = "verified"
    BY <1>1, <1>2 DEF EndBootstrap, Verdict, HeadType
  <2>3. from.episode = head.episode
    BY DEF Fields
  <2> HIDE DEF from
  <2>4. from.episode \in 0..MaxEpisodes /\ from.episode \in approved'
    BY <1>1, <2>1, <2>3 DEF HeadType
  <2>5. /\ ledger' = ledger \/ Ledger!LetsGo(ledger)
        /\ pump' # 0 => pump' \in approved'
    BY <1>1, <2>1, <2>4, PumpLets
  <2>6. Unfinished(head) /\ ~Unfinished(head')
    BY <1>2, <2>2 DEF Unfinished
  <2>7. Ledger!Approve
    BY <1>1, <2>1, <2>2, <2>5, <2>6 DEF Ledger!Approve, Unfinished
  <2>8. ApprovedGood(pump, head, approved)'
    BY <2>1, <2>2, <2>5 DEF ApprovedGood
  <2> QED
    BY <2>7, <2>8, Zenon DEF Ledger!Next
<1>3. CASE /\ head.episode = hand.episode /\ head.state = "recovery_pending"
           /\ ~verified
  <2>1. /\ UNCHANGED <<ledger, pump, approved>>
        /\ head' = [head EXCEPT !.attempts = @ + 1, !.state = Verdict(verified)]
    BY <1>3 DEF EndBootstrap, replay
  <2>2. Verdict(verified) \in {"exhausted", "recovery_pending"}
    BY <1>3 DEF Verdict
  <2>3. /\ head'.episode = head.episode
        /\ head'.state \in {"exhausted", "recovery_pending"}
    BY <1>1, <2>1, <2>2 DEF HeadType
  <2>4. Unfinished(head)
    BY <1>3 DEF Unfinished
  <2>5. ApprovedGood(pump, head, approved)'
    BY <2>1, <2>3 DEF ApprovedGood
  <2>6. CASE head'.state = "exhausted"
    <3>1. ~Unfinished(head')
      BY <2>6 DEF Unfinished
    <3>2. Ledger!Reject
      BY <1>1, <2>1, <2>3, <2>4, <3>1 DEF Ledger!Reject, Unfinished
    <3> QED
      BY <2>5, <3>2, Zenon DEF Ledger!Next
  <2>7. CASE head'.state = "recovery_pending"
    BY <1>1, <1>3, <2>1, <2>3, <2>5, <2>7 DEF Rest, Unfinished
  <2> QED
    BY <2>3, <2>6, <2>7
<1>4. CASE ~(head.episode = hand.episode /\ head.state = "recovery_pending")
  <2>1. UNCHANGED <<head, ledger, approved, pump>>
    BY <1>4 DEF EndBootstrap, durable, replay
  <2> QED
    BY <1>1, <2>1 DEF Rest, ApprovedGood, Unfinished
<1> QED
  BY <1>2, <1>3, <1>4

\* An acknowledgement finishes a row that has run, and lets at most one go.
LEMMA AcknowledgeLedger ==
  ASSUME IInv, CopyInv, ApprovedGood(pump, head, approved), Acknowledge
  PROVE  /\ Rest \/ Ledger!Next
         /\ ApprovedGood(pump, head, approved)'
<1>1. UNCHANGED <<head, runs, approved>> /\ stage = "ended"
  BY DEF Acknowledge, history
<1>2. /\ hand \in Item /\ hand.row # 0 /\ runs[hand.row] > 0
      /\ LedgerGood(ledger, head, runs) /\ pump \in 0..MaxEpisodes
  BY <1>1 DEF IInv, TypeOK, StageGood
<1>3. hand.row \in Rows /\ (hand.episode # 0 => hand.episode \in Episodes)
  BY <1>2, ItemsBounded
<1>4. CASE hand.episode = 0
  BY <1>1, <1>4 DEF Acknowledge, replay, Rest, Unfinished, ApprovedGood
<1>5. CASE hand.episode # 0
  <2> DEFINE acked == [ledger EXCEPT ![hand.episode][hand.row] = "replayed"]
  <2>1. IF pump = hand.episode
        THEN Pump(Fields(pump, FALSE, timer), inbox, acked)
        ELSE ledger' = acked /\ pump' = pump
    BY <1>5 DEF Acknowledge, replay
  <2>2. ledger[hand.episode][hand.row] = "releasing"
    BY <1>2, <1>5, CopiesHere DEF OutKnown
  <2>3. Updates(acked, ledger, hand.episode, hand.row, "replayed")
    BY DEF Updates
  <2> HIDE DEF acked
  <2>4. LedgerGood(acked, head, runs)
    <3>1. Out(ledger, hand.episode, hand.row)
      BY <2>2 DEF Out
    <3> QED
      BY <1>2, <1>3, <1>5, <2>3, <3>1, AcknowledgeRow
  <2>5. /\ ledger' = acked \/ Ledger!LetsGo(acked)
        /\ pump' # 0 => pump' \in approved'
    <3>1. CASE pump = hand.episode
      <4> DEFINE from == Fields(pump, FALSE, timer)
      <4>1. Pump(from, inbox, acked) /\ from.episode = pump
        BY <2>1, <3>1 DEF Fields
      <4> HIDE DEF from
      <4>2. /\ from.episode \in 0..MaxEpisodes
            /\ from.episode # 0 => from.episode \in approved'
            /\ ReleasedInOrder(acked)
        BY <1>1, <1>2, <2>4, <4>1 DEF ApprovedGood, LedgerGood
      <4> QED
        BY <4>1, <4>2, PumpLets
    <3>2. CASE pump # hand.episode
      BY <1>1, <2>1, <3>2 DEF ApprovedGood
    <3> QED
      BY <3>1, <3>2
  <2>6. Ledger!Finish(hand.episode, hand.row)
    BY <1>1, <1>2, <2>2, <2>5 DEF Ledger!Finish, acked, Unfinished
  <2>7. ApprovedGood(pump, head, approved)'
    BY <1>1, <2>5 DEF ApprovedGood
  <2> QED
    BY <1>3, <1>5, <2>6, <2>7, Zenon DEF Ledger!Next
<1> QED
  BY <1>4, <1>5

\* The timer lets a row of the pump's episode go, or none.
LEMMA TimerLedger ==
  ASSUME IInv, ApprovedGood(pump, head, approved), TimerFires
  PROVE  /\ Rest \/ Ledger!Next
         /\ ApprovedGood(pump, head, approved)'
<1> DEFINE from == Fields(pump, inFlight, FALSE)
<1>1. /\ UNCHANGED <<head, runs, approved>>
      /\ Pump(from, inbox, ledger)
      /\ from.episode = pump
  BY DEF TimerFires, history, Fields
<1> HIDE DEF from
<1>2. /\ from.episode \in 0..MaxEpisodes
      /\ from.episode # 0 => from.episode \in approved'
      /\ ReleasedInOrder(ledger)
  BY <1>1 DEF IInv, TypeOK, LedgerGood, ApprovedGood
<1>3. /\ ledger' = ledger \/ Ledger!LetsGo(ledger)
      /\ pump' # 0 => pump' \in approved'
  BY <1>1, <1>2, PumpLets
<1>4. ApprovedGood(pump, head, approved)'
  BY <1>1, <1>3 DEF ApprovedGood
<1>5. CASE ledger' = ledger
  BY <1>1, <1>4, <1>5 DEF Rest, Unfinished
<1>6. CASE Ledger!LetsGo(ledger)
  <2>1. Ledger!Release
    BY <1>1, <1>6 DEF Ledger!Release, Unfinished
  <2> QED
    BY <1>4, <2>1, Zenon DEF Ledger!Next
<1> QED
  BY <1>3, <1>5, <1>6

\* A restart lets the row go again that was out, or the next, or none.
LEMMA ResumeLedger ==
  ASSUME IInv, ApprovedGood(pump, head, approved), Resume
  PROVE  /\ Rest \/ Ledger!Next
         /\ ApprovedGood(pump, head, approved)'
<1>1. UNCHANGED <<runs, approved>>
  BY DEF Resume, history
<1>2. head \in HeadType /\ ReleasedInOrder(ledger)
  BY DEF IInv, TypeOK, HeadType, LedgerGood
<1>3. CASE head.state = "verified"
  <2> DEFINE from == Fields(head.episode, inFlight, timer)
  <2>1. Pump(from, inbox, ledger) /\ head' = head /\ from.episode = head.episode
    BY <1>3 DEF Resume, Fields
  <2> HIDE DEF from
  <2>2. from.episode \in 0..MaxEpisodes /\ from.episode \in approved'
    BY <1>1, <1>2, <1>3, <2>1 DEF HeadType, ApprovedGood
  <2>3. /\ ledger' = ledger \/ Ledger!LetsGo(ledger)
        /\ pump' # 0 => pump' \in approved'
    BY <1>2, <2>1, <2>2, PumpLets
  <2>4. ApprovedGood(pump, head, approved)'
    BY <1>1, <2>1, <2>3 DEF ApprovedGood
  <2>5. CASE ledger' = ledger
    BY <1>1, <2>1, <2>4, <2>5 DEF Rest, Unfinished
  <2>6. CASE Ledger!LetsGo(ledger)
    <3>1. Ledger!Release
      BY <1>1, <2>1, <2>6 DEF Ledger!Release, Unfinished
    <3> QED
      BY <2>4, <3>1, Zenon DEF Ledger!Next
  <2> QED
    BY <2>3, <2>5, <2>6
<1>4. CASE head.state # "verified"
  <2>1. /\ UNCHANGED <<ledger, pump>>
        /\ \/ head' = head
           \/ /\ head.state = "guard_tripped"
              /\ head' = [head EXCEPT !.state = "recovery_pending"]
    BY <1>4 DEF Resume, Publish, replay
  <2>2. /\ head'.episode = head.episode /\ head'.state # "verified"
        /\ Unfinished(head') = Unfinished(head)
    BY <1>2, <1>4, <2>1 DEF HeadType, Unfinished
  <2>3. ApprovedGood(pump, head, approved)'
    BY <1>1, <2>1, <2>2 DEF ApprovedGood
  <2> QED
    BY <1>1, <2>1, <2>2, <2>3 DEF Rest, Unfinished
<1> QED
  BY <1>3, <1>4

\* The other steps leave RowLedger alone, a crash included.
LEMMA OthersRest ==
  ASSUME ApprovedGood(pump, head, approved),
         \/ Arrive \/ \E item \in inbox : Take(item)
         \/ CompactionFails \/ PutBack \/ Abandon \/ PauseEnds \/ PaceEnds
         \/ Crash \/ UNCHANGED vars
  PROVE  Rest /\ ApprovedGood(pump, head, approved)'
<1>1. UNCHANGED <<head, ledger, approved, runs>> /\ pump' \in {0, pump}
  BY DEF Arrive, Take, CompactionFails, PutBack, Abandon, PauseEnds, PaceEnds,
         Crash, vars, durable, replay, history
<1> QED
  BY <1>1 DEF Rest, ApprovedGood, Unfinished

\* The recovery implements RowLedger, over crashes, re-trips of the guard and
\* failed bootstraps: rows are let go by verified episodes only, in order and one
\* at a time, are done with only after a turn, and none runs that is held back.
THEOREM Implements == Spec => ImplementsLedger
<1>1. Init => Ledger!Init /\ ApprovedGood(pump, head, approved)
  BY DEF Init, Ledger!Init, ApprovedGood, Unfinished
<1>2. /\ IInv /\ CopyInv /\ ApprovedGood(pump, head, approved) /\ [Next]_vars
      => /\ [Ledger!Next]_<<head.episode, Unfinished(head), approved, ledger, runs>>
         /\ ApprovedGood(pump, head, approved)'
  <2> SUFFICES ASSUME IInv, CopyInv, ApprovedGood(pump, head, approved), [Next]_vars
               PROVE  (Rest \/ Ledger!Next) /\ ApprovedGood(pump, head, approved)'
    BY RestStutters
  <2>1. CASE Next
    BY <2>1, OthersRest, TripLedger, CommitLedger, EndTurnLedger, EndBootstrapLedger,
       AcknowledgeLedger, TimerLedger, ResumeLedger DEF Next
  <2>2. CASE UNCHANGED vars
    BY <2>2, OthersRest
  <2> QED
    BY <2>1, <2>2
<1> QED
  BY <1>1, <1>2, Invariance, CopyInvariance, PTL DEF Spec, ImplementsLedger, Ledger!Spec
=============================================================================
