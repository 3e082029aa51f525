------------------------------ MODULE CronProofs ------------------------------
(***************************************************************************)
(* Proofs about the scheduled jobs, for any set of jobs, any number of     *)
(* scheduler passes, firings, crashes, refusals, discarded turns, failed   *)
(* reads and writes, and for any overlap of the calls.                     *)
(***************************************************************************)
EXTENDS CronStore, FiniteSetTheorems, TLAPS

\* A table is a function from some of the jobs to records.
LEMMA TableIs ==
  \A t : t \in Tables <=> DOMAIN t \subseteq Jobs /\ t \in [DOMAIN t -> Record]
BY DEF Tables

LEMMA EmptyTable == << >> \in Tables /\ DOMAIN << >> = {}
<1>1. << >> \in [{} -> Record]
  OBVIOUS
<1> QED
  BY <1>1 DEF Tables

\* What a file reads as is a table, whatever is in it.
LEMMA ContentTables ==
  /\ Blank \in Contents /\ Garbled \in Contents
  /\ Blank.table = << >> /\ Garbled.table = << >>
  /\ \A x \in Contents : x.table \in Tables
  /\ \A t \in Tables : Whole(t) \in Contents /\ Whole(t).table = t
BY EmptyTable DEF Contents, Whole, Blank, Garbled

LEMMA OverwrittenIs ==
  ASSUME NEW x, NEW t \in Tables, NEW y \in Overwritten(x, t)
  PROVE  y \in Contents /\ (y.table = t \/ y.table = << >>)
<1>1. y = Whole(t) \/ y = Garbled
  BY DEF Overwritten
<1> QED
  BY <1>1, ContentTables

\* How a call moves, and whether it collides.
LEMMA SuspendDoes ==
  ASSUME TypeOK, NEW c \in Callers, NEW x, Suspend(c, x)
  PROVE  /\ pc' = [pc EXCEPT ![c] = x] /\ pc'[c] = x
         /\ \A d \in Callers : d # c => pc'[d] = pc[d]
         /\ collisions \in Nat /\ collisions' \in Nat /\ collisions' >= collisions
         /\ Meets(c, x) => collisions' = collisions + 1
         /\ ~Meets(c, x) => collisions' = collisions
BY DEF Suspend, TypeOK

\* The array after one job is added, changed or removed.
LEMMA WithTable ==
  ASSUME NEW t \in Tables, NEW j \in Jobs, NEW r \in Record
  PROVE  /\ With(t, j, r) \in Tables
         /\ DOMAIN With(t, j, r) = DOMAIN t \cup {j}
         /\ With(t, j, r)[j] = r
         /\ \A i \in DOMAIN t : i # j => With(t, j, r)[i] = t[i]
<1>1. DOMAIN t \subseteq Jobs /\ t \in [DOMAIN t -> Record]
  BY TableIs
<1>2. With(t, j, r) \in [DOMAIN t \cup {j} -> Record]
  BY <1>1 DEF With
<1>3. DOMAIN With(t, j, r) = DOMAIN t \cup {j}
  BY DEF With
<1>4. With(t, j, r) \in Tables
  BY <1>1, <1>2, <1>3 DEF Tables
<1> QED
  BY <1>3, <1>4 DEF With

LEMMA WithoutTable ==
  ASSUME NEW t \in Tables, NEW j
  PROVE  /\ Without(t, j) \in Tables
         /\ DOMAIN Without(t, j) = DOMAIN t \ {j}
         /\ \A i \in DOMAIN t : i # j => Without(t, j)[i] = t[i]
<1>1. DOMAIN t \subseteq Jobs /\ t \in [DOMAIN t -> Record]
  BY TableIs
<1>2. Without(t, j) \in [DOMAIN t \ {j} -> Record]
  BY <1>1 DEF Without
<1>3. DOMAIN Without(t, j) = DOMAIN t \ {j}
  BY DEF Without
<1>4. Without(t, j) \in Tables
  BY <1>1, <1>2, <1>3 DEF Tables
<1> QED
  BY <1>3, <1>4 DEF Without

LEMMA ClaimedRecord ==
  ASSUME NEW e, NEW b, NEW n
  PROVE  Claimed([enabled |-> e, running |-> b, next |-> n])
           = [enabled |-> e, running |-> TRUE, next |-> n]
<1>1. ASSUME NEW x
      PROVE  [[enabled |-> e, running |-> b, next |-> n] EXCEPT !.running = x]
               = [enabled |-> e, running |-> x, next |-> n]
  OBVIOUS
<1> QED
  BY <1>1, Zenon DEF Claimed

\* Claiming, marking and making a record.
LEMMA RecordTypes ==
  ASSUME TypeOK, NEW j \in Jobs
  PROVE  /\ now[j] \in 0..MaxFirings /\ now[j] \in Nat
         /\ Fresh(j) \in Record /\ ~Fresh(j).running /\ Fresh(j).enabled
         /\ Fresh(j).next = now[j] + 1
         /\ \A r \in Record :
              /\ r.next \in Nat /\ r.running \in BOOLEAN /\ r.enabled \in BOOLEAN
              /\ Claimed(r) \in Record
              /\ Claimed(r).running /\ Claimed(r).next = r.next
              /\ Claimed(r).enabled = r.enabled
              /\ Marked(j, r) \in Record /\ ~Marked(j, r).running
              /\ j \in Once => ~Marked(j, r).enabled /\ Marked(j, r).next = r.next
              /\ j \notin Once => /\ Marked(j, r).enabled = r.enabled
                                  /\ Marked(j, r).next = now[j] + 1
<1>1. now[j] \in 0..MaxFirings /\ now[j] \in Nat /\ NextFiring(j) \in 1..(MaxFirings + 1)
  BY CronAssumption DEF TypeOK, NextFiring
<1>2. /\ Fresh(j) \in Record /\ ~Fresh(j).running /\ Fresh(j).enabled
      /\ Fresh(j).next = now[j] + 1
  BY <1>1 DEF Fresh, Record, NextFiring
<1>3. ASSUME NEW r \in Record
      PROVE  /\ r.next \in Nat /\ r.running \in BOOLEAN /\ r.enabled \in BOOLEAN
             /\ Claimed(r) \in Record
             /\ Claimed(r).running /\ Claimed(r).next = r.next
             /\ Claimed(r).enabled = r.enabled
  <2>1. r.next \in 1..(MaxFirings + 1) /\ r.running \in BOOLEAN /\ r.enabled \in BOOLEAN
    BY DEF Record
  <2>2. \E e \in BOOLEAN, n \in 1..(MaxFirings + 1) :
          /\ Claimed(r) = [enabled |-> e, running |-> TRUE, next |-> n]
          /\ r.enabled = e /\ r.next = n
    <3>1. PICK e \in BOOLEAN, b \in BOOLEAN, n \in 1..(MaxFirings + 1) :
            r = [enabled |-> e, running |-> b, next |-> n]
      BY DEF Record
    <3>2. r.enabled = e /\ r.next = n
      BY <3>1
    <3>3. Claimed(r) = [enabled |-> e, running |-> TRUE, next |-> n]
      BY <3>1, ClaimedRecord, Zenon
    <3> QED
      BY <3>2, <3>3
  <2>3. Claimed(r) \in Record
    BY <2>2 DEF Record
  <2>4. Claimed(r).running /\ Claimed(r).next = r.next
    BY <2>2
  <2>5. Claimed(r).enabled = r.enabled
    BY <2>2
  <2>6. r.next \in Nat
    BY <2>1, CronAssumption
  <2> QED
    BY <2>1, <2>3, <2>4, <2>5, <2>6
<1>4. ASSUME NEW r \in Record
      PROVE  /\ Marked(j, r) \in Record /\ ~Marked(j, r).running
             /\ j \in Once => ~Marked(j, r).enabled /\ Marked(j, r).next = r.next
             /\ j \notin Once => /\ Marked(j, r).enabled = r.enabled
                                 /\ Marked(j, r).next = now[j] + 1
  <2>1. CASE j \in Once
    BY <2>1 DEF Marked, Record
  <2>2. CASE j \notin Once
    BY <1>1, <2>2 DEF Marked, Record, NextFiring
  <2> QED
    BY <2>1, <2>2
<1> QED
  BY <1>1, <1>2, <1>3, <1>4

\* The jobs getDueJobs() finds.
LEMMA DueJobs ==
  ASSUME NEW t \in Tables, NEW j \in Due(t)
  PROVE  /\ j \in DOMAIN t /\ j \in Jobs /\ t[j] \in Record
         /\ t[j].enabled /\ t[j].next <= now[j]
BY TableIs DEF Due

\* What claimJob() does of a pass: nothing left, ...
Ended(c, t, n) ==
  /\ mem' = t /\ submitted' = n
  /\ Suspend(c, "idle")
  /\ current' = [current EXCEPT ![c] = NoJob]
  /\ todo' = [todo EXCEPT ![c] = {}] /\ old' = old

\* ... or one due job claimed, after which a claim given up counts no more.
Claims(c, t, n, j) ==
  /\ mem' = With(t, j, Claimed(t[j]))
  /\ submitted' = [n EXCEPT ![j] = IF t[j].running THEN @ - 1 ELSE @]
  /\ Suspend(c, "mkdir")
  /\ current' = [current EXCEPT ![c] = j]
  /\ \E left \in SUBSET Jobs : todo' = [todo EXCEPT ![c] = left]
  /\ old' = old \ {j}

LEMMA ClaimDoes ==
  ASSUME TypeOK, NEW c \in Ticks, NEW jobs \in SUBSET Jobs, NEW t \in Tables,
         NEW n \in [Jobs -> Int], ClaimNext(c, jobs, t, n)
  PROVE  Ended(c, t, n) \/ \E j \in Due(t) : Claims(c, t, n, j)
<1> DEFINE left == jobs \cap Due(t)
<1>1. CASE left = {} /\ mem' = t /\ submitted' = n /\ todo' = [todo EXCEPT ![c] = {}]
           /\ current' = [current EXCEPT ![c] = NoJob] /\ Suspend(c, "idle") /\ UNCHANGED old
  BY <1>1, Zenon DEF Ended
<1>2. CASE \E j \in left :
            /\ mem' = With(t, j, Claimed(t[j]))
            /\ old' = old \ {j}
            /\ submitted' = [n EXCEPT ![j] = IF t[j].running THEN @ - 1 ELSE @]
            /\ todo' = [todo EXCEPT ![c] = left \ {j}]
            /\ current' = [current EXCEPT ![c] = j]
            /\ Suspend(c, "mkdir")
  <2>1. PICK j \in left :
            /\ mem' = With(t, j, Claimed(t[j]))
            /\ old' = old \ {j}
            /\ submitted' = [n EXCEPT ![j] = IF t[j].running THEN @ - 1 ELSE @]
            /\ todo' = [todo EXCEPT ![c] = left \ {j}]
            /\ current' = [current EXCEPT ![c] = j]
            /\ Suspend(c, "mkdir")
    BY <1>2, Zenon
  <2>2. left \ {j} \in SUBSET Jobs /\ j \in Due(t)
    OBVIOUS
  <2> HIDE DEF left
  <2> QED
    BY <2>1, <2>2, Zenon DEF Claims
<1> QED
  BY <1>1, <1>2, Zenon DEF ClaimNext

-----------------------------------------------------------------------------
(***************************************************************************)
(* Types.                                                                  *)
(***************************************************************************)
Steps == {"idle", "load", "failed"} \cup Saving

\* A call that moves to another await keeps its type.
LEMMA SuspendTypes ==
  ASSUME TypeOK, NEW c \in Callers, NEW x \in Steps, Suspend(c, x)
  PROVE  pc' \in [Callers -> Steps] /\ collisions' \in Nat
BY SuspendDoes DEF TypeOK, Steps

LEMMA MishapTypes ==
  ASSUME TypeOK, Mishap
  PROVE  mishaps' \in 0..MaxMishaps
BY CronAssumption DEF Mishap, Spare, TypeOK

LEMMA InitTypes == Init => TypeOK
<1> SUFFICES ASSUME Init PROVE TypeOK
  OBVIOUS
<1>1. << >> \in Tables /\ Whole(<< >>) \in Contents
  BY EmptyTable, ContentTables
<1>2. 0 \in 0..MaxMishaps /\ 0 \in 0..MaxFirings
  BY CronAssumption
<1>3. /\ mem \in Tables /\ file \in Contents /\ tmp \subseteq Contents
      /\ fd \in [Callers -> {"none", "tmp", "file", "gone"}]
      /\ now \in [Jobs -> 0..MaxFirings] /\ old \subseteq Jobs
  BY <1>1, <1>2 DEF Init
<1>4. /\ pc \in [Callers -> {"idle", "load", "failed"} \cup Saving]
      /\ buffer \in [Callers -> Tables]
      /\ todo \in [Ticks -> SUBSET Jobs]
      /\ current \in [Callers -> Jobs \cup {NoJob}]
  BY <1>1 DEF Init
<1>5. /\ inbox \in [Jobs -> Nat]
      /\ hand \subseteq Jobs /\ \A i, j \in hand : i = j
      /\ added \subseteq Jobs /\ removed \subseteq Jobs
      /\ submitted \in [Jobs -> Int]
      /\ collisions \in Nat /\ mishaps \in 0..MaxMishaps
  BY <1>2 DEF Init
<1>6. faulted \in BOOLEAN
  BY Zenon DEF Init
<1> QED
  BY <1>3, <1>4, <1>5, <1>6 DEF TypeOK

\* save(): its four steps, or its failure.
LEMMA SaveTypes ==
  ASSUME TypeOK, NEW c \in Callers, Save(c) \/ SaveFails(c)
  PROVE  TypeOK'
<1> USE DEF Steps, Saving, Unsaved
<1>1. << >> \in Tables /\ Blank \in Contents
  BY EmptyTable, ContentTables
<1>2. CASE Stringify(c)
  <2>1. pc' \in [Callers -> Steps] /\ collisions' \in Nat
    BY <1>2, SuspendTypes DEF Stringify
  <2> QED
    BY <1>2, <2>1 DEF Stringify, TypeOK, disk, clock, queue, history
<1>3. CASE OpenTmp(c)
  <2>1. pc' \in [Callers -> Steps] /\ collisions' \in Nat
    BY <1>3, SuspendTypes DEF OpenTmp
  <2> QED
    BY <1>1, <1>3, <2>1 DEF OpenTmp, TypeOK, clock, queue, history
<1>4. CASE WriteTmp(c)
  <2>1. pc' \in [Callers -> Steps] /\ collisions' \in Nat
    BY <1>4, SuspendTypes DEF WriteTmp
  <2>2. buffer[c] \in Tables
    BY DEF TypeOK
  <2>3. tmp' \subseteq Contents /\ file' \in Contents
    <3>1. CASE UNCHANGED file /\ \E x \in tmp : \E y \in Overwritten(x, buffer[c]) : tmp' = {y}
      <4>1. PICK x \in tmp : \E y \in Overwritten(x, buffer[c]) : tmp' = {y}
        BY <3>1
      <4>2. PICK y \in Overwritten(x, buffer[c]) : tmp' = {y}
        BY <4>1
      <4>3. y \in Contents
        BY <2>2, OverwrittenIs
      <4> QED
        BY <3>1, <4>2, <4>3 DEF TypeOK
    <3>2. CASE UNCHANGED tmp /\ file' \in Overwritten(file, buffer[c])
      <4>1. file' \in Contents
        BY <2>2, <3>2, OverwrittenIs
      <4> QED
        BY <3>2, <4>1 DEF TypeOK
    <3>3. CASE UNCHANGED <<file, tmp>>
      BY <3>3 DEF TypeOK
    <3> QED
      BY <1>4, <3>1, <3>2, <3>3 DEF WriteTmp
  <2> QED
    BY <1>1, <1>4, <2>1, <2>3 DEF WriteTmp, Drop, TypeOK, clock, queue, history
<1>5. CASE Rename(c)
  <2>1. CASE tmp = {} /\ Suspend(c, "failed") /\ UNCHANGED disk
    <3>1. pc' \in [Callers -> Steps] /\ collisions' \in Nat
      BY <2>1, SuspendTypes
    <3> QED
      BY <1>5, <2>1, <3>1 DEF Rename, TypeOK, disk, clock, queue, history
  <2>2. CASE /\ Suspend(c, "saved")
             /\ file' \in tmp /\ tmp' = {}
             /\ fd' = [d \in Callers |-> Renamed(fd[d])]
    <3>1. pc' \in [Callers -> Steps] /\ collisions' \in Nat
      BY <2>2, SuspendTypes
    <3>2. fd' \in [Callers -> {"none", "tmp", "file", "gone"}]
      BY <2>2 DEF TypeOK, Renamed
    <3> QED
      BY <1>5, <2>2, <3>1, <3>2 DEF Rename, TypeOK, clock, queue, history
  <2> QED
    BY <1>5, <2>1, <2>2 DEF Rename
<1>6. CASE SaveFails(c)
  <2>1. pc' \in [Callers -> Steps] /\ collisions' \in Nat
    BY <1>6, SuspendTypes DEF SaveFails
  <2>2. mishaps' \in 0..MaxMishaps
    BY <1>6, MishapTypes DEF SaveFails
  <2> QED
    BY <1>1, <1>6, <2>1, <2>2 DEF SaveFails, Drop, TypeOK, clock, queue
<1> QED
  BY <1>2, <1>3, <1>4, <1>5, <1>6 DEF Save

\* The variables that ClaimNext sets.
ClaimTyped ==
  /\ mem' \in Tables /\ submitted' \in [Jobs -> Int] /\ old' \subseteq Jobs
  /\ pc' \in [Callers -> Steps] /\ collisions' \in Nat
  /\ todo' \in [Ticks -> SUBSET Jobs]
  /\ current' \in [Callers -> Jobs \cup {NoJob}]

LEMMA ClaimTypes ==
  ASSUME TypeOK, NEW c \in Ticks, NEW jobs \in SUBSET Jobs, NEW t \in Tables,
         NEW n \in [Jobs -> Int], ClaimNext(c, jobs, t, n)
  PROVE  ClaimTyped
<1>1. /\ current \in [Callers -> Jobs \cup {NoJob}]
      /\ todo \in [Ticks -> SUBSET Jobs] /\ old \subseteq Jobs /\ c \in Callers
  BY DEF TypeOK, Callers
<1>2. CASE Ended(c, t, n)
  <2>1. pc' \in [Callers -> Steps] /\ collisions' \in Nat
    BY <1>1, <1>2, SuspendTypes DEF Ended, Steps
  <2> QED
    BY <1>1, <1>2, <2>1 DEF Ended, ClaimTyped
<1>3. ASSUME NEW j \in Due(t), Claims(c, t, n, j)
      PROVE  ClaimTyped
  <2>1. pc' \in [Callers -> Steps] /\ collisions' \in Nat
    BY <1>1, <1>3, SuspendTypes DEF Claims, Steps, Saving, Unsaved
  <2>2. j \in Jobs /\ Claimed(t[j]) \in Record
    BY DueJobs, RecordTypes
  <2>3. mem' \in Tables
    BY <1>3, <2>2, WithTable DEF Claims
  <2>4. submitted' \in [Jobs -> Int]
    BY <1>3, <2>2 DEF Claims
  <2>5. current' \in [Callers -> Jobs \cup {NoJob}]
    BY <1>1, <1>3, <2>2 DEF Claims
  <2>6. todo' \in [Ticks -> SUBSET Jobs] /\ old' \subseteq Jobs
    BY <1>1, <1>3 DEF Claims
  <2> QED
    BY <2>1, <2>3, <2>4, <2>5, <2>6 DEF ClaimTyped
<1> QED
  BY <1>2, <1>3, ClaimDoes, Zenon

\* load() begins, for a pass or for list_jobs.
LEMMA ReadTypes ==
  ASSUME TypeOK, NEW c \in Callers, Read(c)
  PROVE  /\ pc' \in [Callers -> Steps] /\ collisions' \in Nat
         /\ buffer' \in [Callers -> Tables]
         /\ faulted' \in BOOLEAN /\ mishaps' \in 0..MaxMishaps
<1>1. << >> \in Tables /\ file.table \in Tables
  BY EmptyTable, ContentTables DEF TypeOK
<1>2. pc' \in [Callers -> Steps] /\ collisions' \in Nat
  BY SuspendTypes DEF Read, Steps
<1>3. CASE buffer' = [buffer EXCEPT ![c] = file.table] /\ UNCHANGED <<faulted, mishaps>>
  BY <1>1, <1>2, <1>3 DEF TypeOK
<1>4. CASE Mishap /\ faulted' = TRUE /\ Drop(c)
  BY <1>1, <1>2, <1>4, MishapTypes DEF TypeOK, Drop
<1> QED
  BY <1>3, <1>4 DEF Read

LEMMA PassTypes ==
  ASSUME TypeOK, NEW c \in Ticks, Tick(c) \/ Pass(c)
  PROVE  TypeOK'
<1>1. << >> \in Tables /\ c \in Callers
  BY EmptyTable DEF Callers
<1>2. CASE Tick(c)
  BY <1>1, <1>2, ReadTypes DEF Tick, TypeOK, Steps, disk, clock, queue
<1>3. CASE TickLoaded(c)
  <2>1. buffer[c] \in Tables /\ Due(buffer[c]) \in SUBSET Jobs /\ submitted \in [Jobs -> Int]
    <3>1. buffer[c] \in Tables
      BY <1>1 DEF TypeOK
    <3> QED
      BY <3>1, DueJobs DEF TypeOK
  <2>2. ClaimNext(c, Due(buffer[c]), buffer[c], submitted)
    BY <1>3 DEF TickLoaded
  <2>3. ClaimTyped
    BY <2>1, <2>2, ClaimTypes
  <2> QED
    BY <1>1, <1>3, <2>3 DEF TickLoaded, ClaimTyped, Drop, TypeOK, Steps, disk, queue
<1>4. CASE pc[c] = "failed" /\ PassFails(c)
           /\ UNCHANGED <<disk, now, buffer, hand, added, removed, faulted>>
  <2>1. pc' \in [Callers -> Steps] /\ collisions' \in Nat
    BY <1>1, <1>4, SuspendTypes DEF PassFails, Steps
  <2> QED
    BY <1>1, <1>4, <2>1 DEF PassFails, TypeOK, Steps, disk
<1>5. CASE (\E accepted \in BOOLEAN : Submit(c, accepted))
           /\ UNCHANGED <<disk, now, buffer, hand, added, removed, faulted>>
  <2>1. PICK accepted \in BOOLEAN : Submit(c, accepted)
    BY <1>5
  <2> DEFINE pushed == {current[c]} \cap (IF accepted THEN DOMAIN mem ELSE {})
             n == [j \in Jobs |-> submitted[j] + (IF j \in pushed THEN 1 ELSE 0)]
  <2>2. n \in [Jobs -> Int]
    BY DEF TypeOK
  <2>3. /\ inbox' = [j \in Jobs |-> inbox[j] + (IF j \in pushed THEN 1 ELSE 0)]
        /\ ClaimNext(c, todo[c], mem, n)
    BY <2>1 DEF Submit
  <2>4. inbox' \in [Jobs -> Nat]
    BY <2>3 DEF TypeOK
  <2>5. mishaps' \in 0..MaxMishaps
    <3>1. UNCHANGED mishaps \/ Mishap
      BY <2>1 DEF Submit
    <3> QED
      BY <3>1, MishapTypes DEF TypeOK
  <2> HIDE DEF n, pushed
  <2>6. todo[c] \in SUBSET Jobs /\ mem \in Tables
    BY DEF TypeOK
  <2>7. ClaimTyped
    BY <2>2, <2>3, <2>6, ClaimTypes
  <2> QED
    BY <1>5, <2>4, <2>5, <2>7 DEF ClaimTyped, TypeOK, Steps, disk
<1> QED
  BY <1>2, <1>3, <1>4, <1>5 DEF Pass, ClaimSettled

LEMMA EditTypes ==
  ASSUME TypeOK, NEW j \in Jobs, Add(j) \/ Remove(j) \/ Finish(j)
  PROVE  TypeOK'
<1>1. /\ mem \in Tables /\ Agent \in Callers
      /\ \A i \in DOMAIN mem : mem[i] \in Record
  BY TableIs DEF TypeOK, Callers
<1>2. Suspend(Agent, "mkdir") => pc' \in [Callers -> Steps] /\ collisions' \in Nat
  BY <1>1, SuspendTypes DEF Steps, Saving, Unsaved
<1>3. CASE Add(j)
  <2>1. mem' \in Tables
    BY <1>1, <1>3, RecordTypes, WithTable DEF Add, Added
  <2> QED
    BY <1>1, <1>2, <1>3, <2>1 DEF Add, About, TypeOK, Steps, disk, clock, queue, history
<1>4. CASE Remove(j)
  <2>1. mem' \in Tables
    BY <1>1, <1>4, WithoutTable DEF Remove
  <2> QED
    BY <1>1, <1>2, <1>4, <2>1 DEF Remove, About, TypeOK, Steps, disk, clock, queue
<1>5. CASE Finish(j) /\ j \in DOMAIN mem
  <2>1. /\ mem' = With(mem, j, Marked(j, mem[j]))
        /\ old' = old \ {j}
        /\ About(NoJob) /\ Suspend(Agent, "mkdir")
    BY <1>5, Zenon DEF Finish
  <2>2. mem' \in Tables
    <3>1. Marked(j, mem[j]) \in Record
      BY <1>1, <1>5, RecordTypes
    <3> QED
      BY <1>1, <2>1, <3>1, WithTable
  <2> QED
    BY <1>1, <1>2, <1>5, <2>1, <2>2 DEF Finish, About, TypeOK, Steps, disk, history
<1>6. CASE Finish(j) /\ j \notin DOMAIN mem
  BY <1>6 DEF Finish, TypeOK, disk, history
<1> QED
  BY <1>3, <1>4, <1>5, <1>6

LEMMA AgentTypes ==
  ASSUME TypeOK, List \/ AgentCall
  PROVE  TypeOK'
<1>1. << >> \in Tables /\ Agent \in Callers
  BY EmptyTable DEF Callers
<1>2. Suspend(Agent, "idle") => pc' \in [Callers -> Steps] /\ collisions' \in Nat
  BY <1>1, SuspendTypes DEF Steps
<1>3. CASE List
  BY <1>1, <1>3, ReadTypes DEF List, TypeOK, Steps, disk, clock, queue
<1>4. CASE ListLoaded
  BY <1>1, <1>2, <1>4 DEF ListLoaded, Drop, TypeOK, Steps, disk, clock, queue, history
<1>5. CASE Return
  <2>1. added' \subseteq Jobs
    BY <1>1, <1>5 DEF Return, TypeOK
  <2> QED
    BY <1>1, <1>2, <1>5, <2>1 DEF Return, About, TypeOK, Steps, disk, clock, queue
<1> QED
  BY <1>3, <1>4, <1>5 DEF AgentCall

LEMMA WorldTypes ==
  ASSUME TypeOK, \/ \E j \in Jobs : \/ Take(j) \/ PutBack(j) \/ Discard(j)
                                   \/ FiringComes(j) \/ ClaimAges(j)
                 \/ Crash
  PROVE  TypeOK'
<1>1. CASE \E j \in Jobs : Take(j)
  <2>1. PICK j \in Jobs : Take(j)
    BY <1>1
  <2>2. inbox' \in [Jobs -> Nat]
    BY <2>1 DEF Take, TypeOK
  <2> QED
    BY <2>1, <2>2 DEF Take, TypeOK, disk, clock, calls, history
<1>2. CASE \E j \in Jobs : PutBack(j)
  BY <1>2 DEF PutBack, TypeOK, disk, clock, calls, history
<1>3. CASE \E j \in Jobs : Discard(j)
  BY <1>3, MishapTypes DEF Discard, TypeOK, disk, clock, calls
<1>4. CASE \E j \in Jobs : FiringComes(j)
  <2>1. PICK j \in Jobs : FiringComes(j)
    BY <1>4
  <2>2. now[j] \in 0..MaxFirings /\ now[j] < MaxFirings
    BY <2>1, CronAssumption DEF FiringComes, Firings, TypeOK
  <2>3. now' \in [Jobs -> 0..MaxFirings]
    BY <2>1, <2>2, CronAssumption DEF FiringComes, TypeOK
  <2> QED
    BY <2>1, <2>3 DEF FiringComes, TypeOK, disk, calls, queue, history
<1>5. CASE \E j \in Jobs : ClaimAges(j)
  <2>1. mishaps' \in 0..MaxMishaps
    BY <1>5, MishapTypes DEF ClaimAges, TypeOK
  <2> QED
    BY <1>5, <2>1 DEF ClaimAges, TypeOK, disk, calls, queue
<1>6. CASE Crash
  <2>1. << >> \in Tables /\ file.table \in Tables
    BY EmptyTable, ContentTables DEF TypeOK
  <2>2. mem' \in Tables /\ faulted' \in BOOLEAN /\ mishaps' \in 0..MaxMishaps
    BY <1>6, <2>1, MishapTypes DEF Crash, TypeOK
  <2> QED
    BY <1>6, <2>1, <2>2 DEF Crash, TypeOK, clock
<1> QED
  BY <1>1, <1>2, <1>3, <1>4, <1>5, <1>6

LEMMA NextTypes == TypeOK /\ [Next]_vars => TypeOK'
<1> SUFFICES ASSUME TypeOK, [Next]_vars PROVE TypeOK'
  OBVIOUS
<1>1. CASE UNCHANGED vars
  BY <1>1 DEF vars, disk, clock, calls, queue, history, TypeOK
<1> QED
  BY <1>1, SaveTypes, PassTypes, EditTypes, AgentTypes, WorldTypes, Zenon DEF Next

\* Every variable of the store, its callers and their histories keeps its type,
\* whatever calls overlap, tear each other's file or fail.
THEOREM TypeCorrect == Spec => []TypeOK
BY InitTypes, NextTypes, PTL DEF Spec

-----------------------------------------------------------------------------
(***************************************************************************)
(* What a duplicate costs.  A claim counts from the moment it is made, and *)
(* every table a call may still put in force, in memory or in a file, is   *)
(* Sound: where it offers a firing, that firing has not been counted yet.  *)
(* Only the claim itself can spoil another call's table, and then the two  *)
(* calls collide, which raises the ceiling for all of them.                *)
(***************************************************************************)
\* The passes that have claimed j and not yet submitted it.
Claiming(j) == {c \in Ticks : pc[c] \in Saving /\ current[c] = j}

Taken == [j \in Jobs |-> submitted[j] + Cardinality(Claiming(j))]

Open(t, j, time) ==
  j \in DOMAIN t /\ t[j].enabled /\ ~t[j].running /\ t[j].next <= time[j]

Sound(t, n, time, k) == \A j \in Jobs : Open(t, j, time) => n[j] < time[j] + k

\* A claim of j is on its way to the file.
Unwritten(j) == \E c \in Ticks : pc[c] \in Unsaved /\ current[c] = j

FileSound ==
  \A j \in Jobs : Open(file.table, j, now) => Taken[j] < now[j] + collisions \/ Unwritten(j)

Reading == {"load", "open", "write"}
Opened == {"write", "rename"}

Costs ==
  /\ \A j \in Jobs : Taken[j] <= now[j] + collisions
  /\ Sound(mem, Taken, now, collisions)
  /\ \A c \in Callers : pc[c] \in Reading => Sound(buffer[c], Taken, now, collisions)
  /\ (\E c \in Callers : pc[c] \in Opened) =>
       \A x \in tmp : Sound(x.table, Taken, now, collisions)
  /\ FileSound

\* A step in which no other call moves.
OnlyMoves(c) ==
  \A d \in Callers : d # c => pc'[d] = pc[d] /\ current'[d] = current[d] /\ buffer'[d] = buffer[d]

LEMMA EmptySound ==
  ASSUME NEW n, NEW time, NEW k
  PROVE  Sound(<< >>, n, time, k)
BY EmptyTable DEF Sound, Open

LEMMA OneLess ==
  ASSUME NEW P \in SUBSET Ticks, NEW c
  PROVE  /\ Cardinality(P) \in Nat /\ Cardinality(P \ {c}) \in Nat
         /\ c \in P => Cardinality(P) = Cardinality(P \ {c}) + 1
         /\ c \notin P => P \ {c} = P
<1>1. IsFiniteSet(Ticks)
  BY CronAssumption
<1>2. IsFiniteSet(P)
  BY <1>1, FS_Subset
<1>3. IsFiniteSet(P \ {c})
  BY <1>2, FS_Subset
<1>4. c \in P => Cardinality(P \ {c}) = Cardinality(P) - 1
  BY <1>2, FS_RemoveElement
<1>5. Cardinality(P) \in Nat /\ Cardinality(P \ {c}) \in Nat
  BY <1>2, <1>3, FS_CardinalityType
<1> QED
  BY <1>4, <1>5

LEMMA Numbers ==
  ASSUME TypeOK, NEW j \in Jobs
  PROVE  /\ submitted[j] \in Int /\ now[j] \in Nat /\ collisions \in Nat
         /\ Cardinality(Claiming(j)) \in Nat
         /\ Taken[j] = submitted[j] + Cardinality(Claiming(j)) /\ Taken[j] \in Int
<1>1. Claiming(j) \in SUBSET Ticks
  BY DEF Claiming
<1>2. Cardinality(Claiming(j)) \in Nat
  BY <1>1, OneLess
<1>3. submitted[j] \in Int /\ now[j] \in Nat /\ collisions \in Nat
  BY CronAssumption DEF TypeOK
<1> QED
  BY <1>2, <1>3 DEF Taken

LEMMA NumbersNext ==
  ASSUME TypeOK', NEW j \in Jobs
  PROVE  /\ Taken'[j] \in Int /\ now'[j] \in Nat /\ collisions' \in Nat
         /\ submitted'[j] \in Int /\ submitted'[j] <= Taken'[j]
         /\ Taken'[j] = submitted'[j] + Cardinality(Claiming(j)')
<1>1. submitted'[j] \in Int /\ collisions' \in Nat /\ now'[j] \in Nat
  BY CronAssumption DEF TypeOK
<1>2. Claiming(j)' \in SUBSET Ticks
  BY DEF Claiming
<1>3. Cardinality(Claiming(j)') \in Nat
  BY <1>2, OneLess
<1> QED
  BY <1>1, <1>3 DEF Taken

\* The claims of j on their way, but for what call c does.
LEMMA ClaimingMoves ==
  ASSUME TypeOK, NEW c \in Callers, OnlyMoves(c), NEW j \in Jobs
  PROVE  /\ Claiming(j)' \ {c} = Claiming(j) \ {c}
         /\ Cardinality(Claiming(j)' \ {c}) \in Nat
         /\ Cardinality(Claiming(j)') \in Nat
         /\ c \in Claiming(j)' => Cardinality(Claiming(j)') = Cardinality(Claiming(j) \ {c}) + 1
         /\ c \notin Claiming(j)' => Cardinality(Claiming(j)') = Cardinality(Claiming(j) \ {c})
         /\ c \in Claiming(j) => Cardinality(Claiming(j)) = Cardinality(Claiming(j) \ {c}) + 1
         /\ c \notin Claiming(j) => Cardinality(Claiming(j)) = Cardinality(Claiming(j) \ {c})
<1>1. Claiming(j)' \ {c} = Claiming(j) \ {c}
  BY DEF Claiming, OnlyMoves, Callers
<1>2. Claiming(j) \in SUBSET Ticks /\ Claiming(j)' \in SUBSET Ticks
  BY DEF Claiming
<1>3. /\ Cardinality(Claiming(j)' \ {c}) \in Nat /\ Cardinality(Claiming(j)') \in Nat
      /\ c \in Claiming(j)' => Cardinality(Claiming(j)') = Cardinality(Claiming(j)' \ {c}) + 1
      /\ c \notin Claiming(j)' => Claiming(j)' \ {c} = Claiming(j)'
  BY <1>2, OneLess
<1>4. /\ c \in Claiming(j) => Cardinality(Claiming(j)) = Cardinality(Claiming(j) \ {c}) + 1
      /\ c \notin Claiming(j) => Claiming(j) \ {c} = Claiming(j)
  BY <1>2, OneLess
<1> QED
  BY <1>1, <1>3, <1>4

\* When submissions stay as they are, a call that makes no claim takes nothing.
LEMMA TakenStays ==
  ASSUME TypeOK, TypeOK', NEW c \in Callers, OnlyMoves(c), submitted' = submitted,
         NEW j \in Jobs, c \in Claiming(j)' => c \in Claiming(j)
  PROVE  /\ Taken'[j] <= Taken[j]
         /\ c \in Claiming(j) /\ c \notin Claiming(j)' => Taken'[j] < Taken[j]
<1>1. Taken[j] = submitted[j] + Cardinality(Claiming(j)) /\ submitted[j] \in Int
  BY Numbers
<1>2. Taken'[j] = submitted[j] + Cardinality(Claiming(j)')
  BY DEF Taken
<1> DEFINE others == Cardinality(Claiming(j) \ {c})
           before == Cardinality(Claiming(j))
           after == Cardinality(Claiming(j)')
<1>3. others \in Nat
  <2>1. Claiming(j) \in SUBSET Ticks
    BY DEF Claiming
  <2> QED
    BY <2>1, OneLess
<1>4. /\ c \in Claiming(j)' => after = others + 1
      /\ c \notin Claiming(j)' => after = others
      /\ c \in Claiming(j) => before = others + 1
      /\ c \notin Claiming(j) => before = others
  BY ClaimingMoves
<1> HIDE DEF others, before, after
<1>5. CASE c \in Claiming(j)'
  BY <1>1, <1>2, <1>3, <1>4, <1>5 DEF before, after
<1>6. CASE c \notin Claiming(j)'
  BY <1>1, <1>2, <1>3, <1>4, <1>6 DEF before, after
<1> QED
  BY <1>5, <1>6

\* Fewer claims and more collisions spoil no table.
LEMMA SoundStays ==
  ASSUME TypeOK, TypeOK', NEW t, Sound(t, Taken, now, collisions),
         now' = now, collisions' >= collisions, \A j \in Jobs : Taken'[j] <= Taken[j]
  PROVE  Sound(t, Taken', now', collisions')
<1> SUFFICES ASSUME NEW j \in Jobs, Open(t, j, now) PROVE Taken'[j] < now[j] + collisions'
  BY DEF Sound
<1>1. Taken[j] < now[j] + collisions
  BY DEF Sound
<1>2. Taken[j] \in Int /\ now[j] \in Nat /\ collisions \in Nat
  BY Numbers
<1>3. Taken'[j] \in Int /\ collisions' \in Nat
  BY NumbersNext
<1> QED
  BY <1>1, <1>2, <1>3

\* The file, when it stays, needs a claim on its way to it for what it offers
\* too much; the claim that gives up leaves it sound.
LEMMA FileStays ==
  ASSUME TypeOK, TypeOK', Costs, NEW c \in Callers, OnlyMoves(c), submitted' = submitted,
         UNCHANGED <<file, now>>, collisions' >= collisions,
         pc'[c] \in Saving => pc[c] \in Saving /\ current'[c] = current[c],
         pc[c] \in Unsaved => pc'[c] \in Unsaved \/ pc'[c] \notin Saving
  PROVE  FileSound' /\ \A j \in Jobs : Taken'[j] <= Taken[j]
<1>1. ASSUME NEW j \in Jobs
      PROVE  /\ Taken'[j] <= Taken[j]
             /\ c \in Claiming(j) /\ c \notin Claiming(j)' => Taken'[j] < Taken[j]
  <2>1. c \in Claiming(j)' => c \in Claiming(j)
    BY DEF Claiming
  <2> QED
    BY <2>1, TakenStays
<1>2. ASSUME NEW j \in Jobs, Open(file.table, j, now), ~Unwritten(j)'
      PROVE  Taken'[j] < now[j] + collisions'
  <2>1. /\ Taken[j] \in Int /\ now[j] \in Nat /\ collisions \in Nat
        /\ Taken'[j] \in Int /\ collisions' \in Nat
        /\ Taken[j] <= now[j] + collisions
    BY Numbers, NumbersNext DEF Costs
  <2>2. CASE Taken[j] < now[j] + collisions
    BY <1>1, <2>1, <2>2
  <2>3. CASE Unwritten(j)
    <3>1. PICK d \in Ticks : pc[d] \in Unsaved /\ current[d] = j
      BY <2>3 DEF Unwritten
    <3>2. d = c
      BY <1>2, <3>1 DEF OnlyMoves, Unwritten, Callers
    <3>3. pc'[c] \notin Unsaved
      BY <1>2, <3>1, <3>2 DEF Unwritten, Saving
    <3>4. c \in Claiming(j) /\ c \notin Claiming(j)'
      BY <3>1, <3>2, <3>3 DEF Claiming, Saving
    <3>5. Taken'[j] < Taken[j]
      BY <1>1, <3>4
    <3> QED
      BY <2>1, <3>5
  <2> QED
    BY <1>2, <2>2, <2>3 DEF Costs, FileSound
<1>3. FileSound'
  BY <1>2 DEF FileSound
<1> QED
  BY <1>1, <1>3

\* A step that makes no claim, when call c moves and the others do not.
LEMMA QuietStep ==
  ASSUME TypeOK, TypeOK', Costs, NEW c \in Callers, OnlyMoves(c),
         now' = now, collisions' >= collisions, \A j \in Jobs : Taken'[j] <= Taken[j],
         Sound(mem', Taken, now, collisions),
         pc'[c] \in Reading => Sound(buffer'[c], Taken', now', collisions'),
         (\E d \in Callers : pc'[d] \in Opened) =>
            \A x \in tmp' : Sound(x.table, Taken, now, collisions),
         FileSound'
  PROVE  Costs'
<1>1. ASSUME NEW j \in Jobs PROVE Taken'[j] <= now'[j] + collisions'
  BY Numbers, NumbersNext DEF Costs
<1>2. Sound(mem', Taken', now', collisions')
  BY SoundStays
<1>3. ASSUME NEW d \in Callers, pc'[d] \in Reading
      PROVE  Sound(buffer'[d], Taken', now', collisions')
  <2>1. CASE d = c
    BY <1>3, <2>1
  <2>2. CASE d # c
    <3>1. Sound(buffer[d], Taken, now, collisions) /\ buffer'[d] = buffer[d]
      BY <1>3, <2>2 DEF Costs, OnlyMoves
    <3> QED
      BY <3>1, SoundStays
  <2> QED
    BY <2>1, <2>2
<1>4. ASSUME \E d \in Callers : pc'[d] \in Opened, NEW x \in tmp'
      PROVE  Sound(x.table, Taken', now', collisions')
  BY <1>4, SoundStays
<1> QED
  BY <1>1, <1>2, <1>3, <1>4 DEF Costs

\* The files another call has opened are as sound as they were.
LEMMA TmpStays ==
  ASSUME Costs, NEW c \in Callers, OnlyMoves(c), tmp' = tmp,
         pc'[c] \in Opened => pc[c] \in Opened
  PROVE  (\E d \in Callers : pc'[d] \in Opened) =>
            \A x \in tmp' : Sound(x.table, Taken, now, collisions)
BY DEF Costs, OnlyMoves

\* save(): each of its four steps, and its failure.
LEMMA SaveCosts ==
  ASSUME TypeOK, Costs, NEW c \in Callers, Save(c) \/ SaveFails(c)
  PROVE  Costs'
<1> USE DEF Unsaved, Saving, Reading, Opened
<1>1. TypeOK' /\ Sound(mem, Taken, now, collisions)
  BY SaveTypes DEF Costs
<1>2. CASE Stringify(c)
  <2>1. /\ pc[c] = "mkdir" /\ Suspend(c, "open")
        /\ buffer' = [buffer EXCEPT ![c] = mem]
        /\ UNCHANGED <<mem, file, tmp, now, current, submitted>>
    BY <1>2 DEF Stringify, disk, clock, history
  <2>2. OnlyMoves(c) /\ pc'[c] = "open" /\ collisions' >= collisions /\ buffer'[c] = mem
    BY <2>1, SuspendDoes DEF OnlyMoves, TypeOK
  <2>3. FileSound' /\ \A j \in Jobs : Taken'[j] <= Taken[j]
    BY <1>1, <2>1, <2>2, FileStays
  <2>4. Sound(mem, Taken', now', collisions')
    BY <1>1, <2>1, <2>2, <2>3, SoundStays
  <2>5. (\E d \in Callers : pc'[d] \in Opened) =>
            \A x \in tmp' : Sound(x.table, Taken, now, collisions)
    BY <2>1, <2>2, TmpStays
  <2> QED
    BY <1>1, <2>1, <2>2, <2>3, <2>4, <2>5, QuietStep
<1>3. CASE OpenTmp(c)
  <2>1. /\ pc[c] = "open" /\ Suspend(c, "write") /\ tmp' = {Blank}
        /\ UNCHANGED <<mem, file, now, buffer, current, submitted>>
    BY <1>3 DEF OpenTmp, clock, history
  <2>2. OnlyMoves(c) /\ pc'[c] = "write" /\ collisions' >= collisions
    BY <2>1, SuspendDoes DEF OnlyMoves
  <2>3. FileSound' /\ \A j \in Jobs : Taken'[j] <= Taken[j]
    BY <1>1, <2>1, <2>2, FileStays
  <2>4. Sound(buffer'[c], Taken', now', collisions')
    <3>1. Sound(buffer[c], Taken, now, collisions)
      BY <2>1 DEF Costs
    <3> QED
      BY <1>1, <2>1, <2>2, <2>3, <3>1, SoundStays
  <2>5. \A x \in tmp' : Sound(x.table, Taken, now, collisions)
    BY <2>1, ContentTables, EmptySound
  <2> QED
    BY <1>1, <2>1, <2>2, <2>3, <2>4, <2>5, QuietStep
<1>4. CASE WriteTmp(c)
  <2>1. /\ pc[c] = "write" /\ Suspend(c, "rename") /\ Drop(c)
        /\ UNCHANGED <<mem, now, current, submitted>>
    BY <1>4 DEF WriteTmp, clock, history
  <2>2. /\ OnlyMoves(c) /\ pc'[c] = "rename" /\ collisions' >= collisions
    BY <2>1, SuspendDoes DEF OnlyMoves, Drop
  <2>3. ASSUME NEW j \in Jobs PROVE Taken'[j] <= Taken[j]
    <3>1. c \in Claiming(j)' => c \in Claiming(j)
      BY <2>1, <2>2 DEF Claiming
    <3> QED
      BY <1>1, <2>1, <2>2, <3>1, TakenStays
  <2>4. buffer[c] \in Tables /\ Sound(buffer[c], Taken, now, collisions)
    BY <2>1 DEF Costs, TypeOK
  <2>5. ASSUME NEW x, NEW y \in Overwritten(x, buffer[c])
        PROVE  Sound(y.table, Taken, now, collisions)
    <3>1. y.table = buffer[c] \/ y.table = << >>
      BY <2>4, OverwrittenIs
    <3> QED
      BY <2>4, <3>1, EmptySound
  <2>6. \A x \in tmp : Sound(x.table, Taken, now, collisions)
    BY <2>1 DEF Costs
  <2>7. CASE UNCHANGED file /\ \E x \in tmp : \E y \in Overwritten(x, buffer[c]) : tmp' = {y}
    <3>1. \A x \in tmp' : Sound(x.table, Taken, now, collisions)
      BY <2>5, <2>7
    <3>2. FileSound'
      BY <1>1, <2>1, <2>2, <2>7, FileStays
    <3> QED
      BY <1>1, <2>1, <2>2, <2>3, <3>1, <3>2, QuietStep
  <2>8. CASE UNCHANGED tmp /\ file' \in Overwritten(file, buffer[c])
    <3>1. Sound(file'.table, Taken, now, collisions)
      BY <2>5, <2>8
    <3>2. Sound(file'.table, Taken', now', collisions')
      BY <1>1, <2>1, <2>2, <2>3, <3>1, SoundStays
    <3>3. FileSound'
      BY <3>2 DEF FileSound, Sound
    <3> QED
      BY <1>1, <2>1, <2>2, <2>3, <2>6, <2>8, <3>3, QuietStep
  <2>9. CASE UNCHANGED <<file, tmp>>
    <3>1. FileSound'
      BY <1>1, <2>1, <2>2, <2>9, FileStays
    <3> QED
      BY <1>1, <2>1, <2>2, <2>3, <2>6, <2>9, <3>1, QuietStep
  <2> QED
    BY <1>4, <2>7, <2>8, <2>9 DEF WriteTmp
<1>5. CASE (Rename(c) /\ tmp = {}) \/ SaveFails(c)
  <2>1. /\ pc[c] \in Unsaved /\ Suspend(c, "failed") /\ (buffer' = buffer \/ Drop(c))
        /\ UNCHANGED <<mem, file, tmp, now, current, submitted>>
    BY <1>5 DEF Rename, SaveFails, disk, clock, history
  <2>2. OnlyMoves(c) /\ pc'[c] = "failed" /\ collisions' >= collisions
    <3>1. pc'[c] = "failed" /\ collisions' >= collisions /\ \A d \in Callers : d # c => pc'[d] = pc[d]
      BY <2>1, SuspendDoes
    <3>2. \A d \in Callers : d # c => buffer'[d] = buffer[d]
      BY <2>1 DEF Drop, TypeOK
    <3> QED
      BY <2>1, <3>1, <3>2 DEF OnlyMoves
  <2>3. FileSound' /\ \A j \in Jobs : Taken'[j] <= Taken[j]
    BY <1>1, <2>1, <2>2, FileStays
  <2>4. (\E d \in Callers : pc'[d] \in Opened) =>
            \A x \in tmp' : Sound(x.table, Taken, now, collisions)
    BY <2>1, <2>2, TmpStays
  <2> QED
    BY <1>1, <2>1, <2>2, <2>3, <2>4, QuietStep
<1>6. CASE Rename(c) /\ tmp # {}
  <2>1. /\ pc[c] = "rename" /\ Suspend(c, "saved") /\ file' \in tmp /\ tmp' = {}
        /\ UNCHANGED <<mem, now, buffer, current, submitted>>
    BY <1>6 DEF Rename, clock, history
  <2>2. OnlyMoves(c) /\ pc'[c] = "saved" /\ collisions' >= collisions
    BY <2>1, SuspendDoes DEF OnlyMoves
  <2>3. ASSUME NEW j \in Jobs PROVE Taken'[j] <= Taken[j]
    <3>1. c \in Claiming(j)' => c \in Claiming(j)
      BY <2>1, <2>2 DEF Claiming
    <3> QED
      BY <1>1, <2>1, <2>2, <3>1, TakenStays
  <2>4. Sound(file'.table, Taken, now, collisions)
    BY <2>1 DEF Costs
  <2>5. Sound(file'.table, Taken', now', collisions')
    BY <1>1, <2>1, <2>2, <2>3, <2>4, SoundStays
  <2>6. FileSound'
    BY <2>5 DEF FileSound, Sound
  <2> QED
    BY <1>1, <2>1, <2>2, <2>3, <2>6, QuietStep
<1> QED
  BY <1>2, <1>3, <1>4, <1>5, <1>6 DEF Save

\* load() begins: it reads what the file is, or nothing, and if that lacks a
\* claim on its way, it has met it.
LEMMA ReadCosts ==
  ASSUME TypeOK, TypeOK', Costs, NEW c \in Callers, Read(c),
         UNCHANGED <<mem, file, tmp, now, current, submitted>>
  PROVE  Costs'
<1> USE DEF Unsaved, Saving, Reading, Opened
<1>1. /\ pc[c] = "idle" /\ Suspend(c, "load")
      /\ buffer' = [buffer EXCEPT ![c] = file.table] \/ Drop(c)
  BY DEF Read
<1>2. /\ pc'[c] = "load" /\ collisions' >= collisions
      /\ \A d \in Callers : d # c => pc'[d] = pc[d]
      /\ Meets(c, "load") => collisions' = collisions + 1
  BY <1>1, SuspendDoes
<1>3. /\ \A d \in Callers : d # c => buffer'[d] = buffer[d]
      /\ buffer'[c] = file.table \/ buffer'[c] = << >>
  BY <1>1 DEF Drop, TypeOK
<1>4. OnlyMoves(c)
  BY <1>2, <1>3 DEF OnlyMoves
<1>5. FileSound' /\ \A j \in Jobs : Taken'[j] <= Taken[j]
  BY <1>1, <1>2, <1>4, FileStays
<1>6. Sound(file.table, Taken', now', collisions')
  <2>1. ASSUME NEW j \in Jobs, Open(file.table, j, now)
        PROVE  Taken'[j] < now'[j] + collisions'
    <3>1. CASE Unwritten(j)'
      <4>1. PICK d \in Ticks : pc'[d] \in Unsaved
        BY <3>1 DEF Unwritten
      <4>2. d \in Callers \ {c} /\ pc[d] \in Saving
        BY <1>2, <4>1 DEF Callers
      <4>3. collisions' = collisions + 1
        BY <1>2, <4>2 DEF Meets
      <4>4. Taken'[j] <= Taken[j] /\ Taken[j] <= now[j] + collisions
        BY <1>5 DEF Costs
      <4>5. Taken[j] \in Int /\ Taken'[j] \in Int /\ now[j] \in Nat /\ collisions \in Nat
        BY Numbers, NumbersNext
      <4> QED
        BY <4>3, <4>4, <4>5
    <3>2. CASE ~Unwritten(j)'
      BY <1>5, <2>1, <3>2 DEF FileSound
    <3> QED
      BY <3>1, <3>2
  <2> QED
    BY <2>1 DEF Sound
<1>7. Sound(buffer'[c], Taken', now', collisions')
  BY <1>3, <1>6, EmptySound
<1>8. (\E d \in Callers : pc'[d] \in Opened) =>
          \A x \in tmp' : Sound(x.table, Taken, now, collisions)
  BY <1>2, <1>4, TmpStays
<1>9. Sound(mem', Taken, now, collisions)
  BY DEF Costs
<1> QED
  BY <1>2, <1>4, <1>5, <1>7, <1>8, <1>9, QuietStep

\* What the agent does of its own claims nothing.
LEMMA AgentCosts ==
  ASSUME TypeOK, TypeOK', Costs, OnlyMoves(Agent), collisions' >= collisions,
         UNCHANGED <<file, tmp, now, submitted>>,
         pc'[Agent] \in {"idle", "mkdir"}, Sound(mem', Taken, now, collisions)
  PROVE  Costs'
<1>1. Agent \in Callers /\ Agent \notin Ticks
  BY CronAssumption DEF Callers
<1>2. ASSUME NEW j \in Jobs
      PROVE  Taken'[j] = Taken[j] /\ (Unwritten(j) => Unwritten(j)')
  <2>1. \A d \in Ticks : pc'[d] = pc[d] /\ current'[d] = current[d]
    BY <1>1 DEF OnlyMoves, Callers
  <2>2. Claiming(j)' = Claiming(j)
    BY <2>1 DEF Claiming
  <2> QED
    BY <2>1, <2>2 DEF Taken, Unwritten
<1>3. ASSUME NEW j \in Jobs PROVE Taken'[j] <= Taken[j]
  BY <1>2, Numbers
<1>4. FileSound'
  <2>1. ASSUME NEW j \in Jobs, Open(file.table, j, now), ~Unwritten(j)'
        PROVE  Taken'[j] < now[j] + collisions'
    <3>1. Taken[j] < now[j] + collisions
      BY <1>2, <2>1 DEF Costs, FileSound
    <3> QED
      BY <1>2, <3>1, Numbers, NumbersNext
  <2> QED
    BY <2>1 DEF FileSound
<1>5. (\E d \in Callers : pc'[d] \in Opened) =>
          \A x \in tmp' : Sound(x.table, Taken, now, collisions)
  BY <1>1, TmpStays DEF Opened
<1> QED
  BY <1>1, <1>3, <1>4, <1>5, QuietStep DEF Reading

\* An edited array offers no more than it did.
LEMMA EditedSound ==
  ASSUME NEW t \in Tables, NEW n, NEW time, NEW k, Sound(t, n, time, k), NEW j \in Jobs
  PROVE  /\ Sound(Without(t, j), n, time, k)
         /\ \A r \in Record : (r.enabled /\ ~r.running => ~(r.next <= time[j]))
                                => Sound(With(t, j, r), n, time, k)
<1>1. Sound(Without(t, j), n, time, k)
  <2>1. /\ DOMAIN Without(t, j) = DOMAIN t \ {j}
        /\ \A i \in DOMAIN t : i # j => Without(t, j)[i] = t[i]
    BY WithoutTable
  <2>2. ASSUME NEW i \in Jobs, Open(Without(t, j), i, time)
        PROVE  Open(t, i, time)
    BY <2>1, <2>2 DEF Open
  <2> HIDE DEF Open
  <2> QED
    BY <2>2 DEF Sound
<1>2. ASSUME NEW r \in Record, r.enabled /\ ~r.running => ~(r.next <= time[j])
      PROVE  Sound(With(t, j, r), n, time, k)
  <2>1. /\ DOMAIN With(t, j, r) = DOMAIN t \cup {j}
        /\ With(t, j, r)[j] = r
        /\ \A i \in DOMAIN t : i # j => With(t, j, r)[i] = t[i]
    BY WithTable
  <2>2. ~Open(With(t, j, r), j, time)
    BY <1>2, <2>1 DEF Open
  <2>3. ASSUME NEW i \in Jobs, i # j, Open(With(t, j, r), i, time)
        PROVE  Open(t, i, time)
    BY <2>1, <2>3 DEF Open
  <2> HIDE DEF Open
  <2> QED
    BY <2>2, <2>3 DEF Sound
<1> QED
  BY <1>1, <1>2

\* addJob(), removeJob() and markJobRun(): the firings up to now are not offered.
LEMMA EditCosts ==
  ASSUME TypeOK, Costs, NEW j \in Jobs, Add(j) \/ Remove(j) \/ Finish(j)
  PROVE  Costs'
<1>1. TypeOK' /\ Agent \in Callers /\ mem \in Tables /\ Sound(mem, Taken, now, collisions)
  BY EditTypes DEF Costs, TypeOK, Callers
<1>2. /\ UNCHANGED <<file, tmp, now, buffer, submitted>>
      /\ \/ /\ Suspend(Agent, "mkdir") /\ current' = [current EXCEPT ![Agent] = current'[Agent]]
         \/ UNCHANGED <<mem, pc, current, collisions>>
  <2>1. \A x : About(x) => current' = [current EXCEPT ![Agent] = current'[Agent]]
    BY <1>1 DEF About, TypeOK
  <2> QED
    BY <2>1 DEF Add, Remove, Finish, disk, clock, history
<1>3. Sound(mem', Taken, now, collisions)
  <2>1. CASE Add(j)
    <3>1. mem' = With(mem, j, Fresh(j)) /\ Fresh(j) \in Record /\ ~(Fresh(j).next <= now[j])
      BY <1>1, <2>1, RecordTypes DEF Add, Added
    <3> QED
      BY <1>1, <3>1, EditedSound
  <2>2. CASE Remove(j)
    BY <1>1, <2>2, EditedSound DEF Remove
  <2>3. CASE Finish(j) /\ j \in DOMAIN mem
    <3>1. mem' = With(mem, j, Marked(j, mem[j])) /\ mem[j] \in Record
      BY <1>1, <2>3, TableIs DEF Finish
    <3>2. /\ Marked(j, mem[j]) \in Record /\ now[j] \in Nat
          /\ ~Marked(j, mem[j]).enabled \/ Marked(j, mem[j]).next = now[j] + 1
      BY <3>1, RecordTypes
    <3>3. Marked(j, mem[j]).enabled => ~(Marked(j, mem[j]).next <= now[j])
      BY <3>2
    <3> QED
      BY <1>1, <3>1, <3>2, <3>3, EditedSound
  <2>4. CASE Finish(j) /\ j \notin DOMAIN mem
    BY <1>1, <2>4 DEF Finish
  <2> QED
    BY <2>1, <2>2, <2>3, <2>4
<1>4. CASE Suspend(Agent, "mkdir") /\ current' = [current EXCEPT ![Agent] = current'[Agent]]
  <2>1. /\ pc'[Agent] = "mkdir" /\ collisions' >= collisions
        /\ \A d \in Callers : d # Agent => pc'[d] = pc[d]
    BY <1>1, <1>4, SuspendDoes
  <2>2. \A d \in Callers : d # Agent => current'[d] = current[d]
    BY <1>4 DEF TypeOK
  <2>3. OnlyMoves(Agent)
    BY <1>2, <2>1, <2>2 DEF OnlyMoves
  <2> QED
    BY <1>1, <1>2, <1>3, <2>1, <2>3, AgentCosts
<1>5. CASE UNCHANGED <<mem, pc, current, collisions>>
  <2>1. pc[Agent] = "idle"
    BY DEF Add, Remove, Finish, Editing
  <2>2. OnlyMoves(Agent) /\ collisions' >= collisions
    BY <1>2, <1>5 DEF OnlyMoves, TypeOK
  <2> QED
    BY <1>1, <1>2, <1>3, <1>5, <2>1, <2>2, AgentCosts
<1> QED
  BY <1>2, <1>4, <1>5

\* After a collision of its own, a claim spoils no table.
LEMMA RaisedSound ==
  ASSUME TypeOK', NEW k \in Nat, NEW time \in [Jobs -> Nat], now' = time, collisions' = k + 1,
         \A j \in Jobs : Taken'[j] <= time[j] + k, NEW t
  PROVE  Sound(t, Taken', now', collisions')
<1>1. ASSUME NEW j \in Jobs PROVE Taken'[j] < now'[j] + collisions'
  <2>1. Taken'[j] \in Int /\ time[j] \in Nat /\ Taken'[j] <= time[j] + k
    BY NumbersNext
  <2> QED
    BY <2>1
<1> QED
  BY <1>1 DEF Sound

\* A pass that ends, or claims anew what was claimed, takes nothing.
LEMMA PassCosts ==
  ASSUME TypeOK, TypeOK', Costs, NEW c \in Ticks, OnlyMoves(c), pc[c] \notin Unsaved,
         UNCHANGED <<file, tmp, now>>, collisions' >= collisions,
         pc'[c] \in {"idle", "mkdir"},
         Sound(mem', Taken, now, collisions),
         \A j \in Jobs : Taken'[j] <= Taken[j]
  PROVE  Costs'
<1>1. c \in Callers
  BY DEF Callers
<1>2. FileSound'
  <2>1. ASSUME NEW j \in Jobs, Open(file.table, j, now), ~Unwritten(j)'
        PROVE  Taken'[j] < now[j] + collisions'
    <3>1. ~Unwritten(j)
      BY <2>1 DEF Unwritten, OnlyMoves, Callers
    <3>2. Taken[j] < now[j] + collisions /\ Taken'[j] <= Taken[j]
      BY <2>1, <3>1 DEF Costs, FileSound
    <3> QED
      BY <3>2, Numbers, NumbersNext
  <2> QED
    BY <2>1 DEF FileSound
<1>3. (\E d \in Callers : pc'[d] \in Opened) =>
          \A x \in tmp' : Sound(x.table, Taken, now, collisions)
  BY <1>1, TmpStays DEF Opened
<1> QED
  BY <1>1, <1>2, <1>3, QuietStep DEF Reading

\* claimJob() of a job on offer: the firing is counted, and whoever may still
\* write the file or has read it without this claim has been met.
LEMMA FreshClaimCosts ==
  ASSUME TypeOK, TypeOK', Costs, NEW c \in Ticks, OnlyMoves(c), pc[c] \notin Unsaved,
         UNCHANGED <<file, tmp, now>>, Suspend(c, "mkdir"),
         NEW j \in Jobs, current'[c] = j,
         Sound(mem', Taken, now, collisions), ~Open(mem', j, now),
         \A i \in Jobs : i # j => Taken'[i] <= Taken[i],
         Taken'[j] <= now[j] + collisions
  PROVE  Costs'
<1> USE DEF Unsaved, Saving, Reading, Opened
<1>1. /\ pc'[c] = "mkdir" /\ collisions' >= collisions /\ c \in Callers /\ collisions \in Nat
      /\ \A d \in Callers : d # c => pc'[d] = pc[d]
      /\ Meets(c, "mkdir") => collisions' = collisions + 1
  BY SuspendDoes DEF Callers
<1>2. ASSUME NEW i \in Jobs PROVE Taken'[i] <= now[i] + collisions
  <2>1. Taken[i] <= now[i] + collisions
    BY DEF Costs
  <2> QED
    BY <2>1, Numbers, NumbersNext
<1>3. ASSUME NEW i \in Jobs PROVE Taken'[i] <= now'[i] + collisions'
  <2>1. Taken'[i] \in Int /\ now[i] \in Nat /\ collisions' \in Nat /\ collisions \in Nat
    BY Numbers, NumbersNext
  <2> QED
    BY <1>1, <1>2, <2>1
<1>4. Sound(mem', Taken', now', collisions')
  <2>1. ASSUME NEW i \in Jobs, Open(mem', i, now) PROVE Taken'[i] < now[i] + collisions'
    <3>1. i # j /\ Taken[i] < now[i] + collisions
      BY <2>1 DEF Sound
    <3>2. Taken'[i] <= Taken[i]
      BY <3>1
    <3> QED
      BY <1>1, <3>1, <3>2, Numbers, NumbersNext
  <2> QED
    BY <2>1 DEF Sound
<1>5. ASSUME NEW d \in Callers \ {c}, pc[d] \in Saving \cup {"load"}, NEW t
      PROVE  Sound(t, Taken', now', collisions')
  <2>1. collisions' = collisions + 1
    BY <1>1, <1>5 DEF Meets
  <2>2. now \in [Jobs -> Nat]
    BY Numbers DEF TypeOK
  <2> QED
    BY <1>1, <1>2, <2>1, <2>2, RaisedSound
<1>6. ASSUME NEW d \in Callers, pc'[d] \in Reading
      PROVE  Sound(buffer'[d], Taken', now', collisions')
  BY <1>1, <1>5, <1>6
<1>7. ASSUME NEW d \in Callers, pc'[d] \in Opened, NEW x \in tmp'
      PROVE  Sound(x.table, Taken', now', collisions')
  BY <1>1, <1>5, <1>7
<1>8. FileSound'
  <2>1. ASSUME NEW i \in Jobs, Open(file.table, i, now), ~Unwritten(i)'
        PROVE  Taken'[i] < now[i] + collisions'
    <3>1. i # j
      BY <1>1, <2>1 DEF Unwritten
    <3>2. ~Unwritten(i)
      BY <2>1 DEF Unwritten, OnlyMoves, Callers
    <3>3. Taken[i] < now[i] + collisions /\ Taken'[i] <= Taken[i]
      BY <2>1, <3>1, <3>2 DEF Costs, FileSound
    <3> QED
      BY <1>1, <3>3, Numbers, NumbersNext
  <2> QED
    BY <2>1 DEF FileSound
<1> QED
  BY <1>3, <1>4, <1>6, <1>7, <1>8 DEF Costs

\* claimJob() of the first due job of a sound table, or the end of the pass,
\* when n are the submissions so far and c's last claim is among them.
LEMMA ClaimCosts ==
  ASSUME TypeOK, TypeOK', Costs, NEW c \in Ticks, NEW jobs \in SUBSET Jobs,
         NEW t \in Tables, Sound(t, Taken, now, collisions),
         NEW n \in [Jobs -> Int], ClaimNext(c, jobs, t, n),
         \A j \in Jobs : n[j] + Cardinality(Claiming(j) \ {c}) <= Taken[j],
         pc[c] \notin Unsaved, UNCHANGED <<file, tmp, now>>,
         \A d \in Callers : d # c => buffer'[d] = buffer[d]
  PROVE  Costs'
<1>1. c \in Callers
  BY DEF Callers
<1>2. ASSUME NEW x, Suspend(c, x), NEW z, current' = [current EXCEPT ![c] = z]
      PROVE  OnlyMoves(c) /\ current'[c] = z
  <2>1. \A d \in Callers : d # c => pc'[d] = pc[d]
    BY <1>1, <1>2, SuspendDoes
  <2> QED
    BY <1>1, <1>2, <2>1 DEF OnlyMoves, TypeOK
<1>3. CASE Ended(c, t, n)
  <2>1. OnlyMoves(c) /\ mem' = t /\ submitted' = n
    BY <1>2, <1>3 DEF Ended
  <2>2. pc'[c] = "idle" /\ collisions' >= collisions
    BY <1>1, <1>3, SuspendDoes DEF Ended
  <2>3. ASSUME NEW j \in Jobs PROVE Taken'[j] <= Taken[j]
    <3>1. c \notin Claiming(j)'
      BY <2>2 DEF Claiming, Saving, Unsaved
    <3>2. Cardinality(Claiming(j)') = Cardinality(Claiming(j) \ {c})
      BY <1>1, <2>1, <3>1, ClaimingMoves
    <3> QED
      BY <2>1, <3>2 DEF Taken
  <2> QED
    BY <2>1, <2>2, <2>3, PassCosts
<1>4. ASSUME NEW j \in Due(t), Claims(c, t, n, j) PROVE Costs'
  <2>1. /\ j \in DOMAIN t /\ j \in Jobs /\ t[j] \in Record
        /\ t[j].enabled /\ t[j].next <= now[j]
    BY DueJobs
  <2>2. OnlyMoves(c) /\ current'[c] = j
    BY <1>2, <1>4 DEF Claims
  <2>3. pc'[c] = "mkdir" /\ collisions' >= collisions /\ Suspend(c, "mkdir")
    BY <1>1, <1>4, SuspendDoes DEF Claims
  <2>4. Claimed(t[j]) \in Record /\ Claimed(t[j]).running
    BY <2>1, RecordTypes
  <2>5. Sound(mem', Taken, now, collisions) /\ ~Open(mem', j, now)
    <3>1. mem' = With(t, j, Claimed(t[j]))
      BY <1>4 DEF Claims
    <3>2. Sound(mem', Taken, now, collisions)
      BY <2>1, <2>4, <3>1, EditedSound
    <3>3. mem'[j] = Claimed(t[j])
      BY <2>1, <2>4, <3>1, WithTable
    <3> QED
      BY <2>4, <3>2, <3>3 DEF Open
  <2>6. ASSUME NEW i \in Jobs, i # j PROVE Taken'[i] <= Taken[i]
    <3>1. c \notin Claiming(i)'
      BY <2>2, <2>6 DEF Claiming
    <3>2. Cardinality(Claiming(i)') = Cardinality(Claiming(i) \ {c})
      BY <1>1, <2>2, <3>1, ClaimingMoves
    <3>3. submitted'[i] = n[i]
      BY <1>4, <2>6 DEF Claims
    <3> QED
      BY <3>2, <3>3 DEF Taken
  <2>7. Taken'[j] = submitted'[j] + Cardinality(Claiming(j) \ {c}) + 1
    <3>1. c \in Claiming(j)'
      BY <2>2, <2>3 DEF Claiming, Saving, Unsaved
    <3>2. /\ Cardinality(Claiming(j)') = Cardinality(Claiming(j) \ {c}) + 1
          /\ Cardinality(Claiming(j)') \in Nat
      BY <1>1, <2>1, <2>2, <3>1, ClaimingMoves
    <3>3. Cardinality(Claiming(j) \ {c}) \in Nat
      <4>1. Claiming(j) \in SUBSET Ticks
        BY DEF Claiming
      <4> QED
        BY <4>1, OneLess
    <3>4. submitted'[j] \in Int
      BY <2>1, NumbersNext
    <3> QED
      BY <2>1, <3>2, <3>3, <3>4 DEF Taken
  <2>8. Cardinality(Claiming(j) \ {c}) \in Nat /\ n[j] \in Int /\ n[j] + Cardinality(Claiming(j) \ {c}) <= Taken[j]
    <3>1. Claiming(j) \in SUBSET Ticks
      BY DEF Claiming
    <3> QED
      BY <2>1, <3>1, OneLess
  <2>9. submitted' = [n EXCEPT ![j] = IF t[j].running THEN @ - 1 ELSE @]
    BY <1>4 DEF Claims
  <2>10. CASE t[j].running
    <3>1. submitted'[j] = n[j] - 1
      BY <2>1, <2>9, <2>10
    <3>2. Taken'[j] <= Taken[j]
      BY <2>7, <2>8, <3>1
    <3> QED
      BY <2>2, <2>3, <2>5, <2>6, <3>2, PassCosts
  <2>11. CASE ~t[j].running
    <3>1. submitted'[j] = n[j]
      BY <2>1, <2>9, <2>11
    <3>2. Open(t, j, now)
      BY <2>1, <2>11 DEF Open
    <3>3. Taken[j] < now[j] + collisions
      BY <2>1, <3>2 DEF Sound
    <3>4. Taken[j] \in Int /\ now[j] \in Nat /\ collisions \in Nat
      BY <2>1, Numbers
    <3>5. Taken'[j] <= now[j] + collisions
      BY <2>7, <2>8, <3>1, <3>3, <3>4
    <3> QED
      BY <2>1, <2>2, <2>3, <2>5, <2>6, <3>5, FreshClaimCosts
  <2> QED
    BY <2>10, <2>11
<1> QED
  BY <1>3, <1>4, ClaimDoes, Zenon

\* A pass: load() begins, its first claim, and each submission with the next.
LEMMA TickCosts ==
  ASSUME TypeOK, Costs, NEW c \in Ticks, Tick(c) \/ Pass(c)
  PROVE  Costs'
<1>1. TypeOK' /\ c \in Callers
  BY PassTypes DEF Callers
<1>2. CASE Tick(c)
  BY <1>1, <1>2, ReadCosts DEF Tick, disk, clock
<1>3. CASE TickLoaded(c)
  <2>1. /\ pc[c] = "load" /\ ClaimNext(c, Due(buffer[c]), buffer[c], submitted)
        /\ UNCHANGED <<file, tmp, now>> /\ Drop(c)
    BY <1>3 DEF TickLoaded, disk
  <2>2. buffer[c] \in Tables /\ submitted \in [Jobs -> Int]
    BY <1>1 DEF TypeOK
  <2>3. Due(buffer[c]) \in SUBSET Jobs
    BY <2>2, DueJobs
  <2>4. Sound(buffer[c], Taken, now, collisions)
    BY <1>1, <2>1 DEF Costs, Reading
  <2>5. ASSUME NEW j \in Jobs
        PROVE  submitted[j] + Cardinality(Claiming(j) \ {c}) <= Taken[j]
    <3>1. Claiming(j) \ {c} = Claiming(j)
      BY <2>1 DEF Claiming, Saving, Unsaved
    <3>2. Cardinality(Claiming(j) \ {c}) = Cardinality(Claiming(j))
      BY <3>1
    <3>3. Taken[j] = submitted[j] + Cardinality(Claiming(j)) /\ Taken[j] \in Int
      BY Numbers
    <3> QED
      BY <3>2, <3>3
  <2>6. \A d \in Callers : d # c => buffer'[d] = buffer[d]
    BY <2>1 DEF Drop, TypeOK
  <2> QED
    BY <1>1, <2>1, <2>2, <2>3, <2>4, <2>5, <2>6, ClaimCosts DEF Unsaved
<1>4. CASE pc[c] = "failed" /\ ClaimSettled(c)
  <2>1. /\ Suspend(c, "idle") /\ current' = [current EXCEPT ![c] = NoJob]
        /\ UNCHANGED <<mem, file, tmp, now, buffer, submitted>>
    BY <1>4 DEF ClaimSettled, PassFails, disk
  <2>2. pc'[c] = "idle" /\ collisions' >= collisions /\ \A d \in Callers : d # c => pc'[d] = pc[d]
    BY <1>1, <2>1, SuspendDoes
  <2>3. OnlyMoves(c)
    BY <2>1, <2>2 DEF OnlyMoves, TypeOK
  <2>4. ASSUME NEW j \in Jobs PROVE Taken'[j] <= Taken[j]
    <3>1. c \notin Claiming(j)'
      BY <2>2 DEF Claiming, Saving, Unsaved
    <3> QED
      BY <1>1, <2>1, <2>3, <3>1, TakenStays
  <2>5. Sound(mem', Taken, now, collisions)
    BY <2>1 DEF Costs
  <2> QED
    BY <1>1, <1>4, <2>1, <2>2, <2>3, <2>4, <2>5, PassCosts DEF Unsaved
<1>5. CASE pc[c] = "saved" /\ ClaimSettled(c)
  <2>1. PICK accepted \in BOOLEAN : Submit(c, accepted)
    BY <1>5 DEF ClaimSettled
  <2>2. UNCHANGED <<file, tmp, now, buffer>>
    BY <1>5 DEF ClaimSettled, disk
  <2> DEFINE pushed == {current[c]} \cap (IF accepted THEN DOMAIN mem ELSE {})
             n == [j \in Jobs |-> submitted[j] + (IF j \in pushed THEN 1 ELSE 0)]
  <2>3. ClaimNext(c, todo[c], mem, n)
    BY <2>1 DEF Submit
  <2>4. n \in [Jobs -> Int] /\ todo[c] \in SUBSET Jobs /\ mem \in Tables
    BY DEF TypeOK
  <2>5. ASSUME NEW j \in Jobs
        PROVE  n[j] + Cardinality(Claiming(j) \ {c}) <= Taken[j]
    <3>1. Claiming(j) \in SUBSET Ticks
      BY DEF Claiming
    <3>2. /\ Cardinality(Claiming(j)) \in Nat /\ Cardinality(Claiming(j) \ {c}) \in Nat
          /\ c \in Claiming(j) => Cardinality(Claiming(j)) = Cardinality(Claiming(j) \ {c}) + 1
          /\ c \notin Claiming(j) => Claiming(j) \ {c} = Claiming(j)
      BY <3>1, OneLess
    <3>3. Taken[j] = submitted[j] + Cardinality(Claiming(j)) /\ submitted[j] \in Int
      BY Numbers
    <3>4. CASE current[c] = j
      <4>1. c \in Claiming(j)
        BY <1>5, <3>4 DEF Claiming, Saving
      <4>2. n[j] <= submitted[j] + 1 /\ n[j] \in Int
        BY <2>4, <3>3
      <4> HIDE DEF n
      <4> QED
        BY <3>2, <3>3, <4>1, <4>2
    <3>5. CASE current[c] # j
      <4>1. c \notin Claiming(j)
        BY <3>5 DEF Claiming
      <4>2. n[j] = submitted[j]
        BY <3>3, <3>5
      <4>3. Cardinality(Claiming(j) \ {c}) = Cardinality(Claiming(j))
        BY <3>2, <4>1
      <4> HIDE DEF n
      <4> QED
        BY <3>2, <3>3, <4>2, <4>3
    <3> QED
      BY <3>4, <3>5
  <2> HIDE DEF n, pushed
  <2>6. Sound(mem, Taken, now, collisions)
    BY DEF Costs
  <2> QED
    BY <1>1, <1>5, <2>2, <2>3, <2>4, <2>5, <2>6, ClaimCosts DEF Unsaved
<1> QED
  BY <1>2, <1>3, <1>4, <1>5 DEF Pass, ClaimSettled

\* The loop, the clock and a crash.
LEMMA WorldCosts ==
  ASSUME TypeOK, Costs, \/ \E j \in Jobs : \/ Take(j) \/ PutBack(j) \/ Discard(j)
                                          \/ FiringComes(j) \/ ClaimAges(j)
                        \/ Crash
  PROVE  Costs'
<1>1. TypeOK'
  BY WorldTypes
<1>2. CASE UNCHANGED <<mem, file, tmp, now, pc, buffer, current, submitted, collisions>>
  BY <1>2 DEF Costs, FileSound, Unwritten, Taken, Claiming, Sound, Open
<1>3. CASE \E j \in Jobs : Take(j) \/ PutBack(j) \/ Discard(j)
  BY <1>2, <1>3 DEF Take, PutBack, Discard, disk, clock, calls, history
<1>4. CASE \E j \in Jobs : ClaimAges(j)
  BY <1>2, <1>4 DEF ClaimAges, disk, calls
<1>5. ASSUME NEW j \in Jobs, FiringComes(j) PROVE Costs'
  <2>1. /\ now' = [now EXCEPT ![j] = @ + 1]
        /\ UNCHANGED <<mem, file, tmp, pc, buffer, current, submitted, collisions>>
    BY <1>5 DEF FiringComes, disk, calls, history
  <2>2. Taken' = Taken /\ \A i \in Jobs : Unwritten(i)' = Unwritten(i)
    BY <2>1 DEF Taken, Claiming, Unwritten
  <2>3. ASSUME NEW i \in Jobs
        PROVE  /\ Taken[i] \in Int /\ now[i] \in Nat /\ collisions \in Nat
               /\ Taken[i] <= now[i] + collisions
               /\ i # j => now'[i] = now[i]
               /\ i = j => now'[i] = now[i] + 1
    BY <2>1, Numbers DEF Costs, TypeOK
  <2>4. ASSUME NEW i \in Jobs PROVE Taken[i] <= now'[i] + collisions
    BY <2>3
  <2>5. Taken[j] < now'[j] + collisions
    BY <2>3
  <2>6. ASSUME NEW t, NEW i \in Jobs, i # j
        PROVE  Open(t, i, now') <=> Open(t, i, now)
    BY <2>3, <2>6 DEF Open
  <2>7. ASSUME NEW t, Sound(t, Taken, now, collisions)
        PROVE  Sound(t, Taken, now', collisions)
    <3>1. ASSUME NEW i \in Jobs, Open(t, i, now') PROVE Taken[i] < now'[i] + collisions
      <4>1. CASE i = j
        BY <2>5, <4>1
      <4>2. CASE i # j
        BY <2>3, <2>6, <2>7, <3>1, <4>2 DEF Sound
      <4> QED
        BY <4>1, <4>2
    <3> QED
      BY <3>1 DEF Sound
  <2>8. FileSound'
    <3>1. ASSUME NEW i \in Jobs, Open(file.table, i, now'), ~Unwritten(i)
          PROVE  Taken[i] < now'[i] + collisions
      <4>1. CASE i = j
        BY <2>5, <4>1
      <4>2. CASE i # j
        BY <2>3, <2>6, <3>1, <4>2 DEF Costs, FileSound
      <4> QED
        BY <4>1, <4>2
    <3> QED
      BY <2>1, <2>2, <3>1 DEF FileSound
  <2> QED
    BY <2>1, <2>2, <2>4, <2>7, <2>8 DEF Costs
<1>6. CASE Crash
  <2>1. /\ mem' = file.table \/ mem' = << >>
        /\ pc' = [c \in Callers |-> "idle"]
        /\ UNCHANGED <<file, tmp, now, submitted, collisions>>
    BY <1>6 DEF Crash, clock
  <2>2. ASSUME NEW j \in Jobs
        PROVE  /\ Taken'[j] <= now[j] + collisions
               /\ Open(file.table, j, now) => Taken'[j] < now[j] + collisions
    <3>1. /\ Taken[j] = submitted[j] + Cardinality(Claiming(j)) /\ submitted[j] \in Int
          /\ Cardinality(Claiming(j)) \in Nat /\ now[j] \in Nat /\ collisions \in Nat
          /\ Taken[j] <= now[j] + collisions
      BY Numbers DEF Costs
    <3>2. Taken'[j] = submitted[j]
      <4>1. Claiming(j)' = {}
        BY <2>1 DEF Claiming, Callers, Saving, Unsaved
      <4>2. Cardinality(Claiming(j)') = 0
        BY <4>1, FS_EmptySet
      <4>3. Taken'[j] = submitted'[j] + Cardinality(Claiming(j)')
        BY DEF Taken
      <4> QED
        BY <2>1, <3>1, <4>2, <4>3
    <3>3. ASSUME Unwritten(j) PROVE submitted[j] < Taken[j]
      <4>1. PICK c \in Ticks : c \in Claiming(j)
        BY <3>3 DEF Unwritten, Claiming, Saving
      <4>2. Claiming(j) \in SUBSET Ticks
        BY DEF Claiming
      <4>3. /\ Cardinality(Claiming(j)) = Cardinality(Claiming(j) \ {c}) + 1
            /\ Cardinality(Claiming(j) \ {c}) \in Nat
        BY <4>1, <4>2, OneLess
      <4> QED
        BY <3>1, <4>3
    <3>4. ASSUME Open(file.table, j, now) PROVE submitted[j] < now[j] + collisions
      <4>1. CASE Unwritten(j)
        BY <3>1, <3>3, <4>1
      <4>2. CASE ~Unwritten(j)
        <5>1. Taken[j] < now[j] + collisions
          BY <3>4, <4>2 DEF Costs, FileSound
        <5> QED
          BY <3>1, <5>1
      <4> QED
        BY <4>1, <4>2
    <3> QED
      BY <3>1, <3>2, <3>4
  <2>3. Sound(file.table, Taken', now', collisions') /\ FileSound'
    BY <2>1, <2>2 DEF Sound, FileSound
  <2>4. Sound(mem', Taken', now', collisions')
    BY <2>1, <2>3, EmptySound
  <2> QED
    BY <2>1, <2>2, <2>3, <2>4 DEF Costs, Reading, Opened
<1> QED
  BY <1>3, <1>4, <1>5, <1>6

LEMMA InitCosts == Init => Costs
<1> SUFFICES ASSUME Init PROVE Costs
  OBVIOUS
<1>1. /\ mem = << >> /\ file.table = << >> /\ collisions = 0 /\ tmp = {}
      /\ pc = [c \in Callers |-> "idle"]
      /\ submitted = [j \in Jobs |-> 0] /\ now = [j \in Jobs |-> 0]
  BY ContentTables, EmptyTable DEF Init
<1>2. ASSUME NEW j \in Jobs PROVE Taken[j] = 0
  <2>1. Claiming(j) = {}
    BY <1>1 DEF Claiming, Callers, Saving, Unsaved
  <2>2. Cardinality(Claiming(j)) = 0
    BY <2>1, FS_EmptySet
  <2> QED
    BY <1>1, <2>2 DEF Taken
<1>3. Sound(<< >>, Taken, now, collisions)
  BY EmptySound
<1>4. FileSound
  BY <1>1, <1>3 DEF FileSound, Sound
<1> QED
  BY <1>1, <1>2, <1>3, <1>4 DEF Costs, Reading

LEMMA NextCosts == TypeOK /\ Costs /\ [Next]_vars => Costs'
<1> SUFFICES ASSUME TypeOK, Costs, [Next]_vars PROVE Costs'
  OBVIOUS
<1>1. CASE UNCHANGED vars
  BY <1>1 DEF vars, disk, clock, calls, history, Costs, FileSound, Unwritten, Taken,
     Claiming, Sound, Open
<1>2. CASE \E c \in Callers : Save(c) \/ SaveFails(c)
  BY <1>2, SaveCosts
<1>3. CASE \E c \in Ticks : Tick(c) \/ Pass(c)
  BY <1>3, TickCosts
<1>4. CASE \E j \in Jobs : Add(j) \/ Remove(j) \/ Finish(j)
  BY <1>4, EditCosts
<1>5. CASE List \/ AgentCall
  <2>1. TypeOK' /\ Agent \in Callers
    BY <1>5, AgentTypes DEF Callers
  <2>2. CASE List
    BY <2>1, <2>2, ReadCosts DEF List, disk, clock
  <2>3. CASE ListLoaded
    <3>1. /\ pc[Agent] = "load" /\ mem' = buffer[Agent] /\ Suspend(Agent, "idle") /\ Drop(Agent)
          /\ UNCHANGED <<file, tmp, now, current, submitted>>
      BY <2>3 DEF ListLoaded, disk, clock, history
    <3>2. /\ pc'[Agent] = "idle" /\ collisions' >= collisions
          /\ \A d \in Callers : d # Agent => pc'[d] = pc[d]
      BY <2>1, <3>1, SuspendDoes
    <3>3. OnlyMoves(Agent)
      BY <3>1, <3>2 DEF OnlyMoves, Drop, TypeOK
    <3>4. Sound(mem', Taken, now, collisions)
      BY <2>1, <3>1 DEF Costs, Reading
    <3> QED
      BY <2>1, <3>1, <3>2, <3>3, <3>4, AgentCosts
  <2>4. CASE Return
    <3>1. /\ Suspend(Agent, "idle") /\ current' = [current EXCEPT ![Agent] = NoJob]
          /\ UNCHANGED <<mem, file, tmp, now, buffer, submitted>>
      BY <2>4 DEF Return, About, disk, clock
    <3>2. /\ pc'[Agent] = "idle" /\ collisions' >= collisions
          /\ \A d \in Callers : d # Agent => pc'[d] = pc[d]
      BY <2>1, <3>1, SuspendDoes
    <3>3. OnlyMoves(Agent)
      BY <3>1, <3>2 DEF OnlyMoves, TypeOK
    <3>4. Sound(mem', Taken, now, collisions)
      BY <3>1 DEF Costs
    <3> QED
      BY <2>1, <3>1, <3>2, <3>3, <3>4, AgentCosts
  <2> QED
    BY <1>5, <2>2, <2>3, <2>4 DEF AgentCall
<1>6. CASE \/ \E j \in Jobs : \/ Take(j) \/ PutBack(j) \/ Discard(j)
                              \/ FiringComes(j) \/ ClaimAges(j)
           \/ Crash
  BY <1>6, WorldCosts
<1> QED
  BY <1>1, <1>2, <1>3, <1>4, <1>5, <1>6, Zenon DEF Next

\* A submission beyond one for each firing, and one for each claim given up after
\* 30 minutes, costs a collision of store calls of its own: however passes,
\* tools and marks overlap, saves tear each other's file, reads fail, and the
\* process crashes at any await.
THEOREM NeverTwice == Spec => []DuplicatesCostCollisions
<1>1. TypeOK /\ Costs => DuplicatesCostCollisions
  <2> SUFFICES ASSUME TypeOK, Costs, NEW j \in Jobs
               PROVE  submitted[j] <= now[j] + collisions
    BY DEF DuplicatesCostCollisions
  <2>1. Taken[j] <= now[j] + collisions
    BY DEF Costs
  <2> QED
    BY <2>1, Numbers
<1> QED
  BY <1>1, InitTypes, NextTypes, InitCosts, NextCosts, PTL DEF Spec

-----------------------------------------------------------------------------
(***************************************************************************)
(* Until a collision or a failed operation of the file: a call that saves  *)
(* is alone, and the array, the file and what was added agree.             *)
(***************************************************************************)
Alone ==
  \A c, d \in Callers : pc[c] \in Saving /\ c # d => pc[d] = "idle"

NoneFailed == \A c \in Callers : pc[c] # "failed"

\* The array and the file differ only while a save is on its way.
Settled == (\A c \in Callers : pc[c] \notin Unsaved) => mem = file.table

\* What the calls under way have read or written so far.
InStep(c) ==
  /\ pc[c] = "load" => buffer[c] = file.table
  /\ pc[c] \in {"open", "write"} => buffer[c] = mem
  /\ pc[c] = "write" => fd[c] = "tmp" /\ tmp = {Blank}
  /\ pc[c] = "rename" => tmp = {Whole(mem)}

\* The array of a pass that saves a claim: the file with one due job claimed.
StagedClaim(j) ==
  /\ j \in DOMAIN file.table
  /\ file.table[j].enabled /\ file.table[j].next <= now[j]
  /\ mem = With(file.table, j, Claimed(file.table[j]))

\* The array of an edit: the file with one job created, removed or completed.
Created(j, r) ==
  /\ j \notin DOMAIN file.table
  /\ r.enabled /\ ~r.running /\ r.next > now[j]

Completed(j, r) ==
  /\ j \in DOMAIN file.table
  /\ ~r.running /\ r.next >= file.table[j].next
  /\ r.enabled => file.table[j].enabled

StagedEdit ==
  \E j \in Jobs :
    \/ j \in DOMAIN file.table /\ mem = Without(file.table, j)
    \/ \E r \in Record : /\ Created(j, r) \/ Completed(j, r)
                         /\ mem = With(file.table, j, r)

\* The job a pass is about to submit is claimed in the array.
ClaimReady(j) == j \in DOMAIN mem /\ mem[j].running

\* The job addJob() is about to report is in the array.
AddReady == current[Agent] # NoJob => current[Agent] \in DOMAIN mem

CallGood(c) ==
  /\ InStep(c)
  /\ pc[c] \in Unsaved => IF c = Agent THEN StagedEdit ELSE StagedClaim(current[c])
  /\ pc[c] \in Saving => IF c = Agent THEN AddReady ELSE ClaimReady(current[c])

\* No record has run ahead of the firings.
InTime(table) == \A j \in DOMAIN table : table[j].next <= now[j] + 1

KeptIn(table) == added \ removed \subseteq DOMAIN table

TablesGood ==
  /\ InTime(mem) /\ InTime(file.table)
  /\ KeptIn(mem) /\ KeptIn(file.table)

Good == Alone /\ NoneFailed /\ Settled /\ (\A c \in Callers : CallGood(c)) /\ TablesGood

IInv == TypeOK /\ (Intact => Good)

\* A collision and a failed operation are for ever.
LEMMA IntactBack ==
  ASSUME TypeOK, [Next]_vars, Intact'
  PROVE  Intact /\ collisions' = 0 /\ ~faulted' /\ ~faulted /\ collisions = 0
<1>1. collisions' = 0 /\ ~faulted'
  BY DEF Intact
<1>2. ASSUME NEW c \in Callers, NEW x, Suspend(c, x) PROVE collisions = 0
  BY <1>1, <1>2, SuspendDoes
<1>3. Agent \in Callers /\ Ticks \subseteq Callers
  BY DEF Callers
<1>4. collisions = 0
  <2>1. CASE UNCHANGED collisions
    BY <1>1, <2>1
  <2>2. CASE \E c \in Callers : Save(c) \/ SaveFails(c)
    BY <1>2, <2>2 DEF Save, SaveFails, Stringify, OpenTmp, WriteTmp, Rename
  <2>3. CASE \E c \in Ticks : Tick(c) \/ TickLoaded(c) \/ ClaimSettled(c)
    <3>1. PICK c \in Ticks : Tick(c) \/ TickLoaded(c) \/ ClaimSettled(c)
      BY <2>3
    <3>2. ASSUME NEW jobs, NEW t, NEW n, ClaimNext(c, jobs, t, n)
          PROVE  \E x : Suspend(c, x)
      BY <3>2 DEF ClaimNext
    <3>3. \E x : Suspend(c, x)
      BY <3>1, <3>2 DEF Tick, Read, TickLoaded, ClaimSettled, PassFails, Submit
    <3> QED
      BY <1>2, <1>3, <3>3
  <2>4. CASE \E j \in Jobs : Add(j) \/ Remove(j) \/ Finish(j)
    BY <1>2, <1>3, <2>1, <2>4 DEF Add, Remove, Finish
  <2>5. CASE List \/ ListLoaded \/ Return
    BY <1>2, <1>3, <2>5 DEF List, Read, ListLoaded, Return
  <2>6. CASE \E j \in Jobs : Take(j) \/ PutBack(j) \/ Discard(j) \/ FiringComes(j) \/ ClaimAges(j)
    BY <2>1, <2>6 DEF Take, PutBack, Discard, FiringComes, ClaimAges, calls
  <2>7. CASE Crash \/ UNCHANGED vars
    BY <2>1, <2>7 DEF Crash, vars, calls
  <2> QED
    BY <2>2, <2>3, <2>4, <2>5, <2>6, <2>7, Zenon DEF Next, Pass, AgentCall
<1>5. ~faulted
  <2>1. CASE UNCHANGED faulted
    BY <1>1, <2>1
  <2>2. CASE \E c \in Callers : Save(c) \/ SaveFails(c)
    BY <1>1, <2>2, Zenon DEF Save, SaveFails, Stringify, OpenTmp, WriteTmp, Rename, history
  <2>3. CASE \E c \in Ticks : Tick(c) \/ TickLoaded(c) \/ ClaimSettled(c)
    BY <1>1, <2>3, Zenon DEF Tick, Read, TickLoaded, ClaimSettled
  <2>4. CASE \E j \in Jobs : Add(j) \/ Remove(j) \/ Finish(j)
    BY <1>1, <2>4, Zenon DEF Add, Remove, Finish, history
  <2>5. CASE List \/ ListLoaded \/ Return
    BY <1>1, <2>5, Zenon DEF List, Read, ListLoaded, Return, history
  <2>6. CASE \E j \in Jobs : Take(j) \/ PutBack(j) \/ Discard(j) \/ FiringComes(j) \/ ClaimAges(j)
    BY <1>1, <2>6, Zenon DEF Take, PutBack, Discard, FiringComes, ClaimAges, history
  <2>7. CASE Crash \/ UNCHANGED vars
    BY <1>1, <2>7, Zenon DEF Crash, vars, history
  <2> QED
    BY <2>2, <2>3, <2>4, <2>5, <2>6, <2>7, Zenon DEF Next, Pass, AgentCall
<1> QED
  BY <1>1, <1>4, <1>5, Zenon DEF Intact

\* A call that begins to save, and meets nobody, is alone.
LEMMA Joins ==
  ASSUME TypeOK, NoneFailed, NEW c \in Callers, Suspend(c, "mkdir"), collisions' = 0
  PROVE  \A d \in Callers : d # c => pc[d] = "idle"
<1>1. ~Meets(c, "mkdir")
  BY SuspendDoes
<1> QED
  BY <1>1 DEF Meets, NoneFailed, TypeOK, Saving

\* An idle caller promises nothing.
LEMMA IdleGood ==
  ASSUME NEW c \in Callers, pc'[c] = "idle"
  PROVE  CallGood(c)'
BY DEF CallGood, InStep, Saving, Unsaved

\* When only c is under way, what the calls promise depends on c only.
LEMMA SaverMoves ==
  ASSUME TypeOK, NEW c \in Callers, \A d \in Callers : d # c => pc[d] = "idle",
         NEW x, Suspend(c, x), x # "failed", CallGood(c)',
         x \notin Unsaved => mem' = file'.table
  PROVE  Alone' /\ NoneFailed' /\ Settled' /\ \A d \in Callers : CallGood(d)'
<1>1. pc'[c] = x /\ \A d \in Callers : d # c => pc'[d] = "idle"
  BY SuspendDoes
<1>2. Alone' /\ NoneFailed'
  BY <1>1 DEF Alone, NoneFailed, Saving, Unsaved
<1>3. Settled'
  BY <1>1 DEF Settled
<1>4. ASSUME NEW d \in Callers, d # c PROVE CallGood(d)'
  BY <1>1, <1>4, IdleGood
<1> QED
  BY <1>2, <1>3, <1>4

\* While nobody saves, any number of calls may read.
LEMMA ReadersMove ==
  ASSUME TypeOK, Good, NEW c \in Callers, NEW x \in {"idle", "load"}, Suspend(c, x),
         \A d \in Callers : d # c => pc[d] \notin Saving /\ buffer'[d] = buffer[d],
         x = "load" => buffer'[c] = file.table,
         file' = file, mem' = file.table
  PROVE  Alone' /\ NoneFailed' /\ Settled' /\ \A d \in Callers : CallGood(d)'
<1>1. pc'[c] = x /\ \A d \in Callers : d # c => pc'[d] = pc[d]
  BY SuspendDoes
<1>2. ASSUME NEW d \in Callers PROVE pc'[d] \in {"idle", "load"}
  BY <1>1 DEF Good, NoneFailed, TypeOK
<1>3. Alone' /\ NoneFailed' /\ Settled'
  BY <1>2 DEF Alone, NoneFailed, Settled, Saving, Unsaved
<1>4. ASSUME NEW d \in Callers PROVE CallGood(d)'
  <2>1. pc'[d] = "load" => buffer'[d] = file.table
    BY <1>1 DEF Good, CallGood, InStep
  <2> QED
    BY <1>2, <2>1 DEF CallGood, InStep, Saving, Unsaved
<1> QED
  BY <1>3, <1>4

LEMMA SameTables ==
  ASSUME TablesGood, UNCHANGED <<mem, file, now, added, removed>>
  PROVE  TablesGood'
BY DEF TablesGood, InTime, KeptIn

\* save(): each of its four steps.
LEMMA SaveKeeps ==
  ASSUME TypeOK, TypeOK', Good, NEW c \in Callers, Save(c)
  PROVE  Good'
<1>1. CallGood(c) /\ TablesGood /\ c \in Callers /\ mem \in Tables
  BY DEF Good, TypeOK
<1>2. pc[c] \in Saving /\ pc[c] \in Unsaved
  BY DEF Save, Stringify, OpenTmp, WriteTmp, Rename, Saving, Unsaved
<1>3. \A d \in Callers : d # c => pc[d] = "idle"
  BY <1>2 DEF Good, Alone
<1>4. CASE Stringify(c)
  <2>1. /\ Suspend(c, "open") /\ pc'[c] = "open" /\ buffer'[c] = mem
        /\ UNCHANGED <<mem, file, now, current, added, removed>>
    BY <1>1, <1>4, SuspendDoes DEF Stringify, TypeOK, disk, clock, history
  <2>2. CallGood(c)'
    BY <1>1, <1>2, <2>1 DEF CallGood, InStep, StagedEdit, StagedClaim,
       Created, Completed, AddReady, ClaimReady
  <2>3. Alone' /\ NoneFailed' /\ Settled' /\ \A d \in Callers : CallGood(d)'
    BY <1>3, <2>1, <2>2, SaverMoves DEF Unsaved
  <2> QED
    BY <1>1, <2>1, <2>3, SameTables DEF Good
<1>5. CASE OpenTmp(c)
  <2>1. /\ Suspend(c, "write") /\ pc'[c] = "write" /\ buffer'[c] = mem
        /\ tmp' = {Blank} /\ fd'[c] = "tmp"
        /\ UNCHANGED <<mem, file, now, current, added, removed>>
    BY <1>1, <1>5, SuspendDoes DEF OpenTmp, TypeOK, clock, history, CallGood, InStep
  <2>2. CallGood(c)'
    BY <1>1, <1>2, <2>1 DEF CallGood, InStep, StagedEdit, StagedClaim,
       Created, Completed, AddReady, ClaimReady
  <2>3. Alone' /\ NoneFailed' /\ Settled' /\ \A d \in Callers : CallGood(d)'
    BY <1>3, <2>1, <2>2, SaverMoves DEF Unsaved
  <2> QED
    BY <1>1, <2>1, <2>3, SameTables DEF Good
<1>6. CASE WriteTmp(c)
  <2>1. pc[c] = "write" /\ buffer[c] = mem /\ fd[c] = "tmp" /\ tmp = {Blank}
    BY <1>1, <1>6 DEF WriteTmp, CallGood, InStep
  <2>2. /\ Suspend(c, "rename") /\ pc'[c] = "rename"
        /\ tmp' = {Whole(mem)} /\ file' = file
        /\ UNCHANGED <<mem, now, current, added, removed>>
    BY <1>6, <2>1, SuspendDoes DEF WriteTmp, clock, history, Overwritten
  <2>3. CallGood(c)'
    BY <1>1, <1>2, <2>2 DEF CallGood, InStep, StagedEdit, StagedClaim,
       Created, Completed, AddReady, ClaimReady
  <2>4. Alone' /\ NoneFailed' /\ Settled' /\ \A d \in Callers : CallGood(d)'
    BY <1>3, <2>2, <2>3, SaverMoves DEF Unsaved
  <2> QED
    BY <1>1, <2>2, <2>4, SameTables DEF Good
<1>7. CASE Rename(c)
  <2>1. tmp = {Whole(mem)} /\ pc[c] = "rename"
    BY <1>1, <1>7 DEF Rename, CallGood, InStep
  <2>2. /\ Suspend(c, "saved") /\ pc'[c] = "saved" /\ file'.table = mem
        /\ UNCHANGED <<mem, now, current, added, removed>>
    BY <1>1, <1>7, <2>1, SuspendDoes, ContentTables DEF Rename, clock, history
  <2>3. CallGood(c)'
    BY <1>1, <1>2, <2>2 DEF CallGood, InStep, AddReady, ClaimReady, Unsaved, Saving
  <2>4. Alone' /\ NoneFailed' /\ Settled' /\ \A d \in Callers : CallGood(d)'
    BY <1>3, <2>2, <2>3, SaverMoves
  <2>5. TablesGood'
    BY <1>1, <2>2 DEF TablesGood, InTime, KeptIn
  <2> QED
    BY <2>4, <2>5 DEF Good
<1> QED
  BY <1>4, <1>5, <1>6, <1>7 DEF Save

\* load() begins: what is read is the file, which is the array.
LEMMA ReadKeeps ==
  ASSUME TypeOK, TypeOK', Good, NEW c \in Callers, Read(c), collisions' = 0, ~faulted',
         UNCHANGED <<mem, file, now, added, removed>>
  PROVE  Good'
<1>1. Suspend(c, "load") /\ pc[c] = "idle"
  BY DEF Read
<1>2. buffer' = [buffer EXCEPT ![c] = file.table]
  BY Zenon DEF Read
<1>3. ~Meets(c, "load")
  BY <1>1, SuspendDoes
<1>4. ASSUME NEW d \in Callers, d # c PROVE pc[d] \notin Saving /\ buffer'[d] = buffer[d]
  BY <1>2, <1>3, <1>4 DEF Meets, TypeOK
<1>5. mem = file.table
  BY <1>1, <1>4 DEF Good, Settled, Unsaved, Saving
<1>6. buffer'[c] = file.table
  BY <1>2 DEF TypeOK
<1>7. Alone' /\ NoneFailed' /\ Settled' /\ \A d \in Callers : CallGood(d)'
  BY <1>1, <1>4, <1>5, <1>6, ReadersMove
<1> QED
  BY <1>7, SameTables DEF Good

\* claimJob() of the next due job of the file, or the end of the pass.
LEMMA ClaimKeeps ==
  ASSUME TypeOK, TypeOK', Good, NEW c \in Ticks, NEW jobs \in SUBSET Jobs,
         NEW n \in [Jobs -> Int], ClaimNext(c, jobs, file.table, n), collisions' = 0,
         \A d \in Callers : d # c => pc[d] \notin Saving /\ buffer'[d] = buffer[d],
         UNCHANGED <<file, now, added, removed>>
  PROVE  Good'
<1>1. file.table \in Tables /\ c \in Callers /\ c # Agent
  BY ContentTables, CronAssumption DEF TypeOK, Callers
<1>2. TablesGood /\ NoneFailed
  BY DEF Good
<1>3. CASE Ended(c, file.table, n)
  <2>1. mem' = file.table /\ Suspend(c, "idle")
    BY <1>3 DEF Ended
  <2>2. Alone' /\ NoneFailed' /\ Settled' /\ \A d \in Callers : CallGood(d)'
    BY <1>1, <2>1, ReadersMove
  <2>3. TablesGood'
    BY <1>2, <2>1 DEF TablesGood, InTime, KeptIn
  <2> QED
    BY <2>2, <2>3 DEF Good
<1>4. ASSUME NEW j \in Due(file.table), Claims(c, file.table, n, j) PROVE Good'
  <2>1. /\ j \in DOMAIN file.table /\ j \in Jobs /\ file.table[j] \in Record
        /\ file.table[j].enabled /\ file.table[j].next <= now[j]
    BY <1>1, DueJobs
  <2>2. /\ Claimed(file.table[j]) \in Record /\ Claimed(file.table[j]).running
        /\ Claimed(file.table[j]).next = file.table[j].next
    BY <2>1, RecordTypes
  <2>3. Suspend(c, "mkdir") /\ mem' = With(file.table, j, Claimed(file.table[j]))
    BY <1>4 DEF Claims
  <2>4. /\ DOMAIN mem' = DOMAIN file.table
        /\ mem'[j] = Claimed(file.table[j])
        /\ \A i \in DOMAIN file.table : i # j => mem'[i] = file.table[i]
    <3>1. /\ DOMAIN With(file.table, j, Claimed(file.table[j])) = DOMAIN file.table \cup {j}
          /\ With(file.table, j, Claimed(file.table[j]))[j] = Claimed(file.table[j])
          /\ \A i \in DOMAIN file.table : i # j =>
               With(file.table, j, Claimed(file.table[j]))[i] = file.table[i]
      <4>1. file.table \in Tables /\ j \in Jobs /\ Claimed(file.table[j]) \in Record
        BY <1>1, <2>1, <2>2
      <4> QED
        BY <4>1 DEF With
    <3>2. DOMAIN file.table \cup {j} = DOMAIN file.table
      BY <2>1
    <3> QED
      BY <2>3, <3>1, <3>2, Zenon
  <2>5. pc'[c] = "mkdir" /\ current'[c] = j
    BY <1>1, <1>4, <2>3, SuspendDoes DEF Claims, TypeOK
  <2>6. StagedClaim(j)'
    BY <2>1, <2>3 DEF StagedClaim
  <2>7. ClaimReady(j)'
    BY <2>1, <2>2, <2>4 DEF ClaimReady
  <2>8. CallGood(c)'
    BY <1>1, <2>5, <2>6, <2>7 DEF CallGood, InStep, Unsaved, Saving
  <2>9. \A d \in Callers : d # c => pc[d] = "idle"
    BY <1>1, <1>2, <2>3, Joins
  <2>10. Alone' /\ NoneFailed' /\ Settled' /\ \A d \in Callers : CallGood(d)'
    BY <1>1, <2>3, <2>8, <2>9, SaverMoves DEF Unsaved
  <2>11. TablesGood'
    BY <1>2, <2>2, <2>4 DEF TablesGood, InTime, KeptIn
  <2> QED
    BY <2>10, <2>11 DEF Good
<1> QED
  BY <1>1, <1>3, <1>4, ClaimDoes, Zenon

\* The file, read back as it is, and the first claim of a pass; then each
\* submission of a saved claim, with the next claim.
LEMMA PassKeeps ==
  ASSUME TypeOK, TypeOK', Good, NEW c \in Ticks, Pass(c), collisions' = 0
  PROVE  Good'
<1>1. c \in Callers /\ CallGood(c) /\ file.table \in Tables
  BY ContentTables DEF Callers, Good, TypeOK
<1>2. CASE TickLoaded(c)
  <2>1. pc[c] = "load" /\ buffer[c] = file.table
    BY <1>1, <1>2 DEF TickLoaded, CallGood, InStep
  <2>2. /\ ClaimNext(c, Due(file.table), file.table, submitted)
        /\ UNCHANGED <<file, now, added, removed>> /\ Drop(c)
    BY <1>2, <2>1 DEF TickLoaded, disk
  <2>3. Due(file.table) \in SUBSET Jobs /\ submitted \in [Jobs -> Int]
    BY <1>1, DueJobs DEF TypeOK
  <2>4. \A d \in Callers : d # c => pc[d] \notin Saving /\ buffer'[d] = buffer[d]
    BY <1>1, <2>1, <2>2 DEF Drop, TypeOK, Good, Alone
  <2> QED
    BY <2>2, <2>3, <2>4, ClaimKeeps
<1>3. CASE ClaimSettled(c)
  <2>1. pc[c] = "saved"
    BY <1>1, <1>3 DEF ClaimSettled, Good, NoneFailed
  <2>2. \A d \in Callers : d # c => pc[d] = "idle"
    BY <1>1, <2>1 DEF Good, Alone, Saving
  <2>3. mem = file.table
    BY <2>1, <2>2 DEF Good, Settled, Unsaved
  <2>4. PICK accepted \in BOOLEAN : Submit(c, accepted)
    BY <1>3, <2>1 DEF ClaimSettled
  <2> DEFINE pushed == {current[c]} \cap (IF accepted THEN DOMAIN mem ELSE {})
             n == [j \in Jobs |-> submitted[j] + (IF j \in pushed THEN 1 ELSE 0)]
  <2>5. ClaimNext(c, todo[c], file.table, n) /\ UNCHANGED <<file, now, buffer, added, removed>>
    BY <1>3, <2>3, <2>4 DEF ClaimSettled, Submit, disk
  <2>6. n \in [Jobs -> Int] /\ todo[c] \in SUBSET Jobs
    BY DEF TypeOK
  <2> HIDE DEF n, pushed
  <2>7. \A d \in Callers : d # c => pc[d] \notin Saving /\ buffer'[d] = buffer[d]
    BY <2>2, <2>5 DEF Saving, Unsaved
  <2> QED
    BY <2>5, <2>6, <2>7, ClaimKeeps
<1> QED
  BY <1>2, <1>3 DEF Pass

\* An edit begins from an array that is in the file, and meets nobody.
LEMMA EditBegins ==
  ASSUME TypeOK, Good, pc[Agent] = "idle", Suspend(Agent, "mkdir"), collisions' = 0
  PROVE  (\A d \in Callers : pc[d] = "idle") /\ mem = file.table
<1>1. \A d \in Callers : pc[d] = "idle"
  BY Joins DEF Good, Callers
<1> QED
  BY <1>1 DEF Good, Settled, Unsaved

LEMMA EditStep ==
  ASSUME TypeOK, TypeOK', Good, pc[Agent] = "idle", Suspend(Agent, "mkdir"), collisions' = 0,
         StagedEdit', AddReady', TablesGood'
  PROVE  Good'
<1>1. Agent \in Callers /\ \A d \in Callers : pc[d] = "idle"
  BY EditBegins DEF Callers
<1>2. pc'[Agent] = "mkdir"
  BY <1>1, SuspendDoes
<1>3. CallGood(Agent)'
  BY <1>2 DEF CallGood, InStep, Unsaved, Saving
<1>4. Alone' /\ NoneFailed' /\ Settled' /\ \A d \in Callers : CallGood(d)'
  BY <1>1, <1>3, SaverMoves DEF Unsaved
<1> QED
  BY <1>4 DEF Good

\* addJob(): a new record waits for the next firing.
LEMMA AddKeeps ==
  ASSUME TypeOK, TypeOK', Good, NEW j \in Jobs, Add(j), collisions' = 0
  PROVE  Good'
<1>1. /\ pc[Agent] = "idle" /\ Suspend(Agent, "mkdir") /\ j \notin DOMAIN mem
      /\ mem' = With(mem, j, Fresh(j)) /\ current'[Agent] = j
      /\ UNCHANGED <<file, now, added, removed>>
  BY DEF Add, Added, Editing, About, TypeOK, Callers, disk, clock, history
<1>2. mem = file.table /\ mem \in Tables /\ TablesGood
  BY <1>1, EditBegins DEF TypeOK, Good
<1>3. /\ Fresh(j) \in Record /\ Fresh(j).enabled /\ ~Fresh(j).running
      /\ Fresh(j).next = now[j] + 1 /\ now[j] \in Nat
  BY RecordTypes
<1>4. /\ DOMAIN With(mem, j, Fresh(j)) = DOMAIN mem \cup {j}
      /\ With(mem, j, Fresh(j))[j] = Fresh(j)
      /\ \A i \in DOMAIN mem : i # j => With(mem, j, Fresh(j))[i] = mem[i]
  <2>1. mem \in Tables /\ Fresh(j) \in Record
    BY <1>2, <1>3
  <2> QED
    BY <2>1 DEF With
<1>5. PICK r \in Record : r = Fresh(j)
  BY <1>3
<1>6. StagedEdit'
  <2>1. r.next > now[j]
    BY <1>3, <1>5
  <2>2. Created(j, r)'
    BY <1>1, <1>2, <1>3, <1>5, <2>1 DEF Created
  <2> QED
    BY <1>1, <1>2, <1>5, <2>2 DEF StagedEdit
<1>7. TablesGood'
  <2>1. InTime(With(mem, j, Fresh(j)))
    BY <1>2, <1>3, <1>4 DEF TablesGood, InTime
  <2> QED
    BY <1>1, <1>2, <1>4, <2>1 DEF TablesGood, InTime, KeptIn
<1>8. AddReady'
  BY <1>1, <1>4 DEF AddReady
<1> QED
  BY <1>1, <1>6, <1>7, <1>8, EditStep

\* removeJob().
LEMMA RemoveKeeps ==
  ASSUME TypeOK, TypeOK', Good, NEW j \in Jobs, Remove(j), collisions' = 0
  PROVE  Good'
<1>1. /\ pc[Agent] = "idle" /\ Suspend(Agent, "mkdir") /\ j \in DOMAIN mem
      /\ mem' = Without(mem, j) /\ removed' = removed \cup {j} /\ current'[Agent] = NoJob
      /\ UNCHANGED <<file, now, added>>
  BY DEF Remove, Editing, About, TypeOK, Callers, disk, clock
<1>2. mem = file.table /\ mem \in Tables /\ TablesGood
  BY <1>1, EditBegins DEF TypeOK, Good
<1>3. /\ DOMAIN Without(mem, j) = DOMAIN mem \ {j}
      /\ \A i \in DOMAIN mem : i # j => Without(mem, j)[i] = mem[i]
  BY <1>2, WithoutTable
<1>4. StagedEdit'
  BY <1>1, <1>2 DEF StagedEdit
<1>5. TablesGood'
  BY <1>1, <1>2, <1>3 DEF TablesGood, InTime, KeptIn
<1> QED
  BY <1>1, <1>4, <1>5, EditStep DEF AddReady

\* What touches neither the array, the files nor a call.
LEMMA Untouched ==
  ASSUME Good, UNCHANGED <<mem, file, tmp, fd, now, pc, buffer, current, added, removed>>
  PROVE  Good'
<1>1. TablesGood'
  BY SameTables DEF Good
<1>2. Alone' /\ NoneFailed' /\ Settled'
  BY DEF Good, Alone, NoneFailed, Settled
<1>3. ASSUME NEW c \in Callers PROVE CallGood(c)'
  BY DEF Good, CallGood, InStep, Unsaved, Saving, StagedEdit, StagedClaim, Created,
     Completed, AddReady, ClaimReady
<1> QED
  BY <1>1, <1>2, <1>3 DEF Good

\* markJobRun(): the record is kept from running ahead, and no firing is taken
\* back; a turn of a job that is gone marks nothing.
LEMMA FinishKeeps ==
  ASSUME TypeOK, TypeOK', Good, NEW j \in Jobs, Finish(j), collisions' = 0
  PROVE  Good'
<1>1. pc[Agent] = "idle" /\ UNCHANGED <<file, tmp, fd, now, buffer, added, removed>>
  BY DEF Finish, Editing, disk, history
<1>2. CASE j \notin DOMAIN mem
  <2>1. UNCHANGED <<mem, pc, current>>
    BY <1>2 DEF Finish
  <2> QED
    BY <1>1, <2>1, Untouched
<1>3. CASE j \in DOMAIN mem
  <2> DEFINE r == mem[j]
             s == Marked(j, r)
  <2>1. mem' = With(mem, j, s) /\ Suspend(Agent, "mkdir") /\ About(NoJob)
    BY <1>3, Zenon DEF Finish
  <2>2. mem = file.table /\ mem \in Tables /\ TablesGood
    BY <1>1, <2>1, EditBegins DEF TypeOK, Good
  <2>3. current'[Agent] = NoJob
    BY <2>1 DEF About, TypeOK, Callers
  <2>4. r \in Record
    BY <1>3, <2>2, TableIs
  <2>5. /\ s \in Record /\ ~s.running
        /\ j \in Once => ~s.enabled /\ s.next = r.next
        /\ j \notin Once => s.enabled = r.enabled /\ s.next = now[j] + 1
        /\ now[j] \in Nat /\ r.next \in Nat
    BY <2>4, RecordTypes
  <2>6. r.next <= now[j] + 1
    BY <1>3, <2>2 DEF TablesGood, InTime
  <2> HIDE DEF r, s
  <2>7. s.next >= r.next /\ s.next <= now[j] + 1
    BY <2>5, <2>6
  <2>8. s.enabled => r.enabled
    BY <2>5
  <2>9. /\ DOMAIN With(mem, j, s) = DOMAIN mem
        /\ With(mem, j, s)[j] = s
        /\ \A i \in DOMAIN mem : i # j => With(mem, j, s)[i] = mem[i]
    <3>1. mem \in Tables /\ s \in Record
      BY <2>2, <2>5
    <3>2. DOMAIN With(mem, j, s) = DOMAIN mem \cup {j}
      BY <3>1, WithTable
    <3>3. /\ With(mem, j, s)[j] = s
          /\ \A i \in DOMAIN mem : i # j => With(mem, j, s)[i] = mem[i]
      BY <3>1, WithTable
    <3> QED
      BY <1>3, <3>2, <3>3
  <2>10. PICK x \in Record : x = s
    BY <2>5
  <2>11. StagedEdit'
    <3>1. file'.table[j] = r /\ j \in DOMAIN file'.table /\ mem' = With(file'.table, j, x)
      BY <1>1, <1>3, <2>1, <2>2, <2>10 DEF r
    <3>2. Completed(j, x)'
      BY <2>5, <2>7, <2>8, <2>10, <3>1 DEF Completed
    <3> QED
      BY <3>1, <3>2 DEF StagedEdit
  <2>12. TablesGood'
    <3>1. InTime(With(mem, j, s))
      BY <2>2, <2>7, <2>9 DEF TablesGood, InTime
    <3> QED
      BY <1>1, <2>1, <2>2, <2>9, <3>1 DEF TablesGood, InTime, KeptIn
  <2>13. AddReady'
    BY <2>3 DEF AddReady
  <2> QED
    BY <1>1, <2>1, <2>11, <2>12, <2>13, EditStep
<1> QED
  BY <1>2, <1>3

\* list_jobs reads the file back; addJob() reports what is in it by then.
LEMMA AgentKeeps ==
  ASSUME TypeOK, TypeOK', Good, AgentCall
  PROVE  Good'
<1>1. Agent \in Callers /\ CallGood(Agent) /\ TablesGood
  BY DEF Callers, Good
<1>2. CASE ListLoaded
  <2>1. pc[Agent] = "load" /\ buffer[Agent] = file.table
    BY <1>1, <1>2 DEF ListLoaded, CallGood, InStep
  <2>2. /\ Suspend(Agent, "idle") /\ mem' = file.table /\ Drop(Agent)
        /\ UNCHANGED <<file, now, added, removed>>
    BY <1>2, <2>1 DEF ListLoaded, disk, clock, history
  <2>3. \A d \in Callers : d # Agent => pc[d] \notin Saving /\ buffer'[d] = buffer[d]
    BY <1>1, <2>1, <2>2 DEF Drop, TypeOK, Good, Alone
  <2>4. Alone' /\ NoneFailed' /\ Settled' /\ \A d \in Callers : CallGood(d)'
    BY <1>1, <2>2, <2>3, ReadersMove
  <2>5. TablesGood'
    BY <1>1, <2>2 DEF TablesGood, InTime, KeptIn
  <2> QED
    BY <2>4, <2>5 DEF Good
<1>3. CASE Return
  <2>1. pc[Agent] = "saved"
    BY <1>1, <1>3 DEF Return, Good, NoneFailed
  <2>2. \A d \in Callers : d # Agent => pc[d] = "idle"
    BY <1>1, <2>1 DEF Good, Alone, Saving
  <2>3. mem = file.table
    BY <2>1, <2>2 DEF Good, Settled, Unsaved
  <2>4. AddReady
    BY <1>1, <2>1 DEF CallGood, Saving
  <2>5. Suspend(Agent, "idle") /\ UNCHANGED <<mem, file, now, buffer, removed>>
    BY <1>3 DEF Return, disk, clock
  <2>6. added' \subseteq added \cup DOMAIN mem
    BY <1>3, <2>4 DEF Return, AddReady
  <2>7. Alone' /\ NoneFailed' /\ Settled' /\ \A d \in Callers : CallGood(d)'
    BY <1>1, <2>2, <2>3, <2>5, ReadersMove DEF Saving, Unsaved
  <2>8. TablesGood'
    BY <1>1, <2>3, <2>5, <2>6 DEF TablesGood, InTime, KeptIn
  <2> QED
    BY <2>7, <2>8 DEF Good
<1> QED
  BY <1>2, <1>3 DEF AgentCall

\* The loop, the clock and a crash.
LEMMA WorldKeeps ==
  ASSUME TypeOK, TypeOK', Good, ~faulted',
         \/ \E j \in Jobs : \/ Take(j) \/ PutBack(j) \/ Discard(j)
                            \/ FiringComes(j) \/ ClaimAges(j)
         \/ Crash
  PROVE  Good'
<1>1. CASE \E j \in Jobs : Take(j) \/ PutBack(j) \/ Discard(j)
  BY <1>1, Untouched DEF Take, PutBack, Discard, disk, clock, calls, history
<1>2. CASE \E j \in Jobs : ClaimAges(j)
  BY <1>2, Untouched DEF ClaimAges, disk, calls
<1>3. ASSUME NEW j \in Jobs, FiringComes(j) PROVE Good'
  <2>1. /\ j \in DOMAIN file.table /\ now' = [now EXCEPT ![j] = @ + 1]
        /\ UNCHANGED <<mem, file, tmp, fd, pc, buffer, current, added, removed>>
    BY <1>3 DEF FiringComes, disk, calls, history
  <2>2. /\ \A i \in Jobs : i # j => now'[i] = now[i]
        /\ \A i \in Jobs : now[i] \in Nat /\ now'[i] >= now[i] /\ now'[i] \in Nat
    BY <2>1, RecordTypes DEF TypeOK
  <2>3. TablesGood'
    <3>1. ASSUME NEW t \in Tables, InTime(t), NEW i \in DOMAIN t
          PROVE  t[i].next <= now'[i] + 1
      <4>1. i \in Jobs /\ t[i] \in Record
        BY TableIs
      <4>2. t[i].next \in Nat /\ t[i].next <= now[i] + 1
        BY <3>1, <4>1, RecordTypes DEF InTime
      <4> QED
        BY <2>2, <4>1, <4>2
    <3>2. mem \in Tables /\ file.table \in Tables /\ TablesGood
      BY ContentTables DEF TypeOK, Good
    <3>3. InTime(mem)' /\ InTime(file.table)'
      BY <2>1, <3>1, <3>2 DEF TablesGood, InTime
    <3> QED
      BY <2>1, <3>2, <3>3 DEF TablesGood, KeptIn
  <2>4. Alone' /\ NoneFailed' /\ Settled'
    BY <2>1 DEF Good, Alone, NoneFailed, Settled
  <2>5. ASSUME NEW c \in Callers PROVE CallGood(c)'
    <3>1. CallGood(c) /\ file.table \in Tables /\ mem' = mem /\ file' = file
      BY <2>1, ContentTables DEF Good, TypeOK
    <3>2. InStep(c)'
      BY <2>1, <3>1 DEF CallGood, InStep
    <3>3. StagedClaim(current[c]) => StagedClaim(current[c])'
      <4> SUFFICES ASSUME StagedClaim(current[c]) PROVE StagedClaim(current[c])'
        OBVIOUS
      <4> DEFINE i == current[c]
      <4>1. /\ i \in DOMAIN file.table /\ file.table[i].enabled /\ file.table[i].next <= now[i]
            /\ mem = With(file.table, i, Claimed(file.table[i]))
        BY DEF StagedClaim
      <4>2. i \in Jobs /\ file.table[i].next \in Nat
        BY <3>1, <4>1, TableIs, RecordTypes
      <4>3. file.table[i].next <= now'[i]
        BY <2>2, <4>1, <4>2
      <4> QED
        BY <2>1, <4>1, <4>3 DEF StagedClaim
    <3>4. ClaimReady(current[c]) => ClaimReady(current[c])'
      BY <2>1 DEF ClaimReady
    <3>5. StagedEdit => StagedEdit'
      <4>1. ASSUME NEW i \in Jobs, NEW r \in Record, Created(i, r) PROVE Created(i, r)'
        <5>1. i # j
          BY <2>1, <4>1 DEF Created
        <5> QED
          BY <2>1, <2>2, <4>1, <5>1 DEF Created
      <4>2. ASSUME NEW i \in Jobs, NEW r \in Record, Completed(i, r) PROVE Completed(i, r)'
        BY <2>1, <4>2 DEF Completed
      <4> SUFFICES ASSUME StagedEdit PROVE StagedEdit'
        OBVIOUS
      <4>3. PICK i \in Jobs : \/ i \in DOMAIN file.table /\ mem = Without(file.table, i)
                              \/ \E r \in Record : /\ Created(i, r) \/ Completed(i, r)
                                                   /\ mem = With(file.table, i, r)
        BY Zenon DEF StagedEdit
      <4>4. CASE i \in DOMAIN file.table /\ mem = Without(file.table, i)
        BY <3>1, <4>4 DEF StagedEdit
      <4>5. CASE \E r \in Record : /\ Created(i, r) \/ Completed(i, r)
                                   /\ mem = With(file.table, i, r)
        BY <3>1, <4>1, <4>2, <4>5, Zenon DEF StagedEdit
      <4> QED
        BY <4>3, <4>4, <4>5
    <3>6. AddReady => AddReady'
      BY <2>1 DEF AddReady
    <3>7. pc' = pc /\ current' = current
      BY <2>1
    <3> QED
      BY <3>1, <3>2, <3>3, <3>4, <3>5, <3>6, <3>7, Zenon DEF CallGood
  <2> QED
    BY <2>3, <2>4, <2>5 DEF Good
<1>4. CASE Crash
  <2>1. mem' = file.table
    BY <1>4, Zenon DEF Crash
  <2>2. /\ pc' = [c \in Callers |-> "idle"]
        /\ UNCHANGED <<file, now, added, removed>>
    BY <1>4 DEF Crash, clock
  <2>3. TablesGood'
    BY <2>1, <2>2 DEF Good, TablesGood, InTime, KeptIn
  <2>4. Alone' /\ NoneFailed' /\ Settled'
    BY <2>1, <2>2 DEF Alone, NoneFailed, Settled, Saving, Unsaved
  <2>5. ASSUME NEW c \in Callers PROVE CallGood(c)'
    BY <2>2, IdleGood
  <2> QED
    BY <2>3, <2>4, <2>5 DEF Good
<1> QED
  BY <1>1, <1>2, <1>3, <1>4

LEMMA InitGood == Init => IInv
<1> SUFFICES ASSUME Init PROVE IInv
  OBVIOUS
<1>1. TypeOK
  BY InitTypes
<1>2. /\ mem = << >> /\ file.table = << >> /\ added = {}
      /\ pc = [c \in Callers |-> "idle"]
  BY ContentTables, EmptyTable DEF Init
<1>3. Alone /\ NoneFailed /\ Settled
  BY <1>2 DEF Alone, NoneFailed, Settled, Saving, Unsaved
<1>4. ASSUME NEW c \in Callers PROVE CallGood(c)
  BY <1>2 DEF CallGood, InStep, Unsaved, Saving
<1>5. TablesGood
  BY <1>2, EmptyTable DEF TablesGood, InTime, KeptIn
<1> QED
  BY <1>1, <1>3, <1>4, <1>5 DEF IInv, Good

LEMMA NextKeeps == IInv /\ [Next]_vars => IInv'
<1> SUFFICES ASSUME IInv, [Next]_vars PROVE IInv'
  OBVIOUS
<1>1. TypeOK /\ TypeOK'
  BY NextTypes DEF IInv
<1> SUFFICES ASSUME Intact' PROVE Good'
  BY <1>1 DEF IInv
<1>2. Good /\ collisions' = 0 /\ ~faulted'
  BY <1>1, IntactBack, Zenon DEF IInv
<1>3. CASE UNCHANGED vars
  BY <1>2, <1>3, Untouched DEF vars, disk, clock, calls, history
<1>4. CASE \E c \in Callers : Save(c)
  BY <1>1, <1>2, <1>4, SaveKeeps
<1>5. CASE \E c \in Callers : SaveFails(c)
  BY <1>2, <1>5, Zenon DEF SaveFails
<1>6. CASE \E c \in Ticks : Tick(c)
  BY <1>1, <1>2, <1>6, ReadKeeps DEF Tick, disk, clock, Callers
<1>7. CASE \E c \in Ticks : Pass(c)
  BY <1>1, <1>2, <1>7, PassKeeps
<1>8. CASE \E j \in Jobs : Add(j) \/ Remove(j) \/ Finish(j)
  BY <1>1, <1>2, <1>8, AddKeeps, RemoveKeeps, FinishKeeps
<1>9. CASE List
  BY <1>1, <1>2, <1>9, ReadKeeps DEF List, disk, clock, Callers
<1>10. CASE AgentCall
  BY <1>1, <1>2, <1>10, AgentKeeps
<1>11. CASE \/ \E j \in Jobs : \/ Take(j) \/ PutBack(j) \/ Discard(j)
                              \/ FiringComes(j) \/ ClaimAges(j)
            \/ Crash
  BY <1>1, <1>2, <1>11, WorldKeeps
<1> QED
  BY <1>3, <1>4, <1>5, <1>6, <1>7, <1>8, <1>9, <1>10, <1>11, Zenon DEF Next

LEMMA Invariance == Spec => []IInv
BY InitGood, NextKeeps, PTL DEF Spec

\* Until two store calls collide or a file operation fails, a job whose addJob()
\* has returned and that no removeJob() named is in jobs.json, whatever passes,
\* marks, reloads and crashes do in between.
THEOREM KeptInFile == Spec => []JobsKept
<1>1. IInv => JobsKept
  BY DEF IInv, JobsKept, Good, TablesGood, KeptIn
<1> QED
  BY <1>1, Invariance, PTL

-----------------------------------------------------------------------------
(***************************************************************************)
(* The store implements JobTable, until it is broken.                      *)
(***************************************************************************)
\* The rename that ends save(): an edit or a claim becomes durable at once.
LEMMA RenameMaps ==
  ASSUME TypeOK, Good, NEW c \in Callers, Rename(c)
  PROVE  Table!Next
<1>1. /\ CallGood(c) /\ pc[c] = "rename" /\ tmp = {Whole(mem)}
      /\ file.table \in Tables /\ mem \in Tables
  BY ContentTables DEF TypeOK, Good, CallGood, InStep, Rename
<1>2. file'.table = mem /\ Waiting' = Waiting /\ now' = now
  BY <1>1, ContentTables DEF Rename, clock, queue, Waiting
<1>3. ASSUME NEW j \in Jobs, j \in DOMAIN file.table, mem = Without(file.table, j)
      PROVE  Table!Delete(j)
  BY <1>2, <1>3 DEF Table!Delete, Without
<1>4. ASSUME NEW j \in Jobs, NEW r \in Record, mem = With(file.table, j, r)
      PROVE  j \in DOMAIN file'.table /\ file'.table[j] = r /\ Table!OnlyAt(j)
  BY <1>1, <1>2, <1>4, WithTable DEF Table!OnlyAt, With
<1>5. ASSUME NEW j \in Jobs, NEW r \in Record, mem = With(file.table, j, r), Created(j, r)
      PROVE  Table!Create(j)
  BY <1>2, <1>4, <1>5 DEF Table!Create, Created
<1>6. ASSUME NEW j \in Jobs, NEW r \in Record, mem = With(file.table, j, r), Completed(j, r)
      PROVE  Table!Complete(j)
  BY <1>2, <1>4, <1>6 DEF Table!Complete, Completed
<1>7. ASSUME NEW j \in Jobs, StagedClaim(j)
      PROVE  Table!Claim(j)
  <2>1. /\ j \in DOMAIN file.table /\ file.table[j].enabled /\ file.table[j].next <= now[j]
        /\ mem = With(file.table, j, Claimed(file.table[j]))
    BY <1>7 DEF StagedClaim
  <2>2. file'.table = [file.table EXCEPT ![j].running = TRUE]
    <3>1. \A i \in DOMAIN file.table :
            mem[i] = IF i = j THEN Claimed(file.table[j]) ELSE file.table[i]
      BY <2>1 DEF With
    <3>2. DOMAIN mem = DOMAIN file.table
      BY <2>1 DEF With
    <3>3. mem = [i \in DOMAIN file.table |->
                   IF i = j THEN Claimed(file.table[j]) ELSE file.table[i]]
      BY <1>1, <3>1, <3>2, TableIs
    <3> QED
      BY <1>1, <1>2, <2>1, <3>3, TableIs DEF Claimed
  <2> QED
    BY <1>2, <2>1, <2>2 DEF Table!Claim
<1>8. CASE c = Agent
  <2>1. StagedEdit
    BY <1>1, <1>8 DEF CallGood, Unsaved
  <2> QED
    BY <1>3, <1>5, <1>6, <2>1, Zenon DEF StagedEdit, Table!Next
<1>9. CASE c # Agent
  <2>1. StagedClaim(current[c])
    BY <1>1, <1>9 DEF CallGood, Unsaved
  <2>2. current[c] \in Jobs
    BY <1>1, <2>1, TableIs DEF StagedClaim
  <2> QED
    BY <1>7, <2>1, <2>2, Zenon DEF Table!Next
<1> QED
  BY <1>8, <1>9

\* The other steps of save() leave the file as it is.
LEMMA SaveMaps ==
  ASSUME TypeOK, Good, NEW c \in Callers, Save(c)
  PROVE  [Table!Next]_<<file.table, Waiting, now>>
<1>1. CASE Stringify(c) \/ OpenTmp(c)
  BY <1>1 DEF Stringify, OpenTmp, disk, clock, queue, Waiting
<1>2. CASE WriteTmp(c)
  <2>1. pc[c] = "write" /\ fd[c] = "tmp"
    BY <1>2 DEF WriteTmp, Good, CallGood, InStep
  <2> QED
    BY <1>2, <2>1 DEF WriteTmp, clock, queue, Waiting
<1> QED
  BY <1>1, <1>2, RenameMaps DEF Save

\* enqueueJob() after a saved claim: the file has the job as claimed.
LEMMA SubmitMaps ==
  ASSUME TypeOK, Good, NEW c \in Ticks, ClaimSettled(c)
  PROVE  [Table!Next]_<<file.table, Waiting, now>>
<1>1. c \in Callers /\ c # Agent /\ CallGood(c) /\ mem \in Tables
  BY CronAssumption DEF Good, Callers, TypeOK
<1>2. pc[c] = "saved"
  BY <1>1 DEF ClaimSettled, Good, NoneFailed
<1>3. mem = file.table
  <2>1. \A d \in Callers : d # c => pc[d] = "idle"
    BY <1>1, <1>2 DEF Good, Alone, Saving
  <2> QED
    BY <1>2, <2>1 DEF Good, Settled, Unsaved
<1>4. ClaimReady(current[c])
  BY <1>1, <1>2 DEF CallGood, Saving
<1>5. /\ current[c] \in Jobs /\ current[c] \in DOMAIN file.table
      /\ file.table[current[c]].running
  BY <1>1, <1>3, <1>4, TableIs DEF ClaimReady
<1>6. PICK accepted \in BOOLEAN : Submit(c, accepted)
  BY <1>2 DEF ClaimSettled
<1>7. file' = file /\ now' = now /\ hand' = hand
  BY DEF ClaimSettled, disk
<1> DEFINE pushed == {current[c]} \cap (IF accepted THEN DOMAIN mem ELSE {})
<1>8. Waiting' = Waiting \cup pushed
  <2>1. inbox' = [j \in Jobs |-> inbox[j] + (IF j \in pushed THEN 1 ELSE 0)]
    BY <1>6 DEF Submit
  <2>2. ASSUME NEW j \in Jobs PROVE inbox'[j] > 0 <=> inbox[j] > 0 \/ j \in pushed
    <3>1. inbox[j] \in Nat
      BY DEF TypeOK
    <3> HIDE DEF pushed
    <3> QED
      BY <2>1, <3>1
  <2>3. pushed \subseteq Jobs
    BY <1>5
  <2> HIDE DEF pushed
  <2> QED
    BY <1>7, <2>2, <2>3 DEF Waiting
<1>9. CASE pushed = {}
  BY <1>7, <1>8, <1>9
<1>10. CASE pushed = {current[c]}
  <2>1. Table!Submit(current[c])
    BY <1>5, <1>7, <1>8, <1>10 DEF Table!Submit
  <2> QED
    BY <1>5, <2>1, Zenon DEF Table!Next
<1> QED
  BY <1>9, <1>10

\* Every step of the store is a step of the table, leaves it alone or breaks it.
LEMMA StepMaps ==
  ASSUME IInv, [Next]_vars
  PROVE  [~Intact' \/ Table!Next]_<<file.table, Waiting, now>>
<1> SUFFICES ASSUME Intact' PROVE [Table!Next]_<<file.table, Waiting, now>>
  OBVIOUS
<1>1. TypeOK /\ Good /\ ~faulted'
  BY IntactBack, Zenon DEF IInv
<1> USE DEF disk, clock, calls, queue, history
<1>2. CASE UNCHANGED vars
  BY <1>2 DEF vars, Waiting
<1>3. CASE \E c \in Callers : Save(c)
  BY <1>1, <1>3, SaveMaps
<1>4. CASE \E c \in Callers : SaveFails(c)
  BY <1>1, <1>4, Zenon DEF SaveFails
<1>5. CASE \E c \in Ticks : Tick(c) \/ TickLoaded(c)
  BY <1>5 DEF Tick, TickLoaded, Waiting
<1>6. CASE \E c \in Ticks : ClaimSettled(c)
  BY <1>1, <1>6, SubmitMaps
<1>7. CASE \E j \in Jobs : Add(j) \/ Remove(j) \/ ClaimAges(j)
  BY <1>7 DEF Add, Remove, ClaimAges, Waiting
<1>8. CASE List \/ AgentCall
  BY <1>8 DEF List, AgentCall, ListLoaded, Return, Waiting
<1>9. CASE \E j \in Jobs : Take(j)
  <2>1. PICK j \in Jobs : Take(j)
    BY <1>9
  <2>2. Waiting' = Waiting
    BY <1>1, <2>1 DEF Take, Waiting, TypeOK
  <2> QED
    BY <2>1, <2>2 DEF Take
<1>10. CASE \E j \in Jobs : PutBack(j)
  <2>1. PICK j \in Jobs : PutBack(j)
    BY <1>10
  <2>2. Waiting' = Waiting
    BY <1>1, <2>1 DEF PutBack, Waiting, TypeOK
  <2> QED
    BY <2>1, <2>2 DEF PutBack
<1>11. CASE Crash \/ \E j \in Jobs : Finish(j) \/ Discard(j)
  <2>1. file' = file /\ now' = now /\ Waiting' \subseteq Waiting
    BY <1>11 DEF Crash, Finish, Discard, Waiting
  <2> QED
    BY <2>1 DEF Table!Next, Table!Leave
<1>12. CASE \E j \in Jobs : FiringComes(j)
  <2>1. PICK j \in Jobs : FiringComes(j)
    BY <1>12
  <2>2. Table!Fire(j)
    BY <2>1 DEF FiringComes, Table!Fire, Waiting
  <2> QED
    BY <2>2, Zenon DEF Table!Next
<1> QED
  BY <1>2, <1>3, <1>4, <1>5, <1>6, <1>7, <1>8, <1>9, <1>10, <1>11, <1>12, Zenon DEF Next, Pass

\* Until two store calls collide or a file operation fails, jobs.json changes by
\* whole operations on one job, whatever crash cuts a save short; a job comes to
\* its turn only while the file has it as claimed, is claimed only for a firing
\* that is due, and markJobRun() takes no firing back.
THEOREM Implements == Spec => ImplementsTable
<1>1. Init => Table!Init
  <2> SUFFICES ASSUME Init PROVE Table!Init
    OBVIOUS
  <2>1. file.table = << >> /\ now = [j \in Jobs |-> 0]
    BY ContentTables, EmptyTable DEF Init
  <2>2. Waiting = {}
    BY DEF Init, Waiting
  <2> QED
    BY <2>1, <2>2 DEF Table!Init
<1>2. IInv /\ [Next]_vars => [~Intact' \/ Table!Next]_<<file.table, Waiting, now>>
  BY StepMaps
<1> QED
  BY <1>1, <1>2, Invariance, PTL DEF Spec, ImplementsTable, Table!Spec
==============================================================================
