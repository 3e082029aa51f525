------------------------------ MODULE CronStore ------------------------------
(***************************************************************************)
(* Scheduled jobs: the JSON file of CronStore (src/cron/store.ts), the     *)
(* passes of CronScheduler over it (src/cron/scheduler.ts), and the agent  *)
(* that runs what they submit, marks it done and edits the jobs with its   *)
(* tools (src/tools/builtin/cron.ts, src/gateway/agent-process.ts).        *)
(*                                                                         *)
(* All share one array in memory, which load() replaces and save() writes  *)
(* out, and nothing serialises the calls: each suspends at every file      *)
(* operation, and two saves share jobs.json.tmp.  One action is what the   *)
(* thread does between two awaits.                                         *)
(*                                                                         *)
(* Abstractions: nextRunAt is the number of a firing, due once the time of *)
(* that firing has come; a load sees the file as it is when it begins; a   *)
(* claim of a job is as old as the last one made, also in a copy read from *)
(* before it; the refusals of addJob and the cap on interval polls only    *)
(* bound what a job may be.                                                *)
(***************************************************************************)
EXTENDS Integers, FiniteSets

CONSTANTS
  Jobs,        \* jobs the tools may add, each once
  Once,        \* the delay jobs, which run once; the others repeat for ever
  Ticks,       \* passes of the scheduler that may be under way together
  MaxFirings,  \* bound: firings of a repeating job
  MaxMishaps   \* bound: crashes, failed reads and writes, refused submissions,
               \* discarded turns, half hours a submitted job waits, and
               \* collisions; after it, calls begin and turns end one at a time

Agent == "agent"
Callers == Ticks \cup {Agent}

ASSUME CronAssumption ==
  /\ Once \subseteq Jobs /\ Agent \notin Ticks /\ IsFiniteSet(Ticks)
  /\ MaxFirings \in Nat \ {0} /\ MaxMishaps \in Nat

VARIABLES
  mem,        \* CronStore.jobs
  file, tmp,  \* the contents of jobs.json, and of jobs.json.tmp as a set
  fd,         \* per caller: what the file it has opened to write is by now
  now,        \* firings of a job whose time has come
  old,        \* jobs claimed more than 30 minutes ago
  pc,         \* per caller: the await it is suspended at
  buffer,     \* what it has read, or is about to write
  todo,       \* due jobs a pass has still to claim
  current,    \* the job a call is about
  inbox,      \* per job: its submissions that wait for the loop
  hand,       \* the job whose turn runs, as a set
  added,      \* history: jobs whose addJob() has succeeded
  removed,    \* history: jobs removeJob() was called for
  submitted,  \* history: submissions of a job, less its claims given up
  faulted,    \* history: a file operation of load() or save() has failed
  collisions, \* history: times a call of the store met another halfway
  mishaps

disk == <<file, tmp, fd>>
calls == <<pc, collisions, buffer, todo, current>>
queue == <<inbox, hand>>
clock == <<now, old>>
history == <<added, removed, submitted, faulted, mishaps>>
vars == <<mem, disk, clock, calls, queue, history>>

NoJob == "no job"

Record == [enabled : BOOLEAN, running : BOOLEAN, next : 1..(MaxFirings + 1)]
Tables == UNION {[S -> Record] : S \in SUBSET Jobs}

\* What a file may hold.  Nothing can be parsed of one that was truncated, or
\* written by two at once, and load() makes an empty table of it.
Contents == [state : {"whole", "blank", "garbled"}, table : Tables]
Whole(table) == [state |-> "whole", table |-> table]
Blank == [state |-> "blank", table |-> << >>]
Garbled == [state |-> "garbled", table |-> << >>]

\* A file on which a second writer writes from its start, past a first one.
Overwritten(content, table) ==
  IF content = Blank THEN {Whole(table)} ELSE {Whole(table), Garbled}

Without(table, j) == [i \in DOMAIN table \ {j} |-> table[i]]
With(table, j, record) ==
  [i \in DOMAIN table \cup {j} |-> IF i = j THEN record ELSE table[i]]

Firings(j) == IF j \in Once THEN 1 ELSE MaxFirings

Init ==
  /\ mem = << >> /\ file = Whole(<< >>) /\ tmp = {}
  /\ fd = [c \in Callers |-> "none"]
  /\ now = [j \in Jobs |-> 0] /\ old = {}
  /\ pc = [c \in Callers |-> "idle"]
  /\ buffer = [c \in Callers |-> << >>]
  /\ todo = [c \in Ticks |-> {}]
  /\ current = [c \in Callers |-> NoJob]
  /\ inbox = [j \in Jobs |-> 0] /\ hand = {}
  /\ added = {} /\ removed = {}
  /\ submitted = [j \in Jobs |-> 0]
  /\ faulted = FALSE /\ collisions = 0 /\ mishaps = 0

-----------------------------------------------------------------------------
\* The store.

Unsaved == {"mkdir", "open", "write", "rename"}
Saving == Unsaved \cup {"saved"}

\* Call c is about to reload while another saves what the array is now, or to
\* change the array while another saves it or has read what will replace it.
Meets(c, at) ==
  \E d \in Callers \ {c} :
    \/ at = "load" /\ pc[d] \in Saving
    \/ at = "mkdir" /\ pc[d] \in Saving \cup {"load"}

Suspend(c, at) ==
  /\ pc' = [pc EXCEPT ![c] = at]
  /\ collisions' = IF Meets(c, at) THEN collisions + 1 ELSE collisions

Drop(c) == buffer' = [buffer EXCEPT ![c] = << >>]

Spare == mishaps + collisions < MaxMishaps

Mishap == Spare /\ mishaps' = mishaps + 1

Free == Spare \/ \A c \in Callers : pc[c] = "idle"

\* Mutant: a claim is never given up.
NeverReclaimed(table, j) == ~table[j].running

\* getDueJobs(): a claim more than 30 minutes old no longer counts.
Claimable(table, j) == ~table[j].running \/ j \in old

Due(table) ==
  {j \in DOMAIN table :
     table[j].enabled /\ table[j].next <= now[j] /\ Claimable(table, j)}

\* Mutant: the firing just served is found again.
SameFiring(j) == now[j]

\* computeNextRun(): the first firing still to come.
NextFiring(j) == now[j] + 1

\* Mutant: claimJob() leaves the job as it was.
UnmarkedClaim(record) == record

Claimed(record) == [record EXCEPT !.running = TRUE]

\* markJobRun(): a one-shot is over, a repeating job waits for the next firing.
Marked(j, record) ==
  IF j \in Once THEN [record EXCEPT !.running = FALSE, !.enabled = FALSE]
  ELSE [record EXCEPT !.running = FALSE, !.next = NextFiring(j)]

Fresh(j) == [enabled |-> TRUE, running |-> FALSE, next |-> NextFiring(j)]

\* Mutant: the new job is written without the others.
AddedAlone(table, j) == [i \in {j} |-> Fresh(j)]

Added(table, j) == With(table, j, Fresh(j))

\* load() begins: it reads the file, or fails to, and then the table is empty.
Read(c) ==
  /\ pc[c] = "idle"
  /\ Suspend(c, "load")
  /\ \/ /\ buffer' = [buffer EXCEPT ![c] = file.table]
        /\ UNCHANGED <<faulted, mishaps>>
     \/ /\ Mishap /\ faulted' = TRUE
        /\ Drop(c)

\* save(): the array is written out after mkdir(), as it is by then.
Stringify(c) ==
  /\ pc[c] = "mkdir"
  /\ buffer' = [buffer EXCEPT ![c] = mem]
  /\ Suspend(c, "open")
  /\ UNCHANGED <<mem, disk, clock, todo, current, queue, history>>

\* writeFile() first truncates the file, the one of another save as well.
OpenTmp(c) ==
  /\ pc[c] = "open"
  /\ tmp' = {Blank}
  /\ fd' = [fd EXCEPT ![c] = "tmp"]
  /\ Suspend(c, "write")
  /\ UNCHANGED <<mem, file, clock, buffer, todo, current, queue, history>>

\* The file that was opened may have been renamed, or replaced, since.
WriteTmp(c) ==
  /\ pc[c] = "write"
  /\ \/ /\ fd[c] = "tmp"
        /\ \E x \in tmp : \E y \in Overwritten(x, buffer[c]) : tmp' = {y}
        /\ UNCHANGED file
     \/ /\ fd[c] = "file"
        /\ file' \in Overwritten(file, buffer[c])
        /\ UNCHANGED tmp
     \/ fd[c] = "gone" /\ UNCHANGED <<file, tmp>>
  /\ fd' = [fd EXCEPT ![c] = "none"]
  /\ Drop(c)
  /\ Suspend(c, "rename")
  /\ UNCHANGED <<mem, clock, todo, current, queue, history>>

\* What a descriptor is to, once the file at the first path is renamed.
Renamed(what) == CASE what = "tmp" -> "file" [] what = "file" -> "gone" [] OTHER -> what

\* The rename throws when another call has already renamed the file away.
Rename(c) ==
  /\ pc[c] = "rename"
  /\ IF tmp = {}
     THEN Suspend(c, "failed") /\ UNCHANGED disk
     ELSE /\ Suspend(c, "saved")
          /\ file' \in tmp /\ tmp' = {}
          /\ fd' = [d \in Callers |-> Renamed(fd[d])]
  /\ UNCHANGED <<mem, clock, buffer, todo, current, queue, history>>

\* Any of these operations may fail, and what was opened is closed.
SaveFails(c) ==
  /\ pc[c] \in Unsaved
  /\ Mishap /\ faulted' = TRUE
  /\ fd' = [fd EXCEPT ![c] = "none"]
  /\ Drop(c)
  /\ Suspend(c, "failed")
  /\ UNCHANGED <<mem, file, tmp, clock, todo, current, queue, added, removed, submitted>>

-----------------------------------------------------------------------------
\* One pass of the scheduler.

\* The interval fires, whether or not the last pass is over.
Tick(c) ==
  /\ Free
  /\ Read(c)
  /\ UNCHANGED <<mem, disk, clock, todo, current, queue, added, removed, submitted>>

\* claimJob() of the first job left that is still due, or the end of the pass.
ClaimNext(c, jobs, table, count) ==
  LET left == jobs \cap Due(table) IN
  \/ /\ left = {}
     /\ mem' = table
     /\ submitted' = count
     /\ todo' = [todo EXCEPT ![c] = {}]
     /\ current' = [current EXCEPT ![c] = NoJob]
     /\ Suspend(c, "idle")
     /\ UNCHANGED old
  \/ \E j \in left :
       /\ mem' = With(table, j, Claimed(table[j]))
       /\ old' = old \ {j}
       /\ submitted' = [count EXCEPT ![j] =
                          IF table[j].running THEN @ - 1 ELSE @]
       /\ todo' = [todo EXCEPT ![c] = left \ {j}]
       /\ current' = [current EXCEPT ![c] = j]
       /\ Suspend(c, "mkdir")

TickLoaded(c) ==
  /\ pc[c] = "load"
  /\ ClaimNext(c, Due(buffer[c]), buffer[c], submitted)
  /\ Drop(c)
  /\ UNCHANGED <<disk, now, queue, added, removed, faulted, mishaps>>

\* enqueueJob() of a claim that is saved: a sealed inbox refuses the message,
\* and a job removed meanwhile is not submitted.
Submit(c, accepted) ==
  LET pushed == {current[c]} \cap (IF accepted THEN DOMAIN mem ELSE {}) IN
  /\ inbox' = [j \in Jobs |-> inbox[j] + (IF j \in pushed THEN 1 ELSE 0)]
  /\ IF accepted THEN UNCHANGED mishaps ELSE Mishap
  /\ ClaimNext(c, todo[c], mem,
       [j \in Jobs |-> submitted[j] + (IF j \in pushed THEN 1 ELSE 0)])

\* tick() catches what save() throws: the claimed job is not submitted.
PassFails(c) ==
  /\ todo' = [todo EXCEPT ![c] = {}]
  /\ current' = [current EXCEPT ![c] = NoJob]
  /\ Suspend(c, "idle")
  /\ UNCHANGED <<mem, old, inbox, submitted, mishaps>>

ClaimSettled(c) ==
  /\ pc[c] \in {"saved", "failed"}
  /\ IF pc[c] = "failed" THEN PassFails(c)
     ELSE \E accepted \in BOOLEAN : Submit(c, accepted)
  /\ UNCHANGED <<disk, now, buffer, hand, added, removed, faulted>>

-----------------------------------------------------------------------------
\* The agent: its tools and its turns.

Editing == Free /\ pc[Agent] = "idle"

About(j) == current' = [current EXCEPT ![Agent] = j]

Add(j) ==
  /\ Editing
  /\ j \notin added \cup removed \cup DOMAIN mem
  /\ mem' = Added(mem, j)
  /\ About(j) /\ Suspend(Agent, "mkdir")
  /\ UNCHANGED <<disk, clock, buffer, todo, queue, history>>

Remove(j) ==
  /\ Editing
  /\ j \in DOMAIN mem
  /\ mem' = Without(mem, j)
  /\ removed' = removed \cup {j}
  /\ About(NoJob) /\ Suspend(Agent, "mkdir")
  /\ UNCHANGED <<disk, clock, buffer, todo, queue, added, submitted, faulted, mishaps>>

\* list_jobs reloads the file.
List ==
  /\ Editing
  /\ Read(Agent)
  /\ UNCHANGED <<mem, disk, clock, todo, current, queue, added, removed, submitted>>

ListLoaded ==
  /\ pc[Agent] = "load"
  /\ mem' = buffer[Agent]
  /\ Drop(Agent)
  /\ Suspend(Agent, "idle")
  /\ UNCHANGED <<disk, clock, todo, current, queue, history>>

Take(j) ==
  /\ hand = {} /\ inbox[j] > 0
  /\ hand' = {j} /\ inbox' = [inbox EXCEPT ![j] = @ - 1]
  /\ UNCHANGED <<mem, disk, clock, calls, history>>

\* The turn is over: markJobRun(), which ignores a job no longer there.
Finish(j) ==
  /\ Editing /\ j \in hand
  /\ hand' = {}
  /\ IF j \in DOMAIN mem
     THEN /\ mem' = With(mem, j, Marked(j, mem[j]))
          /\ old' = old \ {j}
          /\ About(NoJob) /\ Suspend(Agent, "mkdir")
     ELSE UNCHANGED <<mem, old, pc, collisions, current>>
  /\ UNCHANGED <<disk, now, buffer, todo, inbox, history>>

\* A rollout or a provider deferral puts the row back, and does not mark it.
PutBack(j) ==
  /\ Editing /\ j \in hand
  /\ hand' = {} /\ inbox' = [inbox EXCEPT ![j] = @ + 1]
  /\ UNCHANGED <<mem, disk, clock, calls, history>>

\* A discarded compaction drops the row, and does not mark it either.
Discard(j) ==
  /\ Mishap
  /\ Editing /\ j \in hand
  /\ hand' = {}
  /\ UNCHANGED <<mem, disk, clock, calls, inbox, added, removed, submitted, faulted>>

\* A call of the agent returns; addJob() reports success once it is saved.
Return ==
  /\ pc[Agent] \in {"saved", "failed"}
  /\ added' = IF pc[Agent] = "saved" /\ current[Agent] # NoJob
              THEN added \cup {current[Agent]} ELSE added
  /\ About(NoJob) /\ Suspend(Agent, "idle")
  /\ UNCHANGED <<mem, disk, clock, buffer, todo, queue, removed, submitted, faulted, mishaps>>

-----------------------------------------------------------------------------
\* Time and crashes.

Waiting == {j \in Jobs : inbox[j] > 0} \cup hand

FiringComes(j) ==
  /\ j \in DOMAIN file.table /\ now[j] < Firings(j)
  /\ now' = [now EXCEPT ![j] = @ + 1]
  /\ UNCHANGED <<mem, disk, old, calls, queue, history>>

\* Half an hour passes after the last claim of j, while j still waits or not.
ClaimAges(j) ==
  /\ j \in DOMAIN file.table \ old /\ file.table[j].running
  /\ IF j \in Waiting THEN Mishap ELSE UNCHANGED mishaps
  /\ old' = old \cup {j}
  /\ UNCHANGED <<mem, disk, now, calls, queue, added, removed, submitted, faulted>>

\* The process dies and starts again with load(), which may fail here too.
Crash ==
  /\ Mishap
  /\ \/ mem' = file.table /\ UNCHANGED faulted
     \/ mem' = << >> /\ faulted' = TRUE
  /\ pc' = [c \in Callers |-> "idle"]
  /\ fd' = [c \in Callers |-> "none"]
  /\ buffer' = [c \in Callers |-> << >>]
  /\ todo' = [c \in Ticks |-> {}]
  /\ current' = [c \in Callers |-> NoJob]
  /\ inbox' = [j \in Jobs |-> 0] /\ hand' = {}
  /\ UNCHANGED <<file, tmp, clock, collisions, added, removed, submitted>>

-----------------------------------------------------------------------------
Save(c) == Stringify(c) \/ OpenTmp(c) \/ WriteTmp(c) \/ Rename(c)

Pass(c) == TickLoaded(c) \/ ClaimSettled(c)

AgentCall == ListLoaded \/ Return

Next ==
  \/ \E c \in Callers : Save(c) \/ SaveFails(c)
  \/ \E c \in Ticks : Tick(c) \/ Pass(c)
  \/ \E j \in Jobs : \/ Add(j) \/ Remove(j) \/ Take(j) \/ Finish(j)
                     \/ PutBack(j) \/ Discard(j)
                     \/ FiringComes(j) \/ ClaimAges(j)
  \/ List \/ AgentCall
  \/ Crash

Spec == Init /\ [][Next]_vars

\* The interval keeps firing and file operations return; the loop takes rows
\* and finishes a turn that is not put back every time; claims grow old.
Fairness ==
  /\ \A c \in Ticks : SF_vars(Tick(c)) /\ WF_vars(Save(c) \/ Pass(c))
  /\ WF_vars(Save(Agent) \/ AgentCall)
  /\ \A j \in Jobs : SF_vars(Take(j))
  /\ SF_vars(\E j \in Jobs : Finish(j))
  /\ WF_vars(\E j \in Jobs : ClaimAges(j))

FairSpec == Spec /\ Fairness

-----------------------------------------------------------------------------
\* No two calls have collided, and no file operation has failed.
Intact == collisions = 0 /\ ~faulted

\* What the agent may rely on: the file, and the jobs submitted to its inbox.
Table == INSTANCE JobTable
           WITH Job <- Jobs, table <- file.table, waiting <- Waiting, broken <- ~Intact

TypeOK ==
  /\ mem \in Tables /\ file \in Contents
  /\ tmp \subseteq Contents
  /\ fd \in [Callers -> {"none", "tmp", "file", "gone"}]
  /\ now \in [Jobs -> 0..MaxFirings] /\ old \subseteq Jobs
  /\ pc \in [Callers -> {"idle", "load", "failed"} \cup Saving]
  /\ buffer \in [Callers -> Tables]
  /\ todo \in [Ticks -> SUBSET Jobs]
  /\ current \in [Callers -> Jobs \cup {NoJob}]
  /\ inbox \in [Jobs -> Nat]
  /\ hand \subseteq Jobs /\ \A i, j \in hand : i = j
  /\ added \subseteq Jobs /\ removed \subseteq Jobs
  /\ submitted \in [Jobs -> Int]
  /\ faulted \in BOOLEAN /\ collisions \in Nat /\ mishaps \in 0..MaxMishaps

\* `running` is "set while a due job has been submitted to the inbox to
\* prevent duplicate enqueue" (store.ts:19): a job is submitted once for each
\* firing, and once more only for a claim given up after 30 minutes.
NoDuplicateEnqueue ==
  \A j \in Jobs : submitted[j] <= now[j]

\* What is true of it, however the calls overlap, saves tear each other's file
\* and reads fail: a submission too many costs a collision of store calls of its
\* own.  No crash, refusal, failed read or failed save can duplicate a firing.
DuplicatesCostCollisions ==
  \A j \in Jobs : submitted[j] <= now[j] + collisions

\* As long as no two calls have collided and no file operation has failed, a job
\* whose addJob() has returned, and that no one has removed, is in the file: no
\* reload, crash, claim or mark of another job writes it away.  (The condition
\* is needed: a load suspended across addJob() replaces the array the job was
\* pushed on, and a read that fails makes the array empty.)
JobsKept == Intact => added \ removed \subseteq DOMAIN file.table

\* Until a collision or a failed file operation, the store implements JobTable
\* over crashes at any await: the file changes by whole operations on one job, a
\* job is submitted only when the file has it as claimed, and no completion
\* takes a firing back.
ImplementsTable == Table!Spec

\* No job stays due for ever: it is run and marked, or removed, in the end.  No
\* crash between claim and completion, refused submission, discarded turn, failed
\* operation or collision wedges it.
OnFileDue(j) ==
  /\ j \in DOMAIN file.table
  /\ file.table[j].enabled /\ file.table[j].next <= now[j]

EventuallyRun == \A j \in Jobs : []<>~OnFileDue(j)
=============================================================================
