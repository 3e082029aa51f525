# Shizuha: a TLA+ verification of the gateway's message paths

Shizuha runs long-lived agents. A *gateway* process per agent receives messages
from Connect (the platform's messaging server), chat services, timers and cron,
puts them in one inbox, runs one turn at a time, and sends replies and
acknowledgements. What a user loses when this code is wrong is a message: never
processed, processed twice, acknowledged and then lost, or delivered again and
again. The specifications beside this file are about that.

All paths are relative to the repository. Line numbers are in `PROJECT.json`
(`map`), one entry per TLA+ definition.

## 1. Inventory

| part | code | state | operations | in the project |
|---|---|---|---|---|
| Gateway inbox | `src/gateway/inbox.ts` | queue, admitted continuations, the parked resolver, arrival sequence, heartbeat count, ingress seal, work session flag | tryPush, next, pushFront, resumeAdmitted, drainForRecovery, seal/unseal, clear | `Inbox` |
| Main loop | `src/gateway/agent-process.ts` | the row in hand, busy flags, provider admission wait, roll-drain waiter | start, processNextInboxMessage, processInboxMessage, processMessage | consumer in `Inbox`; control flow in `ConnectDelivery`, `RuntimeRoll` and `DeferredReplay` |
| Connect client | `src/connect-client/index.ts`, `src/gateway/channels/connect.ts` | socket, timers, lifecycle generation, idempotency window, replay count | connect, handleMessage, ackMessageProcessed, reconnect, stop | ingress and acks in `ConnectDelivery`; life cycle in `ConnectClient` |
| Session store | `src/state/store.ts` (SQLite) | processing ledger, provider deferrals, turns, tool attempts, recovery episodes | one synchronous transaction each | ledger and deferrals in `ConnectDelivery`; recovery episodes in `DeferredReplay` |
| Outbound delivery queue | `src/gateway/delivery-queue.ts` | one JSON file per entry, `failed/`, the retry timer | enqueue, ack, failDelivery, recoverPending, retry loop | `DeliveryQueue` |
| Runtime roll drain | `src/shared/runtime-roll-drain.ts` + agent-process | lease, expiry timer, waiter, ingress fence | arm, markReady, expire, dispose; the controller's two probes (`runtimeRollBusyGate` of `src/daemon/manager.ts`) | `RuntimeRoll`, `TurnBoundary` |
| Expensive-turn recovery | `src/agent/expensive-turn-guard.ts`, agent-process, store | samples, episode, one released row in flight | trip, drain, compact and commit, verify, pump, acknowledge | `DeferredReplay` |
| Cron | `src/cron/{scheduler,store}.ts` | job file, its array in memory, claims | tick, claim, complete, reclaim; add, remove and list from the tools | `CronStore` |
| Daemon link to Hive | `src/daemon/{daemon-link-client,runtime-lane-fence-state}.ts` | socket and its generation, reconnect timer, highest lane applied and its file | start, stop, connect, configuration, deletion, recovery action, health probe | `DaemonLink` |
| Task registry | `src/tasks/registry.ts` | status, output, waiters, retention | create, complete, fail, kill, wait | not modelled: one synchronous method each; what was met is in section 3 |
| Daemon policies | `src/daemon/{provision-gate,runtime-reconcile-backoff,runtime-roll-deferral,recovery-actions}.ts`, `src/shared/stuck-latch-recovery.ts` | counters, deadlines | pure decisions | not modelled: nothing interleaves within them, unit tests enumerate them |
| Daemon manager, Kubernetes backend, dashboard, brokers | `src/daemon/*` | external processes, credentials | orchestration and HTTP | not modelled: I/O whose effect lies outside the repository |
| Agent loop, providers, tools, prompts, memory | `src/{agent,provider,tools,prompt,state/compaction.ts,...}` | one turn | calls to a language model | not modelled: a turn is an environment choice |
| Bridges, MCP proxies | `src/{claude,codex,antigravity,openclaw}-bridge`, `mcp-*` | child processes, sockets | adapters | not modelled |
| TUI, web, CLI, VS Code, Tauri, voice, browser | — | presentation, devices | — | not modelled |

`PROJECT.json` lists every part with its reason.

How the parts interact:

- A channel calls `Inbox.tryPush`. If the loop is parked in `next()`, a push may
  resolve its promise; otherwise the row is queued. All of this is on one
  JavaScript thread, so one method call is one step, and what interleaves is
  what happens between calls.
- The loop takes a row and processes it with awaits in between. On the way a
  row may be put back at the head (`pushFront`: a rollout checkpoint, a failed
  prewarm) or as an *admitted continuation* (`resumeAdmitted`: the provider
  refused and the input was stored).
- The Connect server keeps a message until `agent.message_processed` arrives
  and replays what is unprocessed at each connection. The client suppresses
  what its window of 2048 ids remembers. The durable ledger
  (`session_inbound_processing`) answers whether a replay is already done.
- A rollout controller leases the agent's next turn boundary over HTTP. The loop
  stops there, the ingress of channels and inbox is fenced, and a second probe
  decides whether the process is replaced. Nobody has to release the lease: it
  lapses, and is noticed by its timer or by whoever reads it first.
- The daemon that runs the agents keeps a WebSocket to Hive, which sends it the
  lane (model, harness, release) that each agent shall run on, numbered by
  generation; the daemon persists it, records it in a file and reports its health.
- Replies for chat channels go through the delivery queue, whose entries
  outlive the process.

What is hard: rows put back while notices are being held, coalesced or
replaced; the wake-up of the parked loop; crashes between the steps that
complete a message; replays suppressed by a window that does not know what
became of the first copy; a lease that is checked, awaited, lost and taken over
between the steps of a loop that holds a row; late answers and late socket events of a
client that was stopped and started again; a recovery that is begun while another
is being replayed; calls that share one array in memory while each is
suspended in its own save; handlers that await the daemon while their socket is
replaced and newer lanes are applied; overlapping passes of an interval timer over files
that several workers rename. `PROJECT.json` (`hazards`) lists each at its line
with the properties that watch it.

What correctness means, component by component:

- *Inbox*: no row that could be taken waits unseen; an admitted continuation is
  neither dropped nor overtaken; notices held by a work session neither vanish
  nor interrupt it; order by class and arrival is not disturbed by any step but
  those that put rows in front.
- *Connect delivery*: an acknowledged message is durably completed; a completed
  one never runs again; an uncompleted one always keeps an executable copy;
  every one is completed eventually.
- *Delivery queue*: an unsent message stays on disk, in a file that can be parsed; the
  first attempt is not duplicated; a message is repeated only for a crash or a file
  operation that failed; what is acknowledged stays gone; every attempted entry settles.
- *Roll drain*: `ready` means no turn runs and none will start; the ingress
  fence and the waiter do not outlive the lease; a replacement the gate allows
  loses no arrival; a put-back row is neither lost nor doubled; the agent goes on
  if the controller dies.
- *Connect life cycle*: a running client has exactly one of a socket, an armed
  timer and an authentication of its generation, a stopped one none; a broker
  that is late does not disable it; it comes to a connection that lasts.
- *Recovery and replay*: no row is dropped by a drain, a second trip, a crash or
  a verdict; one row is out at a time; a row runs again only after a crash; every
  row of a verified episode is replayed.
- *Daemon link*: a running link has exactly one of a socket and a timer; a lane that Hive
  was told is applied stays applied or is superseded; the fence is not ahead of the
  agent's configuration; Hive hears of the desired lane in the end.
- *Cron*: a firing is submitted once, and once more only for two store calls that meet
  halfway; an added job stays in the file; a due job is run.

## 2. Modules

| module | models |
|---|---|
| `SeqFilter` | the array idioms of the code (filter, findIndex, splice) as non-recursive operators |
| `Inbox` | inbox.ts and its consumer |
| `InboxProofs` | what the array idioms keep, and the theorems of `Inbox` |
| `ReliableDelivery` | what the server may rely on over crashes and losses: the abstract specification |
| `ConnectDelivery` | Connect server contract (external), client ingress, loop, ledger |
| `ConnectProofs` | its theorems, and that it implements `ReliableDelivery` |
| `DeliveryQueue` | delivery-queue.ts at the granularity of its awaits |
| `DeliveryProofs` | its theorems |
| `TurnBoundary` | what a drain promises about turns: the abstract specification |
| `RuntimeRoll` | the lease, the ingress fence, the loop's waiter, the controller's gate |
| `RollProofs` | its theorems, and that it implements `TurnBoundary` |
| `ConnectClient` | start, stop, authentication, timers and socket events of the client |
| `ClientProofs` | its theorems |
| `RowLedger` | what a session may rely on about the rows it put off, over crashes: the abstract specification |
| `DeferredReplay` | recovery of an expensive turn, the ledger of deferred rows, the pump |
| `ReplayProofs` | its theorems, and that it implements `RowLedger` |
| `JobTable` | what the agent may rely on of its jobs over crashes: the abstract specification |
| `CronStore` | the job file, the scheduler's passes, the agent's tools and turns |
| `CronProofs` | its theorems, and that it implements `JobTable` |
| `DaemonLink` | the daemon's socket to Hive, the lanes of an agent, their fence and its file |
| `LinkProofs` | its theorems |

The model constants are given in the `.cfg` files; the specifications are
instantiated directly.

### Inbox

A row is a message object: an identity, a kind, a task key and an arrival
sequence. The kind is all that the regular expressions and `metadata` checks of
`gatewayInboxClass` and its companions tell apart. Two values of the key
(`k1` and `NoKey`) suffice for "same task", "another task". Every method is one
action; `tryPush` is split by outcome (coalesced heartbeat, row held, row that
wakes the loop, row queued). The consumer holds at most one row and may
finish it, put it back, or resume it; the restore at startup
and the replay bootstrap are actions too. What a restored or replayed
row may be is `FrontKinds`.

### ConnectDelivery and ReliableDelivery

One action per step between which something else can happen: the server posts
and replays, frames and acks travel, the connection is lost with both, the
client admits, suppresses or drops a frame, the loop takes a row, ends the turn,
clears the stored input, records the completion, sends the ack; the process may
be replaced at any step, which keeps only `ledger` and `deferred`. The inbox is
abstracted to a count of rows per message and the resumed row. A turn is what it
does to the message: end, deferral (stored and resumed), refusal of the deferral
(`Another provider input remains pending`), abandonment after a failed
compaction, putting back.

The abstract `ReliableDelivery` is a sender that keeps messages and a receiver that
may begin the work on one as often as it is interrupted, records it as done once,
and reports it after that. The refinement maps the direct messages that the
server has stored to `stored`, the one between `StartTurn` and the ledger
(`Working`) to `working`, the ledger to `done`, and the acknowledgements that have
arrived to `told`; replays, the window, deferrals and the inbox stutter. A turn that is put
back, deferred or abandoned and a restart are `Interrupt`. Notices and probes are not
mapped: they are acknowledged on receipt, whatever becomes of them.

Abstractions: one provider and model at a time, so at most one stored input per
owner; the age limit of replays behaves like the cap; the signature check and the
suppression of terminal content are a set `Silent`. The window has size 2 in the
runs, so that it overflows.

### DeliveryQueue

A worker is whoever runs an async function of the class: the channel that
enqueued an entry, the startup recovery, and each pass of the interval timer, which
`setInterval` starts whether or not the last one is over. Each step ends at an await.

An entry has four files: `json` (pending), `tmp` (what `failDelivery` renames),
`moving` (`{id}.moving.tmp` of `moveToFailed`) and `failed`. A file is absent, or holds a
`retryCount`, or cannot be parsed: blank since it was truncated, garbled since two writers
wrote it. `writeFile` is two steps, `Open` (truncate) and `Write`, and what a worker has
opened (`fd`) follows the file through renames and is lost with it, so two workers can
tear `{id}.tmp` and the torn file can become `{id}.json`. `via` is the file a worker is
about to write or rename; `Throws` is the `catch` of `moveToFailed` (a direct write to
`failed/`) or of `failDelivery` (the entry stays).

`loadPending` lists the directory (`Load`) and then reads entry by entry (`LoadEntry`); what it
cannot parse (`LoadCorrupt`) or fails to read (`LoadFails`) it unlinks (`Clean`), a
message that was never sent included. Any awaited file operation may fail
(`StepFails`, counted by `faults`). `todo` is what a pass has read, and may be stale.
A crash keeps the files as they are, torn ones too.

Abstractions: `ack`'s rename and unlink are one step; `enqueue` is atomic, since its `tmp`
is nobody else's until the entry is listed, and a failed one enqueues nothing; a backoff
elapses at any time except while a file step on that entry is under way (5 s at
least against milliseconds); the time-to-live and a permanent error are choices (`GiveUp`,
`Ways`); what stops is the process, not the machine, so a completed write survives.

### RuntimeRoll and TurnBoundary

A step is what the JavaScript thread does between two awaits. The loop is a
program counter: `top` (the head of the `while`), `waiting` (for the release of
the lease), `deadline` (for the provider), `parked` (in `next()`), `got` (its
promise is resolved, the continuation has not run), `admitted`, `turn`,
`unwinding` (the outcome is known, the `finally` block is still to come),
`returned` and `stopped`. That `got` is a state of its own is what lets
a lease be armed between the arrival of a row and its admission. Time is one flag:
`due` says that `leaseUntil` has passed, and a later step (`TimerFires`, or any
step that reads `active`) notices it. `Arm` is the whole HTTP handler, including
the cancelled provider wait and the promotion to `ready`; `Probe` and `Confirm` are
the two calls of the gate, with everything that may happen between them.

The abstract `TurnBoundary` has two flags, `held` and `working`. The drain maps
`state = "ready"` to the first and the admitted-row latch to the second.

Abstractions: the inbox is the set of its rows (order and held notices are
`Inbox`'s subject; here any queued row may be next); the fences of the channels
and the seal of the inbox are one variable, because the code sets and lifts them
in the same block; a channel without a fence makes the whole agent unfenced
(`Fenceable`); a turn is its outcome; `stop()` ends the process. The
drain of a recovery episode is not part of this module.

### ConnectClient

One action is what the thread does between two awaits. A socket is known by the
generation that opened it and stays in `sockets` until its close event is
delivered, so a socket that `stop()` discarded can still deliver `open` and `close` to
a client that has been started again. An authentication is in `auths` until it is
answered, with who awaits it (`start()`, the retry timer, the reconnect), and its
answer may come after a stop and a start. `reconnectTimer` is one variable with
what it will do, because the code has one field for both retries.
`reconnectAttempt` is capped where it stops to matter (`ReauthAfter`).

Abstractions: delays are not measured, a timer fires at any time and the rate
limit window ends at any time; the server refuses an expired token with a close
that may or may not be of the authentication class; the ping timer and a client
without a platform URL, which never starts, are left out. A token of the
environment that the server has revoked before its expiry is left out too.

### DeferredReplay and RowLedger

`head` and `ledger` are the tables of the session store and survive a crash; the
inbox, the row in hand and the pump do not. The recovery is three steps, as in
the code: the drain (all queued rows join the episode that is open, or a new
one), the commit of the successor after the compaction (with the rows that
arrived meanwhile) or its failure, and the bootstrap turn with its verdict. The pump releases a row, waits for
`processInboxMessage` to acknowledge it, and releases the next; its timer,
`deferredReplayInFlight` and the pause and pacing checks are variables or flags
of their own. After a crash `Resume` is the startup code.

Abstractions: rows are numbered in the order they arrive and the inbox hands
over any of them; the guard's sample window and the pump's budget are the
nondeterministic flags `paused` and `paced`, which begin and end at any time; a
row that `deferProviderInput` has stored is `ConnectDelivery`'s subject.

`RowLedger` knows no inbox, pump or process. An episode begins, holds rows back
while it is open, and is closed by a verdict. An approved episode lets its rows go,
in their order, and none while another is out, unless it is that one again. A row is done with only after it has run, a
ledger entry never goes back, and no row runs that the current episode holds back. The
refinement reads the tables of the store as they are; the history variable `approved`
(the episodes of which a bootstrap was verified) is there for it, because a verified
head is overwritten by the next episode. A crash, the moves of a row between
inbox and hand, and a compaction that fails are stutters; a restart that
hands the released row out again is one too.

### CronStore and JobTable

`mem` is the array that all callers share, `file` and `tmp` what is on disk. The
callers are the passes of the scheduler (`Ticks`: `setInterval` does not wait, and
the timer at 30 s and the second interval of 15 s coincide at every start) and the agent
with its tools and completions. Nothing serialises them: every call may begin while another
is suspended at one of its awaits: `load` (the file is read, the array not yet
replaced), `mkdir` (the array is changed, not yet stringified), `open`, `write`, `rename`,
and then `saved` or `failed` until its caller goes on.

A file is `whole` with a table, `blank` since a save truncated it, or `garbled`
since two wrote it; all saves share `jobs.json.tmp`, and `fd` says what has become of the file a
save has opened. `load()` makes an empty table of what it cannot read or parse
(`Read`, the second half of it when the read itself fails; `Crash` at startup), and the next save makes it
durable. A rename whose file another save has renamed away throws, and any step of a save may fail
(`SaveFails`): `tick()` then abandons its pass with the claim in memory (`PassFails`), a tool
reports an error.

Two history variables say what has gone wrong. `faulted`: a read or a write has
failed. `collisions`: how often two calls met halfway, that is, a call reloaded while
another was saving, or changed the array while another was saving or had read what will
replace it (`Meets`). `Intact` is neither. A firing is a number, due once its time has come
(`now`), and a claim is old after the half hour of the reclaim (`old`).

`JobTable` has three variables besides `broken`: the durable records, the jobs that wait for their turn or
have it, and the firings so far. Its table changes by whole operations on one job
(create, delete, claim, complete); a job is submitted only while its record
is marked as running, claimed only when enabled and due, and a completion neither takes `next` back nor
revives a job that is over. A process that stops loses only what waits. The
refinement maps `file` to the table, `inbox \cup hand` to what waits and `~Intact` to
`broken`, after which `JobTable` promises nothing: the
array in memory, the awaits of a save and the passes are stutters, and the
rename of a save is the step.

Abstractions: a load sees the file as it is when it begins; claims have one age per job,
so a copy read from before a claim is as old as the claim; schedules are not
parsed; `configure_heartbeat` is a reload, a removal and an addition, each of them an
action. `addJob` and `markJobRun` enforce the caps on interval jobs, so
`disableRunawayIntervalJobs` finds something, and `load()` saves, only at the load of a
startup over a file of an older version (`agent-process.ts:2153`); that save is left out. So is a second process
that writes `jobs.json`, which the comment at `scheduler.ts:57` mentions: in this
repository only the agent process makes a `CronStore`. As above, the process stops, not the machine.

### DaemonLink

The sockets are as in `ConnectClient`: known by their generation until their close
event is delivered, so that a late one meets the link that replaced it. A frame is
handled in two steps, up to the await of the daemon's callback (`Apply`, `Delete`,
`Recover`) and from there (`Settle` on the same socket, `Overtaken` otherwise); what
is awaited in between is a member of `handlers`, and a health probe under way one of
`probes`. `fence` is the map in memory, `file` what `writeRuntimeLaneFences` left
on disk, `config` the lane in the agent's persisted configuration, and a crash keeps
the last two. `acked` and `reported` are what Hive has heard; Hive itself is
external, and may send any lane at any time, delayed and conflicting ones too.
`Overlap` says whether a lane may arrive while another is being applied.

Abstractions: one agent; a digest is one of two values; a frame that changes nothing
of this (heartbeats, snapshots, configurations without a lane, malformed frames) is
left out, as is a client without a token, which never starts, and a `start()` of a
link that runs, which nobody calls. Frames come on a registered connection only.

## 3. Runs

| run | distinct states | shows |
|---|---|---|
| `inbox` | 97 k | three rows of every class, pushed, put back, resumed, restored, replayed, drained and cleared: 2 invariants, 3 action properties, and that every row that is not a parked notice is taken |
| `connect` | 328 k | one message of each sort, one loss, one restart: 4 invariants (what is acknowledged, lost, stored, run again), that the direct message is completed, and the refinement of `ReliableDelivery` |
| `connect_acked` | – | *violation*: a lost acknowledgement is never sent again by the same process |
| `delivery` | 140 k | one entry with its channel, the recovery and two passes that may overlap, one restart, one failing file operation: the first attempt stays alone and every attempted entry settles, overlaps and torn files included; unless passes overlap, nothing unsent is lost but by a read that fails, no repeat without a crash or a failed operation, and nothing acknowledged comes back |
| `delivery_acked` | – | *violation*: overlapping passes resurrect an acknowledged entry |
| `roll` | 68 k | two rows, two competing requests, three probes: 4 invariants, a liveness property, and the refinement of `TurnBoundary` |
| `client` | 118,525 | five calls of start and stop, every way to authenticate: one driver, no disabling, a lasting connection |
| `replay` | 97 k | three rows, two episodes, one crash: nothing dropped, one row out, repeats only by a crash, verified episodes are replayed, and the refinement of `RowLedger` |
| `replay_fenced` | – | *violation*: rows of an episode that a second trip displaces are never listed again |
| `cron` | 525 k | two jobs, a pass of the scheduler and the agent with every interleaving of their awaits, one mishap (a collision of calls, a crash, a failed read or write, a refused push, a discarded turn or a slow one): a submission too many costs a collision, every due job is run, and, until a collision or a failed operation, no job is written away and the store implements `JobTable` |
| `cron_duplicate` | – | *violation*: `list_jobs` between a claim and its save makes the job be submitted twice |
| `link` | 43 k | three lanes applied one at a time, one mishap (a loss, a crash or a restart of the link), refused and failed writes: one socket or timer, acknowledged lanes durable, the fence not ahead of the configuration, no older health after newer, and Hive hears that the desired lane is applied |

`TypeOK` of each module is a theorem (`TypeCorrect`), and an invariant of no run.

Bounds. `MaxRows` bounds the objects ever created; three rows include the
conflicts the rules distinguish: a held pair (which makes a digest of its
own), a continuation beside a notice, and a message or heartbeat that triggers. In
ConnectDelivery one message is enough to meet any number of copies of itself (live,
replayed, restored, stored); the others are there for the window, the cap and the
single deferral. For the delivery queue conflicts are per file: one entry with all
its workers (its channel, the recovery, two passes) shows every race, and
`MaxRetries = 2` reaches both the retry and the move; `MaxFaults = 1` fails any one
of the operations. `MaxSends`, `MaxLosses`,
`MaxCrashes` and `MaxMishaps` bound the counters. For the drain, two rows let one be in a
turn or put back while the other arrives, two requests show extension and
takeover, and three probes are a first probe, a takeover and a confirmation, or a
gate that decides and a later probe; after the last the controller is dead, which
is when the agent must recover. For the client, five calls are three starts
and two stops, so an answer or a socket of the first generation can meet the second and the
third. For the replay, two episodes give a re-entry, a displaced episode and its
successor, and three rows one released, one waiting and one arriving. For cron, a
one-shot and a repeating job give a claim, a completion that
reschedules, one that disables, and a reclaim; one firing of each is enough for a second
submission of it; and one pass with the agent, which reloads, adds, removes and marks, gives every pair of calls
that can meet. Once `MaxMishaps` are spent, store calls begin and turns end only while no
call is under way (`Free`); up to then they begin at any time. For the link, two
generations and a conflicting digest are what the comparison distinguishes, and one mishap
lets a handler, a frame or a close event of one connection, or of one process,
meet the next. The safety theorems hold for every value of all of them.

Four properties have a condition, and each condition is needed: without it TLC finds a
violation within the same bounds.

- `overlapped` of `DeliveryQueue` records that two passes were under way together;
  `NothingLost`, `SentOncePerCrash` and `AckedStaysGone` are claimed of the histories where
  that has not happened. `delivery_acked` shows one of the things that happen when it has;
  another is that two passes tear `{id}.moving.tmp`, rename it to `{id}.json`, and the next
  load unlinks it.
- `misread` is the set of entries that `loadPending` failed to read, which it unlinks;
  `NothingLost` is claimed of the others. `faults` counts in `SentOncePerCrash` (the unlink of an `ack` that fails
  leaves the entry) and excludes the copy in `failed/` from `AckedStaysGone`.
- `JobsKept` and `ImplementsTable` are claimed while the store is `Intact`. A
  collision and a failed read each break `JobsKept` (the traces are below), and
  `cron_duplicate` shows what a collision does to the claims. `DuplicatesCostCollisions` has no condition: it
  counts them.

`CHECK_DEADLOCK FALSE`: those models stop where their bounded environment has
nothing left to send and the process is idle, as the program does. In `cron` the
interval fires for ever and deadlock is checked.

Fairness, and why the code justifies it:

- *Inbox*: the loop is `while (this.running)` around `next()`, so `LoopNext` is
  weakly fair; a turn ends (it has timeouts) though it may be put back many
  times before, so `Finish` is strongly fair.
- *ConnectDelivery*: `scheduleReconnect` re-arms until it is stopped; frames and
  acks on an open socket arrive (TCP); the loop takes rows and its synchronous
  steps follow each other. `EndTurn` is strongly fair: a provider that refuses
  for ever is not covered. Crash and loss are not fair and bounded.
- *DeliveryQueue*: the interval fires, a handler answers, files are written, and
  a pass that meets an eligible entry again and again attempts it
  (strong fairness: a pass may find it inside its backoff each time).
- *RuntimeRoll*: time passes, the timer fires, the loop's continuations run, and
  a turn that is begun again and again finishes at last. Nothing is assumed of
  the controller: `EventuallyServed` holds although it stops probing at any point.
- *ConnectClient*: armed timers fire, a request is answered (`fetch` fails at
  last), the rate limit window passes, a socket whose token is refused is closed.
  That an authentication succeeds, an accepted socket opens and an open one
  lasts is strongly fair: the server is not down for ever, though it may fail any
  finite number of times.
- *DeferredReplay*: the loop takes what is queued, a compaction ends, timers fire, a pause
  and a pacing delay end (both are deadlines), and the process restarts after a
  crash. `EndTurn` and `EndBootstrap` are strongly fair: a turn that trips the guard every time
  is not covered.
- *CronStore*: file operations complete and callbacks follow. The interval, the
  loop's taking a submitted job and the end of its turn are strongly fair, because
  a turn may be put back again and again, and, after the last mishap, a call waits for
  another to return; a claim grows old because time passes. `EventuallyRun` therefore assumes that collisions and failures
  are finitely many: a store whose every call meets another is not covered.
- *DaemonLink*: timers fire, sockets report what becomes of them, callbacks and probes
  settle (a probe has a deadline of two minutes). That Hive sends the desired lane
  again, that the daemon accepts it and that the file is written is strongly fair: none
  is refused for ever.

The findings are stated in `PROJECT.json` with the lines that they contradict.
What was met besides, and has no run of its own:

- `inbox.ts:7` promises FIFO within a class; a row put in front keeps a later
  row of its class behind rows of others. `OrderKept` states
  what does hold: only the steps that put rows in front disturb the order.
- If `deferProviderInput` throws in the prewarm path (`agent-process.ts:4841`),
  the row is not put back and `inbox.busy` stays set until the next turn ends.
- An entry whose process died before its first attempt had an outcome has count
  0; the retry loop skips such entries (`delivery-queue.ts:365`) and the startup recovery is the
  only pass that takes it. `EventuallySettled` covers attempted entries.
- A released row that is drained into a new episode is never acknowledged under
  the old one: `deferredReplayInFlight` stays set and the pump of the old episode
  stands until a restart. `EventuallyReplayed` excludes that case.
- A job whose `addJob()` reported success can be missing from the file and from memory: a
  pass (or `list_jobs`) has read the file and is suspended in `load()` (`scheduler.ts:58`);
  `addJob` pushes onto the array and waits in `mkdir`; the load returns and replaces the array
  (`store.ts:239`); the save stringifies that one (`store.ts:336`). It is a violation of `JobsKept` without
  its condition, nine states long.
- `load()` takes every failure for a missing file (`store.ts:240`): after one transient read
  error, or the load of a torn `jobs.json`, the array is empty and the next save erases all jobs.
- `loadPending` removes a pending entry that it fails to read for whatever reason
  (`delivery-queue.ts:272`), so one transient read error deletes a message that was never sent,
  although line 12 says of a restart "recoverPending() replays all entries with backoff".
- A daemon-provisioned token that was revoked but has not expired is taken again
  at every re-authentication not caused by a close of the authentication class.
- With `AGENT_PASSWORD` and no broker, a 429 that answers the login awaited by
  `start()` leaves no token, and `start()` then sets `running` to false
  (`connect-client/index.ts:415`): Connect stays down until its owner starts it again,
  although the comment at line 915 says that `scheduleAuthRetry()` waits out the window.
- A lane is checked against the fence before the await of `applyConfig` and recorded
  after it without a second look (`daemon-link-client.ts:714`). With
  `Overlap = TRUE`, TLC finds that a newer lane and a delayed older one that both
  pass before either is recorded leave the older one in the map and in the file,
  after Hive was told that the newer is applied, while line 351 calls the map
  "Highest durably applied lane per agent". The callback in `manager.ts` answers
  without a real await, so with it only frames handed over in one turn of the event loop
  come to this.
- `fail` and `complete` of the task registry set the status of a task that is already
  `killed` (the timeout of a background command calls `fail` whatever has
  become of it, `tools/builtin/bash.ts:551`), and notify again: a caller of
  `waitForNextTerminal`, which waits for a "previously-unreported terminal task"
  (`tasks/registry.ts:411`), may be given a task that was reported before.
- `appendOutput` shortens `output` at its limit but not `outputOffset`
  (`tasks/registry.ts:116`), so once a poll has read past the limit the next
  deltas of a task with more output are empty or incomplete.

## 4. Theorems

Proved with TLAPS for all values of the constants, from the assumptions
`InboxAssumption`, `ConnectAssumption`, `DeliveryAssumption`, `RollAssumption`,
`ClientAssumption`, `ReplayAssumption`, `LinkAssumption` and `CronAssumption` (the sets are disjoint, null values are
not members, the bounds natural numbers, at least one entry, at least one bootstrap
attempt).

| module | theorem | property |
|---|---|---|
| `InboxProofs` | `FilterKeeps` | filtering keeps exactly the wanted elements, in order |
| | `TypeCorrect` | `TypeOK` |
| | `WakeupNeverLost` | `NoLostWakeup` |
| | `SequencesDistinct` | `ArrivalSequencesDistinct` |
| | `ContinuationsKept` | `ContinuationKept` |
| | `HeldNotices` | `NoticesHeld` |
| | `OrderIsKept` | `OrderKept` |
| `ConnectProofs` | `TypeCorrect` | `TypeOK` |
| | `AckIsDurable` | `AckMeansCompleted` |
| | `CompletedRunsNoMore` | `NeverRunAgain` |
| | `NothingSilentlyLost` | `DirectNotLost` |
| | `StoredInputQueued` | `DeferredIsQueued` |
| | `Implements` | `ImplementsReliable` |
| `DeliveryProofs` | `TypeCorrect` | `TypeOK` |
| | `NothingIsLost` | `NothingLost` |
| | `FirstAttemptIsAlone` | `FirstAttemptAlone` |
| | `OncePerCrash` | `SentOncePerCrash` |
| | `AckedRemoved` | `AckedStaysGone` |
| `RollProofs` | `TypeCorrect` | `TypeOK` |
| | `ReadyIsIdle` | `ReadyMeansIdle` |
| | `LeaseEndsWell` | `NobodyStranded` |
| | `QuietlyReplaced` | `QuietReplacement` |
| | `RowsKept` | `AcceptedKept` |
| | `Implements` | `ImplementsBoundary` |
| `ClientProofs` | `TypeCorrect` | `TypeOK` |
| | `ExactlyOneDriver` | `OneDriver` |
| | `BrokerKeepsRetrying` | `BrokerNeverDisabled` |
| `ReplayProofs` | `TypeCorrect` | `TypeOK` |
| | `NoRowDropped` | `NothingDropped` |
| | `OneRowOut` | `OneReleasing` |
| | `RepeatsAfterCrash` | `RepeatedOnlyByCrash` |
| | `Implements` | `ImplementsLedger` |
| `LinkProofs` | `TypeCorrect` | `TypeOK` |
| | `SingleLink` | `OneLink` |
| | `AckedDurable` (lanes one at a time) | `AckedIsDurable` |
| | `FenceApplied` (lanes one at a time) | `FenceIsApplied` |
| | `HealthOrdered` (lanes one at a time) | `HealthNotOlder` |
| `CronProofs` | `TypeCorrect` | `TypeOK` |
| | `NeverTwice` | `DuplicatesCostCollisions` |
| | `KeptInFile` | `JobsKept` |
| | `Implements` | `ImplementsTable` |

Arguments:

- *Inbox*. Sequence distinctness needs more than itself: the numbers of queued
  rows are below `nextArrivalSequence`, and `pushFront` numbers its rows below the
  least queued one. That a replacement keeps the number of the row it replaces is
  what makes distinctness an invariant of the whole queue. The wake-up theorem
  needs that a parked loop holds no row and that whatever is queued then is
  a parked notice, which every step that leaves the loop parked preserves. `OrderKept`
  needs two facts of the whole history: a new row has arrived after every queued one
  (`SequencesDistinct`), and only rows of the last class carry a task key
  (`KeyedRows`), so a replacement stays in the class of the row it replaces. The array idioms
  are the first lemmas of `InboxProofs`, proved by induction on lengths through
  the least counterexample (`LeastNat`), because the library's induction theorems take an
  operator argument.
- *ConnectDelivery*. `AckMeansCompleted` and `NeverRunAgain` are carried by
  `StageRecorded`, what the loop's stage says of the ledger: before the completion
  is recorded the row in hand is not completed, afterwards it is, and only then,
  or for a replay already completed, is a direct message acknowledged.
  `DirectNotLost` needs `OnlyPosted` (frames and the window mention
  only messages the server has stored), so that a message just posted
  cannot be suppressed. `DeferredIsQueued` is inductive with
  the third part of `StageRecorded`: the stored input is cleared before the
  completion is. The refinement needs one more invariant, `CopiesPosted`: whatever is
  queued, stored or in hand came from the server.
- *DeliveryQueue*. The inductive invariant has two parts, `Always /\ (~overlapped => Calm)`,
  and a step is one of three kinds, each with its frame: work on an entry, the steps of a
  pass between entries, and what comes from outside (enqueue, backoff, crash).
  `Always` is what holds in every history. `FirstAttemptAlone` needs of it that, until its first attempt has
  an outcome, only the entry's channel is at it and every count read of it is zero
  (`Unissued`, `FirstAttempt`): the retry loop skips such a count, which is all that keeps
  the two apart. `AckAfterSend` says that whoever is about to acknowledge has sent.
  `Calm` is what holds while no two passes overlap: there is one pass at most (`OnePass`)
  and one worker at an entry (`OneAtIt`); what a pass may still attempt can be parsed and nobody is
  at it (`Ahead`), and so can what somebody is at (`Present`); a pending file is whole or
  absent (`Whole`), because what a worker writes is its own until the rename
  (`Writing`); the count stays zero during the first attempt and a move that ends it is
  inside the backoff (`ChannelShy`); a pass has not yet read what it has listed (`Apart`). The
  properties then follow: nothing unsent is out of the readable files (`Kept`), an entry that is held and not being acknowledged
  has a send to spare (`Budget`), an acknowledged one is held by nobody (`Gone`), and
  without a fault `failed/` holds only what nobody else does (`Unfailing`).
- *RuntimeRoll*. `ReadyMeansIdle` and `NobodyStranded` are inductive together
  with `ReadyIsSealed`: a busy agent cannot be ready, so it is not sealed, which
  is what makes a takeover by another request, which resets the state to
  draining without lifting any fence, harmless. `QuietReplacement` needs
  that a fenced ready lease is sealed (nothing arrives), that an allowance never
  meets a draining lease (so a later promotion cannot make an old allowance valid
  after arrivals), and that the version counts arrivals (`ArrivalsCounted`). The
  refinement is one lemma for the step that admits a row (the lease is not ready
  after it, because the agent is busy then) and one for all others.
- *ConnectClient*. `OneDriver` counts, so it is derived from `Shape`: one of four
  situations (stopped; connected; waiting for a timer; authenticating), each with
  what it excludes (`Driven`), at most one socket per generation, and a token or the
  knowledge that one is needed wherever `connect()` comes next (`TokenKnown`: else it
  would begin nothing). That everything in `sockets` and `auths` has a
  generation not above the current one (`Past`) makes a new generation find none of its
  own, which is why a late event of an old one cannot be mistaken for it.
- *DeferredReplay*. `OneReleasing` is about a set in the store, while the pump is
  in memory and is lost by a crash. `LedgerGood` is what survives: a row is
  released only in a verified episode and in order, so the pump of a restarted
  process, which takes the first row left, takes the one that had been released
  and no other. `NothingDropped` is `AllKept` (every arrived row is somewhere); its hard
  steps are the acknowledgement and the drain, which forget an item: `ItemsGood`
  says that an item queued with an episode stands for a row of the ledger,
  `ReplayedRan` that a row the ledger calls replayed has run, and `StageGood` that a row
  being acknowledged has. `RepeatedOnlyByCrash` rests on `CopyInv`, what holds between
  crashes: a row has one item at most (`OneItem`); an item of an episode stands for the
  row released there, and the pump knows of its own (`OutKnown`); a row that is due, left
  in the episode of the head or of the pump and not out, is due in one episode only and
  has no item (`DueOnce`); and a row that may still run has a run to spare (`RunsLeft`).
  That a pump whose episode is no longer the head stalls is what keeps a row drained into
  a newer episode from being released by the old one too. The refinement adds
  `ApprovedGood` (the pump's episode and a verified head are approved) and
  uses both invariants: every call of the pump lets one row go or none (`PumpLets`, where
  the order says that a row already out is the one to go), `OutKnown` and `StageGood` make an
  acknowledgement a legal finish, and `DueOnce` says that the row whose turn ends
  is not held back by the head.
- *DaemonLink*. Sockets and handlers have numbers from one to the last one given
  (`Numbered`), so a new connection finds no socket and no handler of its own, and a
  closed one (number 0) none at all. Then `OneLink` is inductive. `AckedIsDurable`
  needs that memory and file agree, that a lane being applied on the current
  socket is above the fence, and that there is one such lane at most (`HandlersGood`): the
  last is where `~Overlap` is used, and what two lanes in flight break (section 3).

- *CronStore*, `NeverTwice`. Here nothing is assumed: calls overlap, tear each other's file and
  fail. The invariant `Costs` is an account. `Taken` is the submissions of a job and the claims
  of it that are on their way to one (`Claiming`); a table is `Sound` when no job it offers as due
  has been counted as often as `now` and the collisions allow. The array is sound, and so is all that may still
  replace it: what a call has read or is about to write, and what is in `tmp` while somebody has it
  open; the file is too, up to claims not yet written to it (`FileSound`). A claim that spoils one of the
  others' tables is by definition a collision, which raises the allowance of all; an empty
  table, of a torn file or a failed read, offers nothing. The claims under way are
  counted by the cardinality of a set of passes (`OneLess`, `ClaimingMoves`).
- *CronStore*, `KeptInFile` and `Implements`. `IInv == TypeOK /\ (Intact => Good)`. No step
  makes a store intact again (`IntactBack`), so each lemma about a step may assume it before
  and after, and that no call met another in it. `Good` is: while a call saves, all others
  are idle (`Alone`); none has failed (`NoneFailed`); array and file agree whenever no save is
  under way (`Settled`); and each call knows what it is about (`CallGood`): what a pass is about to
  write is the file with one due job claimed, what the agent is about to write is the file with
  one job created, removed or completed (`StagedEdit`), and the job `addJob()` will report is in the array
  (`AddReady`). That is the refinement too, as the rename of a save makes the array the file. The run
  `cron_duplicate` breaks `Settled`, by a reload between claim and save.

Only model-checked: all liveness (fairness is out of this prover's reach), which is
one property of each passing run, and the four violations.

## 5. Plan, and what is not modelled

Left, in this order:

1. The join of `Inbox` and `RuntimeRoll` on the row that a checkpoint puts back: a
   started task notice becomes an ordinary held notice again, and may be
   dropped by a heartbeat. No run covers that composition.
2. Two lanes in flight at once in `DaemonLink` (`Overlap = TRUE`), with a claim that
   holds of them.

Not modelled, and why:

- The greater part of the repository is user interfaces (TUI, web, VS Code,
  Tauri), HTTP handlers, provider adapters, prompts, tools, packaging. It holds no
  protocol state that a model could tell apart from what the language model or the user
  does, so a share of its lines comparable to the gateway's is out of reach.
- A turn of the agent is a choice of its outcome. What it says, how a context is
  compacted and what a tool does are outside the models; so is turn
  persistence.
- The daemon manager and the Kubernetes backend act on processes and pods outside
  the repository; the part that meets the agent, the gate of a rollout, is in
  `RuntimeRoll`.
- The bridges (`claude-bridge`, `codex-bridge`, `antigravity-bridge`,
  `openclaw-bridge`) reimplement parts of the gateway loop around external
  processes, and the MCP proxies forward requests; each is a candidate for
  an instance of a model that is here.
