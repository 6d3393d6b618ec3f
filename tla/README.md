# alpha-tunnel in TLA+

A formal model of the tunnel in this repository: the coordinator that hands
tasks to agents, the files it survives restarts by, its accounts and inboxes, the
agents that attach to it and the handlers they run, the music bridge, and the
scripts that keep all of it going. The modules are translated from `src/` and
`scripts/` and checked with TLC on small instances; every safety property that is
checked there is proved with TLAPS for every instance. Paths below are relative to
the repository.

1. [The system](#1-the-system)
2. [Modules and code](#2-modules-and-code)
3. [Runs](#3-runs)
4. [Fairness](#4-fairness)
5. [Proofs](#5-proofs)
6. [Where the code and its comments part](#6-where-the-code-and-its-comments-part)
7. [Not modelled](#7-not-modelled)
8. [Plan](#8-plan)

## 1. The system

A coordinator ("host", usually on a VPS) accepts tasks over HTTP and leases them
to agents that long-poll it from machines behind NAT. Agents run the task and
report. An agent that loses its coordinator tries the others in its list and
returns to the primary when that is back. Around these sit a music bridge, a
billing module, an administration CLI and scripts that keep processes running.

| Component | State it keeps | Operations | What makes it correct |
|---|---|---|---|
| **Task queue** `src/host/queue.js` | tasks, pending list, parked polls, order of finished tasks, sweep timer | enqueue, lease, complete, fail, decline, undelivered, cancel, sweep, restore, close | no task lost, duplicated or leased more often than it allows; no lost wakeup; finished exactly once; only finished tasks forgotten |
| **Agent registry** `src/host/registry.js` | agents, superseded ids, per agent in-flight count, memory report and ledger of promises | register, heartbeat, touch, deregister, prune, admit, release | one registration per worker; the ledger is what is leased; no memory promised twice |
| **Routes** `src/host/server.js` | phase of start-up and close | agent plane, task plane, accounts plane, `ready`, `close` | nothing is served before everything is restored; close loses nothing that was answered |
| **Task journal** `src/host/journal.js` | file, one write in flight, one queued | load, changed, snapshot, flush | the file catches up with the queue; a crash leaves a file that was once true |
| **Receipt ledger** `src/host/receipts.js` | receipts, chain of writes | record, list, summary, load | one receipt per task that ended, across restarts |
| **Message store** `src/host/messages.js` | inbox, chain of writes | add, list, mark read, greeting, load | no note that was accepted is lost; one greeting |
| **Accounts** `src/host/auth/*` | users, invites, sessions, keys, failures and lockouts, chain of writes | invite, redeem, login, keys, status, passwords, revoke | an answer is in the file; nothing is taken back; what a login checks (status, lockout) holds when it ends |
| **Agent: attachment** `src/agent/agent.js`, `index.js` | id, host index, stood-down flag, heartbeat timer, abort controllers | register, poll, heartbeat, return to primary, stand down, stop | ends up attached where a coordinator answers; processes of one machine do not evict each other; stopping costs no result |
| **Agent: tasks** `src/agent/agent.js`, `load.js` | slots, executions with budget and grace, time stood aside | run, abort, abandon, decline, report, nap | a slot is freed whatever a handler does; work is taken at last; a failure is reported while the lease holds |
| **Load reports** `src/agent/load.js`, `common/protocol.js`, `registry.js` | last reading of the counters, last answer; last report on record | snapshot, report, record, rank | a machine is ranked by what it was like recently; no busy second is counted twice |
| **Memory store** `src/agent/memstore.js`, `handlers/memstore.js`, `memory.js` | entries in order of use, bytes used | put, get, delete, sweep, offer | memory lent once; within its budget, as long as no value may be larger than all of it |
| **Renders** `scripts/alpha-manager.mjs`, `handlers/alpha-render.js` | staging directories, output directory, ledger | approve, queue; render, collect | a render names its own image and that image exists |
| **Panel** `handlers/alpha-panel.js`, `firmware/crowpanel` | a conversation on a serial line; networks and host in the board | provision, scan, compile, flash | a reported success is about this task's command (of a board with the older sketch, only after a single probe) |
| **Other handlers** `handlers/*` | none | codex, update, coordination, grow, devices, echo, sysinfo | each runs one program once |
| **Music bridge** `src/bridge/music.js`, `handlers/alpha-music*.js` | downloads, a cache of tracks | generate, play, download, prune | a track is of one version |
| **Billing** `src/bridge/billing.js` | counters per month, subscriptions, customers | reserve, refund, checkout, webhook | what is used is what was queued; a live subscription is served |
| **Keeper** `scripts/keep-agent.mjs`, `self-update.mjs` | child, expected-exit flag, update in flight | spawn, restart, pull, stop | ends when asked, leaves nothing behind, runs what it pulled |
| **Self-heal** `scripts/alpha-selfheal.mjs` | streaks, repairs, last good build | probe, decide, repair, snapshot | bounded repairs, but for those no file tells of any more |
| **Standby** `scripts/standby-alpha.mjs` | misses, hits, two supervised programs | watch, take over, hand back, stop | hands back; the tunnel is up with Alpha; nothing left running |
| **Common** `src/common/*` | none | validation, retries, backoff, process-tree kill | a retried call may be handled twice |

**How they interact.** The coordinator is one JavaScript thread: a request
handler runs without interruption up to its next `await`. The queue calls the
registry synchronously (`canAdmit`, `admit`, `release`, `knows`). A finished
task is announced by `onTerminal` to the ledger, any change by `onChange` to
the journal; both write files asynchronously behind the queue's back. Agents
and coordinator share nothing but HTTP calls, each of which can be lost before
or after it was handled, be retried, or be handled after its sender gave up.
An agent process has two activities that interleave at every `await`: its loop
(register, poll, start tasks) and its heartbeat; each task it runs is a third.

**What is hard.** In the order of the hazards in `PROJECT.json`, each with its
line: a poll resolved in one turn and answered in the next; reports that arrive
after the lease, the registration or the task has ended; the six places where a
promise of memory is given back; a sweep that reclaims and re-leases several
tasks in one turn; journal writes that coalesce, trail and fail; a close or a
crash between a change and its write; heartbeats answered about an id the
process no longer has; registrations in flight while the process stops; two
processes of one machine; failing over and coming back; the checks of the
accounts service that precede a password hash and are not all repeated after it;
webhooks out of order; a file replaced while it is fetched; two loops that share
a child process; a serial line on which old answers come late; passes and renders
that are killed between acting and writing down that they did.

## 2. Modules and code

| Module | Models | In brief |
|---|---|---|
| `AgentRegistry` | the registry's decisions as operators on a function `registry[a]` | who is live or superseded, what can be admitted, what is offerable |
| `TaskQueue` | `queue.js` with the registry and the routes that drive both | one action per operation |
| `TaskLifecycle` | abstract: what one task may do | wait, lease, end, be forgotten |
| `CoordinatorRestart` | start-up, close, crash; `journal.js`, `receipts.js`, `restore` | what memory and the files say of each task |
| `AgentSessions` | agent loop, heartbeat, registration, supersession, failover | processes of one machine and their coordinators |
| `LoadReports` | `load.js`, the wire of `protocol.js`, `reportLoad` and `loadFactor` of `registry.js` | one machine's load, from its counters to its rank |
| `AgentTasks` | executions, slots and the load ceiling of `agent.js`, against the lease | a clock in seconds, numbered executions |
| `SaveChain` | `save`, `#writeNow` of `auth/store.js` and `messages.js` | a chain of writes as a value |
| `Accounts` | `auth/service.js`, `auth/store.js` and their routes | requests that check, hash, change and wait for their write |
| `Messages` | `messages.js`, its routes, the greeting at the start | one inbox |
| `Billing` | `billing.js`, `generate` of `music.js`; Stripe is external | one account |
| `MusicCache` | `download`, `audio`, `pruneCache`; `alpha-music-audio.js` | plays, tracks, slices |
| `MemStore` | `memstore.js`, its handler, `memorySnapshot` | entries and the last offer |
| `Renders` | `alpha-manager.mjs`, `alpha-render.js` | passes, renders, directories |
| `Panel` | `alpha-panel.js`, `crowpanel.ino` | two ends of a serial line |
| `SelfHeal` | `alpha-selfheal.mjs` | a pass and its state file |
| `Keeper` | `keep-agent.mjs`, `self-update.mjs` | two loops and a child |
| `Standby` | `standby-alpha.mjs` | a loop, a signal handler, two children |
| `FiniteSums`, `TaskQueueProofs`, `CoordinatorRestartProofs`, `AgentSessionsProofs`, `HostProofs`, `BridgeProofs`, `AgentProofs`, `ComponentProofs` | theorems | section 5 |
| `MC...` | instances for TLC | values for the constants; `MCComponents` puts twelve modules side by side |

`TaskQueue` extends `AgentRegistry`. `TaskQueue` implements `TaskLifecycle`
(checked and proved), and `CoordinatorRestart` takes its queue from
`TaskLifecycle`: it adds the files to *any* queue with that life cycle, so what
it shows does not depend on how the queue chooses agents. `AgentSessions` keeps
only the part of the registry that decides who holds a machine's place.
`Accounts` and `Messages` extend `SaveChain`. The other components share no
state with the queue or with each other: they meet it only as tasks, whose
life is the queue's. The
queue treats agents as the source of any report at any time, so nothing about
how an agent behaves is assumed there.

Operators introduced with "Slip:" are plausible mistakes in a definition; the
checks substitute each one for the definition it sits above and expect a
property to fail. They are not part of any specification.

### AgentRegistry, TaskQueue

`registry[a]` is the record of one registration id: whether it is absent, live
or superseded, the tasks in flight, what the machine last reported, what is
promised and the report the promises started from. The same worker registering
again is another id with the same `Instance`. Ids are never reused
(`randomUUID`), so an id that was superseded or dropped does not come back.

| Action | Code |
|---|---|
| `Register`, `Heartbeat`, `Deregister`, `Prune` | routes of the agent plane, `register`, `heartbeat`, `deregister`, `prune` |
| `Poll` | `/poll` and `lease`: a pending task, or park, or answer empty |
| `PollEnds` | the poll's timer, or the connection that closed |
| `Deliver`, `Undelivered` | the rest of the poll route, after `lease` resolved |
| `Complete`, `Fail`, `Decline` | result routes after their body arrived |
| `Enqueue`, `Cancel` | task plane |
| `Reclaim`, `ForgetFinished` | one lease, and the expired records, of `sweep` |

A turn is one action, with two exceptions. A dispatch continues as a microtask:
`handoff` holds the tasks whose poll has resolved and whose route has not yet
answered, and every other turn waits for it to be empty. A sweep may reclaim
several leases in its turn: `sweeping` lets `Reclaim` follow `Reclaim` while
the dispatches it caused are outstanding, and nothing else may intervene.

Lease, retention and heartbeat clocks are left out: any lease may be found
lapsed, any agent quiet, any prefix of finished tasks expired. Payloads are
left out; what of a task decides a placement is in `Capable`, `Target` and
`Needs`. A load rank is reduced to the in-flight count.

### CoordinatorRestart

`phase` runs off, up, closing, flushing, stopped. `Turn(t)` is one step of the
life cycle of one task (`onChange`, `onTerminal` included: `due`,
`ledgerDue`). A journal write takes a snapshot when it starts (`WriteStarts`),
and lands or fails as a whole (`WriteLands`, `WriteFails`), because the code
writes a temporary file and renames it. A change during a write sets `due`
once: changes coalesce. The ledger's writes form a chain; a failed one may end
the process (`record` drops its promise). `Crash` may come anywhere. `Start`
reads whatever file is there; `StartWithoutJournal` is a file that cannot be
read (left alone) or does not parse (moved aside). `Secret` are the tasks whose
payload names a credential; the journal leaves them out altogether.

`found` remembers how the last start went and `landed` that the last write did;
`clean` is a history variable: no crash and no failed write so far. So is `spent`:
of each task the leases it was ever given, less those it handed back unrun. No
process keeps it and a restart does not touch it, which is what lets
`RestoredBudget` compare what a task has spent before a restart with what it is
charged after it; at a mishap it starts from nothing and says no more.

### AgentSessions

All processes share an instance id, so registering supersedes. Per process:
`life`, `id`, `at` (#hostIndex), `stoodDown`, `loop` (where `start()` is
waiting), `beat` (the heartbeat in flight, with the id and host it was sent
under), `work`. A registration is sent, handled and received in three steps; a
sender that gave up leaves it in `stray`, to be handled later or lost. A poll is
handled and answered in one. Concurrency is 1. Left out: naps under load,
backoff delays, and the counting of missed heartbeats (any miss may be the one
that is acted on).

### AgentTasks

`run[n]` is the n-th execution the agent was given: on its way, running, aborted
by its budget, stuck past its abort, reporting, over. `Second` moves the clock,
and only when no timer of the agent is due, since a timer fires before a later
one; calls and handlers take any time. `Polls`, `Receives`, `HandlerEnds`,
`Aborts` and `Abandons` are `#pollOnce` and `#execute`: a handler that was aborted
has its grace to end in, at any moment of it and only as a failure, and is
abandoned after;
`ReportHandled` and `ReportLost` are a call of `#report` or `#decline` with
`fetchJson`'s retries; `Lapses` is the sweeper. The coordinator asks only who
holds a task, so an earlier execution's report does settle a later lease here.

### LoadReports

`sampler.base` is the reading of the counters the next figure is measured from and
`sampler.last` the answer `snapshot` gives again for an interval; `underWay` are the
reports on their way and `known` what the registry has of this machine. A figure is abstracted to where its
window begins (`from`, 0 for `busy: null`) and when it was taken. `Snapshot` is the
sampler, with counters that have moved on, stand still or cannot be read; `SendsLoad` is
a registration, a heartbeat or a poll that carries what it says, `Looks` the loop's own
look before it polls; `RegistrationRecorded`, `ReportRecorded` and `ReportDropped` are
the other end. A release that reports no load (`old`) may be started at any time.
`Recorded` is `loadReportFromQuery` and `reportLoad`, `Ranked` is `loadFactor`. Two
things are assumed: the two machines share one clock, never set back, and a report is
under way for at most `Transit`, its retries included.

### Accounts, Messages, SaveChain

A request is idle, checking, hashing, or awaiting its place in the chain of
writes. `...Begins` is what an operation does before its wait, `...Ends` what it
does after. A write takes its snapshot when its turn comes and lands or fails
whole; a restart loses what was not written. `failures` and lockouts are in
memory only, as in the code. Expiry may be found at any moment. `AccountsNext` is
grouped by the routes that lead to an operation (`PublicRoutes`, `InviteRoutes`,
`UserRoutes`, `KeyRoutes`) and what follows a hash (`AfterHash`).

### Billing, MusicCache

Everything between two awaits is a step. The accounts file is written in the turn
that changes it; a click that has reserved and not been answered is lost with the
process (`wasted`). Stripe keeps its own subscriptions and delivers events in any
order, again and again until one is acknowledged; `orderly` says they have come
in order so far. In `MusicCache` a track is its slices, each with the version of
the file it was cut from.

### MemStore, Renders, Panel, SelfHeal, Keeper, Standby

- `MemStore`: `entries` is a Map: of each key its value and the keys before it in
  order of use; `Put` drops, makes room and adds last in one step, as the code does.
  A value larger than the whole store is put like any other, if the configuration
  admits it. `Offer` is a memory snapshot the coordinator hears.
- `Renders`: `Pass`, `Approves` and `PassDies` are one invocation of the manager,
  which reads the ledger once and queues one by one; `Renders`, `Writes`,
  `ExitsWell`, `ExitsBadly` and `Killed` are the handler and the program it runs.
- `Panel`: `talk` is the handler's place in `converseOver`; `toBoard` and
  `toHost` the bytes under way; deadlines pass at any moment; a reset loses what
  the board had not read. The board saves what a command brings (`Takes`) before it
  joins a network and answers (`Replies`), and may be reset between. An `image` of 0
  is a sketch older than the handler, whose replies name no command; `nextReply` takes
  those as they are (`src/agent/handlers/alpha-panel.js:711`), and so does `Accepts`.
- `SelfHeal`: a pass is `PassBegins` (probe and decide), `Acts` per action,
  `PassSaves`; `CutShort` anywhere in between. `plan` is what the pass holds in
  memory, `performed` what was really done. `Skipped` is a pass that finds the lock of
  one that was killed, `StateTorn` a state file that does not parse, which is read as
  an empty one (`scripts/alpha-selfheal.mjs:138`); `cut` counts the repairs that no
  file tells of any more for either reason. Passes do not overlap: a lock is taken
  over after ten minutes, and the scheduled task kills a pass after five and starts
  none beside one that runs (`scripts/repair-alpha-host.ps1:520`). A pass that a person
  runs by hand for longer than that is outside the model.
- `Keeper`: `supervisor` and `updater` are the places of the two loops; that the
  agent has exited and that the keeper sees it are two steps.
- `Standby`: `turn` is the place of `run`, `handler` that of `shutdown`; a
  program is the record of a `Supervised`. The exit of the standby's process ends
  its timers (`Alive`), not its children.

## 3. Runs

All constants and bounds are in the `.cfg` files. `CHECK_DEADLOCK FALSE`
throughout: every model can come to rest legally (all tasks forgotten, the
bound on mishaps reached, processes gone).

| Run | Asks | Fleet |
|---|---|---|
| `task_queue` | Are tasks lost, doubled, over-leased or sent to a registration that is gone? | a laptop whose worker registers twice, a second machine; two tasks, one targeted at the laptop and asking for memory |
| `task_queue_memory` | Is what the registry promised what is leased? Does each end count once? | two machines, three tasks of one unit, memory at most two, one finished task kept |
| `task_queue_liveness` | Does a task get leased, and end? | two machines, of which one runs everything; two tasks, two attempts each |
| `restart` | Do files and memory agree through close, crash and failed writes? | a plain task with two attempts, a secret one with one, one agent, two mishaps |
| `sessions` | Do processes of one machine settle? Does stopping cost results? | two processes, one coordinator, one mishap |
| `failover` | Does an agent end up attached, and home? | one process, primary and standby, two mishaps |
| `components` | Does each component beside the queue keep what it promises? | one at a time: two requests on two accounts, an invite and two keys; an inbox of three notes; one paying account over two months; two tracks of two slices; a store of four units in a machine of nine; three renders; two panel tasks; four passes of self-heal, one of them cut short; two executions; a keeper with two other checkouts; a standby; the load of a machine without a load average, with two processes one after the other and two reports under way |
| `loops` | Do the programs with loops get anywhere? | agent, keeper and standby, the same sizes |
| `restart_receipts`, `restart_unreadable`, `both_stand_down`, `standby_orphan` | section 6 | as above, smaller |

**Properties of the queue.** `PendingExact`: the pending list is exactly the
queued tasks, once each. `NoIdleMatch`: no pending task that needs no memory
while a suitable agent is parked (a task that does need memory *can* be, because
nothing scans the list when memory is released; it waits for the next poll,
and polls last at most `MAX_POLL_WAIT_MS`). `AttemptBudget`: leases are charged
and bounded however often dispatches are handed back. `DispatchSound`: a
dispatch goes to a registration the host still has. `OneRegistration`: one live
id per worker. `LedgerExact`: in-flight counts and promises are those of the
leased tasks. `EndsExact`: each end is announced once
(`OneReceipt`), and exactly what ended is remembered, up to the cap (`FinishedExact`). `ImplementsLifecycle`: the refinement. `NoStarvation`,
`EventuallyFinished`: progress.

**Properties of restarts.** `JournalCatchesUp` (at rest the file is the queue),
`ClosedComplete` (so it is after a close), `DurableLifecycle` (the file never
goes back on an end), `RestoredBudget` (short of a mishap, a task is charged after
any number of closes and starts for exactly the leases it was ever given and did not
hand back; after one, whatever is queued may still be leased once and what is leased
is charged for),
`OneReceiptAcrossRestarts`, `AnswersStand` (what a client was told stays true).

**Properties of sessions.** `EvictionEnds`, `Survivor` (one coordinator, no
trouble: not all processes give way), `ReportsHeard` (only a superseded process
has a report turned away), `Attached`, `ComesHome`.

**Properties of the components** (`components`). A behaviour of `MCComponents`
is a behaviour of one component while the others stay as they began, so the state
space is the sum of theirs and not the product. `AccountsKept`: a request that is
told it succeeded finds its change in the file, a status, a revoked key and the
sessions a new password ends included (a status may be one that a later request has set
since; passwords themselves are not in the data), and the file never goes back on
an account, an invite or a revocation. `AccountsGuarded`: no session for an
account that was disabled during the login, and no more failures than attempts
under way when the lockout began; these are the checks of a login, and of a redemption
nothing like it is claimed, because it is not so (section 6). `InboxSound`: accepted notes survive, one
greeting. `BillingSound`: the counter is what was queued, is being queued or was
lost in a restart; with events in order a live subscription is served.
`CacheWhole`: a cached track is one version. `LentOnce`: offer, store and reserve
together fit the machine while the store is within its limit, and it is past it only with
one value that is larger than the limit, alone. `OwnOutputs`: a render's result is its own image.
`BudgetKept`: repairs really carried out stay within hour and day, but for passes
that were cut short before they could write and those in a state file that was torn.
`InTime`: a failure is reported
before its lease lapses. `ReportTrue`: a panel that is reported provisioned holds
this task's networks, and its host if it named one. Its premise is that the sketch names
the command it answers, or that a single probe reached the board: an older sketch that
heard two is believed to have stored what it was only asked to, because the late answer to
the second probe is taken for that to `wifi`. The handler accepts this on purpose, for a
board that has not been flashed yet. `LoadSound` is two things. `RankedOnRecent`: what a machine is
ranked by was measured at most `LOAD_REPORT_STALE_MS`, one transit and one sampling interval
ago, although any other call keeps it attached and reports overtake each other.
`WindowsApart`: the windows behind any two figures, at the agent, under way or on record, are
the same or apart, and none is too short, although loop and heartbeat share one baseline.
`ComponentsTypeOK`: types and limits.

**Progress** (`loops`). `WorkMoves`: slots are freed though handlers are stuck
and reports lost, and an agent over its ceiling takes the work at last.
`KeeperEnds`, `RunsWhatItPulled`: a keeper asked to stop ends, and what it pulled
is run. `SplitHeals`: once the main host answers for good the copy here goes.

**Bounds, and why they are enough.** Three ids are what supersession needs (old,
new, a bystander). Two tasks give every pair of operations on one task and
across two; two attempts distinguish "has one left" from "has none". `MaxParked
= 1` loses the second concurrent poll of one agent; the queue removes parked
polls one at a time by identity, and the proofs do not use the bound.
`MaxFinished = 1` is the smallest cap that drops. Memory of two units against
tasks of one gives an agent that can hold two, one or none. In
`CoordinatorRestart`, `MaxTrouble` bounds crashes, closings and failed writes
together; two allow a crash in the recovery from a crash. In `AgentSessions` ids
that nothing refers to any more are used again, so that an endless eviction is
a cycle and not cut off by `NumIds`; seven were checked never to run out in
these configurations.

In `components`, two requests or plays or clicks are what a race needs; two ids
of each kind let one be revoked while another is made; a store of four units with
values of up to two evicts none, one or two entries; three seeds let a second
pass meet the first's renders and their retries; two panel tasks let the second
hear the first's answers, and two probes let one be late; a threshold of one and
two confirmations reach a repair, a rollback, a snapshot and both budgets within
four passes; a lease of three seconds is the shortest with a margin; two releases
let one come while the other is being restarted on. Of a machine's load, a window of two, an
interval of three, a stale time of two and a transit of one are all different, and nine
instants fit two windows, a restart of the agent and a figure that goes stale; the bound of
`RankedOnRecent` is reached. `LoadAverage` is false, as on Windows, so that a figure can
be unknown. Counters that are only
compared (streaks, misses, hits) are counted as far as they are compared.

Every property of a passing run has a mutated definition under which TLC finds
it violated (`PROJECT.json`, "mutants"); most stand in the modules as slips. The largest
state spaces are those of `components` (702 thousand distinct states, of which 192 thousand
are the load's) and `restart` (632 thousand).

## 4. Fairness

- `TaskQueue!FairSpec`. WF on `Deliver`/`Undelivered`: a resolved promise's
  continuation is a microtask. SF on an agent's next poll and on the end of a
  parked one: the agent's loop polls again after every answer and the poll has a
  timer; *strong*, because each dispatch disables every other turn for an
  instant. Agents staying attached is a premise of the properties, not an
  assumption. `EventuallyFinished` has as further premises the sweep timer
  (SF on `Reclaim`) and that agents do not decline, and connections do not
  break, for ever: neither costs an attempt, so nothing bounds them.
- `AgentSessions!FairSpec`. WF on each process's own steps, on the answers of a
  coordinator that is up, on a call timing out at one that is down, and on the
  heartbeat timer. SF on `ReturnsToPrimary`: the recheck falls between tasks and
  is enabled again and again. WF on pruning and on a stray registration being
  handled or lost. None on crashes, on stopping, or on coordinators coming up:
  `Attached` and `ComesHome` take that as a premise.
- `MCComponents!MCFairSpec` takes one component and its fairness.
  `AgentTasksFairness`: WF on the loop, the sweeper, the clock, the timers of
  each execution, and on a call being answered or given up; nothing is assumed
  of a handler, of the load, or of a call being heard. `KeeperFairness`: WF on
  each loop's own steps, on the kill after the stop timeout (a timer, not a
  courtesy of the child), and on a self-update ending, because it is killed
  after five minutes. `StandbyFairness`: WF on probes ending, on the steps of
  the loop and on the kills. That the host stays up and nobody stops the standby
  is a premise of `SplitHeals`.
- `CoordinatorRestart`, `LoadReports` and the other components have safety properties only.

## 5. Proofs

Every safety property that a passing run checks is a theorem here, for every value
of the constants; what TLC checks on small instances beyond that is progress.

| Module | Proves about |
|---|---|
| `FiniteSums` | sums of a function over a finite set (`SumOf`), least elements, induction |
| `TaskQueueProofs` | `AgentRegistry`, `TaskQueue`, the refinement of `TaskLifecycle` |
| `CoordinatorRestartProofs` | `CoordinatorRestart` |
| `AgentSessionsProofs` | `AgentSessions` |
| `HostProofs` | `SaveChain`, `Messages`, `Accounts` |
| `BridgeProofs` | `MusicCache`, `Billing` |
| `AgentProofs` | `AgentTasks`, `Renders`, `SelfHeal`, `Panel`, `MemStore`, `LoadReports` |
| `ComponentProofs` | `Keeper`, `Standby`, and `MCComponents`, the composition |

| Theorem | Says |
|---|---|
| `TaskQueueProofs!TypeCorrect` | `Spec => []TypeOK` |
| `PendingIsExact`, `FinishedIsExact` | `[]PendingExact`, `[]FinishedExact` |
| `AttemptsBudgeted`, `ReceiptsAreOnce` | `[]AttemptBudget`, `[]OneReceipt` |
| `EndsAreExact` | `[]EndsExact`, the run's conjunction of `FinishedExact` and `OneReceipt` |
| `QueueImplementsLifecycle` | `Spec => ImplementsLifecycle` |
| `RegistrationsAreUnique`, `DispatchesAreSound` | `[]OneRegistration`, `[]DispatchSound` |
| `NoWakeupIsLost` | `[]NoIdleMatch` |
| `LedgerIsExact` | `[]LedgerExact` |
| `CoordinatorRestartProofs!TypeCorrect` | `Spec => []TypeOK` |
| `RestartsKeepTheBudget` | `[]RestoredBudget` |
| `JournalIsCurrent`, `ClosingIsComplete` | `[]JournalCatchesUp`, `[]ClosedComplete` |
| `ReceiptsSurviveRestarts`, `AnswersOutliveRestarts` | `[]OneReceiptAcrossRestarts`, `AnswersStand` |
| `DiskFollowsLifecycle` | `Spec => DurableLifecycle` |
| `SessionsTypeCorrect` | `Spec => []TypeOK` |
| `SomebodySurvives`, `ReportsAreHeard` | `[]Survivor`, `ReportsHeard` |
| `InboxTypeCorrect`, `NotesAreKept` | `[]MessagesTypeOK`, `[]InboxSound` |
| `AccountsTypeCorrect`, `SavedIsKept`, `ChecksHold` | `[]AccountsTypeOK`, `AccountsKept`, `AccountsGuarded` |
| `MusicTypeCorrect`, `CachedIsWhole` | `[]MusicTypeOK`, `[]CacheWhole` |
| `BillingTypeCorrect`, `BillsAreSound` | `[]BillingTypeOK`, `[]BillingSound` |
| `AgentTasksTypeCorrect`, `FailuresAreInTime` | `[]AgentTasksTypeOK`, `[]InTime` |
| `RendersTypeCorrect`, `OutputsAreOnesOwn` | `[]RendersTypeOK`, `[]OwnOutputs` |
| `HealTypeCorrect`, `RepairsAreBounded` | `[]SelfHealTypeOK`, `[]BudgetKept` |
| `PanelTypeCorrect`, `ReportsAreTrue` | `[]PanelTypeOK`, `ReportTrue` |
| `MemStoreTypeCorrect`, `MemoryIsLentOnce` | `[]MemStoreTypeOK`, `[]LentOnce` |
| `LoadTypeCorrect` | `LoadSpec => []LoadTypeOK` |
| `RankingIsRecent`, `WindowsAreApart` | `[]RankedOnRecent`, `[]WindowsApart` |
| `LoadIsSound` | `[]LoadSound` |
| `KeeperTypes`, `KeeperLeavesNothing` | `[]KeeperTypeOK`, `[]NothingOrphaned` |
| `StandbyTypes`, `TunnelRunsWithAlpha` | `[]StandbyTypeOK`, `[]TunnelFollows` |
| `ComponentsBehave` | `MCSpec` implements the specification of each of its components |
| `ComponentsTypeCorrect` | `MCSpec => []ComponentsTypeOK` |

**Assumptions.** Only the named `ASSUME` of each module. They say what kind of thing
each constant is, that attempts, caps, thresholds and windows are at least one, and
three things more: the requests of `Accounts` are finitely many and at least one (the
lockout counts those under way); `NoAgent`, `NoOne` and `"ready"` are not an agent, an
email and a caller; an hour of self-heal is no longer than its day
(`scripts/alpha-selfheal.mjs:80`). The largest value of the memory store may be larger than the
store: nothing in the code prevents it. Agents, tasks, processes, coordinators,
memory sizes, leases and budgets are otherwise arbitrary, and the sets of agents and
of tasks need not be finite. The bounds that keep TLC's runs small (`MaxTrouble`, `MaxRuns`,
`MaxTime`, ...) are constants like the others: the theorems hold for all of them.

**The queue.** Neither exactness property is inductive by itself. That a task
appended to one list is not on it already follows from its status only if both
lists agree with the statuses: forgetting a finished task, for one, must not
drop one that is pending. That a lease which ends is settled with an agent needs
`HolderNamed` (a leased task names one). `IInv == TypeOK /\ HolderNamed /\
PendingExact /\ FinishedExact` is. Budget and receipts need in addition that a task
not yet submitted has been charged nothing: `LifeInv == IInv /\ Fresh /\
AttemptBudget /\ OneReceipt`. The refinement is then one step: each action either
leaves a task alone or takes the abstract step of the same name, under `LifeInv`.

*Layout.* Lemmas about lists first; then one *shape* lemma per way a turn can end
(`PlaceShape`, `FinishShape`, `GiveUpShape`, `HandBackShape`, `ForgetShape`), which
says what happens to each task and to the two lists; then `StepShape`, which says that
every action has one of these shapes; and the inductions on top of it. A new action
would need one new case in `StepShape`.

**The fleet.** `FleetShape` refines `Shape` by what happens to registry, parked polls
and dispatches, in eight cases (`Attaches`, `Gets`, `Queues`, ...). On it rests
`FleetInv == IInv /\ NewIsIdle /\ OneRegistration /\ DispatchSound /\ NoIdleMatch`.
`NoIdleMatch` is inductive because both ways to become idle look at the other side
first: a task that waits found no parked poll that could have it (`Queues`), and a poll
that parks found no task (`Parks`); nothing makes an agent able that was not, as
capabilities are fixed at registration and ids that are new have no poll
(`NewIsIdle`).

**The ledger.** `LedgerExact` speaks of a cardinality and of a sum of sizes over the
tasks an agent holds. The library's induction theorems take an operator and cannot be
used here; `FiniteSums` states induction for a *set* of numbers, from the least
element of a non-empty set, and derives from it that the sum exists, that it is the
fold the model computes with (`SumIsFold`), and what adding or taking one element does
to it. With those, `Balanced(r, held)` is kept by every operator of `AgentRegistry` that
moves a promise; `LedgerInv == FleetInv /\ Balanced(registry, HeldBy)`. A released task
gives back exactly what it was charged, so the code's floor at zero (`Monus`) is never
reached.

**Restarts.** `IInv` types everything and says what records a snapshot can hold
(`SoundRecord`: none of a secret task, none that restores without an attempt left);
`RestoredBudget` is its consequence for what a crash can bring back. Short of a mishap it
also needs that `spent` is what is charged, in memory and, once the coordinator is closed, in
the file the next start reads. The file catches up because of `DraftIsCurrent`: a
write in flight with none queued behind it holds the last change (`CatchInv`).
`CleanInv` adds that, short of mishaps, at most one receipt and none before the end
exist, and that a closed coordinator's file is what it would record, which is what makes
the next start continue the same history. `DiskFollows` orders the three versions,
file, draft and memory: each may follow the one before it in one life cycle.

**Sessions.** `SessionsInv == TypeOK /\ (Calm => Settled)`, *calm* meaning one
coordinator, no crash and no lost call so far. `Settled` has four parts: no two processes hold one
id (`OwnIds`); a registration that outlives its sender belongs to a process that
stopped, not to one that was told to go (`StrayLeft`); if anybody was superseded or
told to go, there is a process that keeps the place or left it by itself
(`SomebodyKeeps`); and each process agrees with what the coordinator knows of it
(`Sound`). The third is `Survivor` made inductive: it must hold from the moment a
registration is superseded, long before anyone hears of it, and a process about to hear
"stand down" does not count. The run `both_stand_down` (section 6) shows that *calm* cannot be
left out.

**Stores.** Accounts and inbox have the same argument: three versions of the data, the
file, the snapshot being written, if any, and memory, of which none takes back anything
of the one before; and whoever waits for the write in progress finds what he did in its
snapshot (`Waiting`, `SoundRequest`). The lockout is a count: failures recorded plus
attempts under way are at most the limit plus the requests there are, less one
(`WithinBudget`). That a status which was answered is in the file needs an order on the
requests: one that sets a status finds in memory what it set, or what was set by one that
waits for as many writes or more (`StatusInv`), and each write that ends keeps it so.

**Bridge.** A download is alone on its track, whoever shares it
(`FetchedOnce`), and what it has written is the first slices of one version
(`FetchSound`); `CacheWhole` follows when it is renamed. `BillingInv` has four parts:
types; `CountInv`, that the account, in memory and in the file, has counted what its month was
charged (queued, being queued or lost), and that one of an earlier month shows a month in which
nothing was; `LinkInv`, which
subscriptions the account and the events under way can name; and `ServedInv`, that with
events in order, for each live subscription there is a point in the queue of events
after which nothing can take it away (`Settled`, `Harmless`).

**Agent.** `LeaseOutlasts`: at every stage of an execution the lease has left what the
agent's timers may still take. `RenderSound`: a seed is given out before its number,
and the directory of a render under way holds nothing but its own image. `Littered`: a
staging directory is left by an attempt that is over, and those are counted by the
tries, a sum over all renders. `HealInv`: the repairs written down keep both budgets
(`WithinBudgets`), and those that are not written down are those of the pass under way,
whose plan was made within the budgets (`PlanSound`), or of passes that were cut short.
`PanelInv`: opening the port empties the line, so what is on it are this conversation's
commands and answers; `Place` says which those can be, and every answer on the line is to a
command whose effect is still there (`Carried`), however late it is read. Answers of an older
sketch tell nothing apart, but while one probe was heard at most there is never more than one
command or answer anywhere (`OneAtATime`). `MemInv`: what is offered
leaves room for the whole budget of the store, used or not, so that later values cannot
eat into an earlier offer; and making room evicts enough, because the entries kept are
the newest that fit and the map's order is total: what is left is within the budget, or is
one value alone.

**Load reports.** `LoadInv` has three parts: types; `Timely`, how old a figure can be at
each place it passes, at the agent, under way and on record; and `Windows`, that every window
that was measured ended no later than the reading from which the next one will be. The agent's
baseline only moves to the present, and two windows that end at or before it can only meet
in it.

**Keeper and standby.** That nothing is running when the keeper's process is over is not
inductive: one has to know it at every earlier place of the supervising loop.
`KeeperInv` adds to the types that the agent has exited wherever that loop is not
watching one, that the process is over only when the update loop is, and that a
self-update under way is counted in `pulls`. `InStep` says what `TunnelFollows`
leaves out: between the two stops of a hand-back Alpha is not wanted, and after them
neither is.

**The composition.** The runs check the twelve components in one specification,
`MCSpec`. A step of it is a step of one and leaves the others' variables as they are
(`StepOfEach`), so `MCSpec` implements each component's specification and every theorem
above about a component alone holds of it there.

The strengthened invariants were checked with TLC on the runs' own instances before they
were proved: `HealInv` in 3.75 million states, `SessionsInv` in up to 181 thousand, `PanelInv`
in 9 thousand, `Littered` in 8 thousand, `MemInv` in 2 thousand.

**Only model-checked.** Progress, since it needs fairness and `ENABLED`, which the prover
does not treat: `NoStarvation`, `EventuallyFinished`, `EvictionEnds`, `Attached`,
`ComesHome`, `WorkMoves`, `KeeperEnds`, `RunsWhatItPulled`, `SplitHeals`. And the four
violations of section 6, which are facts about one instance.

## 6. Where the code and its comments part

Each has a run that expects TLC to violate the statement.

- **`restart_receipts`** (`src/host/server.js:217`). `close()` flushes the
  journal and not the ledger. A task can be journalled as finished, lose its
  receipt, and never get one: `restore` does not announce it again because
  "their receipt was written when they finished" (`src/host/queue.js:402`).
- **`restart_unreadable`** (`src/host/journal.js:94`). "Leave the file where it
  is for a person to look at": the first change after such a start renames a new
  file over it.
- **`both_stand_down`** (`src/agent/agent.js:357`). A stand-down heard while a
  registration is in flight stops the process, but the registration is handled
  and evicts the other one. `src/host/registry.js:170`: "converge on one
  survivor". With one coordinator this needs a lost call or a crash
  (`Survivor` holds without); with two it needs nothing.

- **`standby_orphan`** (`scripts/standby-alpha.mjs:475`). On a signal `shutdown`
  waits for Alpha to stop; the loop it woke calls `stop()` too, which returns at
  once, and the process exits before the kill that was to follow a stop in vain.
  `test/standby-alpha.test.js:206`: "the standby still stops it on the way out,
  rather than orphaning it", which holds of an Alpha that heeds the signal.

Noticed while modelling, and stated by no run:

- `src/host/registry.js:324`: a drop in a machine's report is credited against
  the sum of its promises, so a promise made after the drop is credited with it
  too (`test/memory.test.js:273`: "a second reservation is not credited with the
  first one's drop").
- `src/host/auth/service.js:330`: "so two concurrent redemptions cannot both
  succeed"; the check is made before the hash and not again, and both do.
- `src/host/queue.js:549`: a lease is a task and an agent, so the report of an
  execution whose lease lapsed settles the same agent's next lease of that task.
- `src/host/server.js:80` says a ledger that cannot be read does not stop the
  host; `ready` rejects. A heartbeat's stand-down ends the process before its
  tasks have drained (`src/agent/index.js:225`).
- `src/bridge/billing.js:245`: an event that overtakes the checkout's own question,
  or comes out of order, leaves a stale subscription until the next event; a track
  that was queued though the answer was lost is refunded.
- `scripts/alpha-manager.mjs:142`: only a render that succeeded has its seed in
  the ledger, so a failed one's is given out again, and a pass that starts before
  the last one's renders have ended repeats its seeds and exceeds the quota. A
  killed render leaves its staging directory, which
  `src/agent/handlers/alpha-render-inventory.js:187` counts as one under way.
- `src/agent/memstore.js:15`: "the store never grows past `limitBytes`". That limit and the
  one of a single value are configured independently (`src/agent/handlers/memstore.js:73`),
  `put` compares a value with the second only (line 34 takes any), and making room for one
  larger than the first empties the store and then stores it. `LentOnce` says what is left.
- `src/common/protocol.js:338`: a poll without figures is not to "overwrite a good reading
  from the last heartbeat". It is recognised by all its values being null (line 341), but the
  number of cores is one of them and the sampler always gives it: the poll of a machine whose
  counters cannot be read, and which has no load average, replaces a good reading by an
  unknown one.
- `src/agent/handlers/alpha-panel.js:722`: a reply that names no command is taken for
  the one that is waited for; with a sketch that is older than the handler, and two probes
  heard, the second's answer ends the task as provisioned (premise of `ReportTrue`).
- `scripts/alpha-selfheal.mjs`: the good streak is not of one build, so a new one
  is kept as good on its first good pass; repairs of a pass that is killed before
  line 576 are missing from the budget, as are those in a state file that does not parse
  (`cut` in `BudgetKept`).
- `scripts/keep-agent.mjs:318`: a checkout somebody else pulled, or whose restart was cut
  short, is "already current" and the agent is not restarted (`landed` in `RunsWhatItPulled`
  is what the keeper itself pulled).
- `scripts/standby-alpha.mjs:497`: misses are counted while the control is
  unreachable too, so the first answer of the control after that takes over.

## 7. Not modelled

- **No state of their own**: token and password primitives, the handler table,
  echo and sysinfo, the dashboard, the Cloudflare check, prompts, logging, the
  administration CLI (a client of the routes).
- **One program, run once**: the codex, update, coordination, grow and device
  handlers. What they exchange through files belongs to programs that are not in
  this repository.
- **One-shot and interactive scripts**: set-up, publishing, panel and job scripts,
  the watchdog (a supervisor whose restarts `CoordinatorRestart` takes at any
  moment), PowerShell repair scripts, the slide deck.
- **Shutdown against parked polls** (`src/host/server.js:189`): the queue's model has the
  polls and the restart's the close, and none has both. The polls end because
  `queue.stop()` comes before the listeners are waited for.
- **Abstracted inside modelled parts**: validation and scopes of requests,
  trimming of payloads in the journal, outcome statistics and views of the
  registry, the caps of the ledger, the screen and radio of the panel, what
  self-heal logs and raises for a person.

## 8. Plan

All modules of the plan exist, and every safety property they state is proved. What is
left:

1. Premises of progress that are safety: that an agent's slots are freed in bounded
   time (`WorkMoves` without the fairness of its timers), that a superseded
   registration's process hears of it at its next heartbeat (`EvictionEnds`).
2. The two halves of a refinement that is only implicit: `CoordinatorRestart` takes its
   turns from `TaskLifecycle`; an abstract specification of a durable task, which
   survives or was announced, would say in one formula what `DurableLifecycle`,
   `AnswersStand` and `OneReceiptAcrossRestarts` say in three.
3. Statements for the hazards that have none (`PROJECT.json`): the credit of a drop in
   a memory report, a report for a lease that is no longer the same one.
