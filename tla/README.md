# 360 CE Ops in TLA+

360 CE Ops is the owner's console for a trading engine: a FastAPI web
application (`app/main.py`), a monitoring agent in a process of its own
(`app/agent/runner.py`), a JSON API for the owner's phone (`app/routes/api_v1.py`)
and a large set of pages that compute over data the engine writes. This directory
holds TLA+ models of the parts that keep state or run concurrently, the TLC runs
that check them and the TLAPS proofs about them. Paths below are relative to
`src/`.

## 1. Inventory

### The monitoring agent

| Part | State | Operations | What is hard | What makes it correct |
|---|---|---|---|---|
| Alert store `app/agent/alert_state.py` | one JSON entry per fingerprint in Redis under a TTL; `_mem`, a dict used when a command raises | `process`, `resolve`, `active_fingerprints` | every command may fail by itself, with or without effect; the dict in hand may be the one in `_mem`; TTL, dedup window and cycle are three clocks | what is paged is shown; an escalation pages again; two copies never make a false message |
| Loop `app/agent/runner.py` | the cycle's results, blind sources, carried alerts | `run_cycle`, `run` | a source that did not answer against a condition that cleared; a crash at any await | recoveries and pages are true; no page twice in a window; what lasts is told in the end |
| Detectors `app/agent/detectors.py` | naked-position grace and restart counts only | `check` | early returns on missing data | nothing fires on silence |
| Notifier, FCM `notifier.py`, `app/fcm.py` | none | `send_alert`, `send_recovery`, `_push` | best effort, the answer prunes a list read earlier | live devices stay registered |
| Heartbeat, health check | a Redis key with a TTL | `publish`, `healthcheck` | degraded against dead | counts what is active |

### Access

| Part | State | Operations | What is hard | What makes it correct |
|---|---|---|---|---|
| Guest store `app/guest_access.py` | grants in memory, the file, failure times, lockout | `issue`, `revoke`, `revoke_all`, `redeem`, `lookup`, `record_denial`, `flush`, `purge` | memory decides, a restart reads the file; window and lockout overlap | a dead grant stays dead; guesses are throttled; the lockout cannot be stretched |
| Session gate `app/auth_mw.py` | the signed cookie, held by browsers | `dispatch`, `_dispatch_guest` | slow responses rewrite the cookie; a cookie outlives its grant | only honoured grants are answered; a guest never becomes the owner |
| TOTP gate `app/totp.py` | last step used | `verify` | drift, two login routes | a code is used once |
| App tokens `app/app_tokens.py` | hashes in memory and in a file | `issue`, `verify`, `revoke_all` | file against memory over a restart | a revoked token stays dead |
| Device registry `app/device_registry.py` | one file, two processes | `register`, `unregister`, `prune`, `all_tokens` | read-modify-write over a lock of one process | holds what the owner asked for |
| Code hand-off `app/routes/access.py`, `diag_console.py` | `guest_pending_codes` and the console's results in process memory, a nonce in the session cookie | issue or run, show once | two tabs, and responses that put an old cookie back | shown once |

### Jobs and the control plane

| Part | State | Operations | What is hard | What makes it correct |
|---|---|---|---|---|
| Exit backtest `data_sources/exit_backtest.py` | slot file and two artifacts on a volume, an asyncio task | `start`, `_run`, `status` | the task dies, the slot does not; writes fail; a stale deadline against three timeouts | a free slot means no task that owns it, a run's own downloads, a verdict that stands |
| Mode row `routes/control.py` | `auto_mode_request` in the session cookie; the engine's mode and queue | change, load, self-refresh | a change may apply, wait, be refused, lapse or be lost with its reply; a late response puts an old cookie back | no request forgotten untold, none waited for for ever |
| Engine writes and audit `routes/control.py`, `coindcx.py`, `api_v1.py`, `app/audit.py` | one JSONL file | write, record, tail | replies lost after the change; failed appends; the log read back as state | every change has its line; a pending report is owed |
| Signal routing `routes/routing.py`, `promotions.py` | the engine's retired list and rules | divert, restore, adopt, save, delete | read, edit and write back of a whole list over two awaits | nothing returns to the live feed unconfirmed; conflicts are named |

### Measurement

| Part | State | What is hard | What makes it correct |
|---|---|---|---|
| Candles `binance_klines.py` | `_BanCircuit`, a semaphore | bans of different lengths noted by fetches already on their way | no fetch begins inside a ban |
| Free-run tracker `free_run.py` | result cache | terminal, running and degraded results age differently | what is kept for good is final |
| Replays `exit_sim`, `dark_exit_sim`, `sar_hold`, `structural_*` | none | what order of events a record without its bars can tell | what is called decided is what the bars say; no win is invented |
| Trailing stops `dark_signals.py` | none | published against in-force stop | a bar is held against a stop known before it |
| Ledgers `dark_signals_live`, `sar_live`, `sar_exit`, `dark_promotion` | none | panels, selectors and pages over one file, states not yet named | every row is in exactly one cell of each panel |
| Track record, profit `track_record.py`, `profit.py` | none | window and bucket edges, ties | whole days, the peak really open at once |
| System health `system_health.py`, `routes/system.py` | none | probes of one load see different moments; the probe's own transport fails | what is called broken was down |
| Pages, readers, formatting | none | none: rendering of rows read elsewhere | |

The two processes meet in three places: Redis (the agent writes the alert keys
and its heartbeat, the web reads them), the device registry file, and the engine,
which both read. The web process is one uvicorn worker (`Dockerfile`), so
between two `await`s a handler runs alone; every model takes that as its unit of
atomicity.

## 2. Modules

| Module | Models | Used by |
|---|---|---|
| `AlertState` | the alert store, one Redis command per step | `MonitorAgent` |
| `MonitorAgent` | the agent's cycle over the store, crash, restart | `MCMonitorAgent` |
| `PagerContract` | what the agent promises: page what is on, recover what is off, one page open at a time | refinement target of `MonitorAgent` (`KeepsContract`) |
| `MonitorAgentProofs` | theorems about `MonitorAgent`, and that it implements `PagerContract` | |
| `GuestStore` | grants, file, throttle | `Access` |
| `Access` | browsers, cookies, gate, guest and owner sign-in, restart | |
| `OwnerGate`, `AppTokens`, `DeviceRegistry` | TOTP, bearer tokens, device file | `NativeApp` |
| `NativeApp` | both logins, the app's calls, the agent's prune | |
| `ExitBacktest` | the single-slot job | `Jobs` |
| `ExitBacktestProofs` | theorems about `ExitBacktest` | |
| `AccessProofs` | theorems about `Access` and its `GuestStore` | |
| `NativeAppProofs` | theorems about `NativeApp` and its parts | |
| `DarkPromotion` | promotion rules, selections, delivery split, as operators | `Routing`, `DarkLedger` |
| `Routing` | retired list, rules, switches, clicks in flight, the page's rows | `MCRouting`, `Ops` |
| `ModeControl` | the mode row, the note in the cookie, the engine's queue | `Jobs` |
| `ControlWrites` | engine writes, audit file, the self-test's pending report | `Ops` |
| `OneShot` | codes and results handed from one request to the next | `Ops` |
| `Jobs` | `ModeControl` and `ExitBacktest`, whose properties need fairness, one at work in each behaviour | |
| `Ops` | every other part of the web process, one at work in each behaviour | |
| `Candles` | ban circuit, fetches, free-run cache | `Measures` |
| `ExitSim`, `HeldArm`, `Structural` | exit ladders over a recorded signal, over a held arm, over another geometry | `Measures` |
| `Trails` | ATR, SuperTrend and SAR stops over a chart | `Measures` |
| `DarkLedger`, `SarArms` | reducers, selectors, panels and pages of the dark and the SAR ledgers | `Measures` |
| `TrackRecord`, `Profit` | windows, buckets, peak, fidelity; give-back and strategy aggregates | `Measures` |
| `SystemHealth`, `Probing` | verdicts and chain as operators; one load's probes over a moving box | `Measures` |
| `LoopHealth` | the scan-cycle card over the engine's loop, its heartbeat and its builds | `Measures` |
| `Measures` | the measuring side over samples that grow by one bar or row | `MCMeasures`, `Ops` |
| `RoutingProofs` | theorems about `Routing` | |
| `ControlProofs` | theorems about `ModeControl`, `ControlWrites` and `OneShot` | |
| `MeasureProofs` | theorems about `Measures`: fetches, loop, probes, tables | |
| `ReplayProofs` | theorems about `Measures`: trades and charts | |

Each module names the source file and each action the function it stands for;
`PROJECT.json` gives the lines. Conventions: a variable whose comment starts with
"history" is not in the program, it remembers what a property needs; a bound
(`CountMax`, `MaxTime`, `MaxBlind`, `MaxStep`, `MaxJobs`) is declared "bound:" and
appears in a guard or saturates a counter. A definition commented as a mutant or
as a mistake is not used by any specification: it is a plausible bug, and putting
it in place of the definition after it must break a property of a run.

### How state and actions correspond

**AlertState / MonitorAgent.** `redis`, `ttl` and `mem` are the keys, their
SETEX time and `_mem`. `call` is the local `state` of `process` or `resolve` and
the await it stands before; `call.alias` says that `state` is the very dict in
`_mem`, so marking it paged marks that copy too. `_set` and `_delete` touch `_mem`
only when the client raises. A reply is `ok`, `refused` (not applied, raised) or
`lost` (applied, raised). `StartCycle` is fetch and detect in one step: nothing
else the agent does depends on where in the fetch a source failed, and
`believed` records what the detectors saw. A source is *blind* as in
`run_cycle`; `cycleOk` is false only if something *raised*, which is why
blindness and `cycleOk` are chosen separately. Each cycle takes one tick of the
clock; the ages that matter are `ttl` and `sincePaged` (time since
`last_paged`, saturating at the dedup window). No detector today changes the
severity of a fingerprint, but the store supports it, so the runs report one alert
(`silence`) as either.

**GuestStore / Access.** `grants` is what memory says and decides, `disk` what
the last landed write left. `Save` is `_save_quietly`. A store method holds its
lock throughout and so is one action. `cookie[b]` is the session the browser
holds; `open[b]` the session of a request being served, written back when it is
answered (the session middleware of the pinned Starlette rewrites a non-empty
session on every response). `SavesFail` allows a write to be lost. A failure time is
a record of its moment and its number among those of that moment, so that the list
the code filters is a set, and its length a cardinality; the code asks nothing of
the list but which times are recent and how many.

**NativeApp.** A TOTP code stands for the time step it belongs to. The
registry's edits are split at their read and their write, because two processes
share the file; the agent's push holds the list it read while it is sent. The push
service may call any device it was sent to dead (`fcm.py:31-40` takes every 404 and
`INVALID_ARGUMENT` for that), so the registry is held against what the owner asked
for but for the devices a push has `named` since they were last registered, or while
they were being registered again: those `prune` removes, dead or not.

**ExitBacktest.** `slot` is `state.json`, `run[j]` the asyncio task of job j and
the await it stands at, `age` the time since `started_at`. `start` has no await
and is one step: the test, the unlinks (any of which may fail, `left`), the stamp
and the confirmation. The script and each of the two copies have the whole of
`Timeout`, so a task that is still copying can meet the stale deadline and a second
start. The confirmation reads the status alone, so a stale `running` record of an
earlier job confirms a start whose write failed: `phantom` remembers such starts.
`beside[j]` remembers the tasks in flight when job j was started.

**Routing.** `edit[e]` holds the locals of a click: the list it computed from its
own read, waiting for the write's reply, then for the read-back. With
`EditsOverlap` a click may start, or the app post a list (`AppPosts`, which asks for
no confirm), while another click stands before its write, which the code allows;
without it they come one after another, which is what an owner with one browser
does. `flash` is the verdict the click reports.

**ModeControl.** `engine` is what the auto-mode endpoint answers, with its queue
and last outcome. The note of a request lives in the session cookie: `note` is the
browser's copy, named by the click it is of; a visit of a window is sent with a copy
and its response writes its own copy back, the last to arrive winning. `asked` is
what each note says. A click, a page that leaves the session alone and
a row that refreshes itself are visits too. Three builds of the engine answer
differently (`queued`, `direct`, `mute`). `Readings` lets either of the two reads of
a load fail. Ages saturate one past the limit they are compared with.

**ControlWrites.** A write's outcome is decided when it is sent: the pair of what
the engine did and what ops heard. `Took("error")` is a reply lost after the change,
`Took("raised")` a body that is not JSON. A reply takes as long as it takes.
`missed` remembers the writes of which no line could be kept, so the property is
about every other one. The log reader's pages are sets of line numbers
(`Newest(lines, n)`).

**OneShot.** As in `Access`, a request carries the session it was sent with and its
response replaces the cookie when it arrives. Keys are drawn in order and never
reused.

**Candles.** A fetch is `queued` before the semaphore and at a `page` after; `mono`
is the monotonic clock, `bans` every ban Binance has announced that is still on,
each with its own end, however far beyond the breaker's maximum. `closed` says
whether the signal is closed in the engine, `stopped` whether the market has touched
its stop.

**Operators.** The reducers are functions of a table, a function from row numbers
to records with the columns the properties tell apart; a panel is a record of sets
of row numbers, so that "counted once" is a statement about sets. A price is a whole
percentage of the entry, a position six sixths, a result `None` where Python's is.
The stop, the levels (`Target`) and the fixed target are constants; a ladder has at
most three legs and what it adds up is written out (`Over`).
`Measures` states the references they are checked against: a replay of the bars
themselves, the same trade under another geometry seen over all its bars, the set
of positions open at an instant. A run of the concentration panel is the set of
rows reachable from one of them without a gap of `RunGap` (`RunOf`), which is what
the code's pass over the sorted stamps cuts.

**Probing.** Every probe is a step of its own and the box may change between any
two; what was down at some moment of the load is remembered.

**LoopHealth.** The engine's loop is outside `src/`: a cycle is a number of units, of
which any may be the last, and `flight`, `beat` and `tally` are what the engine
publishes of it. `Builds` are the engines ops has to read: with or without ages,
bounds and stages, beating on every unit or at the end of a cycle. `Scan` is the block
as ops receives it and `LoopCard` the card. `idle` is the truth the card is held
against: how long nothing has finished.

## 3. Runs

| Run | States | Bounds | Shows |
|---|---|---|---|
| `agent_reliable` | 21,610 | 2 conditions and the failure alert of their source, dedup 2, TTL 4, blind at most 2 cycles | store, heartbeat and owner agree; the agent implements `PagerContract`; lasting changes are told |
| `agent_crash` | 249,776 | one condition, one failure alert, crash at every await | `NoRepageInWindow`; a held condition is still paged |
| `agent_faults` | 264,476 | the same, every reply kind, evictions, crashes | pages and recoveries are true, what is paged is shown |
| `jobs` | 549,053 | 2 windows, 2 mode changes, request window 2, three builds of the engine; 3 backtests, each wait up to 1, slack 1, lost writes and unlinks, restarts | no request forgotten untold, no window refreshing for ever; who may join a task, own downloads, verdicts that stand, never stuck |
| `ops` | OPSSTATES | 1 path, 2 clicks that do not overlap, 2 rules; 2 writes, 4 ticks, a tail of 2 lines; 2 tabs, 2 keys; 1 grant, 2 browsers, 4 clock values, 2 failures per window; 2 tokens, 2 devices, codes of 3 steps; 2 fetches, bans of 0, 1 and 4 ticks under a maximum of 3; a box that changes once in a load; 12 kinds of engine build, 4 cycles of which 1 is warm-up, silences of up to 4; trades of up to 4 bars, charts of up to 5, levels at 2, 3 and 4, a fixed target at 1; tables of up to 4 rows | everything else the web process promises, each part for itself |
| `agent_signing_text` | violation | the signing alert with two status texts | a recovery for a container still unhealthy |
| `access_revoke_unsaved` | violation | 1 grant, 1 browser, lost writes | a revoked guest is answered after a restart |
| `native_overlap` | violation | 2 devices, overlapping edits | a registered device is pruned away |
| `routing_overlap` | violation | 1 path, 2 overlapping clicks | a click puts back a pair it never named |
| `backtest_overlap` | violation | 2 jobs, timeout 2, slack 1 | a second start while a task is in flight |
| `exit_far_target` | violation | the trades of `ops` | a ladder worth more than its bars allow |
| `candles_degraded` | violation | 2 fetches of one signal | a row made without candles served for good |

The passing runs between them fire every action. Why the bounds are enough: the
store's entries of different fingerprints never touch, so two or three alerts cover
same-source, other-source and failure-of-source; counts matter at 1 and 2 only;
the dedup window and the TTL need one value each on either side of a cycle (1 or 2
and one more than `MaxBlind`). A second grant changes nothing for the first one
(records are independent; the throttle is global and counts refusals, not grants),
so the second actor is a second browser. Three jobs give a job, its successor and
one after a successor that died; a tick each for a wait and the slack is enough for
a task whose three waits outlast the deadline (3 against 2).

`Jobs`, `Ops` and `Measures` put parts side by side that share no state, so a
behaviour is one part at work (`part`, `page`) and a run's states are the sum of the
parts' and not their product; where parts do meet, in the audit file and the session,
they are in one module. In `ops` one path with two sides gives every relation between
an entry for a side and one for both, and two rules, one by trend on any gate and one
on the retirement's own gate, each of the ways a rule can reach a retired row. A
tail of two lines lets a line fall out of it. Two fetches are a fetch that notes a ban
and one already on its way; a ban of 4 is one longer than the breaker's maximum. Four
bars put a target before, at and after the stop with a bar on either side; four rows
are two of a kind and two others, over a page of two rows. The box of a load may start
as anything and change once, so any two probes may see different things; the theorem
has any number of changes. In `jobs` two changes give one that overtakes another, two
windows a response that puts back what the other has settled.

`RequestsSettle` is stated of one window: they are alike, in the model and in its
fairness, so what holds of any one of them holds of each.

**Fairness.** `MonitorAgent!FairSpec` has weak fairness of the cycle's steps (`run`
is `while True` with a sleep, `runner.py:535`; every await has a timeout) and of
`Restart` (the compose file's restart policy). `HeldIsPaged` assumes further that
crashes stop (`StaysUp`): an agent that always dies before the first page pages
nobody. `Jobs!Fairness` has weak fairness of what ends the waits of a backtest
(`WaitsEnd`: the clock goes on, and each of the script and the two copies succeeds,
fails or is ended by `wait_for`). One wait is not bounded: `_exec` awaits its pumps
after the process has ended (`exit_backtest.py:406`); the model takes an exited
process to have closed its pipes. Of the mode row it has that time passes
(`TimePasses`: the engine's writer settles what it queued in its next cycle) and
that each window goes on (`GoesOn`): its visit is served, a reply returns or times
out, and a page whose row asks for it loads again (`templates/control.html:350`). A
page with a half-typed edit does not (`control.html:354-355`), and neither does a
closed one: it stays as it is until the owner acts, which the fairness leaves out.
`Ops` states no liveness.

**Assumptions the runs make, each a constant.** `agent_reliable` keeps blindness
shorter than the TTL and Redis answering; the agent runs let no detector raise.
`ops` lets every write of the grant, token and device files land, and keeps apart the
registry edits of the two processes and the clicks on the routing page. `jobs` makes
no such assumption. Section 5 says what happens without them.

## 4. Proofs

All are proved by `tlapm` for every value of the constants that the modules' own
`ASSUME`s allow; what a theorem assumes beyond those is named with it. Those of the
modules say no more than the code or the world they stand for: limits and windows
are positive, sets of names are disjoint, a probe looks at declared containers
(`ProbingAssumption`), the days of the calendar follow each other
(`CalendarAssumption`), a row's times are moments or missing and the calendar goes on
after the last of them (`SampleAssumption`), a bar opens and closes within its range
(`BarAssumption`), the stop is a loss and the levels follow each other
(`ExitSimAssumption`), a queued change lapses within the window its note is followed
for (`ModeAssumption`).

### The monitoring agent (`MonitorAgentProofs`)

Whatever Redis does:

- `TypeCorrect`: `Spec => []TypeOK`.
- `PagedAlertsAreShown`: `Spec => []PagedIsShown`. Inductive as it stands, once
  the dict in flight is included: `Retrigger` never lowers a count or a severity,
  so a paged entry stays one the panel shows in whichever copy survives.
- `RecoveryIsTrue`: if no detector raises and each condition has one fingerprint,
  a recovery is only sent for a condition off when last seen. The strengthening
  (`ResolvesOff`) says that in the resolve phase every alert still to resolve, or
  being resolved, is not known to be on: it was active, did not fire, and its source
  was not blind, so the detector looked and saw it off.
- `PageIsTrue`: if no alert fires on a blind source, a page is only sent for a
  condition seen to hold; the strengthening (`ProcessesOn`) is the dual, for the
  process phase.

With Redis answering (`Replies = {"ok"}`):

- `EscalationsReopen`: an alert that gets worse loses its paged mark in the same
  write, also over crashes and evictions. The step needs that the dict a write is
  about to store is the one the read before it found (`WriteFollowsRead`).
- `HighAlertsArePaged`, without crashes: no HIGH alert rests unpaged. The invariant
  (`HighPages`) exempts the one alert whose store call is in flight, which
  `InPhase` ties to the phase of the cycle.
- `NoPageTwiceInWindow`, with crashes: assumes that no key is evicted, that the
  dedup window is no longer than the TTL, and what `RecoveryIsTrue` assumes. The
  invariant (`Remembers`) is a sum of clocks: the key's remaining time and the time
  since the owner was told make at least the TTL, so for as long as the window is
  open the key is there, and its entry *covers* what was told: it is as severe, and
  marked paged no later than the owner was told, unless it has got worse since. In
  between write and send the same is said of what is about
  to be told; a deletion is allowed only once a look found the condition off
  (`LooksRecorded`).

With Redis answering, no crash, nothing evicted and no source blind as long as the
TTL (`MaxBlind + 1 < Expiry`), which is the regime of `agent_reliable`:

- `HeartbeatIsTrue`: the number published is what the panel would find. `Kept` says
  that a key's remaining time is at least what the blindness of its source can still
  use up, so none runs out: a carried alert outlives the gap.
- `OpenPagesAreTracked`: between cycles the owner waits for a recovery exactly for the
  alerts held as paged. `Tracks` says the same at every step of every call, except for
  the one alert that is between the write and the send, for which it says what
  each of the two has heard.
- `AgentKeepsContract`: **`Spec => KeepsContract`**, the refinement of
  `PagerContract` with `told`, `sinceTold` and what the detectors saw mapped to the
  contract's state. Every step of the loop and the store is a stutter except three:
  a look that changes what is believed, `SendAlert` and `SendRecovery`. That a page
  either opens an episode, comes after the window or is worse than the last one
  follows from `Tracks`; that it is of a condition seen on, from `ProcessesOn`;
  that a recovery closes an open page of a condition seen off, from `Tracks` and
  `ResolvesOff`. It therefore also assumes what `RecoveryIsTrue` and `PageIsTrue` do.

### Access (`AccessProofs`)

- `OnlyTheOwnerIsOwner`: `Spec => []OwnerPowersMeanOwnerSignIn`, writes lost or
  not. The strengthening (`SessionOK`) adds that every session that has the guest's
  role names a grant, so that what a late answer writes back is a guest's session
  or the one the gate read.
- `EndedGrantsStayDead` and `OnlyHonouredGuestsAreAnswered`, assuming
  `SavesFail = FALSE`. The invariant (`StoreOK`) says that a grant's two records,
  memory's and the file's, agree about its life, that a record expires at the
  minted deadline or is no record, and that a grant the owner was told is revoked
  has a revoked record or none. A restart then reads back nothing memory did not
  say. The assumption is needed: `access_revoke_unsaved` is the counterexample
  without it.
- `GuessesThrottled`, assuming that a lockout lasts no less than the window failures
  are counted in (the program's are 900 and 300 seconds). The bound alone is not
  inductive. `Throttled` relates the code's list to the refusals there really
  were: either the two agree over the window, or the list was emptied by a lockout
  that began after every one of them, and then none is in the window any more when
  the door opens. With a shorter lockout it is false, and rightly.
- `LockoutNeverGrows`: an action property, whatever the parameters.
- `AccessTypeCorrect`: `Spec => []TypeOK`, by `Door` (the failure list is finite,
  in the past, numbered without gaps, and shorter than the limit at rest) and
  `SessionType`.

### Logins, tokens and devices (`NativeAppProofs`)

- `CodesAreUsedOnce`: `Spec => []AcceptedOnce`, by the invariant that no accepted
  code is later than the gate's `lastStep` (`GateOK`).
- `RevokedTokensAreDead`, assuming `TokenSavesFail = FALSE`: the file equals memory
  (`TokensOK`), so a restart brings nothing back.
- `RegistryStaysAsAsked`, assuming the two processes' edits do not overlap and
  device writes land (`Apart`): the list an edit has read is still the file when it
  writes (`RegistryOK`). Without it, `native_overlap` is the counterexample.
- `TypesKept`: the types, whatever fails or overlaps.

### The single-slot job (`ExitBacktestProofs`)

For any number of jobs, any timeout and slack, writes and unlinks landing or not, and
copies that may hang for their whole timeout: no assumption but that the constants are
numbers.

- `OnlyDisownedAreJoined`, `DownloadsAreOwn`, `VerdictsStand`, `TypeCorrect`. The
  inductive invariant (`Inv`) says in `Owned` that a task that is not past the deadline,
  was not launched on another job's record and was alone when it started (`Clean`)
  *owns* the slot: the slot is running, names its job, is no older than the task, and no
  other task is in flight. So its age cannot pass the deadline before the task's own
  does, and `start` cannot find the slot free. `Meetings` says that tasks in flight
  together, and a task in flight and the job just settled, were at some moment beside
  each other, and `Files` that what a task may find on the volume is its own, a
  companion's or what its start failed to unlink. `OneInFlight` alone is not inductive:
  nothing in it connects the clock to the slot.

### The control pages (`RoutingProofs`, `ControlProofs`)

- `RestoresAreConfirmed`, assuming clicks do not overlap. The invariant has three
  parts: the types; at most one click stands before its write (`OneAtATime`); and
  the list such a click will write is the engine's list with its own edit applied
  (`Current`). The last fails as soon as two clicks read the same list, which is
  `routing_overlap`. The step that matters, a write of `with_restored`, rests on
- `RestoreIsExact`: the list means afterwards exactly one side less than before,
  also when it named the whole path.
- `ConflictsAlwaysFlagged`: whatever rules there are, with directions, gates and
  conditions this build knows or not, a live rule that would put a row of a diverted
  side back on the live feed is flagged on that side's row. The lemma it rests on
  (`SelectedIsCovered`) relates two readings of a rule written apart: what refuses a
  row (`rule_unmet`) and what the routing page says the rule covers.
- `SoleBlockerIsExact`: the count the promotions page shows beside a condition is
  what relaxing it would let in, for every rule, condition and table.
- `RoutingTypeCorrect`.
- `ForgottenIsTold`, for any number of windows whose responses arrive in any order. The
  invariant (`Told`) says what every visit carries: a copy that is its own click's note,
  the one it was sent with, or none because the page it loaded says what became of it
  (`Graded`); and that a click on its way has a note nobody holds yet (`NotesOK`). A
  response sent before the note was there may still put its older copy back: that is the
  cookie's, and the property names it.
- `ChangesAreLogged`, by `WritesOK` (the engine changes only for a request that is on
  its way, answered or in `missed`).
- `PendingIsOwed`, with no bound on how long a reply takes: what the page calls pending
  is a self-test the engine has yet to begin, or one whose line was written more than
  the tolerance after the engine took it. `Owed` says that an accepted request is still
  queued or a report is no older than the moment the engine took it, however many lines
  have pushed it out of the tail.
- `ShownAtMostOnce`, with the invariant (`Fresh`) that a key waiting in memory, or not
  drawn yet, has not been shown: a cookie that comes back late finds nothing under
  its nonce. `OneShotTypeCorrect`.

### The measuring side (`MeasureProofs`)

- `BansAreKept`, by the invariant (`Shut`) that the circuit stays open at least until
  the end of every ban announced, or until the breaker's maximum after it was announced
  if that comes first, because `note_ban` only extends;
  `StaleIsNotServed`, by one (`Dated`) that relates the stamp of the cached result,
  back-dated if degraded, to the moment its candles were read, and says what a result
  kept for good must be. `CandlesTypeCorrect`.
- `WorkDecides`, by the invariant (`LoopInv`) that the published heartbeat is never
  younger than the last finished unit, exactly as old where the loop beats as it
  works, and there once a cycle has completed.
- `VerdictsAreWitnessed`: for any roster and any number of changes during a load.
  `Watched` says that the history holds what is down or up now; `Witnessed` that each
  answer was true when it was given; the chain, drawn from all of them, is then
  argued verdict by verdict, with the exceptions `BrokenWasDown` names (section 5).
- `DaysShownAreWhole`: a window begins and ends with a day (`WindowsAreWholeDays`), so
  a day with a row in it lies in it altogether, and its bucket is every row that closed
  on it (`DaysOfTable`).
- `PeakWasOpen`: `SweepFindsThePeak`. The sweep's tally at an open, opens swept less
  closes swept, is the number of positions open then (`OpenAtCounts`), because the
  rows already closed are among those already opened; the tally at a close is
  one of an open before it, or less.
- `RowsAreAccountedFor`, in three parts. A selector's count, over the rows the other
  selectors leave, is what choosing the option shows (`CountIsShown`): any choice in the
  others. The panels divide their rows: the states and deliveries by what the reducers
  cover, the runs of the concentration panel because "no gap on the way" composes
  (`WaysCompose`, `RunsDivide`), the delivery counts by adding cardinalities
  (`DeliveriesAddUp`). The pages divide the rows because a row's page is a quotient
  (`PageOfRow`, `PagesOfOneSize`), from lemmas about `\div` that the solver lacks.

### Replays of trades and charts (`ReplayProofs`)

- `CounterfactualsDecide` and `HeldPathsDecide`, for any fixed target, near or far, and
  all six ladders.
  - No invented win (`NoWinIsInvented`): the engine's record is read back into
    statements about bars (`RecordSays`: a peak reaches a price exactly if some bar did),
    so a leg the record fills was filled on the bars by the bar of the stop, or lies
    beyond a first target that was (`LegFills`: what `Believed` allows), and more
    legs filled are worth more when the rest ends in a loss (`FillingPays`). That the
    second kind may have been reached only after the stop is `exit_far_target`.
  - The held arm (`LaddersPriced`): what it stamps is the same reading of the bars
    before the stop's, so each leg is filled in both or in neither; the break-even
    ladder may only trade a loss for nothing.
  - The snap reports (`DecidedIsKnown`): the exit under another geometry is the first
    close at one of its levels (`ExitIs`, `ExitAt`). If the record reached the new level,
    that close lies before the recorded exit, where the old geometry was silent; if it
    did not, both exits are the same bar. Where only what lies after the close could
    tell, the reports refuse.
- `StopsComeBefore`: the levels of a chart satisfy the equation that defines them
  (`SarIs`), they keep their types (`SarTyped`), and two charts that agree up to a bar
  have the same levels up to it (`SarLooksBack`); so the next bar's stop, a function of
  what the bar before it left, is already settled, and lies in the range of a bar that
  reaches it. That a recursive function exists, and what it keeps, are inductions over
  the bars; each is the argument that there is no least bar where it fails
  (`HasLeast`), which the provers follow.

- `RecordsPairOnce`, of any ledger of stamped records, not of a run: the page matches
  the k-th base record of a candidate with its k-th trailing one and never looks at how
  far apart their stamps are, so what makes a pair is a position alone. Two records of
  one arm never stand at one position (`PositionsDiffer`: the earlier has strictly fewer
  before it), so no record is counted twice. The order of the page is strict and
  decides between any two pairs (`PageOrder`), so the numbers of pairs above them tell
  the pairs shown apart, and the limit holds.

The theorems about `Measures` are of trades, charts and tables of any length: `Sampled`,
that what is sampled is a sequence of such bars or rows, is all the behaviour adds.

### Only model-checked

Liveness, which the prover does not handle: `ClearedIsTold`, `HeldIsPaged`,
`NeverStuck`, `RequestsSettle`.

Every other property of a passing run is stated by a theorem above.

## 5. Where the code and its documentation part

Shown by a run, listed as findings:

1. `detectors.py:279`: the signing fingerprint carries docker's status text, so
   "Up 2 hours (unhealthy)" turning into "Up 3 hours (unhealthy)" recovers the
   alert.
2. `guest_access.py:224`: `revoke` ignores whether the write landed, against the
   comment at 165-167.
3. `device_registry.py:87`: the lock is per process, the file is shared by two.
4. `routes/routing.py:143`: the retired list is read before the write's await and
   written back whole, against 14-24. The run's trace has confirmed restores only: each
   of two clicks puts back the list it had computed, and a pair that neither named, or
   that was diverted in between, is on the feed again.
5. `exit_backtest.py:334`: `start` asks the slot and not the tasks, against 330
   ("Refuses if ... one is already in flight"). Each copy has the whole timeout (490),
   so a task may outlast the deadline of 62-63, and a start whose write fails over a
   stale record is confirmed by that record (351-354).
6. `exit_sim.py:222`: a farther leg is taken as filled when the whole record ever
   reached it and the first target came no later than the stop, against 193-196 ("never
   an invented win"). `NoInventedWin` is what the ladders do keep: no target at or inside
   the first counts that came after the stop.
7. `free_run.py:268`: the fallback of a signal the engine calls closed has `hit`
   (189), so it is kept for ever, against 274-275 ("we want to retry").

Met while modelling, with no run of their own:

- `control.py:404`: the row's state is "ok" also when the mode could not be read, so
  a load during an outage forgets the pending request; and the request is stamped
  after the engine's reply, so a refusal that comes at once reads as "did not apply".
  The note is in the session cookie, so a late response of another window may drop it
  untold, or bring back one that was settled (`ForgottenOnlyOnceTold` excepts both).
- `coindcx.py:152`: the tolerance is a second, but a reply may take ten
  (`engine_api.py:64`): a self-test whose reply was slower looks owed until the next one.
- `binance_klines.py:103`: a ban longer than `binance_ban_max_sec` is probed once that
  has passed (`config.py:142-146`), and a fetch of several pages goes on inside a ban.
- `fcm.py:37-40`: a live device the service answers 404 or `INVALID_ARGUMENT` for is
  pruned like a dead one, also when it was registered again while the push was sent.
- `engine_api.py:108`: `r.json()` on a 200 that is not JSON raises past the handler:
  the engine has changed and no line is written, against `audit.py:3-8`.
- `control.py`, tunables: the audit line keeps only whether the engine was
  initialised, so the reason of a refusal is not in the log.
- A reply that timed out is reported as "engine refused" though the write may have
  been applied.
- `free_run.py:280`: two computations of one signal may replace a final result by an
  older one.
- `exit_sim.py:214`: a fixed target takes the stamps of the first level as proof of
  its own order also when it lies beyond that level ("a target at/inside the TP1
  distance"), as the farther levels do. `evaluate_be` looks at how far the
  targets were hit, not when.
- `dark_exit_sim.py:369-430`: the edge of a strategy over the baseline is a
  difference of averages over different rows when the strategy skipped some.
- `dark_signals.py:631`: "A closed signal's window is stable" holds only for a window
  fetched after it ended. The ATR trail moves with the bar it is tested on.
- `routes/dark_signals.py`: the baseline's average includes degraded rows.
- `sar_exit.py:213`: pairs are joined by position, so one record lost on one side
  shifts every later pair.
- `track_record.py:712`: undated rows are in the summary and in no bucket.
- `system_health.py:861`: a PING docker could not carry is held against redis if
  docker answered the inspect of the same load, and an empty census while redis loads
  marks its keys broken: what `BrokenWasDown` has to except.
- `system_health.py:1200`: with no completed cycle the scan-cycle card returns before it
  looks at the cycle in flight, against 1231 ("A cycle that has NOT finished is graded
  first"), so a process that hangs in its first cycle, as one restarted over and over
  does, reads as "a young process, not a stalled one": `VerdictFollowsWork` has to
  except it.
- `promotions.py`: the flash says LIVE without looking at `dark_lane_enabled`.
- `api_v1.py`: the app may post any tunable, the retired list included, with no
  confirm.

- `alert_state.py:137` marks an alert paged before any sink is tried; line 9 says
  `paged` means "once Telegram message has been sent".
- `runner.py:399`: a raising detector is not counted as blind, so its alerts
  recover (`DetectorsRaise = TRUE` breaks `RecoveryMeansCleared`).
- `detectors.py:267`: an empty `docker ps` pages `signing_service:absent`, which
  the detector beside it (215-216) calls "a lie about which thing broke"
  (`FiresBlind` containing the alert breaks `PageMeansSeen`).
- `runner.py:320`, `442`: a source answering `{"error": ...}` leaves `cycle_ok`
  true and the dead-man ping goes out, against line 10.
- `alert_state.py:81`: a carried alert is not rewritten, so a source blind for
  longer than the TTL lets it expire without a recovery.
- `guest_access.py:222`: revoking an expired grant answers True, against 219.
- `routes/auth.py:62`: an owner's login in a browser with a guest session keeps
  `role = guest`, so the owner is treated as the guest.
- `auth_mw.py:116`: the counters of a denied request are not flushed.
- `app_tokens.py:130`: a `revoke_all` whose write fails is undone by a restart
  (`TokenSavesFail = TRUE` breaks `RevokedTokensStayDead`).
- `exit_backtest.py:341`: an artifact `start` could not unlink stays, and is offered as
  the new run's if its own copy fails (`DoneIsOwn` excepts it).

## 6. Not modelled, and why

Text of messages, templates, formatting and parameter clamping carry no state.
The engine client's reads are HTTP I/O whose results the models choose. Hashing and
signatures are taken as unforgeable and codes as distinct. The throttle is
per process and forgets at a restart, as the code documents, and so does the TOTP
gate. The mobile client and the one-off scripts are outside the server. The
measurement pages (price action, governor, entry features, strategy lab and their
siblings) render rows with the same reducers' shapes as the ledgers that are modelled
and hold nothing between requests. The data-volume inventory reads file sizes and
ages. Random resampling (`bootstrap_ci`) is left out of the summaries, and so are
floating-point rounding and the logarithms of volatility: the models count in whole
units, so they say nothing about rounding.

## 7. What is left

To model: the container health check's age against the poll interval, the grading
inside the detectors with the two that keep state, the dark-signal tracker's cache of
candles, the log reader's cache. To prove: that the groups of `Grouped` cover the
closed trades, which no run's property needs. That the shares of `Concentration` add up
to the book is a sum over a partition, an induction over a fold, and stays out of the
prover's reach.
