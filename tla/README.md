# DVhub: specifications, model checking and proofs

DVhub (`src/dvhub/`) is a Node.js program that runs beside a photovoltaic plant with a battery. It
reads the plant over Modbus/TCP or MQTT, and it decides what the plant feeds in: a direct marketer may
switch the plant off or limit it, the grid operator's control box may limit it over EEBUS, the site may
have a fixed cap, and a schedule shifts energy between hours. Several of these act on the same
registers of the same inverter at the same time, over a connection that fails, from a process that may
stop at any step, and a wrong order leaves a plant off for days or feeding in when it must not.

This directory holds TLA+ models of the parts where that can happen, TLC configurations that check
them on small instances, and TLAPS proofs of their safety properties for every value of the constants.

Contents: [the system](#the-system) · [modules](#modules) · [runs](#runs) · [bounds](#bounds) ·
[fairness](#fairness) · [proofs](#proofs) · [findings](#findings) ·
[what is not covered](#what-is-not-covered) · [plan](#plan) · [running](#running)

## The system

`server.js` wires everything in one process and one event loop. There is no parallelism: code runs to
its next `await`. What makes the system hard is everything that may happen at an `await`, and there is
one at every Modbus request and every file.

| part | state it keeps | operations | talks to |
|---|---|---|---|
| **DV control** `schedule-eval.js` 547-772, 2044-2145 | backups of customer values `_dvSeqSaved`, also in `dv_seq_saved.json`; `_dvSeqSavedPending`; cache `_lastDvFeedIn` | block (save, write), release (write back), limit and lift of the limit | inverter through the transport; called by evaluation, marketer, API, arbiter |
| **Feed-in limit arbiter** `services/feed-in-limit-arbiter.js` | limit per source, `applied`, chain of writes | `set`, `reapply` | DV control; called by marketer, EEBUS, cap |
| **Fixed cap** `services/feed-in-cap/index.js` | command and readback of the cap, warnings | 5 s tick, 10 min readback | arbiter |
| **Marketer over LUOX/Lumenaza** `dv-interface-luox.js`, `modbus-server.js` 240-287, `server.js` 1262-1311 | setpoint, partial limit, block, a lease for each, age of the watchdog | setpoint, watchdog, failure of a limit, end of a lease | arbiter, DV control |
| **EEBUS limit** `services/eebus/limit-state.js`, `services/eebus/index.js` | state machine of LPC and of LPP, `grid-state.json`, limit in force | heartbeat, limit and failsafe writes, 1 s tick, pairing, start, stop | helper process (JSON lines), arbiter |
| **Modbus/TCP transport** `transport-modbus.js` | per device: socket, queue, pending request, buffer, timers | request, answer, timeout, close, drop | devices |
| **Schedule evaluation and control gate** `schedule-eval.js` 379-459, 784-1392, 1579-2145; `services/control-commands.js`; `control_state.json` | overrides, last write of each target, timers of the readback, emergency stop (on disk) | evaluation every 5-15 s, `applyControlTarget` with its gates, keepalive and readback; commands of the operator, stop and resume | DV control, transport, telemetry |
| **Zero feed-in, loop of the fixed cap** `schedule-eval.js` 2147-2478, `services/feed-in-cap/index.js` 88-118 | is the throttle in force, how far is it closed, streaks | two ticks of 5 s that enter, refresh and leave a throttle | transport; reads `_lastDvFeedIn` of DV control and writes a register of its sequence |
| **Peak shaving** `schedule-eval.js` 1396-1592, `services/peak-shaving` | lifted discharge lock (on disk) | lift, lock | transport |
| **§ 14a** `services/paragraph14a` | limit, devices | allocation | EEBUS, devices |
| **EEBUS helper** `eebus/`, `services/eebus/index.js` 225-374, 834-954 | child process, `stopping`, restart timer, settings last seen | start, exit, restart, stop, reload | control box |
| **Modbus slave** `modbus-server.js` | register image | frames of the marketer | LUOX profile |
| **Polling, telemetry, MQTT, history, optimizer, market automation, web, ...** | snapshots, SQL, plans | periodic jobs, routes | everything above reads their results |

The complete list, with the files of each part and why a part is left out, is in `PROJECT.json` under
`components`.

How the parts meet:

```
 operator, stop, schedule --> control gate ---grid setpoint--requests--> Modbus transport --> GX
 zero feed-in, cap loop ----throttle, OutWRte-------requests--> Modbus transport --> inverter
        ^
        | _lastDvFeedIn
 schedule evaluation ---block/release---------------+
 marketer (LUOX) --- 0 % / lease: setForcedOff -----+--> DV control --requests--> Modbus transport --> inverter
        |                                           |       ^
        +---1..99 %---> arbiter ---limit/lift-------+-------+ (sequence "limit")
 fixed cap -------------> arbiter
 control box (EEBUS LPP) > arbiter
```

What makes each part correct, and where it is hard:

* **DV control.** A block must be undoable: the customer's value is saved, on disk, before it is
  overwritten; what is saved is never DVhub's own value; a release that is remembered as done has left
  nothing. Hard: requests fail half-way through a sequence, the process stops between write and file,
  and callers overlap.
* **Arbiter.** The inverter holds the smallest active limit. Hard: commands that are skipped because
  nothing seems to change, lost answers, drift at the inverter, a restart that forgets all limits.
* **Marketer.** Less feed-in than commanded is safe, more is not; but nothing may stay curtailed without
  a command and a living watchdog. Hard: the failure of a limit arrives after the next command.
* **EEBUS limit.** Silence of the box leads to the failsafe, the failsafe lasts, and both survive a
  restart; without a box there is neither. Hard: heartbeats, timer, file and helper process race.
* **Control gate.** What is skipped as unchanged is at the device; after an emergency stop nothing is
  sold or bought, also by the next process; a command reported as failed leaves no override behind; and
  the device comes back to what is wanted. Hard: each caller awaits its own write, so that two evaluations, the
  operator, the stop and the readback find memory and register at different moments.
* **Zero feed-in.** During a block the throttle is not left before the charge is forced again (entering
  it does open such a gap, see [observations](#observations)); after the block there is neither a
  throttle nor, with one exception, a value of the loop. Hard: a tick is several requests, each may fail, the
  process may end between them, and the block saves and restores a register the loop writes too.
* **EEBUS helper.** The helper that runs is the one the service holds, and it runs exactly while the
  settings say so. Hard: start, stop, exit, timer and reload each wait for something.
* **Transport.** Every request is settled once, with its own answer, in order. Hard: the `close` of a
  socket that has already been replaced.

`PROJECT.json` lists under `hazards` each place in the code where this goes wrong if it does, with the
properties that cover it.

## Modules

| module | models | is built on |
|---|---|---|
| `RequestService` | *abstract*: what every caller may rely on when it sends a request | - |
| `ModbusTransport` | `transport-modbus.js`; implements `RequestService` | `RequestService` (INSTANCE) |
| `DvControl`, `MCDvControl` | `runDvControlSequence`, `applyDvFeedInLimit`, `runFlagSequence`, release of the evaluation, backup file | outcomes of `RequestService` |
| `FeedInLimitArbiter` | the arbiter and the tick of the cap | one write of a `DvControl` limit sequence as one step |
| `DvLimitController` | the marketer's handlers, leases and timer | EXTENDS `FeedInLimitArbiter` |
| `LpLimitState` | LPC/LPP machine, its file, its service | - |
| `ControlGate`, `MCControlGate` | `applyControlTarget`, its callers and its readback, for the grid setpoint | outcomes of `RequestService`, late ones included |
| `ZeroFeedIn`, `MCZeroFeedIn` | the two throttle loops beside block and release | EXTENDS `DvControl` |
| `EebusHelper`, `MCEebusHelper` | the child process of `services/eebus` | - |
| `*_proofs` | theorems of the module they are named after | the module, TLAPS |

Definitions whose name begins or ends in a description of a slip (`Mutant:` in their comment) are
plausible bugs of one definition of the code; no specification uses them. For each property there is
one that breaks it, so that each property is known to depend on the code.

### ModbusTransport and RequestService

State: `queue`, `pending`, `buf` are the fields of the pooled connection; `sock` is its socket and
`closing` says that a socket that is gone has yet to emit `close`; `wire`, `late` and `answers` are the
network, `executed` is the device. One action per entry point of the class: `Send` (`send`), `Refused`
(read-only guard), `Connected`, `SocketError`, `PeerEnds`/`Ended`/`Closed` (listeners), `Timeout` (the
timer of the request), `Drop` (idle timer and `dropConnections`), `Data` (`_drain` with its loop).
`DeviceReads`, `DeviceReadsLate` and `Stray` are the device. `_fail`, `_next` are the operators `Fail`
and `Advance`, called in the places the code calls them. Node emits `close` before timers and data get
their turn again, hence the `~closing` in their guards; calls and the `connect` of the next socket may
come in between, and that is the interesting race: the late `close` runs `_fail` on a connection that
may already have a new socket with requests on it.

Register decoding is left out: an answer is the request it belongs to and whether it is an exception.
The counter of transaction numbers is one for all connections of the process
(`transport-modbus.js:206`): `issued` counts the requests of the process, and `Refused`, which takes a
number without using this connection, stands also for a request on another one.

`RequestService` promises: a promise is settled once; it is fulfilled only when the device has carried
the request out; requests settle in the order of the calls; a rejected request may still have been
carried out, or will be. `DvControl` and `FeedInLimitArbiter` take exactly these outcomes for their
requests (`WriteFail` with and without effect). They leave out that a rejected write reaches the device
*after* a later one on a newer socket; `ControlGate` has that (`LateLands`).

### DvControl

State: `saved`, `disk`, `pending`, `last` are `_dvSeqSaved`, `dv_seq_saved.json`,
`_dvSeqSavedPending`, `_lastDvFeedIn`; `dev` is the inverter; `task[c]` is the sequence the caller `c`
is running, between two awaits; `mine` is a history variable. Actions: `CallBlock`, `CallRelease`,
`SkipBootRelease`, `CallLift`, `DiscardBackup`, `EvalFlush` begin an operation; `ReadOk`, `ReadFail`,
`BlockWriteOk`, `RestoreWriteOk`, `WriteFail` are the answers it awaits; `Restart` and `CustomerSets`
are the world. A caller does not begin a sequence while its own runs (the evaluation is a loop that
awaits); different callers do overlap. The writes of the file are synchronous in the code
and so part of the step that makes them, and may fail in it.

Nothing in the code keeps two sequences of the flag apart, and they do damage when they meet
(`dv_overlap`). `Apart` says that none do; `ApartSpec` are the behaviours in which evaluation, marketer
and API take turns, the feed-in limit beside them at its own pace. `LimitBacked` is what the arbiter takes
for granted of a limit; the code gives it only as far as `LimitKept` says, because a limit, unlike a block,
is written without its backup on disk.

Values are the customer's, DVhub's block value, the default of a release and `Legacy`, a backup whose
value can no longer be encoded. `Init` has installations with blocks of an older version and their
backups.

### FeedInLimitArbiter

State: `sources`, `applied` and the chain of promises, as the list of its unsettled writes with who
awaits each; `rejected` is the outcome of the last one, which a command that finds nothing to write
inherits. `limiter` and `backup` are the inverter and its backup. `Command` is `set`, `Reapply` is
`reapply`, `WriteOk`/`WriteFail` settle the first write of the chain. A limit sequence of `DvControl`
(one point, read and write) is one step here: its outcomes are success, no effect, effect without
answer; a restart keeps `backup`, as it does in `DvControl` unless the file could not be written
(`LimitIsBacked`). A source may repeat a command it has given. `overlap` is history: a command came
while a write was in flight, and no write has since left the chain empty with the limit of now. `CapTick` and `CapReadback` are the tick of the cap with its `busy` flag.

### DvLimitController

Extends the arbiter by the marketer. `dv` has the setpoint, the partial limit and the block, each with
what is left of its lease. `WriteSetpoint`, `WriteWatchdog`, `WriteBoth` are `processLuoxFrame` for the
registers in one frame, `ExpireLease` is the timer of one second, `DvWriteFail` the `catch` of a limit,
`ConfigChanged` an operator who takes the limiter out or puts it in, `DvRestart` the process. 0 % sets
the block through `setForcedOff`; what DV control does with the block is `DvControl`, which is not
composed with it: the flag that is set, and the lease, are the interface between the two.

### LpLimitState

One of the two machines (LPC, LPP have the same class). `mach` has the fields of the machine, times as
ages; `disk` is `grid-state.json`; `applied` is the limit in force; `proc` is the helper process. The
operators `onLimit`, `heartbeatLost`, `nextState`, `evaluate`, `effective`, `toJSON`, `restore` are the
methods of `limit-state.js`, the actions are the events of the helper, the timer and the life of the
service: `Heartbeat`, `GridLimit`, `GridFailsafeLimit`, `GridFailsafeDuration`, `OtherEvent` (device
events, and events of the other machine, which share `apply` and the file), `Timer`, `ChildExit`,
`Start`, `Stop`, `StopDone`, `StartAgain`, `PeerChanged` and `Renewed` (`reload` before and after the
helper has been told), `Restart`. Between the two (`renewing`) the pairing is the new one and the machines
are still those of the old box; events and the timer go on. A limit is taken also without a box, as in
`handleEvent` (only a writer known not to be the box is passed over); `NoBoxNoLimit` holds because a
machine that is disabled does not limit.

The helper may report one more event after `stop()` was called; `proc = "stopping"` is that time.

`SilenceIsFailsafe` has both ends of the silence of a box: beyond the timeout the machine is in the
failsafe or past it, and beyond the timeout and the longest duration there is (`Outlasted`) nothing is
limited any more, though the duration may be written, the helper lost and the process restarted in between.
`FileTrue` says that the values of the box in the file are those in force, and that a failsafe in the file
is one that is going on; the converse, that a running failsafe is in the file, is `FailsafeOutlasts`, which
the code does not give (see [observations](#observations)).

### ControlGate

One target, the grid setpoint, through which DVhub buys and sells. State: `lastWrite` and `due` are
`state.schedule.lastWrite` and whether the keepalive is due for it; `override` is the manual override;
`paused` and `disk` are the emergency stop and `control_state.json`; `timer` is the planned readback;
`chain` has the requests in flight with the caller that awaits each; `dev` is the register and `late` a
write on a socket that was given up. The gates are one operator each, in the order of the code
(`Mandatory`, `Buffered`, `Illegal`, `ShareCapped`, `PeakCapped`, `Held`, together `Gate`), `Effective`
and `Wish` are `effectiveTargetValue` and the cascade of `evaluateSchedule`. Between the gates and the
request there is no `await`, so that a call is one step (`EvalAsk`, `Command`, `Stop`) and its
continuation another (`WriteOk`, `WriteFail`). `VerifyFires`, `VerifyReads`, `VerifyFails` are the
readback, `Restart` the process, `Drift` a GX that restarts, `WorldChanges` everything the gates read.

An evaluation is one step or two: at a negative price it may have to block the feed-in first, which it
awaits after it has decided what it wants (`asked`, `EvalGoesOn`); overrides, stops and other writes come
in between. That the device carries a write out and that the answer arrives is one step, `WriteOk`: of
what is modelled only a readback looks at the register, and it is served after the answer, so that a late
write or a fall-back of the GX that lands between the two is the same as one after both. A second stop
after a resume may be asked while the first one's write is in flight; `OfTheStop` tells them apart.

`env` is what evaluation and gates read: the rule that is effective, state of charge, price,
permissions, caps. `first` says that the evaluation a process starts with (`start()` does not await it)
is still to come: it may overlap the looped one. `stop` is the history of the emergency stop in force;
"raced" marks a stop that skipped its write while one it does not allow was in flight. `doubt` says that
the register has been changed by something else since the last confirmed write, `granted` is the last
command that was answered as done.

Left out: the other targets; the export of the DC side (`schedule-eval.js:1652-1808`) as a write of its
own before the others, with its steps of 50 W and its minute between them: its value is a rule with its
own source here, and an evaluation writes once; the live recomputation of EOS values (a rule has some value); the check of
gross bounds, the guard of the volatile register and the clamp of the minimum state of charge; the
delay with which `negativePriceActive` follows the price; a control file that cannot be written; the
minimum interval of the readback.

### ZeroFeedIn

Extends `DvControl` by `zeroFeedInTick` and `feedInCapTick`, for an inverter without a feed-in limiter
(`ProfileAssumption`: nobody runs a sequence of the limit, and `outWRte` is the last point of the block).
The evaluation, the marketer's `setForcedOff` and the API block and release it.
`ena` is `WMaxLim_Ena`, `lapse` says that `WMaxLimPct_RvrtTms` has been set, `zfi` and `fic` are the
`capActive` of the loops, `streak` counts blocked ticks. A tick is the list of requests it still has to
make (`ztick`, `ftick`), decided when it begins (`ZeroFree`, `ZeroBlocked`, `CapOff`, `CapStep`); each
answer is a step (`ZeroOk`, `ZeroFail`, `CapOk`, `CapFail`), so that block, release, failures and
restarts come in between. `Sequences` (every step of every caller), `CustomerStep` and `ZRestart` are the
steps of `DvControl`. `ZApartSpec` are the behaviours in which the callers take turns, as in `ApartSpec`;
the ticks come at any time in both.

Whether the plant wants a throttle (state of charge, measured export, streaks, load) is an input; how
far it is closed is left out, and `RvrtTms` is taken as configured. `byLoop` says whether the last write to
`outWRte` was the loop's, `crossed` that the write of a release to it was answered while a tick had one
to it in flight: nothing in the code keeps them apart, though the comment at `schedule-eval.js:2502` says
"nie gleichzeitig". With `outWRte` anywhere but at the end of the block `BlockBacked` does not hold, hence the
assumption, which the profile of Fronius satisfies.

### EebusHelper

`child`, `stopping`, `lastKey` are the variables of the service; `timers` counts the restart timers
that will fire and `held` says whether `restartTimer` is one of them; `starts` are calls of `start` that
wait for a key pair, `waiting[h]` calls of `stop` that wait for the exit of `h`, `due` calls of `start`
that go on in the same turn of the event loop. `Start` is `start` with the branches of the settings, the
binary and the key pair; `Exit` is the listener of the process, `Fire` the restart timer, `Reload` is
`reload` up to the wait of `stop`, `StopTimer` its 5 s. `Room` bounds how many calls of `start` may be
under way, so that there is a process left for each. `raced` says that two calls have met, or that a
stop has not waited for the exit: the code supervises its helper only without that (see
[observations](#observations)). A change of the trusted devices alone, which needs no new helper, is
`PeerChanged` of `LpLimitState`.

## Runs

| run | module, cfg | question | answer |
|---|---|---|---|
| `dv_control` | `MCDvControl` | Is every block undoable, every backup genuine, every remembered release complete, whichever of three callers block and release in turns; does a block that came to its end, or was found after a start, leave the inverter at last? | yes (one given up half-way may not, see observations) |
| `dv_overlap` | `DvControlOverlap.cfg` | Is a block backed when the marketer's block overlaps a release? | no, see findings |
| `arbiter` | `FeedInLimitArbiter` | Does the short-circuit compare with the truth, do serial commands settle at the minimum, does a cap heal everything? | yes |
| `arbiter_lifted` | `ArbiterLifted.cfg` | Is a limit without a source written back in the end? | no, see findings |
| `dv_limit` | `DvLimitController` | Curtailed while commanded, free while not, neither too short nor for ever, and obeyed by the inverter? | yes |
| `lp_limit` | `LpLimitState` | Failsafe on silence, held long enough, over at last, nothing without a box, file true, every limit ends? | yes |
| `lp_stopped` | `LpStopped.cfg` | Is nothing limited after EEBUS is switched off? | no, see findings |
| `control_gate` | `MCControlGate`, `ControlGate.cfg` | Is the memory of the last write true, does a stop hold, does a failed command leave no override behind, is the readback honest, and does the device come back to what is wanted? | yes |
| `gate_stop` | `MCControlGate`, `GateStop.cfg` | Does no discretionary write come after the flag of the stop? | no, see findings |
| `zero_feed_in` | `MCZeroFeedIn`, `ZeroFeedIn.cfg` | With callers in turns, is what the loop writes backed like a block, and gone after a release that has not met it at the register; does leaving the throttle open no gap; does the throttle follow block and limit? | yes (entering opens a gap, see observations) |
| `eebus_helper` | `MCEebusHelper`, `EebusHelper.cfg` | Is the helper that runs the one the service holds, and does it follow the settings? | yes |
| `modbus` | `ModbusTransport` | No promise forgotten, own answers, in order, everything settles, `RequestService` implemented? | yes |

Some properties carry a condition, and the condition is what the code really gives:

* The safety properties of `dv_control` need that no two sequences of the flag overlap (`ApartSpec`);
  `TypeOK` does not.
* `Settled` needs `~overlap`. A command that returns to what was applied before the write in flight is
  taken for applied (`feed-in-limit-arbiter.js:37` reads `applied` when the command comes, line 41
  sets it when the write is done), and the write then lands. With a fixed cap the readback repairs it
  within 10 min (`CapHeals`); without one nothing does until the next command.
* `NothingLeft`, `LeaseHeld` need `clean`: no limit of the marketer was lost to a failed
  write or a change of configuration since the start. Without it the failure of an old limit, which
  arrives after 100 %, still blocks the plant (`dv-interface-luox.js:187`), until its lease ends.
  `LeaseEnds`, the bound on that, has no such condition, nor has `Curtailed`.
* `OwnAnswer` allows a wrong answer only after the device has sent a frame nobody asked for *and* the
  process, over all its connections, has made as many requests as there are transaction numbers. After such a frame the connection stays one
  answer behind: requests fail until it is closed, but none is fulfilled wrongly before numbers repeat.
* `FileTrue` needs that the last write of `grid-state.json` succeeded.
* `LastWriteTrue` and `StopNeutral` need `~doubt`: no write that had been given up has reached the device,
  and the GX has not fallen back, since the last confirmed write. What repairs that is the keepalive:
  `HoldsWanted` has no such condition, but needs a keepalive and a time without restarts in which what is
  wanted stays the same.
* `StopNeutral` counts a stop as carried out when its own write is confirmed, or was skipped with nothing
  discretionary in flight. A stop whose write failed is not repeated by the code.
* `EventuallyReleased` is about a cache that does not say "feed": a block that came to its end, or that of
  the process before. What is left of a block given up half-way while the cache says "feed" is looked for by
  nobody (`NoBlockBehindCache`, see [observations](#observations)).
* `CustomersBack` needs callers that take turns, like the properties of `dv_control`, and `~crossed`. When
  a release and a tick write `outWRte` at the same moment, the write of the tick may land last
  (`ReleaseRestores`, see [observations](#observations)). Every other order of ticks and sequences is in it.
* `GapOnlyByEntering` has no condition on callers or order, but names the three steps that open a gap: the
  first request of entering, a throttle that lapses, and a throttle of the cap loop taken away in a tick
  that began before the block. `ThrottleFollows` has no condition.
* `FailedHasNoEffect` is about the override. The setpoint a failed command asked for may still be written by
  an evaluation that has seen it; the next one writes what is wanted (`HoldsWanted`).
* `Supervised` and `FollowsSettings` need `~raced`; `FollowsSettings` also leaves out a process that could
  not be spawned (its `error` is not answered by a restart) and a key pair that could not be made.

Reading the code also showed a test that no state satisfies: `limit-state.js:147` asks for a limit
written since the failsafe began, but `onLimit` ends the failsafe in the same call.

## Bounds

| run | bounds | why they are enough |
|---|---|---|
| `dv_*` | two flag points (Fronius has two) and the limit point; one customer value; all four callers in `dv_control`, evaluation and marketer in `dv_overlap` | two points are the least at which a sequence fails half-way with an effect; values are only compared with DVhub's own; the callers are all there are |
| `arbiter*` | two sources, limits 3 and 6, `MaxChain` 2, all faults | two limits of two sources give every order of smaller and larger; two writes are one in flight and one behind it, after which only the last target matters |
| `dv_limit` | setpoints 0, 30 and 100 %, reference 10 W (30 % is 3 W), lease of 1 tick, cap 6 W or none | one partial setpoint and one of each extreme; a lease of one tick already has "in time", "at the end" and "over"; with the cap the two sources ask for different limits, without it the marketer is alone |
| `lp_*` | one limit, timeout 1, failsafe durations 1 and 2, limit time 1, `MaxAge` 3 in `lp_limit`; timeout and ages of the other configurations are in their cfg | durations longer than, and as long as, the timeout; ages beyond every duration behave alike, and 3, the timeout and the longest duration, is where the silence outlasts them (an age stops one above `MaxAge`). With timeout 2, durations 2 and 3 and `MaxAge` 5 (1.67 million states) the properties hold as well |
| `control_gate`, `gate_stop` | setpoints 0 (neutral), -1 (default and buffer), -3 (a sale); one persistent command of -3; one operator; two environments: nothing scheduled, and a rule that sells at a negative price; `MaxChain` 1: one request of operator, stop, first evaluation or readback in flight beside one of the loop | three setpoints are one of each kind the gates distinguish below 0; two requests in flight are a caller whose memory is out of date and one that makes it so; the negative price is where an evaluation waits. With a third environment, the sale at a fair price (600,000 states), with an unknown state of charge (741,000), and, for the safety properties, with two requests beside the loop's (4.05 million) they hold as well; permissions, shares, peaks and limits vary only in the theorems |
| `zero_feed_in` | a block of the one point the loop shares; one customer's value; evaluation, marketer and API in turns; `MinStreak` 2 as in the code | the other points of a block are `dv_control`'s; the callers are all there are for this inverter. With a second point before it and two callers the safety properties hold as well (3.3 million states) |
| `eebus_helper` | three processes (`Helpers`), settings on or off with two ports; `Room` | one that ends, one that runs and one to be started; a process that is gone may come again |
| `modbus` | 3 requests, 2 unasked frames at a time, 3 transaction numbers | one pending, one behind it, one made during a race; with 3 numbers the third wraps to 0, is sent as 1 and meets the first |

The largest runs are `lp_limit` (about 819,000 states), `control_gate` (339,000), `zero_feed_in`
(302,000), `modbus` (297,000), `dv_control` (210,000) and `dv_limit` (130,000). No run switches
the deadlock check off: in each system something can always happen (a restart, a customer, a dropped
connection).

`Faults` says which faults a run has. The violation runs leave out those that their counterexample does
not need, so that it shows the cause and not a fault that explains it away.

## Fairness

Only what a timer or the event loop guarantees is fair; commands, faults and restarts never are.

* `DvControl`: the evaluation asks for the release in every cycle in which it asks for no block, until the
  release is done (weak fairness of its release; asking for a block that is cached as applied is no step);
  a sequence in flight goes on, because every request is settled (weak; `EverySettles` of
  `ModbusTransport` is the reason); a point that is written again and again is written at last (strong,
  per step: the connection is not broken for ever at the same point).
  `ApartSpec` is the part of `FairSpec` in which callers take turns. It leaves out a caller whose sequence
  never ends while the evaluation has something to do, as does the code: every request is settled.
* `FeedInLimitArbiter`, `DvLimitController`: the tick of the cap, the settling of writes, the timer of
  the leases and time (weak); the readback (strong: the tick of 5 s may disable it for a moment, every
  10 min it is due all the same); a write of the same target that is tried again and again succeeds at
  last (strong).
* `LpLimitState`: the timer and time (weak).
* `ControlGate`: the looped evaluation asks, and goes on when the block it waits for is settled, the
  keepalive comes of age, requests settle (weak); a value the
  loop asks for again and again is written at last (strong, per value). Nothing is assumed of operators,
  the first evaluation, the readback or a late write.
* `ZeroFeedIn`: both loops tick, requests settle (weak); the requests of a refresh and of the end of a
  throttle that are made again and again are answered at last (strong); a throttle that neither loop
  refreshes lapses (weak: the inverter's own timer).
* `EebusHelper`: what goes on at once, the restart timer, the key pair, the tick that sees other settings,
  a stopped helper that ends, the 5 s of a stop for a process that cannot end (weak).
* `ModbusTransport`: the timer of a request, connecting (it connects or fails, at the latest by its own
  timer of 5 s), the end and the `close` of a socket (weak). Nothing is assumed of the device.

## Proofs

All theorems hold for every value of the constants that satisfies the named assumptions of the module
(`StepsAssumption`, `ValuesAssumption`, ...): any number of points, customers' values, sources, limits,
setpoints, durations, requests and any length of the chain. TLC evaluates the assumptions in the runs.

| module | theorems | inductive invariant, and why the property is not inductive by itself |
|---|---|---|
| `DvControl_proofs` | `FlagInvariant`, `TypeCorrect`, `BlockIsBacked`, `BackupIsGenuine`, `ReleaseIsComplete`, `NoBlockIsBehindCache`, `LimitIsBacked` | A write that is confirmed sets `mine` at once, so the backup must have been on disk since the sequence passed from reading to writing: the invariant follows each sequence step by step (what is saved, what is on disk, which points are behind it). The theorems about the flag are for any callers that take turns (`[]Apart`, `dv_overlap` shows that they fail otherwise); `TypeCorrect` and `LimitIsBacked` need no turns, because no sequence of the flag touches the point of the limit or its backup. For `NoBlockIsBehindCache`: while the cache says "feed", what is blocked are the steps behind the one a block is at. |
| `FeedInLimitArbiter_proofs` | `TypeCorrect`, `AppliedIsTrue`, `SerialSettled`, `OneProcessIsSettled` | For `TypeOK`: what is written is a minimum of limits, which exists because limits are natural numbers. For `AppliedTrue`: the customer's value is saved whenever a limit may be at the inverter, otherwise lifting one would write nothing and set `applied`. For `Settled`: without overlap the chain has one write at most, and its target is the minimum of now. For the first process: until its first write has succeeded or failed the inverter is as the customer left it, and what a source asks for is on its way. |
| `DvLimitController_proofs` | `DvTypeCorrect`, `AlwaysCurtailed`, `FullIsFree`, `LeaseIsHeld`, `MarketerIsSource`, `PartialIsReached` | As long as no limit was lost, exactly one of block, limit and full feed-in is in force with its own lease, and the leases agree with the age of the watchdog or of the setpoint. `MarketerIsSource` is the refinement `DvSpec => Spec` of the arbiter: each handler is a command of one source or a stutter. `PartialIsReached` takes `SerialSettled` over with it and adds that a partial setpoint in force is the limit of the source. |
| `LpLimitState_proofs` | `TypeCorrect`, `NoBoxIsFree`, `FailsafeIsHeld`, `FileIsTrue`, `SilenceLeadsToFailsafe`, `FailsafeIsKept`, `StoppedWithoutEvents` | The file and the machine agree field by field and age together; silence is measured by the age of the heartbeat, or of the start, which the timer compares with the timeout before time passes; and a failsafe is at least as old as the silence is beyond the timeout, whatever duration it has, so that it is over when the silence has outlasted the longest. |
| `ControlGate_proofs` | `TypeCorrect`, `LastWriteIsTrue`, `StopIsNeutral`, `StopSeenNeutralises`, `ReadbackIsHonest`, `FailedIsWithoutEffect` | For `StopNeutral`: once a stop is carried out every write in flight is mandatory, and while it waits those behind its own are; mandatory values are safe; and the flag is on disk as it is in memory. For the readback: one at a time, and unless a write came since it is of the last one. For commands: what one in flight would give back was in force before it; `FailedIsWithoutEffect` is for any operators whose commands do not overlap (`CommandsApart`; two that do can give back each other's override). |
| `ZeroFeedIn_proofs` | `TypesOfLoops`, `CustomersValuesReturn`, `LeavingLeavesNoGap` | For `CustomersValuesReturn` the invariant of `DvControl_proofs`, for any callers in turns (`[]Apart`) and, unless a release and a tick have crossed: the shared point is backed while the cache says blocked or the loop has written it; while the cache says blocked nothing is being saved; and only then does a tick write it. `LeavingLeavesNoGap` needs no condition: a tick that takes the throttle away during a block has forced the charge before, and no write of a block ends it. `TypesOfLoops` needs none either. |
| `EebusHelper_proofs` | `TypeCorrect`, `IsSupervised` | At most one of a helper, an armed timer, a start that waits and a start that is due exists, a stop waits for the helper that is held, and while it does `stopping` is set. |
| `ModbusTransport_proofs` | `TypeCorrect`, `Invariant`, `NoneIsForgotten`, `AllAttended`, `AnswerIsOwn`, `ServiceIsServed` | The requests the connection holds are in the order of the calls and are exactly those that wait; at most one of them is with the device, and an answer on its way is its own unless the device has sent a frame unasked. `ServiceIsServed` is the refinement: every step settles a first part of what is held, or stutters, or is a call or an execution of `RequestService`. |

Some theorems have a condition on the behaviour (`[]Apart`, `[][LimitKept]_vars`, ...). Each condition is
one that the code does not see to and that a counterexample of TLC asks for; the theorem says that there
is no other way to break the property:

| what goes wrong | shown by | does not without |
|---|---|---|
| a block without its backup | `dv_overlap` | an overlap of two sequences of the flag: `BlockIsBacked` under `Apart` |
| a block behind the cache | `DvControlCache.cfg` | a block given up half-way: `NoBlockIsBehindCache` under `NoneHalfway` |
| a limit left behind | `arbiter_lifted` | a restart: `OneProcessIsSettled` |
| a discretionary write after a stop | `gate_stop` | a stop skipped with one in flight: `StopSeenNeutralises` under `StopSeesAll` |
| a limit after EEBUS was switched off | `lp_stopped` | an event in the pipe of the helper: `StoppedWithoutEvents` under `PipeEmpty` |
| a failsafe that begins anew | `LpFailsafeLost.cfg` | an event that finds it before the timer: `FailsafeIsKept` under `TimerFinds` |
| the loop's value after a release | `ZfiRelease.cfg` | a release and a tick that write the register at the same moment: `CustomersValuesReturn` after none has (`~crossed`) |
| a limit without a backup | TLC on `LimitBacked` with half of `LimitKept` | a process that ends with the file behind its memory, or a backup that cannot be encoded: `LimitIsBacked` |

Each proof has one step per action of the next-state relation. TLC has checked the invariants before
they were proved.

Only model-checked: the liveness properties (`EventuallyReleased`, `CapHeals`, `LeaseEnds`,
`PartialObeyed`, `LimitsEnd`, `EverySettles`, `HoldsWanted`, `ThrottleFollows`, `FollowsSettings`), because fairness and ENABLED are out of the prover's
reach. No definition here is recursive, so nothing was lost to induction over data.

## Findings

Each is a run of its own that TLC finds violated; `PROJECT.json` quotes the line of the repository it
disagrees with.

1. `dv_overlap` - `setForcedOff` (`server.js:1295`) does not await the block it starts. A release of the
   evaluation that is under way uses up the backup that the block found in memory; the block is then
   written without one and cannot be undone after a restart.
2. `arbiter_lifted` - After a restart `applied` is undefined, so the arbiter does not write the lift
   although the inverter still holds the limit and its backup is on disk
   (`feed-in-limit-arbiter.js:37`).
3. `gate_stop` - A discretionary write has passed the gates and is in flight while the last confirmed one
   was 0. The emergency stop sets its flag and asks for 0, which `applyControlTarget` skips as unchanged;
   then the write arrives and stays, as no discretionary source may write any more
   (`control-commands.js:148`, `schedule-eval.js:1275`).
4. `lp_stopped` - `stop()` clears the limits and then waits for the helper to end; an event still in its
   pipe applies a limit again, and the timer that could lift it is gone.

### Observations

Counterexamples that TLC also finds, each with the configuration that shows it, kept beside the runs:

* `DvControlCache.cfg` (module `MCDvControl`, `NoBlockBehindCache`) - A block whose second write fails
  leaves the first point blocked while the cache still says feed-in is free: the release that follows
  returns at `schedule-eval.js:683` and the plant stays partly blocked until somebody asks for a block
  once more, or the process restarts.
* `DvLimitStays.cfg` (`DvLimitController`, `FullLiftsLimit`) - The `catch` of a failed limit clears
  `dvLimitPct` but not the marketer's source at the arbiter; a later 100 % finds nothing to lift
  (`dv-interface-luox.js:141`), and the next tick of the cap even writes the limit.
* `LpFailsafeLost.cfg` (`LpLimitState`, `FailsafeOutlasts`) - Only the timer saves a change of state. A
  failsafe that an event finds before the timer is not in the file, and a restart begins anew.
* `EebusSupervised.cfg` (`MCEebusHelper`, `AlwaysSupervised`) - `stop()` gives up after 5 s, the next
  helper is started, and then the killed one exits: its listener sets `child` to null and, as `stopping`
  is false again, arms a restart (`services/eebus/index.js:361`). The helper that runs is no longer
  supervised.
* `ZfiRelease.cfg` (`MCZeroFeedIn`, `ReleaseRestores`) - A tick of the loop and the evaluation's release
  write `OutWRte` at the same moment: the write of the tick lands after the customer's value was restored,
  and the next block saves it as the customer's (`schedule-eval.js:2166` relies on the release alone).
* Without the steps that `GapOnlyByEntering` names it is violated at once: entering a throttle writes `OutWRte` =
  100 %, which ends the forced charge (`schedule-eval.js:2287`), three requests before the throttle is on
  (`:2290`). When one of them fails there is neither until a later tick enters again. The comment at
  `:2311` and `:2312` promises no such window only for the exit, and for the exit it is right.

And from reading, without a configuration: two calls of `reload()` (tick and pairing route) start two
helpers; a key pair that could not be made and a process that could not be spawned are not tried again;
an operator who clears an override while a command is under way gets the one before back when that
fails; a stop whose own write fails is not repeated; `feedInCapTick` forgets its throttle at the start of
a block and relies on `RvrtTms` to end it; a process that ends while `reload()` waits for the helper leaves
the file of the old control box, which the next one reads although another box is paired.

## What is not covered

* Within the modelled parts: wording, logging, notices and warnings; register decoding; the monitor of
  the cap; the pairing dialogue; the plain register writes of Victron in `applyDvVictronControl`. What
  `ControlGate`, `ZeroFeedIn` and `EebusHelper` leave out is said in their sections.
* The composition of `DvControl` with `ModbusTransport` is by `RequestService` only in the sense that the
  outcomes agree; a rejected write that reaches the device after a later one on a newer socket is in
  `ModbusTransport` (`late`) and `ControlGate` (`LateLands`) but not in the other users.
* The arbiter sees one step where DV control has a read and a write; what a restart between the two
  leaves is in `DvControl`. It also takes for granted that the customer's value is saved while a limit is
  in force. `LimitIsBacked` says when that is so; a limit whose backup was never written to disk before the
  process ended is read as the customer's value by the next one, and the arbiter does not have that.
* Parts with no state of control, or out of a model checker's reach: optimizer and forecasts (numerical,
  third-party solvers), SQL, web interface, apps, deployment, third-party services. `PROJECT.json` has
  the reason for each.

## Plan

Done, in this order, the most important first: `DvControl` (what is written to the inverter),
`FeedInLimitArbiter`, `DvLimitController` (who asks for it), `LpLimitState` (the grid operator),
`RequestService` and `ModbusTransport` (what all of them rely on), `ControlGate` (what is bought and
sold), `EebusHelper` and `ZeroFeedIn` (the process and the loops beside them).

Next:

| module | models | properties to state |
|---|---|---|
| `PeakShavingLift` | lift of the discharge lock and its note on disk (1396-1592) | a lifted lock is locked again after a restart |
| `Evaluation` | the rest of `evaluateSchedule` 1579-2145: the other targets, Victron's registers, the windows of `schedule-runtime.js` | an enabled block wins over every rule; overlapping evaluations of different targets |
| pure algorithms | `schedule-runtime.js` windows, § 14a allocation | against a reference definition on bounded inputs |
| compositions | users on top of `RequestService` with the registers of the device | order of execution across sockets for blocks and limits |

Theorems worth adding: that a limit sequence of `DvControl` implements one step of the arbiter, for which
both need a common module of the limiter and its backup; that the other callers of `RequestService` take
no outcome it does not have; what the emergency stop may rely on when its own write fails.

## Running

```
tlc -workers 2 -config MCDvControl.cfg MCDvControl.tla
tlc -workers 2 -config FeedInLimitArbiter.cfg FeedInLimitArbiter.tla
tlc -workers 2 -config GateStop.cfg MCControlGate.tla
tlapm ModbusTransport_proofs.tla
```

`PROJECT.json` maps every definition to the lines it stands for, and lists runs, mutants, findings,
hazards and theorems.
