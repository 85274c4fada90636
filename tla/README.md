# Formal model of the fugu MPPT firmware

TLA+ modules, TLC runs and TLAPS proofs about the control logic of the firmware
in `src/` (a solar charge controller: a synchronous buck or boost converter
driven by an ESP32). The model stops where the logic does: floating-point
control laws, drivers and formatting are left out, every decision, state change
and order between them is kept.

    tlc -workers 2 -config MCMpptCalm.cfg MCMpptCalm
    tlapm MpptControlProofs.tla

`PROJECT.json` lists components, runs, mutants, findings, hazards and theorems,
and maps each definition to the lines it stands for.

## 1. The system

Two cores share one address space, with neither locks nor atomics on the power
stage. Core 1 runs the RT loop (`main.cpp: loopRT`): it polls the ADC sampler,
runs protections and the MPPT controller on each sample, and moves the duty of
the converter. Core 0 runs the low-frequency loop (watchdogs, charger), the
network loop (console, services, deferred tasks) and the tasks of the MQTT and
BLE libraries.

| Part | State it keeps | Operations | Talks to | Must be right |
|---|---|---|---|---|
| Converter (`buck.h`, `pwm/`) | duty counts, rectifier limit, bench hold, comparators, force latch | `pwmPerturb`, `disable`, `updateSyncRectMaxDuty`, `syncRectMinDuty`, `enableSyncRect`, `setManualRect` | called by controller, console, watchdogs | pulses fit the period; `disabled()` means dark gates; the latch opens softly |
| Controller (`mppt.h`, `mppt.cpp`) | backoff, scan flag, targets, control mode | `protect`, `protectLf`, `update`, `updateManual`, `startSweep`, `shutdownDcdc` | sampler, charger, converter, backflow switch | a trip holds the converter off and ends; a scan never runs inside a backoff; it always finds back to power |
| RT loop, LF loop (`main.cpp`) | start delay, stall and starvation timers, BMS gate | `loopRTNewData`, `stopAndBackoff`, `lfWatchdog`, `lfStuckWatchdog` | all of the above | no start into a full pack; no watchdog defeats another |
| Console (`cli.cpp`) | `manualPwm` | `dc`, `mppt`, `sweep`, `+N`, `bf`, `sync`, `wifi`, `svc`, `restart` | controller, converter, services (from core 0) | `dc 0` stops from any state; manual mode ends a scan |
| Sampler (`adc/sampling.h`) | calibration count, sensors' buffers, polling order | `startCalibration`, `cancelCalibration`, `update` | RT loop; started from either core | a calibration reaches every sensor, and ends |
| Charger (`charger.h`, `etc/coulomb_counter.h`, `etc/linear_glide.h`) | age and value of BMS data, coulomb counter, termination, pinned pack voltage and its glides | `update`, MQTT handlers, `releaseVoutPinning` | LF loop, MQTT task, start gate | charge counted since the last full pack; set point in range, on the fallback when the BMS falls silent |
| Logging (`logging.cpp`, `etc/readerwriterqueue.h`) | log and task queues, sink table, boot log | `vprintf_mux`, `enqueue_log`, `flush_async_uart_log`, `addLogCallback`, `removeLogCallback` | every task | lines arrive in order; a sink gets each line once; the boot log is frozen when replayed |
| Services, WiFi, MQTT (`service.h`, `tele/mqtt.cpp`, `main.cpp: networkLoopTick`) | state per service, WiFi edges, client and its flags | `start`, `stop`, `tick`, `startEnabledNetworkServices`, `_handleEvent` | network loop, console, the client's task | enabled services come back with WiFi; nothing outlives a stopped service |
| BLE console and telemetry (`tele/console_ble.cpp`, `tele/tele_ble.cpp`) | reply FIFO, connection, batches | `bleWrite`, `bleLogWrite`, `bleTxDrain`, `teleBleTick`, `onConnect`, `onDisconnect` | NimBLE host task, logging, network loop | bounded FIFO, room for replies, nobody starves |
| Metering, flash store (`metering.h`, `store.h`) | counters, daily ring, value files | `commit`, `update` | controller through deferred tasks | a power loss leaves the old or the new value |
| OTA, restart (`etc/ota.cpp`) | watchdog task | `doOta`, `systemRestart` | sampler, converter | the converter is off while flash is busy |

What is hard in this code: the duty is a read-modify-write that the other core
can interrupt; `startSweep()`, `startCalibration()` and `stopAndBackoff()` are
called from both cores; trips repeat at sample rate; a tick goes on behind a
shutdown in its middle; scan, calibration, backoff and delay are four flags that
different handlers reset; BMS data comes, stops and ages in a 32-bit counter;
a coulomb counter has its reset on one core and its sums on the other; library
tasks call back into services that are being stopped; a lock-free queue grows
while it is read. Every hazard is in `PROJECT.json` at its line, with the
properties that cover it or the reason why none does.

## 2. Modules

| Module | Models | Grain |
|---|---|---|
| `Converter` | `buck.h` on both drivers | one operation |
| `Interlock` | what the controller promises about the power stage (abstract) | one decision |
| `MpptControl` | controller, RT loop, watchdogs' shutdowns, console | one handler |
| `PwmCores` | the two cores on the power stage | one access to a shared variable |
| `StartGate` | the BMS gate in front of a scan, with the charger state it reads | one handler |
| `Charger` | termination and pinning, coulomb counter | one handler; two halves of a frame |
| `Sampler` | polling and offset calibration | one sample; load and store of the shared count |
| `Fifo` | a queue (abstract) | one operation |
| `SpscQueue` | `ReaderWriterQueue`: a ring of blocks | one access to a shared index |
| `Logging` | deferred log, sinks, boot log, over `SpscQueue` | one critical section or call |
| `NetServices` | services under the network loop, WiFi, MQTT client | one service at a time, one event at a time |
| `BleLink` | reply FIFO, mirror, drain, stream, connections | one lock hold, one notification |
| `*Proofs` | theorems | |
| `MC*` | instances, and memories of what happened for some properties | |

`MpptControl` implements `Interlock` (property `RefinesInterlock`, refinement
mapping: on = `pwmCtrl > 0`, rest = seconds of backoff left, measuring =
calibrating, bench = manual mode). `PwmCores` is the fine-grained view of the
slice of `MpptControl` and `Converter` that both cores touch. `StartGate` and
`Charger` look at the charger from two sides: the first through the freshness
and verdict that the RT loop reads, the second from the decisions themselves.
`Sampler` opens up the calibration that `MpptControl` has as a flag. `Logging`
extends `SpscQueue`, which implements `Fifo` (property `RefinesFifo`, mapping:
the queue is the content of the blocks from the consumer's to the producer's).

**Converter.** `pwmCtrl`, `pwmRect`, `pwmRectMax`, `manualRect`,
`syncRectEnabled`, `forcedPwm`, `dcmHysteresis` are the fields of
`SynchronousConverter`; `hsOff`, `lsOff` are the comparators, `latched` is
`forceShutdown()`/`clearForce()`. The LEDC driver's hpoint/duty pair is given as
the end of the pulse. Diode-emulation arithmetic (a ratio, dithering) enters as
`ideal`, the count it rounds to. `pwmPerturb` on a disabled converter is only
asked for a positive step, as its callers do. Unsigned arithmetic keeps its 16
bits.

**MpptControl.** One action is one handler. Sensor readings enter as the verdict
of the condition computed from them: which protection trips (`Trips`,
`LfTrips`), whether start is possible (`ok`), which limit a controller enforces,
whether current is above the threshold, and `admitted`, the verdict of the gate
that `StartGate` models. Deadlines are kept as the time left; `Tick` passes it.
Simplifications:
* each handler is atomic (`PwmCores` takes that apart), which also makes the
  "calib" branch of `loopRTNewData` unreachable here;
* the calibration that `protectLf()` queues for the network loop begins at once;
* control mode CP counts as CC; a duty above 1 % counts as one above the floor;
* `updateCV()` is left out: `BootCapImpliesManual` shows that it is unreachable;
* `short-ls`, coil measurement, OTA quiescing and the rectifier are left out
  (the rectifier is in `Converter`), as is the never-got-a-sample branch of
  `loopRT`, which disables a converter that never started.

**PwmCores.** Core 1 runs the RT tick down to the load, store and commit of
`pwmPerturb()`; core 0 runs `stopAndBackoff()` of the latency watchdog and
`clearBackoff(); startSweep()` of the console. `drvCommit()` reads the duty
again or uses the register copy: the build may do either, the model chooses. One
comparator stands for both. Manual mode is left out, since its commands store a
target and no duty; so are steps whose interleaving changes nothing (resets of
controllers and targets).

**StartGate.** The gate's two statics, the charger's freshness test with its
32-bit age, the warm-up of the battery current and `_termDecided`. Cell voltages
are three classes; whether a current, a streak or a depth of discharge latches or
releases termination is a choice within what the cell class allows. The gate is
evaluated on every sample, thousands of times per unit of time, so `Tick` waits
until it has nothing more to change.

**Charger.** `CellFrame`, `BeginCurrent` and `EndCurrent` are the MQTT handlers;
the last two halves are the accesses of `CoulombCounter::updateBatCurrent()`
between which the low-frequency loop may ask for a reset. `Update` is
`BatteryCharger::update()`: the termination (ceiling and line, streaks,
release by depth of discharge or by a sag) and then the regime of the pin,
one operator per branch. Voltages are small integers around the line, the
ceiling and the ends of the pin; the filter of the pin is a choice between its
old value and the new input, a glide a choice between its ends. Whether the
converter has authority over the pack voltage is an input.

**Sampler.** A board is a sequence of ADCs, muxed (one channel at a time, in the
order `buildCycleOrder()` makes, Vout every other turn), streamed or snapshot; a
sensor has one place on it (`sampling.h:232`, `395`). One
`update()` is `BeginUpdate`, the polls, each sensor's sample, `Close`;
`--calibrating_` is its load and store (`Load`, `Count`), between which
`BeginStartOnCore0` and `ResetOnCore0` (`startCalibration()` of `sweep` or of a
deferred task) may fall. Samples are counted only as far as a calibration asks.

**SpscQueue, Logging.** The producer's and the consumer's walk through
`inner_enqueue()` and `try_dequeue()`, one access to a shared index or pointer at
a time, with cached copies of the other side's index, growth by a block, reuse
of drained blocks and a failed allocation. Accesses are sequentially consistent:
the acquire/release fences of the header order exactly the accesses the model
orders. `Logging` has the RT core as its producer, the network loop as its
consumer, tasks that print at once, sinks with their snapshot, the open or
closed boot log and its replay. A line that does not fit the boot log is partly
kept by the code; the model drops it.

**NetServices.** What the loop does to several services (boot, teardown,
edge, restart) is a sequence of jobs, and console commands, link changes,
crashes and the client's events fall between them. MQTT's `close()` is three
jobs, its event handler two steps. A tick that throws (`TickThrows`) makes a
service Failed without a stop; MQTT's allocates when it is connected, and leaves
its client and sink. A start over that overwrites the handle (`InitClient`) and the
old client is lost: its task goes on with the same handler (`LostClient`; as there
may be several, flag and sink change in any order then). Every service but MQTT is
its state and whether it needs WiFi.

**BleLink.** Bytes are tagged with their writer. The lock `txMutex`, the settle
time after a connection, the MTU-sized chunks, a failing notification, the
flush inside a blocking command, the start and stop of the console, and the
stream's raw batch and packet are kept; the stack's pool is a number.

## 3. Runs

Runs that pass:

| Run | Question | Bounds |
|---|---|---|
| `converter_mcpwm` | are counts, comparators and latch consistent under any order of operations, do both pulses end inside the period? | period of 12 counts, minimum 2; every step -12..12; five roundings, five bench holds |
| `mppt` | safety of trips, backoff, scan, calibration, manual mode; implements `Interlock`; does every backoff end, does `dc 0` stop, does an automatic controller restart after the last fault? | duty 0..3, backoffs 2 and 3, delays 1, 1, 2; all trips and commands |
| `cores` | does the latch open softly, does a trip of core 1 hold, whatever core 0 does? | duty 0..4, steps -1..2, both calls of core 0 |
| `gate_holds` | does the gate wait for the verdict, and open in the end? | expiry 4, wrap 8, wait 2, warm-up 2 |
| `charger` | is charge counted since the last full pack, does the pin stay in range, does a silent pack fall back? | cells 1, 3, 4, 6 around line 3..5 and ceiling 6; charge up to 2; glides of 2 ticks; streaks of 2 |
| `sampler` | is the count sane, does a calibration reach every sensor, does it end? | three sensors on a muxed ADC; a streamed and a snapshot ADC; 1 sample to settle, 2 to collect |
| `logging` | does the queue implement a FIFO, do lines arrive, once, from a frozen boot log? | 2 blocks of 2 slots, 4 lines, 1 task of core 0 besides the loop, 1 sink, a boot log of 1 line |
| `network` | does anything outlive a stopped service, do services come back? | MQTT with a topic to subscribe and another network service; the ticks of both may throw |
| `ble` | is the FIFO bounded, is there room for replies, does nobody starve? | 4 bytes, chunks of 2, pool of 2 buffers, floors 1 and 2 |

Why the bounds are enough: counts are compared with each other, with limits and
with the floor and ceiling, so that a period needs a value on each side of each
comparison (12 counts have the knee, the fast fade, a large decrease and the
wrap); delays are compared with each other and with zero, so that they only need
the order of 4, 5, 16 and 30 s. Cell voltages lie below, on and above each
threshold they are compared with, and a streak of two has a middle. Three
muxed sensors have a Vout twice in the cycle and two others once. Two blocks
are the least with growth, a wrap inside a block and reuse of a drained one,
and four lines fill one and go round. A FIFO of two chunks has a consumed
prefix, a compaction and a half. The properties never relate more than two
trips, and the runs put no bound on the number of trips, commands, samples,
connections or edges. Time is not bounded either: deadlines count down, the
age of a cell voltage wraps as it does in the code. Named bounds: `MostAh`
(charge followed), `MaxLines` (lines logged), `Blocks` (of the queue).

`logging` may stop (all lines logged), and says so with `CHECK_DEADLOCK`.

Runs that find a disagreement between the code and what it says of itself
(details and quotes under `findings` in `PROJECT.json`):

| Run | Property | What happens |
|---|---|---|
| `mppt_switch` | `TripOpensSwitch` | a shutdown in the middle of `update()` opens the backflow switch, the end of the same tick closes it |
| `charger_float` | `FloatHolds` | a termination latched without authority starts no float glide; the float regime then reads a glide that never started |
| `mqtt_close` | `SubscribesUnconnected` | a connection event inside `close()` leaves `mqttConnected` set; the next start throws |

Three properties of the passing runs state an exception, each where the code breaks
the rule:
* `PulsesFitPeriod`: at full duty with the rectifier at its bootstrap minimum the
  rectifier's comparator is `pwmMax` itself, since `pwmCtrlMax = driverPwmMax -
  pwmRectMin` (`buck.h:577`) leaves no count between. `buck.h:615` says "-1: keep cmpLS <
  period (timer-wrap)" and `doc/mcpwm-sync-buck-driver.md:48` "`cmpHS < cmpLS < pwmMax`".
  With the InEn driver `pwmMax` is the timer's period, so that the turn-off never fires;
  with HiLi it is less by the dead time, of which one count is lost. At every other
  point the bound is strict.
* `StoppedIsReleased`: a service that has lost a client. MQTT's tick throws
  (`service.h:111`, Failed without a stop), the next start overwrites the handle
  (`mqtt.cpp:153`), and no `close()` reaches the first client again: its sockets and
  the log sink survive the teardown, against `service.h:213` ("each service's sockets +
  log sink before lwip is deinited").
* `SelfHeals`: MQTT with a topic to subscribe while `mqttConnected` is set, since its
  `onStart()` throws then. With the flag left over from `close()` (`mqtt_close`) that is
  for good, against `service.h:204` ("Self-heal: (re)start enabled network services
  that aren't Running"). A failed tick leaves the flag set too, until its client
  disconnects; `mqtt_close` has no failing tick of MQTT, so that its trace is the race.

Notes: what else the modules show of the code, kept without a run. On the power
stage (these assume arbitrary delays between two accesses of one core; the
windows are a few instructions wide in the build):
* a duty step of core 1 can revive what the latency watchdog has just shut down
  on core 0 (`BackoffHoldsConverterOff` of `PwmCores` is about trips of core 1);
* on LEDC, `sweep` on core 0 against a duty update can leave the gates switching
  while `disabled()`;
* `startSweep()` on core 0 sets the scan flag before it disables: a tick in
  between may re-enable the converter, and the sensors are zeroed with it on.

On the controller and the gate:
* an outage of the BMS that begins while the converter runs is not waited out
  (`main.cpp:969` against the comment above it), and after 71 minutes of silence
  an old cell voltage counts as valid again (`charger.h:87`);
* `begin()` starts the first scan itself, past the gate (`GateInit` of `StartGate`);
* in manual mode the target survives a trip; the converter ramps up again behind
  the backoff, while the bench tests describe one cycle that ends disabled;
* `Converter` with `UseMcpwm = FALSE`: a bench hold (`sync ls`) on a disabled
  converter commits the rectifier, so that `DisabledMeansGatesLow` is a promise of
  the MCPWM driver only; with `PwmRectMin = 0` (boost) at full duty the room
  behind the pulse wraps at 16 bits and limits nothing.

On charger and sampler:
* streaks count evaluations of the low-frequency loop, not BMS frames as
  `charger.h:123` says, so that one frame is confirmed by itself;
* a calibration that starts with Vout's turn ahead ends with Vin not zeroed: Vout
  completes twice. So may one that finds buffers left over from an aborted run
  (`Sensor::reset(true)` clears them only with an offset), or one that runs into a
  lost update of `--calibrating_`; `CleanRunCovers` names the starts that do reach
  every sensor. A failed calibration is masked by an ADC error of the same update.

On logging, services and BLE:
* the task queue is the same single-producer queue, but the RT loop (`mppt.h:406`,
  `655`), the MQTT task (`tele/mqtt.cpp:189`) and a watchdog interrupt enqueue: with
  two producers `SpscQueue` violates `RefinesFifo`;
* a failed enqueue leaks the line's buffer (`logging.cpp:142`); a line logged between
  a snapshot and the first sink's attachment reaches neither sink nor boot log; the
  boot log is replayed on every attachment, though its comment says one-shot;
* `wifiWasUp` is updated only while WiFi is not disabled: `wifi off` and `wifi on`
  with a reconnection before the next look yields no edge, and network services stay
  stopped. A link that flaps between edge and `onStart()` leaves them Failed until the
  next edge. `wifiShutdownIfHot()` drops the interface without stopping services;
* starting a service that failed in a tick leaks what it had: beside the MQTT client
  above, a second flush task of telemetry as a second consumer of its queue
  (`tele/telemetry_service.h:37`);
* `onConnect()` publishes the connection before it restarts the settle time, and a
  flush inside a blocking command may set it later than the loop's clock, so that
  an unsigned difference wraps and the settle time is skipped; `onDisconnect()`
  advertises again after `bleConsoleEnd()`; bytes written between the check and the
  lock of `bleWrite()` go to the next client.

On parts without a module: the write-reduction predicate at `metering.h:213`
compares today's energy with the total, so that it is never similar; a load
failure at boot lets `commit(true)` overwrite the total with zero; the daily ring
and the statistics are committed one after the other.

## 4. Fairness

* `MpptControl!FairSpec`: weak fairness of `Tick` (time passes) and of
  `RtManual` on a sample without a weak current. The RT task has the highest
  priority of its core, a stalled ADC is restarted after 300 ms
  (`loopRT`, stall watchdog), and a sample reaches `updateManual()` whenever the
  sampler does not calibrate.
* `MCMpptCalm!CalmSpec`: after the last fault, time, the end of a calibration of
  a healthy ADC, the start of an idle controller and the ticks of a scan. Nothing
  is assumed of trips and commands before; a protection may trip for ever in
  `FairSpec`, and `BackoffExpires` still holds.
* `MCStartGate!FairMemorySpec`: time, and samples for a ready controller. BMS
  frames, the MQTT service and the verdict get no fairness: they may never come.
* `MCCharger!FairSpec`: time and the low-frequency loop. Frames get none, and
  `SilentPackFallsBack` is about a pack whose frames have stopped.
* `MCSampler!FairSpec`: the loop (weak), and polls that bring a number again and
  again between polls that bring nothing or an error (strong); a start that core 0
  has begun ends. An ADC that delivers nothing for ever is the stall watchdog's
  business.
* `Logging!FairSpec`: the network loop flushes and prints. Producers, tasks and
  sinks may stop anywhere.
* `NetServices!FairSpec`: the loop's steps; strong for the turn, which commands may
  delay but not for ever (each turn reads a finite input), and for the end of a
  stopped client; the client's task handles the event it has. The link gets none.
* `MCBleLink!FairSpec`: the loop and the host task's callbacks end, time passes, the
  stack frees buffers; strong for the loop's turn and for a notification that has
  room, which does not fail for ever. The stream leaves alone what it would need
  to go below its floor, and that is what the console's floor relies on: 12 - 4 is
  not below 8.

## 5. Proofs

TLAPS checks all of these for every value of the constants, under the assumptions
the modules name (`CountsAssumption`, `DelaysAssumption`, `InputsAssumption`,
`CoresAssumption`, `ChargerAssumption`, `SamplerAssumption`, `QueueAssumption`,
`LoggingAssumption`, `NetAssumption`, `LinkAssumption`, `TimesAssumption`), which TLC evaluates in
the runs.

* `ConverterProofs`: `TypeCorrect`, `PulsesFit`, `RegistersFollow`, each for
  `PwmRectMin > 0`, that is for a buck converter; for boost the second is false
  (section 3). `PulsesFit` is strict but for the one point of section 3. The
  invariant is the conjunction of types, of the counts and of that bound: it makes the
  16-bit sums exact, without it no single count stays in range. `DisabledIsDark` (MCPWM)
  and `EnabledIsUnlatched` follow from one more: the latch is closed exactly when
  the duty is zero. `RectStaysWithinLimit` is an action property on top: the fade-in
  ends at the limit it is given, and every other operation shortens the on-time or
  holds it by hand.
* `MpptControlProofs`: the inductive invariant `Inv` is the types of numbers and
  flags and the safety properties together: none of them is inductive
  alone. A scan that re-enables the converter keeps `BackoffHoldsConverterOff`
  only because `SweepNeverInBackoff`; `CalibratesWithConverterOff` needs that
  neither the ramp nor a scan runs while calibrating. The proof has one lemma per
  group of actions. From it follow `TypeCorrect`, `BackoffHolds`,
  `CalibratesOff`, `NoSweepInBackoff`, `ManualModeClean`, `BootCapOnlyInManual`, and
  `ImplementsInterlock`: each action maps to a step of `Interlock` or to a
  stutter. `BackoffRunsItsCourse` and `SwitchesOnForAReason` are action properties
  on top of `Inv`: inside a backoff the converter is off, so that of all trips only
  a failed calibration can touch the timer.
* `PwmCoresProofs`: both invariants rest on the fact that core 0 only clears the
  duty. `Held` says that with a backoff armed by core 1 that core is at no label on
  its way to another duty, and that the duty is zero wherever it is about to arm:
  `BackoffHolds`. `Soft` says at each access of a step
  that found the converter off what may be in the duty and in the comparator:
  `StartsSoftly`, for either driver and any calls of core 0. The module also holds
  the proof about the other part of the RT loop, `GateWaits` of `MCStartGate`:
  what is left of a window and the time since the subscription always make up
  a whole one, so that a window that has run down began no later than the whole of
  it ago.
* `ChargerProofs`: `TypeCorrect` and `PinStaysInRange` from one invariant that says
  of each regime which of filter, fallback glide and float glide it leaves on, and
  that what the pin or a glide starts from lies above the floor. `CountsCharge` adds
  what the two memories hold inside a frame: a reset that is asked for between its
  two halves is kept by the flag and taken by the next reading. It is proved of
  `MCCharger`'s specification with memory.
* `NetServicesProofs`: `StopReleases`, with failing ticks of any service. The invariant
  ties an event in hand to a client that is there, and says that none is there when
  `drop` stands at the head of the jobs: from then on nobody but a lost client adds the
  sink again, and only `drop` makes MQTT Stopped. The sequence of jobs never has a
  phase of `close()` in its middle.
* `BleLinkProofs`: `StaysInReserve` and `RoomForReplies`. The first needs that the
  consumed prefix is inside the FIFO; the second counts the mirrored bytes of the
  unsent part, through compaction and drains, by lemmas about subsequences.
* `SamplerProofs`: `CountStaysSane`, from a bound on the count and on the register at
  each of its accesses. `TypesStay` adds what is polled: an ADC's turn stays inside
  the cycle that `buildCycleOrder()` interleaves, the sample being counted is still in
  hand, and no calibration buffer outgrows its length.
  `CleanCalibrationCoversAll`, for any `Settle` and `Collect` (the board is
  `MCSampler`'s three sensors on one multiplexer), says why counting completions is
  enough: the multiplexer's position relates the turns that the three sensors had
  since the start (`InStep`: Vout as many as the other two together, or one less),
  so that Vout's second completion would come after everyone's first.
  `calibrating` is then the number of sensors still to be completed.
* `LoggingProofs`: `BootLogStaysFrozen`; the test under the lock is all it rests on.
  `QueueIsFifo` and `LinesComeOnce` are for the one producer that the queue is made
  for (hypothesis `Producers = {rt}`, as in `readerwriterqueue.h:22`; with two
  `RefinesFifo` is false, section 3) and for any number and sizes of blocks.
  The invariant `QInv` has three parts. `BlocksOK`: every block made is good, that is
  its content is the stretch of its buffer from `front` to `tail`, around the end.
  `ProdOK` and `ConsOK`: what each side holds in its registers at each access, above
  all that a cached index of the other side is one it really had. `Chained`: the
  linked blocks form one ring, the chain from `frontBlock` to `tailBlock` has only its
  first block empty, and the blocks off the chain are empty but for the element being
  handed over; a block in the making is outside the ring. From it the content is the
  chain's items one after the other, and each access enqueues at its end, dequeues at
  its front, or stutters. Sums over the chain are a recursive function; since
  the library's induction cannot be instantiated, each fact by induction is proved from
  the least number that refutes it. `LineInv`, on top, says where a line can be:
  a queued one nowhere else, a task's one in no second task and not in the boot log;
  and that what a sink was given before its replay is not in the boot log.

Only model-checked: liveness (`BackoffExpires`, `DcZeroStops`, `RestartsWhenCalm`,
`GateOpens`, `SilentPackFallsBack`, `CalibrationEnds`, `RtLinesArrive`, `SelfHeals`,
`BacklogMoves`), which with fairness and `ENABLED` is out of the prover's reach. Every
other property of the passing runs is a theorem. Of the disagreements of section 3
the runs show the counterexample.

## 6. Plan

Done in this order: `Converter`, `MpptControl` with `Interlock`, `PwmCores`,
`StartGate` and their proofs; `Charger`, `Sampler`, `SpscQueue` with `Fifo` and
`Logging`, `NetServices`, `BleLink` and theirs. What is left, the most important
first:

1. `Watchdogs`: starvation windows, ADC stall with throttled restarts, the stuck
   watchdog's stages, OTA quiescing; a dead ADC always leads to a restart;
2. the task queue's producers over `SpscQueue`, together with what a dropped
   `startCalibration` leaves behind;
3. the receive side of the BLE console and its firmware update;
4. telemetry's tasks and its point queue over the service life cycle;
5. `FlashStore`: the daily ring and the statistics, over an abstract file;
6. `Tracker`: direction logic of the perturb-and-observe tracker.

## 7. Not modelled

Register and DMA access of ADC chips, floating-point filters and control laws,
telemetry formatting, display, LED and fan, wireless PWM synchronisation, start-up
configuration, test doubles, self-tests and vendored libraries. They keep no state
that the control decisions above read, or are numerical. Whether a value file
survives a power loss is decided by the file system, which is not part of `src/`. Much of the repository's volume is
of this kind (two queue libraries, a compressor, the display, the console's
formatting and tests), and the models stand for the control logic in the rest.
