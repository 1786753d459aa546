# Verification of the ESP32-P4 port of rtl_433

TLA+ models, model-checking runs and machine-checked proofs for the ESPHome component that runs
rtl_433 on an ESP32-P4 with a USB RTL-SDR dongle. The reference is the code under `src/`; every
definition of a module names the lines it stands for in `PROJECT.json` ("map").

Shorthand below: `sdr.c`, `rtl_433.c`, `r_flow.c`, `r_api.c`, `mongoose.c` are in
`src/idf/rtl433_core/src/`, `rtl433_port.c` and `rtl433_bands.c` in `src/idf/rtl433_core/port/`.

## 1. Inventory

### Who runs

| actor | code | what it does |
|---|---|---|
| ESPHome loop | `src/components/rtl_433/rtl_433_component.cpp` | starts rtl_433 once network and clock are there, polls its health |
| rtl_433 main task | `rtl_433.c` main, `mg_mgr_poll` loop | decodes blocks, hops, answers HTTP requests, runs the 1.5 s watchdog timer |
| acquire thread | `sdr.c` acquire_thread, esp_sdr_read_loop | starts the USB stream, reads and labels blocks, sends them to the main task |
| USB driver task | external (esp_rtl_sdr) | fills a pull ring, reports disconnects and errors to esp_sdr_event_cb |
| rtl_tcp thread | `output_rtltcp.c`, optional | serves one client with samples, calls the same setters as the main task |

### The parts, their state and what makes them right

- **SDR settings and block labels** (`sdr.c`). State: the settings asked for (`esp_freq`, `esp_rate`),
  the label (`center_frequency`, `sample_rate`), the generation `esp_tune_gen`, the driver's tuning and
  its ring. Operations: `sdr_set_center_freq`, `sdr_set_sample_rate` (in place, by a restart, with a
  fallback), the read loop's block start, reads, discard and labelling. Right if no block is decoded
  under settings it was not captured with, and every tune is heard. Hard: three parties, a lock around
  the label only, a ring that a retune does not clear, failures in the middle of a change.
- **Input life cycle** (`rtl_433.c` timer_handler, start_sdr; `sdr.c` sdr_start, sdr_stop, sdr_close,
  sdr_abort; `rtl433_port.c` exit). State: `cfg->dev`, `dev_state`, `watchdog`, `exit_acquire`, `running`,
  `esp_streaming`, the start backoff. Right if a thread never outlives its device, a start finds a
  stopped driver, the input recovers from every fault, and a working one is left alone. Hard: join against
  delivery, a stop in two unlocked looks, exit() in the middle of a start, buffers freed while referenced.
- **Event loop hand-off** (`mongoose.c` mg_broadcast, mg_mgr_poll). A datagram socket: it queues, and drops
  when full. `mg_broadcast` no longer waits for a reply, although two comments still say so.
- **Band hopping** (`rtl_433.c` process_sdr_frame, `rtl433_bands.c`, `r_api.c`). State: the list of
  frequencies and rates, `frequency_index`, `applied_band`, `cfg`'s copy of the last block's label. Right if
  frequency, rate and decoders agree, no signal spans two bands, and every band gets its turn. Hard: `cfg`
  learns what was set only with the next block; failures and restarts in between.
- **Squelch look-behind** (`r_flow.c` push_sdr_flow). State: the last piece, whether it was active and
  whether it was processed. Right if exactly the active pieces and their neighbours are processed, in
  order. Hard: every pattern over piece, block and band boundaries.
- **ESPHome component** (`rtl_433_component.cpp`). State: started, stopped, stalled, the last counters and
  the times they were last seen to move, the sum of the driver's overruns. Right if a hung task is reported, a
  healthy one is not, recovery clears the error, the end stays reported. Hard: everything is sampled
  only at updates, which may be further apart than the time a hang takes to be one.
- **Samples to pulses** (`pulse_detect.c`, `pulse_detect_fsk.c`, `pulse_data.c`). State: the OOK state machine, the FSK
  one inside it, two packages, all across blocks. Right if every sample is in exactly one width and a
  package holds no width that should not be in it. Hard: a spurious pulse undoes what was stored, perhaps in another
  block; the FSK package shifts under its detector.
- **Pulses to bits** (`pulse_slicer.c`, `bitbuffer.c`, `bit_util.c`). State: the bit buffer and what each of ten slicers
  keeps between pulses. Right if what a sender codes comes out exactly, once, and nothing of it gets into the
  next message. Hard: rows that run on into the next ones' space, ends that come without a gap, half bits.
- **rtl_tcp output** (`output_rtltcp.c`). State: the client, the frame shown to the thread and two counters, and through
  `set_center_freq` the configuration of the main task. Right if a client that leaves makes room and a
  client's frequency stays. Hard: stores on two threads without a lock; blocking sends.
- **MQTT output** (`output_mqtt.c`). State: the connection, a timer, a message id, the list of messages in flight. Right if
  with QoS 1 and 2 nothing is lost, and with QoS 2 nothing comes twice. Hard: receipts, resends and lost
  connections in any order, an unordered list, ids that wrap.
- **Decoders** (`devices/`, 331 files), **other outputs** (InfluxDB, files, logs), **HTTP server**,
  **configuration**: upstream rtl_433.

### Interactions

The setters are called by the main task (hop, HTTP request, start) and, with rtl_tcp, by its control
thread; they talk to the driver and, through the label and generation, to the acquire thread. The acquire
thread talks to the main task by events on the control socket that carry the label and a pointer into
`dev->buffer`. The watchdog on the main task stops (joins) the thread and closes and reopens the device.
Events of the driver reach only two counters, `esp_errors` and `esp_disconnects`. The component reads
counters and an exit code. `PROJECT.json` lists the hazards at their lines, with the property that
would notice each or the reason there is none yet.

## 2. Modules

| module | models | refines / composed of |
|---|---|---|
| `TuneLabels` | settings, labels, generations, the read loop sample by sample | implements `LabelledStream` |
| `LabelledStream` | what decoders are promised of the blocks they get | abstract |
| `SdrInput` | watchdog, acquire thread, control socket, exit, faulty dongle | |
| `BandHop` | hop, per-band decoders, manual tuning, restart | takes TuneLabels' promise (a block has the label it was captured with) as given |
| `RtlTcp` | the rtl_tcp thread with its clients, against the main task's hop store by store | takes BandHop's handlers apart |
| `Squelch` | the look-behind of the squelch | |
| `FskPulses` | the FSK detectors, as functions of their state and one sample | |
| `PulseDetect` | the pulse detector over blocks of samples | extends `FskPulses` |
| `SquelchedDetect` | push_sdr_flow, its flush and its reset: the detector behind the squelch | extends `PulseDetect` and `Squelch`, implements `Squelch` |
| `BitBuffer` | the bit buffer, its search and the line codes' decoders, as functions | |
| `PulseSlicer` | the ten slicers against senders of each coding and noise | extends `BitBuffer` |
| `EspComponent` | the ESPHome component around the main task | |
| `MqttOutput` | the MQTT client, its wires and a broker | |
| `*_proofs` (eight) | the theorems on TuneLabels, SdrInput, BandHop, SquelchedDetect (with PulseDetect and Squelch), PulseSlicer, RtlTcp, EspComponent and MqttOutput | |
| `MCTuneLabels`, `MCBandHop`, `MCPulseSlicer` | model values and constants for TLC | |

### TuneLabels

A setting's value is the ordinal of the request that asked for it ("epoch"), so "older" is `<`; two
requests for the same frequency are kept apart, which only strengthens what is checked. `hw` is what
the driver captures with, `ring` its pull ring, `want` is `esp_freq`/`esp_rate`, `label` is
`center_frequency`/`sample_rate`, `gen` is `esp_tune_gen`. A setter is two steps, the driver and then
the label under the lock (`SetCenterFreq`, `SetLabel`); a rate the driver cannot change in place is four
(`SetRateStops`, `SetRateStarts` or `SetRateFallsBack`, `SetLabel`). The reader is at one of the places between
which another thread can run: `gate` and `starting` (the settings are copied, then the driver starts with
the copies), `gain` (gain and bias tee are written before the generation is read), `start`, `discard`,
`check`, `read`, `label`. `StopRequested` covers both ways a stop is noticed: by `exit_acquire`
(nothing is handed over) and by `dev->running` alone (a part of a block is). `Reopen` is the watchdog's
start_sdr; it waits until no setter is in the middle of a call (a control thread's call across a close is not modelled).

Nothing in the code keeps a setter from running while the thread starts the stream, or two setters apart, and the model
does not either. Where that happens labels may be wrong (section 5, `tune_start`), and two histories follow it: a call is
`raced` if it began while the stream was being started or overlapped another call, and a setting is in `sure` unless the last
call that set it was raced. The code never reads them; what is promised of labels is promised of the settings in `sure`, and a call that
meets nobody brings its setting back.

`LabelledStream` is the promise, for each setting in `sure`: labels move on only, and each block has the current label and
no sample older than it; a setting comes back to `sure` only with a new request. `StreamSpec` is that specification with
`current <- label`.

### SdrInput

Time is counted in watchdog intervals. The main task is a loop `select`, `control`, `decode`, `timers`, with
`join` and `reopen` inside the timer handler and `exited` after exit(). The acquire thread is at `gate`
(backoff), `starting`, `enter`, `check` (exit_acquire, under the lock), `go` (running and errors, not under
it), `read`, `send`, or `ended`: there is none. A block is known by what became of the
buffer it points into. `StartTicks` intervals pass while the driver starts.

`Timely` is the set of answers to whether threads keep up with the timer; each behaviour has one. If they do, an
interval ends only when nobody has anything left to do (`Quiet`). If not, anything may be arbitrarily slow, and the
safety properties still hold; liveness and "a healthy input is left alone" are stated for threads that keep up, for a
watchdog cannot tell slow from dead. It means in particular that a stream that runs delivers a block within
an interval (64 ms against 1.5 s) and that a start takes at most one interval after the grace has begun
(`StartTicks = 1`); a driver that needs longer for every start is stopped by every watchdog round.

### BandHop

A frequency is its place in the list; `NBands` stands for a frequency that is not in it. `cfg` is the label of the
last block taken, `queue` the labels of the blocks under way. `pc` is `hop` and `tune` inside process_sdr_frame, where the
device changes while blocks are still delivered: `Hop` (index and rate), `Tune` (flush, frequency,
decoders). `tail` is the set of labels of the samples a half-seen signal is made of. `HandleBlock`, `SetCenterFreq`, `SetSampleRate`
and `Restart` run only between handlers (`poll`), as the one event loop has it. Histories: `refused` (the driver
refused the last hop's rate) and `cut` (a restart came before the band's first block, see section 5).

### Squelch

A piece is its place in the input, and is loud or silent. `segment` numbers what lies between two flushes or resets.
The model keeps the code's `squelch_prev_len`, `_active`, `_done` and which piece the copy
holds, so that replaying a stale copy would show as a piece out of place.

### FskPulses, PulseDetect, SquelchedDetect

A sample is only how it compares with the thresholds of the moment: its envelope "high", "mid" (within the
hysteresis) or "low", its frequency "up", "down" or "none". How the thresholds follow the signal is arithmetic and left
open, so every sequence of comparisons is possible, more than real signals make. `pos` counts samples since the
stream began, which gives every stored width a stretch of the stream to be compared with. The code's loop
takes a sample, and may return a package before it does; a returned package leaves the sample to be read again
with the same envelope (`reread`). A call is a block of `left` samples; `eop_on_spurious`, a local, dies with it.
`SquelchedDetect` feeds the detector the pieces that `Squelch` says are processed, so that a stretch between two
pulses has a length to the detector and another one in the input. A flush or a reset is one of both, in one step: the detector's package is
returned, dropped, or there is none, and the look-behind is forgotten. `wave` is what a piece is made of, `fed` how many
of the processed pieces the detector was given.

### BitBuffer, PulseSlicer

Bits are kept one by one. A row that is full runs on into the next free one's space, as `bb` is one array.
A step of a slicer is one pulse with its gap (or one of the two, in the slicers that go symbol by symbol). The pulses come
from a sender that codes bits as `r_device.h` describes the device's coding, every width a little off, or are noise.
`sent` is what the sender has sent since the last silence, `due` the message that has just ended, and
`s.out` what the slicer handed over in this step. `fit` and `clock` let the sender's clock and the device's differ
where the slicer tolerates it.

### EspComponent

Of counters only whether they moved since the last update is kept, time is counted in units in which a running
main loop passes at least once. The main task is in `init`, `loop`, `hung` or `ended`, the driver delivers or
not (`stream`), the demodulator takes what it delivers or not (`taking`). Two histories say how long it really was: `loopAge`,
since the main loop last passed, and `frameAge`, for which the stream has run with nothing taken; `sinceLoops` and `sinceFrames`
are what the component knows of it. `interrupted` is 1 if the stream was away since a frame was last taken.

### RtlTcp

The thread's place is one of `accept`, `read`, `writable`, `wait`, `send`, `close`, or inside `set_center_freq` (`one` to
`five`, one store each: the list's length, the index, the first frequency, the request for the manual decoders, the
device). The main task's hop is as many steps (`hop`, `store`, `look`, `tune`, `apply`), for both sides work on the same
variables without a lock. A hop may begin after any block, by time or, with `-E hop`, because an event was decoded; the
latter hops in a list of one frequency too. The client's retune and the hop's may fail, which neither side looks at.
`lead` is `prev_cnt - data_cnt`. A client may be `full`: it takes nothing, and a send waits.
`raced` is a history of the last request: a hop was under way at its first store or began before its frequency was stored, its retune failed, or
the input has restarted since.

### MqttOutput

`up` and `down` are the connection's two directions, which keep their order and are lost with it. The list in flight is a
sequence whose last element takes the place of one removed. `kept = 0` is an element whose topic and message are
freed after PUBREC; `due = 1` one whose 1.2 s are over. The timer is set or not; it fires at any time when set, as its
delays of 0 to 60 s are not told apart. The broker is one that keeps its session, as the client asks it to, and
passes a message on when it comes, with QoS 2 only if it has not stored its id. An id is used again only
when nothing of its last use is left, which 2^16 messages in between give in practice: the code does not check it.

## 3. Runs

| run | question | instance |
|---|---|---|
| `tune_labels` | are labels right, and is every tune heard? | two setters, blocks of 2 samples, ring of 1, 2 tunes, 1 fault |
| `tune_start` (violated) | is every block labelled with what it was captured with? | the same |
| `sdr_input` | do thread, device and driver stay in step, with threads of any speed; does the input recover, stop and exit, and is a healthy one left alone, with threads that keep up? | queue of 2, backoff up to 3 intervals, 3 faults |
| `freed_block` (violated) | is a block's buffer still there when it is decoded? | 2 faults |
| `band_hop` | do frequency, rate and decoders agree, and does every band get its turn? | 3 bands, 2 rates, hop after 2 blocks, queue of 1, 3 faults |
| `manual_tune` (violated) | does a frequency set by hand stay? | 2 bands, 1 fault |
| `rtl_tcp` | does a client that leaves make room, and does its frequency stay? | 2 bands, 2 frequencies, 2 commands, 1 fault, counters modulo 2 |
| `pulse_detect` | is every sample in exactly one width of a sound package? | 13 samples, blocks of up to 2, packages of 4 pulses, pulses of 2 samples and more, gaps that end a package from 3 |
| `squelched_detect` | are exactly the wanted pieces processed, in order, and no package made of two segments? | 5 pieces of 2 samples, 2 flushes or resets, packages of 4 pulses |
| `slicer` | does what a sender codes come out, exactly and once? | 18 devices of all codings, 4 pulses and noise of 5 widths, 3 rows of 4 bits |
| `esp_component` | is what the component reports true, and everything true reported? | updates every 1 or 3 units, STALL_MS of 2, 2 overruns |
| `mqtt_output` | is nothing lost, nothing passed on twice, everything acknowledged? | 2 messages, 4 ids, 2 lost connections, 3 packets under way |

What the passing runs check:

- `NoStaleSamples`, `SettledBlockIsAsLabelled`, `SettledLabel`, `StreamSpec`, of the settings in `sure`: no stale sample under a new label;
  a block that no change is racing with is exactly as labelled; the label settles on the device's
  tuning; refinement of LabelledStream. `EveryTuneIsHeard`: each frequency that reaches the label, or a later one, reaches a delivered
  block, unless a call for an earlier one that ran at the same time writes over it.
- `ReaderHasItsDevice`, `StartsStopped`: no thread on a freed device; no start of a running driver.
- `HealthyIsLeftAlone`, `StopReturns`, `InputRecovers`, `ExitEndsThread`: the watchdog stops nothing that works; sdr_stop()
  returns; blocks are decoded again and again whatever the dongle did; after exit() the thread ends by itself.
- `BandIsWhole`, `SignalOfOneBand`, `EveryBandHasItsTurn`.
- `TunedAsAsked`: once a client's request is obeyed the device has its frequency and keeps it over later hops on events, unless a hop
  met it before its frequency was stored, its retune failed, or the input restarted; `DecodersFollow`: its decoders are there for good, whatever hop was under way; `GoneClientMakesRoom`.
- `ExactlyWanted`, `InOrder`: no burst is cut at the boundary of a piece, no silence is demodulated, nothing comes twice or late.
  `PackageOfOneSegment`: no package joins pulses from both sides of a flush or a reset.
- `EverySampleCounted`, `FskSamplesCounted`: the widths stored and counted add up to the samples seen, at every sample.
  `PackageIsWhole`, `FskWidthsAreReal`: a package covers its stretch, and no width in it is too short or should have ended
  it. `BlockIsTaken`: the loop around the detector ends.
- `MessageIsDecoded`: with no noise since the last silence, what is handed over is what was sent, once, at the end;
  `RowsAreApart`: rows share no memory and the next free one lies behind; `CodesAreUndone`, `SearchFindsFirst`: the line
  codes' decoders and the search agree with their definitions on every buffer that comes up.
- `AlarmIsTrue`: no receiver is accused whose main loop passes and whose stream is taken, or away; a stream that was away
  since the last frame and is back is left out (section 5). `DeadIsReported`, `RecoveryIsReported`, `EndIsReported`, `OverrunsAreReal`,
  `StartsAnyway`.
- `NoneLost`, `OnceOnly`, `AllAcknowledged`.

The type invariants of `TuneLabels` and `SdrInput` are checked in their runs; those of `BandHop`, `Squelch`, `PulseDetect`, `RtlTcp`,
`EspComponent` and `MqttOutput` are theorems only (section 4); `PulseSlicer` states none, its properties fix what its fields may be.

**Why the bounds suffice.** The label protocol's conflicts need two changes (one to be late, one to be overtaken)
and a block of two samples (one before, one after); two setters make the two changes overlap; a ring of one sample
holds an old one across a change. Its safety properties are proved for every bound and every set of setters in addition. In SdrInput three faults give a fault during the recovery from
one during the recovery from another; a queue of two has a block behind the one being decoded. In BandHop three
bands with two rates contain both a hop between different rates and one between equal ones ("too few rates: the last applies"); a
queue of one delays exactly the block of the old band that matters. Squelch's behaviour
depends on three adjacent pieces and the flushes among them; five pieces and two flushes contain every
pattern of those, and the theorems cover the rest. In PulseDetect four pulses to a package and a half of two let the package
fill, shift and go on; gap limits of 3 and 4 samples put a gap on each side of both; blocks of one and two samples
put a boundary between any two samples and none. The slicers' senders run through a message, its end and the start of the
next; rows of four bits are filled and run on. In EspComponent an interval shorter than STALL_MS and one longer
are the two cases its arithmetic tells apart. In RtlTcp two commands give one that meets the effects of another, counters
modulo 2 wrap at once. In MqttOutput two messages give one whose receipt removes the other's neighbour, two losses one
during the recovery from another; `WireCap` must be at least the messages, since all overdue ones are sent at
once; and its safety is proved for every bound.

**Fairness.** `TuneLabels`: the threads are scheduled (weak fairness), a running stream delivers, the watchdog keeps
firing; strong fairness of a read that gets samples or notices a fault, because its 500 ms timeout
returns to the same place and would otherwise be taken for ever. `SdrInput`: both tasks are scheduled, the timer
keeps firing (strong fairness of the watchdog, whose chance comes once a round of the loop), the wait
of a reader on a stream that is not there is bounded (`ESP_SDR_NOT_STREAMING_MAX_MS`), and the dongle is plugged in in the end.
`BandHop`: delivery, the main task, the watchdog's restart and the dongle's return. `RtlTcp`: both threads, and
strong fairness of blocks (a stream that runs delivers), of the restart, and of a thread that waits for a frame: it wakes
before 2^32 frames have passed, or the counters would look equal again. `PulseDetect`: the loop over a block goes on.
`EspComponent`: time passes, loop() and update() are called, and the task's steps are taken. `MqttOutput`: the socket loop, the
wires, the broker and time; strong fairness of the timer only because the model's resend waits for room on
the bounded wires. No fairness is assumed of setters, requests, clients, faults, unplugs, lost connections or timeouts.

**Deadlock** is checked in `tune_labels`, `tune_start`, `band_hop`, `manual_tune`, `rtl_tcp` and `slicer`. `SdrInput` may stop: after exit()
both tasks are gone; so may `EspComponent`, if rtl_433 ended and the network stays. `Squelch`, `PulseDetect`, `SquelchedDetect` and
`MqttOutput` stop when their bounds are used up.

## 4. Proofs

`TuneLabels_proofs`, for every number of samples, ring size, tunes and faults:

The five theorems are of `Spec` itself, with no assumption on how many setters there are or when they call.

- `TypeCorrect` (`TypeOK`).
- `NoStale` (`NoStaleSamples`). The inductive invariant `IInv` orders what is where, for the settings in `sure`: the setting asked
  for is not older than the label, and a running stream not older than the label (`Settings`, `StartOK` for what it is about to be
  started with). A call that did not race knows where between driver and label it is (`Calls`), is the only one (`Alone`) and
  meets no start. A raced one may leave its setting, or the rate it falls back to, anywhere: `Doubt` names the settings not in `sure`
  or about to leave it. While the generation the reader saw is the current one, nothing in the ring or in the block is
  older than the label (`Fresh`). NoStaleSamples alone is not inductive: it says nothing of the samples that will make the next block.
- `ImplementsStream` (`StreamSpec`); from `IInv`, every step is a `Change`, a `HandOver` or a stutter.
- `SettledExact` (`SettledBlockIsAsLabelled`), `LabelSettles` (`SettledLabel`): a second invariant, `Exact`, that is an equality where
  `IInv` is an order: while no error is reported, label, settings, driver and samples agree up to what is in doubt and the
  settings whose label is still due (`Changing`, `Busy`).

`SdrInput_proofs`, for every number of faults, queue size, backoff and start time, with threads that keep up or do not (`Timely`):
`TypeCorrect`, `NoThreadOnFreedDevice` (`ReaderHasItsDevice`) and `DriverIsStoppedFirst` (`StartsStopped`). The invariant adds what
the main task knows of the thread (`ThreadKnown`: there is none while it reopens, or while the device counts as stopped),
that a driver without a device is off (`DriverKnown`: else a reopened one could be found running), and that a
block seen by select() is still there when it is taken (`BlockWaits`).
`WatchdogSparesHealthy`: `StartsInTime => (Spec => HealthyIsLeftAlone)`. `StartsInTime` says that a start takes at most one
interval after the grace; without it a healthy driver that is slow to start is stopped every round, as section 2 says.

`BandHop_proofs`, for every number of bands, blocks per dwell, queue size and faults:

- `TypeCorrect`, and `NoSignalAcrossBands` (`SignalOfOneBand`), whether the hopping is on time or on events.
- `BandStaysWhole`: `Timed => (Spec => []BandIsWhole)`. `Timed` says that the hopping is on time and that a dwell is longer than
  the queue of blocks. The invariant follows a hop through the pipeline: `DeviceOfBand` and `BandTime` tie the device and the
  time of the hop to the band, `Fresh` says that only as many blocks of the old tuning are left as the queue holds, and
  `TailOfDemod`, `DecodersOfBand` that demodulator and decoders change with the first block of the new band. `Fresh` is why
  the dwell must be the longer one: else the next hop could come while blocks of the band before last are queued.

`SquelchedDetect_proofs`, for every length of the input, block size, package size, pair of gap limits, and number of pieces and
flushes, in three parts:

- The detector: `TypeCorrect`, `EverySampleIsCounted`, `FskSamplesAreCounted`, `PackagesAreWhole` and `FskWidthsAreLong` (the property
  `FskWidthsAreReal`). The invariant adds `Package` (what the package in progress holds in each state of the OOK machine), `Spurious`
  (where a pulse may still be undone, and what is then given back) and `Detector` (the same for each FSK detector, whose own count
  runs beside the OOK one). The widths of a package are summed by a recursive function; lemmas by induction on naturals
  say what appending a pulse, undoing the last one and shifting a full package by half do to the sum.
- The squelch: `SquelchTypeCorrect`, `NoBurstIsCut` (`ExactlyWanted`) and `ProcessedInOrder` (`InOrder`). The invariant adds
  `LookBehind`: what the four fields know of the last piece. A push decides the fate of two pieces, the new one and the one
  before, which is why one piece of memory is enough.
- Both together: `ImplementsSquelch` and `DetectsBehindSquelch` say that push_sdr_flow implements the squelch alone, and keeps
  what was proved of each part. `PackagesOfOneSegment` (`PackageOfOneSegment`) needs both at once: that the detector's
  position is that of the pieces it was fed (`FlowOK`), that what it has not yet seen is of the present segment (`ToCome`), and that so
  is everything a package under way is made of (`Joined`). A push adds only pieces of the present segment, and a replayed one
  is the piece before; that is `LookBehind` once more. `FlowAssumption` says that a piece is at most a block.

`PulseSlicer_proofs`, for every set of devices, of every coding and timing: `RowsStayApart` (`RowsAreApart`), with the
invariant that a buffer is well formed (`Good`): each operation of the bit buffer preserves it, so each slicer's step does.
`CodesUndone` (`CodesAreUndone`) and `FirstIsFound` (`SearchFindsFirst`) hold of every bit string, not only of those a
slicer leaves: the line codes' decoders by induction from the end of the row, the search by a measure of its cursors. The
lemmas `Least`, `Recursion` and `RankInduction` give what that takes: that a recursive function whose arguments descend
exists, and that a set closed under it has all of them. They speak of sets, not of predicates, which is what the
provers can instantiate.

`MessagesAreDecoded` (`MessageIsDecoded`) is for every message of any length and rows, every coding, every width off by one, and
all noise before it. It assumes of each device that its widths can be told apart (`Decodable`: the tolerances, a row's and a
message's limits, and in PCM the clocks of the sender and of the slicer leave room for one another), and that a package
is too short to fill the buffer with one row (`MaxPulses <= (Rows - 1) * RowBits`); TLC evaluates both for the run's devices.
The argument:

- `Says` is what the buffer holds of the rows sent so far, where each begins when long ones run on into the next, and that memory
  behind them is clean (`AddBit` only sets bits). `AddBitSays`, `AddRowSays`, `AddSyncSays` and `AddRunSays` say what each operation adds while
  there is room, `FilledSays` that a decoder then gets these rows. Recursive functions over rows are unrolled with `Induction`.
- For each coding three lemmas: `PcmSend`, `PwmSend`, ... that a pulse and a gap add exactly their bits and leave the
  slicer where the sender is (`InStep`: half a bit, preamble, time since the last edge); `PcmFinish`, ... that the silence hands the rows over;
  `PcmSilence`, ... that a silence leaves nothing, whatever was before. PPM drops a package without data and keeps what it
  collected, so for it `Whole` says besides that a first row is always as it was added, from noise too.
- `SliceSend`, `SliceFinish` and `SliceSilence` put the codings together, and the invariant `Follows` says: unless there was noise since
  the last silence, buffer and place are the sender's. MessageIsDecoded speaks of one step only; this is what makes it inductive.

`RtlTcp_proofs`, for every number of bands, frequencies, commands, faults, and width of the counters: `TypeCorrect`, `TunesAsAsked`
(`TunedAsAsked`) and `DecodersAreAsked` (a request for the manual decoders is pending or granted from the store that makes it on, and
once granted for good, as `DecodersFollow` has it). Both threads store one field at a time, so the invariant says what holds between any two stores:
once a client has asked there is one frequency in the list (`HoppingIsOver`); a request that nothing raced has its stores
stand, and a hop on an event that begins after them has read the index 0 and the frequency asked for (`StoresStand`), so that its retune,
and its failing, change nothing; and a thread inside set_center_freq obeys the last request (`Calls`).

`EspComponent_proofs`, for every interval and bound: `TypeCorrect`, `SumIsReal` (`OverrunsAreReal`) and `NoFalseAlarm` (`AlarmIsTrue`,
a property of steps). The invariant's `Marks` says that a counter that has not moved since its mark has truly stood still for at
least as long as the component believes, that of frames while the stream was never away, and `Sum` that what is summed plus what the next update will add is at most what was lost.

`MqttOutput_proofs`, for every number of messages, losses and message ids: `TypeCorrect`, `NoMessageIsLost` (`NoneLost`) and
`NoMessageTwice` (`OnceOnly`). The invariant goes through the places that hold an id: the list of what is in flight (`List`), what is on the
way to the broker (`Sent`, `Unpublished`), the broker's store of ids (`Store`) and the receipts on their way back (`Receipts`).
Whatever is under way about an id must agree with the element that holds the id. For QoS 2 `Twice` adds that a PUBLISH never stands
behind the PUBREL of its id, so that what was passed on and may come again is still in the store. It rests on the wires (in order, emptied when the connection breaks) and on the broker, both
external and modelled as MQTT 3.1.1 asks, and on an id not being taken again while a trace of it is under way (`IsFree`).

Assumptions: the named one about the constants in each module, which the runs evaluate, and `Timed` or `StartsInTime` where
stated. These are needed: with `HopOnEvent = TRUE` TLC finds BandIsWhole violated. `DetectAssumption` asks
that a package holds two pulses or more and that the gap that ends one is not shorter than the shortest pulse, as
`PD_MAX_PULSES` and `PD_MIN_PULSE_SAMPLES` have it; `SlicerAssumption` that a device has one of the
codings of `r_device.h` and widths that its slicer can divide by, which flex.c:819-831 demands of the devices a user defines.

Every safety invariant the passing runs check is a theorem. Only model-checked are the liveness properties, whose fairness is out
of the proof system's reach, and the properties of steps that need it.

## 5. Findings

Three runs end in a violation on purpose; each quotes, in `PROJECT.json`, the comment or document that says otherwise:

- `freed_block`: a block still queued when the watchdog closes the device is decoded after its buffer was freed.
- `manual_tune`: a frequency set by hand is forgotten by a restart that comes before its first block.
- `tune_start`: a setter that runs between the acquire thread's read of the settings and the driver's start (sdr.c:1329, 1333,
  1413) has its setting labelled but not captured, until it is set again, although "every block is labelled with the settings it was
  captured with" (sdr.c:1402). Two setters at once can do the same.

Seen while modelling, in the models but without a run, or noted only:

- Settings: the discard gives up after 64 reads (sdr.c:1378). The backoff compares ticks by a signed difference, right for
  deadlines less than 25 days away (sdr.c:1396).
- Life cycle: exit while the stream starts leaves the stream on (rtl_433.c:1486, sdr.c:1532). The acquire task's handle is never cleared
  (rtl433_port.c:38). `rtl_tcp` sends from blocks that sdr_close() frees, as in `freed_block` (output_rtltcp.c:97).
- Hopping: under `-E hop` the second event of a dwell skips the change of rate (rtl_433.c:1202), and a late block of the old band
  takes the new band's decoders. A restart between a hop and its first block starts at the old frequency with the new band's
  rate and decoders (rtl_433.c:1345-1374). A manual tune from the rtl_tcp thread may meet a hop, whose store and retune then come
  last; and its own retune may fail, which set_center_freq does not report (r_api.c:92).
- Squelch: silence is skipped (r_flow.c:329) and not counted in a gap, so a gap longer than the "maximum gap size [...] to declare End Of
  Package" (pulse_data.h:25) may leave the package open, and with pulses longer than a tenth of what is left of the gap the next burst
  is joined to it.
- Detector: an FSK package is returned at the second OOK pulse; `num_pulses <= 1` drops a package; `eop_on_spurious` is
  lost at the end of a block (pulse_detect.c:291); pulse_data_shift adds pulses, not samples, to the offset
  (pulse_data.c:32); PD_MAX_PULSE_MS is not used.
- Slicers: DMC delivers only on a reset gap; OSV1 reads past num_pulses; a PPM row of sync only survives a silence; rows
  that spill leave empty rows in num_rows; Manchester with a tolerance can lose a last short one. PPM would begin the only row again
  over its old bits if one row filled the buffer (pulse_slicer.c keeps a buffer without data): the proof needs, and 1200 pulses
  against 24 rows of 320 bits give, that none does.
- Component: an update that comes just after the dongle is back, and finds no frame since the update before, counts the time the stream
  was away: a healthy receiver is reported as taking no samples (rtl_433_component.cpp:165-170), against "while the USB stream delivers
  samples the demodulator takes frames. Either stopping for this long means it is hung" (rtl_433_component.cpp:156-157). With the default
  60 s between updates and STALL_MS of 30 s one update suffices; the next one withdraws it. Without the exception for a
  stream that is back, TLC finds `AlarmIsTrue` violated within ten steps. A hang before the main loop's first pass is never reported; overruns are undercounted across a restart.
- rtl_tcp: what is left of a 128-byte chunk after its last whole command is dropped, so that later commands are misaligned; a
  client that stops reading holds the thread in a blocking send.
- MQTT: when mg_connect_opt returns NULL in the timer, the timer is not set again and the output never reconnects; the list of
  messages in flight has no bound while the broker is away; the delay is reset on TCP connect, so that a broker that refuses is
  retried without backoff; message_id wraps to 0, which MQTT forbids above QoS 0.

## 6. Not modelled, and the plan

Done, in this order: TuneLabels, SdrInput, BandHop, Squelch, FskPulses with PulseDetect and SquelchedDetect, EspComponent,
BitBuffer with PulseSlicer, RtlTcp, MqttOutput; proofs of TuneLabels, SdrInput, Squelch, BandHop,
EspComponent, MqttOutput, PulseDetect, PulseSlicer, SquelchedDetect, RtlTcp.

What the plan has left:

1. The HTTP server's ring of past messages and its RPC dispatch; a WebSocket handshake pushes meta data into everyone's history.
2. The element order of `list.c` under removal while a loop runs over it.
3. The control socket's capacity against the 15 slots of `dev->buffer`.
4. The PCM slicer's tuning of the bit period, bitbuffer_find_repeated_row, the CRC and parity functions of `bit_util.c`.
5. The other commands of rtl_tcp and the partial parsing of a chunk.

Left out for good: the decoders' payload formats, one message layout per device in some 300 files, which have no state
beyond a call and nothing to interleave; they are most of the repository's lines, so the map covers a small share of it. Also
float filters, formatting, network I/O, third-party code (Mongoose apart from the hand-off and the MQTT calls, getopt, jsmn),
and the parsing of options. Allocation failures are not modelled anywhere. The driver is not in the repository
and is modelled from its use.
