------------------------------ MODULE TuneLabels ------------------------------
(***************************************************************************)
(* How a block of samples gets the label (centre frequency and sample      *)
(* rate) that the decoders work with, src/idf/rtl433_core/src/sdr.c.       *)
(*                                                                         *)
(* Three parties touch the settings while samples flow:                    *)
(*   - the setters (sdr_set_center_freq, sdr_set_sample_rate): first the   *)
(*     driver is changed, later, under dev->lock, the label and            *)
(*     esp_tune_gen;                                                       *)
(*   - the driver (external), which captures samples into its pull ring;   *)
(*   - the acquire thread (esp_sdr_read_loop), which starts the stream,    *)
(*     fills blocks from that ring and labels them.                        *)
(*                                                                         *)
(* Data abstraction: a value of a setting is the ordinal ("epoch") of the  *)
(* request that asked for it.  Two requests for the same frequency are     *)
(* kept apart, which only makes the properties stronger.                   *)
(*                                                                         *)
(* Nothing keeps a setter from running while the acquire thread starts the *)
(* stream: the thread may have read the old setting already, or not yet    *)
(* the generation, and its blocks are then mislabelled until the setting   *)
(* is set again.  Nor does anything keep two setters apart.  The histories *)
(* raced (of a call) and sure (of the settings) say where that happened.   *)
(***************************************************************************)
EXTENDS Naturals, Sequences

CONSTANTS
  Setters,   \* tasks that call the setters: main, rtl_tcp's control thread
  BlockLen,  \* samples in a block
  RingCap,   \* samples the driver's pull ring holds
  MaxTunes,  \* bound: setter calls
  MaxFaults  \* bound: stream deaths, failed starts and stop requests

ASSUME ConstantsAssumption ==
  /\ Setters # {}
  /\ BlockLen \in Nat \ {0}
  /\ RingCap \in Nat \ {0}
  /\ MaxTunes \in Nat
  /\ MaxFaults \in Nat

Knobs   == {"freq", "rate"}
Tuning  == [Knobs -> Nat]
Uniform(e) == [k \in Knobs |-> e]

(* Every setting of t was asked for no earlier than the one of u. *)
AtLeast(t, u) == \A k \in Knobs : t[k] >= u[k]

VARIABLES
  stream,     \* driver: "on" while the stream runs
  hw,         \* driver: the tuning samples are captured with
  ring,       \* driver: captured samples not yet read
  raised,     \* which of esp_errors, esp_disconnects moved since seen_*
  want,       \* dev->esp_freq, dev->esp_rate
  label,      \* dev->center_frequency, dev->sample_rate
  gen,        \* dev->esp_tune_gen
  espStreaming, \* dev->esp_streaming
  setter,     \* where each setter call is
  rpc,        \* where the acquire thread is
  cfgd,       \* esp_sdr_start_stream's locals freq, rate
  seen,       \* esp_sdr_read_loop's seen_gen
  g,          \* esp_sdr_read_loop's gen, read at the block start
  block,      \* the samples of the block being filled
  running,    \* dev->running
  out,        \* the last block handed to the callback
  sure,       \* history: the settings that no raced call was the last to set
  epoch,      \* the last request's ordinal
  tunes,      \* setter calls made
  faults      \* faults that happened

drvVars    == <<stream, hw, ring>>
devVars    == <<want, label, gen>>
readerVars == <<rpc, cfgd, seen, g, block, running>>
vars == <<drvVars, raised, devVars, espStreaming, setter, readerVars, out,
          sure, epoch, tunes, faults>>

(* A setter call: where it is, the setting and the request it is for, the
   value to fall back to, and (history) whether it raced: it began while the
   acquire thread started the stream, or overlapped another call. *)
Call == [pc : {"idle", "label", "restart", "fallback"}, knob : Knobs,
         e : Nat, old : Nat, raced : {0, 1}]
Idle == [pc |-> "idle", knob |-> "freq", e |-> 0, old |-> 0, raced |-> 1]
StartingUp == {"gate", "starting", "gain"}
InLoop     == {"start", "discard", "check", "read", "label"}

(* The type invariant: every field holds what its C type and its writers
   allow, and every thread is at a step of its function. *)
TypeOK ==
  /\ stream \in {"on", "off"} /\ hw \in Tuning /\ ring \in Seq(Tuning)
  /\ raised \subseteq {"error", "disconnect"}
  /\ want \in Tuning /\ label \in Tuning /\ gen \in Nat
  /\ espStreaming \in {0, 1} /\ running \in {0, 1}
  /\ setter \in [Setters -> Call]
  /\ rpc \in StartingUp \cup InLoop \cup {"ended"}
  /\ cfgd \in Tuning /\ seen \in Nat /\ g \in Nat
  /\ block \in Seq(Tuning)
  /\ out \in [label : Tuning, samples : Seq(Tuning), sure : SUBSET Knobs]
  /\ sure \subseteq Knobs
  /\ epoch \in Nat /\ tunes \in Nat /\ faults \in Nat

(* start_sdr() has opened the device, set its rate and frequency (each
   bumps esp_tune_gen) and created the acquire thread. *)
Init ==
  /\ stream = "off" /\ hw = Uniform(0) /\ ring = <<>>
  /\ raised = {}
  /\ want = Uniform(0) /\ label = Uniform(0) /\ gen = 2
  /\ espStreaming = 0
  /\ setter = [s \in Setters |-> Idle]
  /\ rpc = "gate" /\ cfgd = Uniform(0) /\ seen = 0 /\ g = 0
  /\ block = <<>> /\ running = 0
  /\ out = [label |-> Uniform(0), samples |-> <<>>, sure |-> Knobs]
  /\ sure = Knobs
  /\ epoch = 0 /\ tunes = 0 /\ faults = 0

-----------------------------------------------------------------------------
(* The driver (external). *)

Capture ==
  /\ stream = "on" /\ Len(ring) < RingCap
  /\ ring' = Append(ring, hw)
  /\ UNCHANGED <<stream, hw, raised, devVars, espStreaming, setter,
                 readerVars, out, sure, epoch, tunes, faults>>

(* The dongle is unplugged (a disconnect event) or the stream dies (FAULT,
   an error event): esp_sdr_event_cb counts it on the USB task. *)
StreamDies ==
  /\ stream = "on" /\ faults < MaxFaults
  /\ stream' = "off" /\ faults' = faults + 1
  /\ \E event \in {"error", "disconnect"} : raised' = raised \cup {event}
  /\ UNCHANGED <<hw, ring, devVars, espStreaming, setter, readerVars, out,
                 sure, epoch, tunes>>

-----------------------------------------------------------------------------
(* The setters. *)

MayTune(s) == setter[s].pc = "idle" /\ tunes < MaxTunes

Races(s) ==
  rpc \in StartingUp \/ \E t \in Setters \ {s} : setter[t].pc # "idle"

(* The call c of s begins: one that is under way at that moment raced. *)
Begin(s, c) ==
  setter' = [t \in Setters |-> IF t = s THEN c ELSE [setter[t] EXCEPT !.raced = 1]]

(* The settings that are sure after a call for k that raced or did not. *)
SureAfter(k, raced) == IF raced = 1 THEN sure \ {k} ELSE sure \cup {k}

Request(s, k, pc) ==
  /\ Begin(s, [pc |-> pc, knob |-> k, e |-> epoch + 1, old |-> want[k],
               raced |-> IF Races(s) THEN 1 ELSE 0])
  /\ want' = [want EXCEPT ![k] = epoch + 1]
  /\ epoch' = epoch + 1
  /\ tunes' = tunes + 1
  /\ UNCHANGED <<label, gen, readerVars, espStreaming, out, sure>>

(* The driver takes the change: between bulk transfers when it streams,
   remembered for the stream start when it is idle. *)
DriverTakes(k) ==
  /\ hw' = IF stream = "on" THEN [hw EXCEPT ![k] = epoch + 1] ELSE hw
  /\ UNCHANGED <<stream, ring, raised, faults>>

SetCenterFreq(s) ==
  /\ MayTune(s)
  /\ Request(s, "freq", "label")
  /\ DriverTakes("freq")

(* The retune failed: the driver kept the old frequency and sends an error
   event; esp_freq was already assigned. *)
SetCenterFreqFails(s) ==
  /\ MayTune(s) /\ stream = "on"
  /\ want' = [want EXCEPT !["freq"] = epoch + 1]
  /\ raised' = raised \cup {"error"}
  /\ Begin(s, Idle)
  /\ sure' = IF Races(s) THEN sure \ {"freq"} ELSE sure
  /\ epoch' = epoch + 1 /\ tunes' = tunes + 1
  /\ UNCHANGED <<drvVars, label, gen, espStreaming, readerVars, out, faults>>

SetSampleRate(s) ==
  /\ MayTune(s)
  /\ espStreaming = 1 => stream = "on"
  /\ Request(s, "rate", "label")
  /\ DriverTakes("rate")

(* The stream already runs at the rate asked for, or so esp_rate says: only
   the label and the generation are written; what raced before stays so. *)
SetSameRate(s) ==
  /\ MayTune(s) /\ espStreaming = 1
  /\ Begin(s, [pc |-> "label", knob |-> "rate", e |-> want["rate"], old |-> want["rate"],
               raced |-> IF Races(s) \/ "rate" \notin sure THEN 1 ELSE 0])
  /\ tunes' = tunes + 1
  /\ UNCHANGED <<drvVars, raised, devVars, espStreaming, readerVars, out,
                 sure, epoch, faults>>

(* The driver cannot change the rate in place: stop the stream ... *)
SetRateStops(s) ==
  /\ MayTune(s) /\ espStreaming = 1
  /\ Request(s, "rate", "restart")
  /\ stream' = "off"
  /\ ring' \in {ring, <<>>}
  /\ UNCHANGED <<hw, raised, faults>>

(* The setter's call s goes on at step pc. *)
GoesOn(s, pc) ==
  setter' = [setter EXCEPT ![s] = [setter[s] EXCEPT !.pc = pc]]

(* Starts that are counted, not flagged (a mutant). *)
StreamStartsCounted(t) ==
  /\ hw' = t /\ stream' = "on" /\ espStreaming' = espStreaming + 1

StreamStarts(t) ==
  /\ hw' = t /\ stream' = "on" /\ espStreaming' = 1

(* A failed restart that leaves the new rate in esp_rate (a mutant). *)
FailedRateStays(s) ==
  /\ setter[s].pc = "restart"
  /\ \/ /\ StreamStarts(want)
        /\ GoesOn(s, "label")
        /\ UNCHANGED faults
     \/ /\ faults < MaxFaults /\ faults' = faults + 1
        /\ espStreaming' = 0
        /\ GoesOn(s, "fallback")
        /\ UNCHANGED <<hw, stream>>
  /\ UNCHANGED <<ring, raised, want, label, gen, readerVars, out, sure, epoch, tunes>>

(* ... and start it at the new rate; if that fails, at the old one. *)
SetRateStarts(s) ==
  /\ setter[s].pc = "restart"
  /\ \/ /\ StreamStarts(want)
        /\ GoesOn(s, "label")
        /\ UNCHANGED <<want, faults>>
     \/ /\ faults < MaxFaults /\ faults' = faults + 1
        /\ espStreaming' = 0
        /\ want' = [want EXCEPT !["rate"] = setter[s].old]
        /\ GoesOn(s, "fallback")
        /\ UNCHANGED <<hw, stream>>
  /\ UNCHANGED <<ring, raised, label, gen, readerVars, out, sure, epoch, tunes>>

SetRateFallsBack(s) ==
  /\ setter[s].pc = "fallback"
  /\ \/ StreamStarts(want) /\ UNCHANGED faults
     \/ /\ faults < MaxFaults /\ faults' = faults + 1
        /\ UNCHANGED <<hw, stream, espStreaming>>
  /\ setter' = [setter EXCEPT ![s] = Idle]
  /\ sure' = IF setter[s].raced = 1 THEN sure \ {"rate"} ELSE sure
  /\ UNCHANGED <<ring, raised, devVars, readerVars, out, epoch, tunes>>

(* A label that changes without a new generation (a mutant). *)
LabelOnly(s) ==
  /\ setter[s].pc = "label"
  /\ label' = [label EXCEPT ![setter[s].knob] = setter[s].e]
  /\ setter' = [setter EXCEPT ![s] = Idle]
  /\ UNCHANGED <<drvVars, raised, want, gen, espStreaming, readerVars, out,
                 sure, epoch, tunes, faults>>

(* Under dev->lock: the label now says what the driver was set to. *)
SetLabel(s) ==
  /\ setter[s].pc = "label"
  /\ label' = [label EXCEPT ![setter[s].knob] = setter[s].e]
  /\ gen' = gen + 1
  /\ sure' = SureAfter(setter[s].knob, setter[s].raced)
  /\ setter' = [setter EXCEPT ![s] = Idle]
  /\ UNCHANGED <<drvVars, raised, want, espStreaming, readerVars, out,
                 epoch, tunes, faults>>

-----------------------------------------------------------------------------
(* The acquire thread. *)

(* esp_sdr_start_stream reads the settings to start with ... *)
ReadSettings ==
  /\ rpc = "gate"
  /\ rpc' = "starting" /\ cfgd' = want
  /\ UNCHANGED <<drvVars, raised, devVars, espStreaming, setter, seen, g,
                 block, running, out, sure, epoch, tunes, faults>>

(* ... and the driver starts with them, its ring empty. *)
StartStream ==
  /\ rpc = "starting"
  /\ \/ /\ StreamStarts(cfgd) /\ ring' = <<>>
        /\ rpc' = "gain"
        /\ UNCHANGED faults
     \/ /\ faults < MaxFaults /\ faults' = faults + 1
        /\ espStreaming' = 0 /\ rpc' = "ended"
        /\ UNCHANGED drvVars
  /\ UNCHANGED <<raised, devVars, setter, cfgd, seen, g, block, running, out,
                 sure, epoch, tunes>>

(* After the gain and bias-tee writes: seen_disconnects, seen_errors and
   seen_gen are read. *)
EnterLoop ==
  /\ rpc = "gain"
  /\ rpc' = "start" /\ running' = 1
  /\ seen' = gen /\ raised' = {}
  /\ UNCHANGED <<drvVars, devVars, espStreaming, setter, cfgd, g, block, out,
                 sure, epoch, tunes, faults>>

BlockStart ==
  /\ rpc = "start"
  /\ g' = gen
  /\ rpc' = IF gen # seen THEN "discard" ELSE "check"
  /\ UNCHANGED <<drvVars, raised, devVars, espStreaming, setter, cfgd, seen,
                 block, running, out, sure, epoch, tunes, faults>>

(* A discard that forgets which generation it was for (a mutant). *)
DiscardUnseen ==
  /\ rpc = "discard"
  /\ ring' = <<>> /\ rpc' = "check"
  /\ UNCHANGED <<stream, hw, raised, devVars, espStreaming, setter, cfgd, seen,
                 g, block, running, out, sure, epoch, tunes, faults>>

(* A change that is noted, but the ring keeps its samples (a mutant). *)
KeepRing ==
  /\ rpc = "discard"
  /\ seen' = g /\ rpc' = "check"
  /\ UNCHANGED <<drvVars, raised, devVars, espStreaming, setter, cfgd, g, block,
                 running, out, sure, epoch, tunes, faults>>

(* esp_sdr_discard_buffered: whatever is in the pull ring goes. *)
Discard ==
  /\ rpc = "discard"
  /\ ring' = <<>> /\ seen' = g /\ rpc' = "check"
  /\ UNCHANGED <<stream, hw, raised, devVars, espStreaming, setter, cfgd,
                 g, block, running, out, sure, epoch, tunes, faults>>

(* The head of the inner loop: block full, stop requested by sdr_stop(),
   an error reported by the driver, or read on.  A stop that is noticed by
   dev->running only, after exit_acquire was read, leaves a part of a block. *)
BlockFull ==
  /\ rpc = "check" /\ Len(block) = BlockLen
  /\ rpc' = "label"
  /\ UNCHANGED <<drvVars, raised, devVars, espStreaming, setter, cfgd, seen,
                 g, block, running, out, sure, epoch, tunes, faults>>

StopRequested ==
  /\ rpc = "check" /\ Len(block) < BlockLen
  /\ faults < MaxFaults /\ faults' = faults + 1
  /\ running' = 0
  /\ \/ rpc' = "ended" /\ block' = <<>>
     \/ rpc' = "label" /\ UNCHANGED block
  /\ UNCHANGED <<drvVars, raised, devVars, espStreaming, setter, cfgd, seen,
                 g, out, sure, epoch, tunes>>

ErrorReported ==
  /\ rpc = "check" /\ Len(block) < BlockLen /\ "error" \in raised
  /\ espStreaming' = 0 /\ running' = 0 /\ rpc' = "label"
  /\ UNCHANGED <<drvVars, raised, devVars, setter, cfgd, seen, g, block, out,
                 sure, epoch, tunes, faults>>

ReadMore ==
  /\ rpc = "check" /\ Len(block) < BlockLen /\ "error" \notin raised
  /\ rpc' = "read"
  /\ UNCHANGED <<drvVars, raised, devVars, espStreaming, setter, cfgd, seen,
                 g, block, running, out, sure, epoch, tunes, faults>>

ReadGets ==
  /\ rpc = "read" /\ stream = "on" /\ ring # <<>>
  /\ block' = Append(block, Head(ring)) /\ ring' = Tail(ring)
  /\ rpc' = "check"
  /\ UNCHANGED <<stream, hw, raised, devVars, espStreaming, setter, cfgd,
                 seen, g, running, out, sure, epoch, tunes, faults>>

(* A timeout, or NOT_STREAMING during a rate change's own restart. *)
ReadWaits ==
  /\ rpc = "read"
  /\ stream = "on" \/ (espStreaming = 1 /\ "disconnect" \notin raised)
  /\ rpc' = "check"
  /\ UNCHANGED <<drvVars, raised, devVars, espStreaming, setter, cfgd, seen,
                 g, block, running, out, sure, epoch, tunes, faults>>

(* Unplugged, dead, or NOT_STREAMING for longer than a restart takes. *)
ReadFails ==
  /\ rpc = "read" /\ stream = "off"
  /\ espStreaming' = 0 /\ running' = 0 /\ rpc' = "label"
  /\ UNCHANGED <<drvVars, raised, devVars, setter, cfgd, seen, g, block, out,
                 sure, epoch, tunes, faults>>

(* A block that is labelled without a look at the generation (a mutant). *)
LabelUnchecked ==
  /\ rpc = "label"
  /\ out' = IF block # <<>> THEN [label |-> label, samples |-> block, sure |-> sure] ELSE out
  /\ block' = <<>>
  /\ rpc' = IF running = 1 THEN "start" ELSE "ended"
  /\ UNCHANGED <<drvVars, raised, devVars, espStreaming, setter, cfgd, seen,
                 g, running, sure, epoch, tunes, faults>>

(* Under dev->lock: label the block, unless the settings changed since it
   was started; hand a non-empty one to the callback. *)
LabelBlock ==
  /\ rpc = "label"
  /\ out' = IF gen = seen /\ block # <<>>
              THEN [label |-> label, samples |-> block, sure |-> sure] ELSE out
  /\ block' = <<>>
  /\ rpc' = IF running = 1 THEN "start" ELSE "ended"
  /\ UNCHANGED <<drvVars, raised, devVars, espStreaming, setter, cfgd, seen,
                 g, running, sure, epoch, tunes, faults>>

(* The watchdog's start_sdr(): the old device closed (its thread joined, the
   driver stopped), a new one opened, set and started. *)
Reopen ==
  /\ rpc = "ended"
  /\ \A s \in Setters : setter[s].pc = "idle"
  /\ stream' = "off" /\ ring' = <<>>
  /\ espStreaming' = 0 /\ running' = 0
  /\ epoch' = epoch + 1
  /\ want' = Uniform(epoch + 1) /\ label' = Uniform(epoch + 1) /\ gen' = 2
  /\ rpc' = "gate" /\ sure' = Knobs
  /\ UNCHANGED <<hw, raised, setter, cfgd, seen, g, block, out, tunes, faults>>

-----------------------------------------------------------------------------
SetterStep(s) ==
  SetRateStarts(s) \/ SetRateFallsBack(s) \/ SetLabel(s)

Reader ==
  \/ ReadSettings \/ StartStream \/ EnterLoop
  \/ BlockStart \/ Discard
  \/ BlockFull \/ ErrorReported \/ ReadMore
  \/ ReadGets \/ ReadFails \/ LabelBlock

Next ==
  \/ Capture \/ StreamDies
  \/ \E s \in Setters :
       \/ SetCenterFreq(s) \/ SetCenterFreqFails(s)
       \/ SetSampleRate(s) \/ SetSameRate(s) \/ SetRateStops(s)
       \/ SetterStep(s)
  \/ Reader \/ StopRequested \/ ReadWaits
  \/ Reopen

Spec == Init /\ [][Next]_vars

(* The threads are scheduled, a stream that runs delivers samples, and the
   watchdog timer keeps firing.  Nothing makes a setter be called, a fault
   happen or a read time out.  A read that could wait or get a sample gets
   one in the end: a timeout only means 500 ms without samples. *)
Fairness ==
  /\ WF_vars(Capture) /\ WF_vars(Reader) /\ WF_vars(Reopen)
  /\ SF_vars(ReadGets) /\ SF_vars(ReadFails)
  /\ \A s \in Setters : WF_vars(SetterStep(s))

FairSpec == Spec /\ Fairness

-----------------------------------------------------------------------------
(* Properties. *)

InFlight == \E s \in Setters : setter[s].pc # "idle"

(* A delivered block never contains a sample captured before the settings on
   its label took effect, for every setting that no raced call was the last
   to set: the discard at the block start and the generation check at its end
   leave no way for the old band's samples to be decoded as the new band's
   (sdr.c 1401-1406), not after a retune, a restart or a start. *)
NoStaleSamples ==
  \A i \in DOMAIN out.samples : \A k \in out.sure :
    out.samples[i][k] >= out.label[k]

(* A block that is handed over while no setter is in the middle of a change
   and no driver error is pending was captured with exactly the settings on
   its label, but for those a raced call was the last to set. *)
SettledBlockIsAsLabelled ==
  [][(out' # out /\ ~InFlight /\ "error" \notin raised) =>
       \A i \in DOMAIN out'.samples : \A k \in sure :
         out'.samples[i][k] = out'.label[k]]_vars

(* "Every block is labelled with the settings it was captured with" (sdr.c
   1402), with no call excepted.  A setter that runs while the acquire
   thread starts the stream breaks it. *)
BlockIsAsLabelled ==
  [][(out' # out /\ ~InFlight /\ "error" \notin raised) =>
       \A i \in DOMAIN out'.samples : out'.samples[i] = out'.label]_vars

(* Once the setters are done, the label the reader uses is what the driver
   is tuned to, but for what a raced call was the last to set: no later block
   can be mislabelled for good. *)
SettledLabel ==
  (rpc \in InLoop /\ stream = "on" /\ ~InFlight /\ "error" \notin raised) =>
     \A k \in sure : label[k] = hw[k]

(* Whatever the label says at some point is heard: a block at that request,
   or at a later one, is delivered in the end, unless a call for an earlier
   request that ran at the same time writes its label over it. *)
EveryTuneIsHeard ==
  \A e \in 1 .. MaxTunes :
    (label["freq"] = e) ~> (out.label["freq"] >= e \/ label["freq"] < e)

(* What the decoders are promised (LabelledStream). *)
Stream == INSTANCE LabelledStream WITH current <- label
StreamSpec == Stream!Spec
=============================================================================
