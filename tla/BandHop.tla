-------------------------------- MODULE BandHop --------------------------------
(***************************************************************************)
(* What the rtl_433 main task makes of its list of bands: it hops (at the  *)
(* end of process_sdr_frame), is tuned by hand (set_center_freq,           *)
(* set_sample_rate) and restarts the input (start_sdr).  Four things have  *)
(* to agree on the band: the device's frequency, its rate, the registered  *)
(* decoders (port/rtl433_bands.c) and cfg's own idea of where it is.       *)
(*                                                                         *)
(* Blocks reach the main task through a queue, so it learns what it set    *)
(* only later: cfg->center_frequency and cfg->samp_rate are the label of   *)
(* the last block it took.  That a block is labelled with the settings it  *)
(* was captured with is TuneLabels' part and taken from there.             *)
(*                                                                         *)
(* A frequency is its place in the configured list; NBands stands for one  *)
(* that is not in the list.  Hop time is counted in blocks.                *)
(***************************************************************************)
EXTENDS Integers, Sequences

CONSTANTS
  NBands,      \* configured frequencies (-f), more than one
  HopRates,    \* their sample rates (-s), a sequence: too few, the last applies
  HopBlocks,   \* blocks a band is heard before the hop timer ends it
  HopOnEvent,  \* -E hop
  QueueCap,    \* blocks on their way from the acquire thread
  MaxFaults    \* bound: deaths of the stream, failed changes, changes by hand

ASSUME ConstantsAssumption ==
  /\ NBands \in Nat \ {0, 1}
  /\ Len(HopRates) \in Nat \ {0, 1} /\ HopRates \in Seq(Nat)
  /\ HopBlocks \in Nat \ {0}
  /\ HopOnEvent \in BOOLEAN
  /\ QueueCap \in Nat \ {0}
  /\ MaxFaults \in Nat

VARIABLES
  frequencies, \* cfg->frequencies
  freq0,       \* cfg->frequency[0], the others are as configured
  index,       \* cfg->frequency_index
  hopRates,    \* cfg->hop_rates
  cfg,         \* cfg->center_frequency and cfg->samp_rate
  applied,     \* applied_band: a band, or Manual
  pc,          \* where the main task is
  heard,       \* blocks taken since hop_start_time, at most HopBlocks
  tail,        \* demod: the labels of the samples of a signal not yet complete
  demod,       \* demod->center_frequency and samp_rate
  plugged,     \* 1 while there is a dongle
  dev,         \* 1 while cfg->dev is open
  up,          \* 1 while the stream runs and the acquire thread reads it
  tuned,       \* the device: frequency and rate
  queue,       \* labels of the blocks on their way
  refused,     \* history: 1 after the driver refused a hop's rate
  cut,         \* history: 1 after a restart that cut a band short (see Restart)
  faults       \* faults that happened

cfgVars == <<frequencies, freq0, index, hopRates, cfg, applied>>
flowVars == <<tail, demod>>
devVars == <<plugged, dev, up, tuned>>
vars == <<cfgVars, pc, heard, flowVars, devVars, queue, refused, cut, faults>>

Bands == 0 .. NBands - 1
Freqs == 0 .. NBands
Rates == {HopRates[i] : i \in DOMAIN HopRates}
Tunings == [freq : Freqs, rate : Rates]
Manual == -2

Frequency(i) == IF i = 0 THEN freq0 ELSE i

(* Too few rates: the last one applies. *)
RateOf(i) == IF Len(HopRates) > i THEN HopRates[i + 1] ELSE HopRates[Len(HopRates)]

(* The type invariant. *)
TypeOK ==
  /\ frequencies \in {1, NBands} /\ freq0 \in Freqs /\ index \in 0 .. frequencies - 1
  /\ hopRates \in {0, Len(HopRates)}
  /\ cfg \in Tunings /\ applied \in Bands \cup {Manual}
  /\ pc \in {"poll", "hop", "tune"} /\ heard \in 0 .. HopBlocks
  /\ tail \subseteq Tunings /\ demod \in Tunings
  /\ plugged \in {0, 1} /\ dev \in {0, 1} /\ up \in {0, 1}
  /\ tuned \in Tunings /\ queue \in Seq(Tunings)
  /\ refused \in {0, 1} /\ cut \in {0, 1} /\ faults \in 0 .. MaxFaults

(* main() has registered the first band's decoders and called start_sdr(). *)
Init ==
  /\ frequencies = NBands /\ freq0 = 0 /\ index = 0
  /\ hopRates = Len(HopRates)
  /\ cfg = [freq |-> 0, rate |-> HopRates[1]] /\ applied = 0
  /\ pc = "poll" /\ heard = 0 /\ tail = {} /\ demod = cfg
  /\ plugged \in {0, 1} /\ dev = plugged /\ up = plugged /\ tuned = cfg
  /\ queue = <<>> /\ refused = 0 /\ cut = 0 /\ faults = 0

Fault == faults < MaxFaults /\ faults' = faults + 1

-----------------------------------------------------------------------------
(* The device and the acquire thread (TuneLabels, SdrInput). *)

Deliver ==
  /\ up = 1 /\ Len(queue) < QueueCap
  /\ queue' = Append(queue, tuned)
  /\ UNCHANGED <<cfgVars, pc, heard, flowVars, devVars, refused, cut, faults>>

(* The stream dies or stalls, with or without its dongle. *)
Dies ==
  /\ up = 1 /\ Fault
  /\ up' = 0 /\ plugged' \in {0, 1}
  /\ UNCHANGED <<cfgVars, pc, heard, flowVars, dev, tuned, queue, refused,
                 cut>>

Plug ==
  /\ plugged = 0 /\ plugged' = 1
  /\ UNCHANGED <<cfgVars, pc, heard, flowVars, dev, up, tuned, queue, refused,
                 cut, faults>>

-----------------------------------------------------------------------------
(* sdr_handler() and process_sdr_frame(). *)

(* After h blocks of a band: a hop if the hop timer is over, or if -E hop and
   an event was decoded. *)
HopOrPoll(h) ==
  IF frequencies > 1 /\ h = HopBlocks THEN {"hop"}
  ELSE IF HopOnEvent THEN {"poll", "hop"} ELSE {"poll"}

(* A change of band that leaves the half-seen signal in the demod (a mutant). *)
NoFlushOnChange ==
  /\ pc = "poll" /\ queue # <<>>
  /\ LET label == Head(queue)
         h == IF heard < HopBlocks THEN heard + 1 ELSE heard
     IN /\ cfg' = label /\ demod' = label /\ heard' = h
        /\ tail' \in {{}, tail \cup {label}}
        /\ pc' \in HopOrPoll(h)
  /\ queue' = Tail(queue)
  /\ UNCHANGED <<frequencies, freq0, index, hopRates, applied, devVars, refused, cut,
                 faults>>

(* A block: cfg takes its label, a signal of other settings is flushed, the
   block is pushed and may leave a signal half seen.  Then it may be time to
   hop. *)
HandleBlock ==
  /\ pc = "poll" /\ queue # <<>>
  /\ LET label == Head(queue)
         h == IF heard < HopBlocks THEN heard + 1 ELSE heard
         kept == IF demod # label THEN {} ELSE tail
     IN /\ cfg' = label /\ demod' = label /\ heard' = h
        /\ tail' \in {{}, kept \cup {label}}
        /\ pc' \in HopOrPoll(h)
  /\ queue' = Tail(queue)
  /\ UNCHANGED <<frequencies, freq0, index, hopRates, applied, devVars, refused, cut,
                 faults>>

(* A hop that forgets the rate (a mutant). *)
HopKeepsRate ==
  /\ pc = "hop"
  /\ heard' = 0 /\ index' = (index + 1) % frequencies /\ pc' = "tune"
  /\ UNCHANGED <<frequencies, freq0, hopRates, cfg, applied, flowVars, devVars,
                 queue, refused, cut, faults>>

(* The hop: the next band, its rate if that is another one than the last
   block's.  A rate the driver refuses leaves the device at the old one. *)
Hop ==
  /\ pc = "hop"
  /\ heard' = 0 /\ index' = (index + 1) % frequencies /\ pc' = "tune"
  /\ \/ /\ hopRates > 1 => RateOf(index') = cfg.rate
        /\ UNCHANGED <<tuned, faults>> /\ refused' = 0
     \/ /\ hopRates > 1 /\ RateOf(index') # cfg.rate /\ dev = 1
        /\ tuned' = [tuned EXCEPT !.rate = RateOf(index')]
        /\ refused' = 0 /\ UNCHANGED faults
     \/ /\ hopRates > 1 /\ RateOf(index') # cfg.rate
        /\ dev = 1 => Fault
        /\ dev = 0 => UNCHANGED faults
        /\ refused' = 1 /\ UNCHANGED tuned
  /\ cut' = IF cfg = tuned THEN 0 ELSE cut
  /\ UNCHANGED <<frequencies, freq0, hopRates, cfg, applied, flowVars, plugged,
                 dev, up, queue>>

(* sdr_set_center_freq().  No device: nothing.  A retune the driver fails
   comes with an error event, and the acquire thread gives up. *)
SetFreq(f) ==
  \/ /\ dev = 1 /\ tuned' = [tuned EXCEPT !.freq = f]
     /\ UNCHANGED <<plugged, dev, up, faults>>
  \/ /\ up = 1 /\ Fault /\ up' = 0
     /\ UNCHANGED <<plugged, dev, tuned>>
  \/ /\ dev = 0 /\ UNCHANGED <<devVars, faults>>

(* The old band's decoders stay registered (a mutant). *)
KeepBand == UNCHANGED applied

(* rtl433_port_apply_band(): not after a frequency set by hand. *)
ApplyBand == applied' = IF applied = Manual THEN Manual ELSE index

(* ... and its frequency, then its decoders, after what is half seen was
   decoded with the old ones. *)
Tune ==
  /\ pc = "tune" /\ pc' = "poll"
  /\ tail' = {}
  /\ SetFreq(Frequency(index))
  /\ ApplyBand
  /\ UNCHANGED <<frequencies, freq0, index, hopRates, cfg, heard, demod, queue,
                 refused, cut>>

-----------------------------------------------------------------------------
(* Requests from the HTTP server, on the main task. *)

(* set_center_freq(): hopping is over, every band's decoders run.  The device
   is tuned, or fails (a fault more), or is not there. *)
SetCenterFreq(f) ==
  /\ pc = "poll" /\ faults < MaxFaults
  /\ frequencies' = 1 /\ index' = 0 /\ freq0' = f /\ hopRates' = 0
  /\ applied' = Manual
  /\ \/ /\ dev = 1 /\ tuned' = [tuned EXCEPT !.freq = f]
        /\ faults' = faults + 1 /\ UNCHANGED up
     \/ /\ up = 1 /\ up' = 0
        /\ faults' = faults + 2 /\ faults' <= MaxFaults /\ UNCHANGED tuned
     \/ /\ dev = 0
        /\ faults' = faults + 1 /\ UNCHANGED <<tuned, up>>
  /\ UNCHANGED <<cfg, pc, heard, flowVars, plugged, dev, queue, refused,
                 cut>>

(* set_sample_rate(): a rate set by hand holds for every band; a refused one
   changes nothing. *)
SetSampleRate(r) ==
  /\ pc = "poll" /\ dev = 1 /\ Fault
  /\ hopRates' = 0 /\ tuned' = [tuned EXCEPT !.rate = r]
  /\ UNCHANGED <<frequencies, freq0, index, cfg, applied, pc, heard, flowVars,
                 plugged, dev, up, queue, refused, cut>>

-----------------------------------------------------------------------------
(* start_sdr() from the watchdog: close, open, and set the rate that goes
   with frequency_index and the frequency of the last block.  Blocks that are
   queued by now (what was read of one when the thread was told to end) stay
   queued.  The band is cut short if none of its blocks was taken yet, or if
   such blocks may still come. *)
Restart ==
  /\ pc = "poll" /\ up = 0 /\ dev' = plugged /\ up' = plugged
  /\ IF plugged = 1
       THEN /\ tail' = {}
            /\ cfg' = IF hopRates > 1 THEN [cfg EXCEPT !.rate = RateOf(index)] ELSE cfg
            /\ tuned' = cfg'
            /\ cut' = IF cfg.freq # Frequency(index) \/ queue # <<>> THEN 1 ELSE cut
       ELSE UNCHANGED <<tail, cfg, tuned, cut>>
  /\ UNCHANGED <<frequencies, freq0, index, hopRates, applied, pc, heard, demod,
                 plugged, queue, refused, faults>>

-----------------------------------------------------------------------------
Main == HandleBlock \/ Hop \/ Tune

Next ==
  \/ Deliver \/ Dies \/ Plug
  \/ Main \/ Restart
  \/ \E f \in Freqs : SetCenterFreq(f)
  \/ \E r \in Rates : SetSampleRate(r)

Spec == Init /\ [][Next]_vars

(* A stream that runs delivers, the main task runs, the watchdog keeps
   firing and the dongle comes back. *)
Fairness ==
  WF_vars(Deliver) /\ WF_vars(Main) /\ WF_vars(Restart) /\ WF_vars(Plug)

FairSpec == Spec /\ Fairness

-----------------------------------------------------------------------------
(* Properties. *)

Hopping == frequencies > 1

(* Between two handlers everything agrees on the band: the device's frequency,
   its rate (unless it was set by hand, or the driver refused it) and the
   decoders, whatever deaths, failed retunes and late blocks of the last band
   came before.  Not after a restart that cut the band short, until the next
   hop puts it right. *)
BandIsWhole ==
  (pc = "poll" /\ up = 1 /\ Hopping /\ cut = 0) =>
    /\ tuned.freq = Frequency(index)
    /\ hopRates > 1 /\ refused = 0 => tuned.rate = RateOf(index)
    /\ applied = index

(* A signal that is put together from several blocks never spans two bands
   or two rates: queued blocks of the old band may come after the flush. *)
SignalOfOneBand == \A t, u \in tail : t = u

(* Every band is decoded again and again with its own decoders, unless the
   frequency was set by hand. *)
Decodes(b) == pc = "poll" /\ queue # <<>> /\ Head(queue).freq = b /\ applied = b
EveryBandHasItsTurn ==
  \A b \in Bands : ([]<>Decodes(b)) \/ (<>(applied = Manual))

(* A frequency set by hand stays until the next reboot (README.md). *)
ManualFrequencyStays ==
  [][(applied = Manual /\ freq0' = freq0 /\ pc = "poll" /\ up = 0 /\ up' = 1) =>
       tuned'.freq = freq0]_vars
=============================================================================
