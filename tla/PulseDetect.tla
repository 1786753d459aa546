------------------------------ MODULE PulseDetect ------------------------------
(***************************************************************************)
(* The pulse detector of src/idf/rtl433_core/src/pulse_detect.c: it turns  *)
(* a stream of samples, which arrives in blocks of any length, into        *)
(* packages of pulses and gaps.                                            *)
(*                                                                         *)
(* A sample is how it compares with the present thresholds: its envelope   *)
(* am is "high" (a pulse begins), "low" (a pulse ends) or "mid" (within    *)
(* the hysteresis); its frequency fm as in FskPulses.  How the thresholds  *)
(* follow the signal is left open, so that every sequence is possible.     *)
(***************************************************************************)
EXTENDS Integers, FskPulses

CONSTANTS
  MinPulses,       \* PD_MIN_PULSES
  MaxGapRatio,     \* PD_MAX_GAP_RATIO
  MinGap, MaxGap,  \* PD_MIN_GAP_MS, PD_MAX_GAP_MS, in samples
  LowRatio,        \* OOK_EST_LOW_RATIO
  MaxPos,          \* bound: samples of the stream
  MaxBlock         \* bound: samples of a block

ASSUME DetectAssumption ==
  /\ {MinPulses, MaxGapRatio, MinGap, MaxGap, LowRatio, MaxPos, MaxBlock} \subseteq Nat
  /\ MinPulseSamples <= MaxGap

VARIABLES
  fpdm,     \* fsk_pulse_detect_mode, "classic" or "minmax"
  ook,      \* ook_state
  length,   \* pulse_length
  maxPulse, \* max_pulse
  leadIn,   \* lead_in_counter
  pulses,   \* the package of OOK pulses: [offset, num, pulse, gap]
  fsk,      \* the package of FSK pulses and its detector
  eop,      \* eop_on_spurious, a local of the call: 1 or 0
  left,     \* samples of the block not yet taken: len - data_counter
  reread,   \* am of the sample at data_counter if it was read before, else "new"
  pos,      \* history: samples of the stream taken
  cut,      \* history: 1 if a block ended with eop set, in this package
  last      \* history: the package just returned, or None

detector == <<ook, length, maxPulse, leadIn, pulses, fsk>>
vars == <<fpdm, detector, eop, left, reread, pos, cut, last>>

Am == {"high", "mid", "low"}
Fm == {"up", "down", "none"}
Empty == [offset |-> 0, num |-> 0, pulse |-> Cleared, gap |-> Cleared]
None == [type |-> "none", flushed |-> 0, cut |-> 0, end |-> 0, ook |-> Empty, fsk |-> FskInit]

TypeOK ==
  /\ fpdm \in {"classic", "minmax"}
  /\ ook \in {"IDLE", "PULSE", "GAP_START", "GAP"}
  /\ length \in Nat /\ maxPulse \in Nat /\ leadIn \in 0 .. LowRatio + 1
  /\ pulses \in [offset : Nat, num : 0 .. MaxPulses, pulse : [Index -> Nat], gap : [Index -> Nat]]
  /\ ook # "IDLE" => pulses.num < MaxPulses
  /\ fsk \in FskState /\ (ook # "IDLE" => fsk.num < MaxPulses)
  /\ (fpdm = "classic" /\ fsk.state = "FH") => fsk.num > 0
  /\ eop \in {0, 1} /\ left \in 0 .. MaxBlock /\ reread \in Am \cup {"new"}
  /\ pos \in Nat /\ cut \in {0, 1} /\ last.type \in {"none", "OOK", "FSK"}

Init ==
  /\ fpdm \in {"classic", "minmax"}
  /\ ook = "IDLE" /\ length = 0 /\ maxPulse = 0 /\ leadIn = 0
  /\ pulses = Empty /\ fsk = FskInit
  /\ eop = 0 /\ left = 0 /\ reread = "new"
  /\ pos = 0 /\ cut = 0 /\ last = None

-----------------------------------------------------------------------------
(* How a call takes a sample and ends. *)

(* The sample is done with; e is eop_on_spurious, which a block's end forgets. *)
Taken(e) ==
  /\ left' = left - 1 /\ pos' = pos + 1 /\ reread' = "new"
  /\ eop' = IF left = 1 THEN 0 ELSE e
  /\ cut' = IF left = 1 /\ e = 1 THEN 1 ELSE IF ook = "IDLE" THEN 0 ELSE cut
  /\ last' = None

(* A package is returned: the sample is read again by the next call. *)
Returned(type, am, p, f) ==
  /\ ook' = "IDLE" /\ eop' = 0 /\ reread' = am
  /\ last' = [type |-> type, flushed |-> 0, cut |-> cut, end |-> pos, ook |-> p, fsk |-> f]
  /\ UNCHANGED <<left, pos, cut>>

Closed(p, gap) == [p EXCEPT !.gap[p.num] = gap, !.num = @ + 1]
Longest(n, m) == IF n > m THEN n ELSE m

(* Only the first pulse is looked at for FSK. *)
Feed(fm) ==
  fsk' = CASE pulses.num > 0 -> fsk
           [] pulses.num = 0 /\ fpdm = "classic" -> Classic(fsk, fm)
           [] OTHER -> MinMax(fsk, fm)
Wrapped == IF fpdm = "classic" THEN WrapUp(fsk) ELSE fsk

-----------------------------------------------------------------------------
(* One sample, by state. *)

IdleStart(am) ==
  /\ ook = "IDLE" /\ am = "high" /\ leadIn > LowRatio
  /\ pulses' = [Empty EXCEPT !.offset = pos] /\ fsk' = FskInit
  /\ length' = 0 /\ maxPulse' = 0 /\ ook' = "PULSE"
  /\ Taken(eop) /\ UNCHANGED leadIn

IdleWaits(am) ==
  /\ ook = "IDLE" /\ ~(am = "high" /\ leadIn > LowRatio)
  /\ leadIn' = IF leadIn <= LowRatio THEN leadIn + 1 ELSE leadIn
  /\ Taken(eop) /\ UNCHANGED <<ook, length, maxPulse, pulses, fsk>>

InPulse(am, fm) ==
  /\ ook = "PULSE" /\ am # "low" /\ length' = length + 1
  /\ Feed(fm) /\ Taken(eop) /\ UNCHANGED <<ook, maxPulse, leadIn, pulses>>

SpuriousSecond(am, fm) ==                                     \* a mutant
  /\ ook = "PULSE" /\ am = "low" /\ length + 1 < MinPulseSamples /\ length' = length + 1
  /\ ook' = IF pulses.num = 0 THEN "IDLE" ELSE "GAP"
  /\ Feed(fm) /\ Taken(IF pulses.num = 0 THEN eop ELSE 1)
  /\ UNCHANGED <<maxPulse, leadIn, pulses>>
PulseSpurious(am, fm) ==
  /\ ook = "PULSE" /\ am = "low" /\ length + 1 < MinPulseSamples /\ length' = length + 1
  /\ ook' = IF pulses.num <= 1 THEN "IDLE" ELSE "GAP"
  /\ Feed(fm) /\ Taken(IF pulses.num <= 1 THEN eop ELSE 1)
  /\ UNCHANGED <<maxPulse, leadIn, pulses>>

PulseEnds(am, fm) ==
  /\ ook = "PULSE" /\ am = "low" /\ length + 1 >= MinPulseSamples
  /\ pulses' = [pulses EXCEPT !.pulse[pulses.num] = length + 1]
  /\ maxPulse' = Longest(length + 1, maxPulse) /\ length' = 0 /\ ook' = "GAP_START"
  /\ Feed(fm) /\ Taken(eop) /\ UNCHANGED leadIn

GapNotRestored(am, fm) ==                                     \* a mutant
  /\ ook = "GAP_START" /\ am = "high"
  /\ length' = length + 1 /\ ook' = "PULSE"
  /\ Feed(fm) /\ Taken(eop) /\ UNCHANGED <<maxPulse, leadIn, pulses>>
GapWasSpurious(am, fm) ==
  /\ ook = "GAP_START" /\ am = "high"
  /\ length' = length + 1 + pulses.pulse[pulses.num] /\ ook' = "PULSE"
  /\ Feed(fm) /\ Taken(eop) /\ UNCHANGED <<maxPulse, leadIn, pulses>>

GapIsReal == length + 1 >= MinPulseSamples
FskFound == fsk.num > MinPulses

GapStart(am, fm) ==
  /\ ook = "GAP_START" /\ am # "high" /\ ~(GapIsReal /\ FskFound)
  /\ length' = length + 1 /\ ook' = IF GapIsReal THEN "GAP" ELSE "GAP_START"
  /\ Feed(fm) /\ Taken(eop) /\ UNCHANGED <<maxPulse, leadIn, pulses>>

ReturnFskKeeps(am) ==                                         \* a mutant
  /\ ook = "GAP_START" /\ am # "high" /\ GapIsReal /\ FskFound /\ reread' = am
  /\ UNCHANGED <<detector, eop, left, pos, cut, last>>
ReturnFsk(am) ==
  /\ ook = "GAP_START" /\ am # "high" /\ GapIsReal /\ FskFound
  /\ length' = length + 1 /\ fsk' = Wrapped
  /\ Returned("FSK", am, pulses, Wrapped) /\ UNCHANGED <<maxPulse, leadIn, pulses>>

(* The package ends with this gap: a spurious pulse came before it, or it is
   longer than the pulses, and than the minimum, or than the maximum. *)
EndOfPackage(n) ==
  eop = 1 \/ (n > MaxGapRatio * maxPulse /\ n > MinGap) \/ n > MaxGap

InGap(am) ==
  /\ ook = "GAP" /\ am # "high" /\ ~EndOfPackage(length + 1) /\ length' = length + 1
  /\ Taken(eop) /\ UNCHANGED <<ook, maxPulse, leadIn, pulses, fsk>>

NextPulse(am) ==
  /\ ook = "GAP" /\ am = "high" /\ pulses.num + 1 < MaxPulses /\ eop = 0
  /\ pulses' = Closed(pulses, length + 1) /\ length' = 0 /\ ook' = "PULSE"
  /\ Taken(eop) /\ UNCHANGED <<maxPulse, leadIn, fsk>>

(* The gap that ends the package; or a new pulse, for which there is no room,
   or which comes right after a spurious one: an empty pulse is then stored. *)
Ending(am) ==
  IF am # "high" \/ pulses.num + 1 = MaxPulses THEN Closed(pulses, length + 1)
  ELSE Closed(Closed(pulses, length + 1), 0)

ReturnOok(am) ==
  /\ ook = "GAP" /\ (IF am = "high" THEN pulses.num + 1 = MaxPulses \/ eop = 1
                     ELSE EndOfPackage(length + 1))
  /\ pulses' = Ending(am)
  /\ length' = IF am = "high" /\ pulses.num + 1 < MaxPulses THEN 0 ELSE length + 1
  /\ Returned("OOK", am, Ending(am), fsk) /\ UNCHANGED <<maxPulse, leadIn, fsk>>

SampleOf(am, fm) ==
  /\ left > 0 /\ reread \in {am, "new"}
  /\ \/ IdleStart(am) \/ IdleWaits(am)
     \/ InPulse(am, fm) \/ PulseSpurious(am, fm) \/ PulseEnds(am, fm)
     \/ GapWasSpurious(am, fm) \/ GapStart(am, fm) \/ ReturnFsk(am)
     \/ InGap(am) \/ NextPulse(am) \/ ReturnOok(am)
  /\ UNCHANGED fpdm

(* The next sample of the block, or the one the last call returned at. *)
Sample == \E am \in Am, fm \in Fm : SampleOf(am, fm)

-----------------------------------------------------------------------------
(* Between blocks. *)

(* push_sdr_flow with the next block. *)
BlockOf(n) ==
  /\ left = 0 /\ pos + n <= MaxPos /\ left' = n
  /\ last' = None /\ UNCHANGED <<fpdm, detector, eop, reread, pos, cut>>

Block == \E n \in 1 .. MaxBlock : BlockOf(n)

TooShort == ook = "PULSE" /\ length < MinPulseSamples

(* A flush (len = 0) with a spurious first pulse: nothing is returned. *)
FlushDrops ==
  /\ left = 0 /\ TooShort /\ pulses.num <= 1 /\ ook' = "IDLE"
  /\ last' = None /\ UNCHANGED <<fpdm, length, maxPulse, leadIn, pulses, fsk, eop, left, reread, pos, cut>>

(* A flush returns what there is of the package; a pulse under way is stored
   with no gap. *)
PulseStored == ook = "PULSE" /\ ~TooShort
FlushReturns ==
  LET p == IF PulseStored THEN [pulses EXCEPT !.pulse[pulses.num] = length] ELSE pulses
      isFsk == ook # "GAP" /\ FskFound
  IN /\ left = 0 /\ ook # "IDLE" /\ ~(TooShort /\ pulses.num <= 1) /\ ook' = "IDLE"
     /\ length' = IF PulseStored THEN 0 ELSE length
     /\ maxPulse' = IF PulseStored THEN Longest(length, maxPulse) ELSE maxPulse
     /\ fsk' = IF isFsk THEN Wrapped ELSE fsk
     /\ pulses' = IF isFsk THEN p ELSE Closed(p, length')
     /\ last' = [type |-> IF isFsk THEN "FSK" ELSE "OOK", flushed |-> 1, cut |-> cut,
                 end |-> pos - 1, ook |-> pulses', fsk |-> fsk']
     /\ UNCHANGED <<fpdm, leadIn, eop, left, reread, pos, cut>>

(* pulse_detect_reset: a restart of the input. *)
Reset ==
  /\ left = 0 /\ ook' = "IDLE" /\ length' = 0 /\ maxPulse' = 0 /\ leadIn' = 0
  /\ fsk' = [fsk EXCEPT !.state = "INIT", !.len = 0, !.skip = SkipSamples]
  /\ last' = None /\ UNCHANGED <<fpdm, pulses, eop, left, reread, pos, cut>>

Next == Block \/ Sample \/ FlushDrops \/ FlushReturns \/ Reset

(* push_sdr_flow calls the detector again until the block is used up. *)
Spec == Init /\ [][Next]_vars /\ WF_vars(Sample)

-----------------------------------------------------------------------------
(* Properties. *)

(* In a package under way every sample since its first is in a pulse, a gap
   or the count of the present one, whatever spurious pulses and gaps were
   joined and wherever blocks ended: no width is ever off by one. *)
EverySampleCounted ==
  ook # "IDLE" =>
    pos - 1 = pulses.offset + Width(pulses, pulses.num) + length
              + (IF ook = "PULSE" THEN 0 ELSE pulses.pulse[pulses.num])

(* The FSK detector has seen every sample of the first pulse and of the short
   gap after it, rewinding and shifting included, and the FSK package it
   becomes is as long as the OOK pulse it replaces.  (The last sample of that
   gap may bring the FSK pulse that is one too many for OOK, after the test:
   the package is then returned at the second OOK pulse, and ends before it.) *)
FskSamplesCounted ==
  /\ (ook \in {"PULSE", "GAP_START"} /\ pulses.num = 0) => Seen(fsk) = pos - 1 - pulses.offset
  /\ (last.type = "FSK" /\ last.flushed = 0 /\ last.ook.num = 0 /\ fpdm = "classic") =>
        last.fsk.lost + Width(last.fsk, last.fsk.num) = last.end - last.ook.offset

(* What a slicer gets: a package that covers its stretch of the stream, with
   no pulse that is too short, and no gap inside that should have ended it
   or is too short.  The last pulse may be empty, after a spurious one (and
   then the one before too); a package in which a block ended right at a
   spurious pulse is left out here. *)
PackageIsWhole ==
  (last.type = "OOK" /\ last.cut = 0) =>
    LET p == last.ook
        n == IF p.num > 1 /\ p.pulse[p.num - 1] = 0 /\ p.gap[p.num - 1] = 0 THEN p.num - 1 ELSE p.num
    IN /\ Width(p, p.num) = last.end - p.offset
       /\ \A k \in 0 .. n - 1 : p.pulse[k] >= MinPulseSamples \/ (k = n - 1 /\ k > 1 /\ p.pulse[k] = 0)
       /\ \A k \in 0 .. n - 2 : p.gap[k] \in MinPulseSamples .. MaxGap + 1

(* No FSK pulse or gap is too short to be real, however often the frequency
   wavers: only the empty first pulse of a package that starts low, and the
   last of a package. *)
FskWidthsAreReal ==
  (last.type = "FSK" /\ fpdm = "classic") =>
    \A k \in 0 .. last.fsk.num - 2 :
      /\ last.fsk.gap[k] >= MinPulseSamples
      /\ last.fsk.pulse[k] >= MinPulseSamples \/ (k = 0 /\ last.fsk.pulse[k] = 0)

(* A block is always used up: no sequence of returned packages keeps the
   loop of push_sdr_flow at one sample. *)
BlockIsTaken == left > 0 ~> left = 0
=============================================================================
