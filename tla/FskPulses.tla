------------------------------- MODULE FskPulses -------------------------------
(***************************************************************************)
(* The FSK detectors of src/idf/rtl433_core/src/pulse_detect_fsk.c: fed    *)
(* one frequency sample at a time, they collect pulses (the higher         *)
(* frequency, F1) and gaps (F2).                                           *)
(*                                                                         *)
(* A sample fm is "up" if it is closer to F1, "down" if it is closer to    *)
(* F2 and "none" if it changes nothing; how the two estimates follow the   *)
(* signal is left open.                                                    *)
(***************************************************************************)
EXTENDS Naturals

CONSTANTS
  MinPulseSamples, \* PD_MIN_PULSE_SAMPLES
  MaxPulses,       \* PD_MAX_PULSES
  SkipSamples      \* skip_samples of pulse_detect_fsk_init

ASSUME FskAssumption ==
  MinPulseSamples \in Nat \ {0} /\ MaxPulses \in Nat \ {0, 1} /\ SkipSamples \in Nat

Index == 0 .. MaxPulses - 1
Half == MaxPulses \div 2
Cleared == [k \in Index |-> 0]                               \* pulse_data_clear

(* pulse_detect_fsk_t and its pulse_data_t; lost is history: the samples in
   the pulses that were shifted out. *)
FskInit == [state |-> "INIT", len |-> 0, skip |-> SkipSamples, num |-> 0,
            pulse |-> Cleared, gap |-> Cleared, lost |-> 0]
FskState == [state : {"INIT", "FH", "FL"}, len : Nat, skip : 0 .. SkipSamples, num : 0 .. MaxPulses,
             pulse : [Index -> Nat], gap : [Index -> Nat], lost : Nat]

(* The samples in the first n pulses and gaps. *)
Width(p, n) ==
  LET w[k \in 0 .. n] == IF k = 0 THEN 0 ELSE w[k - 1] + p.pulse[k - 1] + p.gap[k - 1] IN w[n]

Shift(a) == [k \in Index |-> IF k + Half \in Index THEN a[k + Half] ELSE a[k]]
PulseDataShift(f) ==
  [f EXCEPT !.pulse = Shift(@), !.gap = Shift(@), !.num = @ - Half, !.lost = @ + Width(f, Half)]

StorePulse(f) == [f EXCEPT !.state = "FL", !.pulse[f.num] = f.len, !.len = 0]

(* A gap is over: store it, and make room if the package is full. *)
GapKept(f) == [f EXCEPT !.state = "FH", !.gap[f.num] = f.len, !.num = @ + 1, !.len = 0]
StoreGap(f) == IF f.num + 1 >= MaxPulses THEN PulseDataShift(GapKept(f)) ELSE GapKept(f)

(* Too short a pulse is joined to the gap before it, too short a gap to the
   pulse before it; without one the initial frequency is sought again. *)
RewindForgets(f) == [f EXCEPT !.num = @ - 1, !.state = "FL"]                \* a mutant
RewindToGap(f) ==
  [f EXCEPT !.len = @ + f.gap[f.num - 1], !.num = @ - 1,
            !.state = IF f.num = 1 /\ f.pulse[0] = 0 THEN "INIT" ELSE "FL"]
RewindNot(f) == GapKept(f)                                                  \* a mutant
RewindToPulse(f) ==
  [f EXCEPT !.len = @ + f.pulse[f.num], !.state = IF f.num = 0 THEN "INIT" ELSE "FH"]

Classic(s, fm) ==
  LET f == [s EXCEPT !.len = @ + 1]
      long == f.len >= MinPulseSamples
  IN CASE f.state = "INIT" /\ long /\ fm = "up"
            -> [f EXCEPT !.state = "FH", !.pulse[0] = 0, !.gap[0] = f.len, !.num = @ + 1, !.len = 0]
       [] f.state = "INIT" /\ long /\ fm = "down" -> StorePulse(f)
       [] f.state = "FH" /\ fm = "down" -> IF long THEN StorePulse(f) ELSE RewindToGap(f)
       [] f.state = "FL" /\ fm = "up"   -> IF long THEN StoreGap(f) ELSE RewindToPulse(f)
       [] OTHER -> f

MinMax(s, fm) ==
  LET f == [s EXCEPT !.len = @ + 1]
  IN CASE s.skip > 0 -> [s EXCEPT !.skip = @ - 1]
       [] s.skip = 0 /\ s.state = "INIT" -> [f EXCEPT !.state = IF fm = "up" THEN "FH" ELSE "FL"]
       [] s.skip = 0 /\ s.state = "FH" /\ fm = "down" -> StorePulse(f)
       [] s.skip = 0 /\ s.state = "FL" /\ fm = "up"   -> StoreGap(f)
       [] OTHER -> f

(* The last pulse or gap is stored when the package ends. *)
WrapUp(s) ==
  LET f == [s EXCEPT !.len = @ + 1]
  IN CASE s.num >= MaxPulses -> s
       [] s.num < MaxPulses /\ s.state = "FH"
            -> [f EXCEPT !.pulse[s.num] = f.len, !.gap[s.num] = 0, !.num = @ + 1]
       [] OTHER -> [f EXCEPT !.gap[s.num] = f.len, !.num = @ + 1]

(* The samples a detector has seen, wherever it has put them. *)
Seen(f) ==
  (SkipSamples - f.skip) + f.lost + Width(f, f.num) + (IF f.state = "FL" THEN f.pulse[f.num] ELSE 0) + f.len
=============================================================================
