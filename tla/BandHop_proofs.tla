----------------------------- MODULE BandHop_proofs -----------------------------
(***************************************************************************)
(* The band the device, its rate, the decoders and the half-seen signal    *)
(* agree on, for every number of bands, rates, queued blocks and faults.   *)
(***************************************************************************)
EXTENDS BandHop, TLAPS

(* What is half seen was captured as the demodulator is set up for. *)
TailOfDemod == tail \subseteq {demod}

(* Only the hop timer ends a band, and not before the blocks that were under
   way at the last hop have been taken. *)
Timed == ~HopOnEvent /\ HopBlocks > QueueCap

(* Where the main task is in a band's time. *)
BandTime ==
  /\ Len(queue) <= QueueCap
  /\ up = 1 => dev = 1
  /\ pc = "hop" => Hopping /\ heard = HopBlocks
  /\ pc = "tune" => Hopping /\ heard = 0

DecodersOfBand == Hopping => applied # Manual /\ (pc # "tune" => applied = index)

(* Of the blocks to come, only as many as there may be in the queue are of an
   older tuning; once as many were taken, cfg has the device's. *)
Fresh ==
  /\ \A i \in 1 .. Len(queue) : i + heard > QueueCap => queue[i] = tuned
  /\ heard > QueueCap => cfg = tuned

DeviceOfBand ==
  (up = 1 /\ Hopping /\ cut = 0) =>
    /\ pc # "tune" => tuned.freq = Frequency(index)
    /\ hopRates > 1 /\ refused = 0 => tuned.rate = RateOf(index)
    /\ hopRates > 1 => Fresh

IInv == TypeOK /\ BandTime /\ DecodersOfBand /\ DeviceOfBand

-----------------------------------------------------------------------------
(* The constants, and what is made of them. *)

LEMMA RateOfIn == ASSUME NEW i \in Nat PROVE RateOf(i) \in Rates
  <1>1. Len(HopRates) \in Nat \ {0, 1} /\ DOMAIN HopRates = 1 .. Len(HopRates)
    <2>1. HopRates \in Seq(Nat) /\ Len(HopRates) \in Nat \ {0, 1}
      BY ConstantsAssumption
    <2> QED
      BY <2>1
  <1>2. CASE Len(HopRates) > i
    <2>1. i + 1 \in DOMAIN HopRates
      BY <1>1, <1>2
    <2> QED
      BY <2>1, <1>2 DEF RateOf, Rates
  <1>3. CASE ~(Len(HopRates) > i)
    <2>1. Len(HopRates) \in DOMAIN HopRates
      BY <1>1
    <2> QED
      BY <2>1, <1>3 DEF RateOf, Rates
  <1> QED
    BY <1>2, <1>3

LEMMA FrequencyIn == ASSUME TypeOK PROVE Frequency(index) \in Freqs
  BY ConstantsAssumption DEF TypeOK, Frequency, Freqs

LEMMA NextIndex ==
  ASSUME NEW n \in Nat \ {0}, NEW i \in 0 .. n - 1
  PROVE  (i + 1) % n \in 0 .. n - 1
  OBVIOUS

LEMMA NextBandIn == ASSUME TypeOK PROVE (index + 1) % frequencies \in 0 .. frequencies - 1
  <1>1. frequencies \in Nat \ {0} /\ index \in 0 .. frequencies - 1
    BY ConstantsAssumption DEF TypeOK
  <1> QED
    BY <1>1, NextIndex

LEMMA NewFreq ==
  ASSUME NEW t \in Tunings, NEW f \in Freqs
  PROVE  /\ [t EXCEPT !.freq = f] \in Tunings
         /\ [t EXCEPT !.freq = f].freq = f /\ [t EXCEPT !.freq = f].rate = t.rate
  BY DEF Tunings

LEMMA NewRate ==
  ASSUME NEW t \in Tunings, NEW r \in Rates
  PROVE  /\ [t EXCEPT !.rate = r] \in Tunings
         /\ [t EXCEPT !.rate = r].rate = r /\ [t EXCEPT !.rate = r].freq = t.freq
  BY DEF Tunings

LEMMA Enqueued ==
  ASSUME NEW q \in Seq(Tunings), NEW t \in Tunings
  PROVE  /\ Append(q, t) \in Seq(Tunings) /\ Len(Append(q, t)) = Len(q) + 1
         /\ \A i \in 1 .. Len(q) : Append(q, t)[i] = q[i]
         /\ Append(q, t)[Len(q) + 1] = t /\ Len(q) \in Nat
  OBVIOUS

LEMMA Dequeued ==
  ASSUME NEW q \in Seq(Tunings), q # <<>>
  PROVE  /\ Head(q) \in Tunings /\ Head(q) = q[1] /\ Tail(q) \in Seq(Tunings)
         /\ Len(q) \in Nat \ {0} /\ Len(Tail(q)) = Len(q) - 1
         /\ \A i \in 1 .. Len(q) - 1 : Tail(q)[i] = q[i + 1]
  OBVIOUS

-----------------------------------------------------------------------------
(* Types and the half-seen signal, with -E hop or without. *)

LEMMA InitTyped == Init => TypeOK /\ TailOfDemod
  <1> SUFFICES ASSUME Init PROVE TypeOK /\ TailOfDemod
    OBVIOUS
  <1>1. HopRates[1] \in Rates /\ 0 \in Freqs
    BY ConstantsAssumption DEF Rates, Freqs
  <1>2. cfg \in Tunings
    BY <1>1 DEF Init, Tunings
  <1> QED
    BY <1>2, ConstantsAssumption DEF Init, TypeOK, TailOfDemod, Bands, Freqs

LEMMA StreamTyped == ASSUME TypeOK, Deliver \/ Dies \/ Plug PROVE TypeOK'
  <1>1. CASE Deliver
    <2>1. queue' \in Seq(Tunings)
      BY <1>1, Enqueued DEF TypeOK, Deliver
    <2> QED
      BY <1>1, <2>1 DEF TypeOK, Deliver, cfgVars, flowVars, devVars
  <1>2. CASE Dies
    <2>1. faults' \in 0 .. MaxFaults
      BY <1>2, ConstantsAssumption DEF TypeOK, Dies, Fault
    <2> QED
      BY <1>2, <2>1 DEF TypeOK, Dies, cfgVars, flowVars
  <1>3. CASE Plug
    BY <1>3 DEF TypeOK, Plug, cfgVars, flowVars
  <1> QED
    BY <1>1, <1>2, <1>3

LEMMA BlockTyped == ASSUME TypeOK, TailOfDemod, HandleBlock PROVE TypeOK' /\ TailOfDemod'
  <1> DEFINE label == Head(queue)
             kept == IF demod # label THEN {} ELSE tail
             h == IF heard < HopBlocks THEN heard + 1 ELSE heard
  <1>1. label \in Tunings /\ Tail(queue) \in Seq(Tunings)
    BY Dequeued DEF TypeOK, HandleBlock
  <1>2. h \in 0 .. HopBlocks
    BY ConstantsAssumption DEF TypeOK
  <1>3. kept \subseteq {label}
    BY DEF TailOfDemod
  <1>4. /\ cfg' = label /\ demod' = label /\ heard' = h
        /\ tail' \in {{}, kept \cup {label}} /\ queue' = Tail(queue)
        /\ pc' \in {"poll", "hop"}
    BY DEF HandleBlock, HopOrPoll
  <1> HIDE DEF label, kept, h
  <1>5. tail' \subseteq {label}
    BY <1>3, <1>4
  <1> QED
    BY <1>1, <1>2, <1>4, <1>5 DEF HandleBlock, TypeOK, TailOfDemod, devVars

LEMMA HopTyped == ASSUME TypeOK, Hop PROVE TypeOK'
  <1>1. index' \in 0 .. frequencies - 1 /\ index' \in Nat
    BY NextBandIn, ConstantsAssumption DEF Hop, TypeOK
  <1>2. RateOf(index') \in Rates
    BY <1>1, RateOfIn
  <1>3. tuned' \in Tunings
    BY <1>2, NewRate DEF Hop, TypeOK
  <1>4. faults' \in 0 .. MaxFaults
    BY ConstantsAssumption DEF Hop, Fault, TypeOK
  <1>5. refused' \in {0, 1} /\ cut' \in {0, 1} /\ heard' \in 0 .. HopBlocks /\ pc' = "tune"
    BY ConstantsAssumption DEF Hop, TypeOK
  <1> QED
    BY <1>1, <1>3, <1>4, <1>5 DEF Hop, TypeOK, flowVars

LEMMA TuneTyped == ASSUME TypeOK, Tune PROVE TypeOK'
  <1>1. tuned' \in Tunings
    BY NewFreq, FrequencyIn DEF Tune, SetFreq, TypeOK, devVars
  <1>2. /\ faults' \in 0 .. MaxFaults
        /\ plugged' \in {0, 1} /\ dev' \in {0, 1} /\ up' \in {0, 1}
    BY ConstantsAssumption DEF Tune, SetFreq, Fault, TypeOK, devVars
  <1>3. applied' \in Bands \cup {Manual}
    BY ConstantsAssumption DEF Tune, ApplyBand, TypeOK, Bands
  <1> QED
    BY <1>1, <1>2, <1>3 DEF Tune, TypeOK

LEMMA ByHandTyped ==
  ASSUME TypeOK, (\E f \in Freqs : SetCenterFreq(f)) \/ (\E r \in Rates : SetSampleRate(r))
  PROVE  TypeOK'
  <1>1. ASSUME NEW f \in Freqs, SetCenterFreq(f) PROVE TypeOK'
    <2>1. tuned' \in Tunings
      BY <1>1, NewFreq DEF SetCenterFreq, TypeOK
    <2>2. faults' \in 0 .. MaxFaults /\ up' \in {0, 1}
      BY <1>1, ConstantsAssumption DEF SetCenterFreq, TypeOK
    <2> QED
      BY <1>1, <2>1, <2>2, ConstantsAssumption DEF SetCenterFreq, TypeOK, flowVars
  <1>2. ASSUME NEW r \in Rates, SetSampleRate(r) PROVE TypeOK'
    <2>1. tuned' \in Tunings
      BY <1>2, NewRate DEF SetSampleRate, TypeOK
    <2> QED
      BY <1>2, <2>1, ConstantsAssumption DEF SetSampleRate, Fault, TypeOK, flowVars
  <1> QED
    BY <1>1, <1>2

LEMMA RestartTyped == ASSUME TypeOK, Restart PROVE TypeOK'
  <1>1. index \in Nat
    BY DEF TypeOK
  <1>2. cfg' \in Tunings /\ tuned' \in Tunings
    BY <1>1, NewRate, RateOfIn DEF Restart, TypeOK
  <1>3. tail' \subseteq Tunings /\ cut' \in {0, 1} /\ dev' \in {0, 1} /\ up' \in {0, 1}
    BY DEF Restart, TypeOK
  <1> QED
    BY <1>2, <1>3 DEF Restart, TypeOK

LEMMA StepTyped == ASSUME TypeOK, TailOfDemod, [Next]_vars PROVE TypeOK' /\ TailOfDemod'
  <1>1. CASE UNCHANGED vars
    BY <1>1 DEF vars, cfgVars, flowVars, devVars, TypeOK, TailOfDemod
  <1>2. CASE Deliver \/ Dies \/ Plug
    BY <1>2, StreamTyped DEF TailOfDemod, Deliver, Dies, Plug, flowVars
  <1>3. CASE Hop \/ Tune
    BY <1>3, HopTyped, TuneTyped DEF TailOfDemod, Hop, Tune, flowVars
  <1>4. CASE (\E f \in Freqs : SetCenterFreq(f)) \/ (\E r \in Rates : SetSampleRate(r))
    BY <1>4, ByHandTyped DEF TailOfDemod, SetCenterFreq, SetSampleRate, flowVars
  <1>5. CASE Restart
    <2>1. tail' \subseteq tail /\ demod' = demod
      BY <1>5 DEF Restart
    <2> QED
      BY <1>5, <2>1, RestartTyped DEF TailOfDemod
  <1> QED
    BY <1>1, <1>2, <1>3, <1>4, <1>5, BlockTyped DEF Next, Main

LEMMA Typed == Spec => [](TypeOK /\ TailOfDemod)
  BY InitTyped, StepTyped, PTL DEF Spec

(* The main task's idea of its bands, the device's tuning and the blocks on
   their way stay in their types; the index never leaves the list. *)
THEOREM TypeCorrect == Spec => []TypeOK
  BY Typed, PTL

(* No signal is put together from blocks of two bands or rates, whatever
   blocks of the old band are taken after a hop. *)
THEOREM NoSignalAcrossBands == Spec => []SignalOfOneBand
  <1>1. TailOfDemod => SignalOfOneBand
    BY DEF TailOfDemod, SignalOfOneBand
  <1> QED
    BY <1>1, Typed, PTL

-----------------------------------------------------------------------------
(* The band as a whole, if bands are Timed. *)

LEMMA InitHolds == ASSUME Init PROVE IInv
  <1>1. RateOf(0) = HopRates[1]
    BY ConstantsAssumption DEF RateOf
  <1>2. Frequency(0) = 0
    BY DEF Init, Frequency
  <1>3. cfg.rate = HopRates[1] /\ cfg.freq = 0
    BY DEF Init
  <1>4. DeviceOfBand
    BY <1>1, <1>2, <1>3, ConstantsAssumption DEF Init, DeviceOfBand, Fresh
  <1>5. BandTime /\ DecodersOfBand
    BY ConstantsAssumption DEF Init, BandTime, DecodersOfBand, Manual
  <1> QED
    BY <1>4, <1>5, InitTyped DEF IInv

LEMMA DeliverKeeps == ASSUME IInv, Deliver PROVE BandTime' /\ DecodersOfBand' /\ DeviceOfBand'
  <1>1. /\ queue' = Append(queue, tuned) /\ Len(queue) < QueueCap
        /\ UNCHANGED <<frequencies, freq0, index, hopRates, cfg, applied, pc, heard, dev, up, tuned,
                       refused, cut>>
    BY DEF Deliver, cfgVars, devVars
  <1>2. /\ Len(queue') = Len(queue) + 1 /\ Len(queue) \in Nat
        /\ \A i \in 1 .. Len(queue) : queue'[i] = queue[i]
        /\ queue'[Len(queue) + 1] = tuned
    BY <1>1, Enqueued DEF IInv, TypeOK
  <1>3. BandTime' /\ DecodersOfBand'
    BY <1>1, <1>2, ConstantsAssumption DEF IInv, BandTime, DecodersOfBand, Hopping
  <1>4. Fresh => Fresh'
    BY <1>1, <1>2 DEF Fresh
  <1> QED
    BY <1>1, <1>3, <1>4 DEF IInv, DeviceOfBand, Hopping, Frequency

LEMMA BlockKeeps == ASSUME Timed, IInv, HandleBlock PROVE BandTime' /\ DecodersOfBand' /\ DeviceOfBand'
  <1> DEFINE h == IF heard < HopBlocks THEN heard + 1 ELSE heard
  <1>1. /\ pc = "poll" /\ queue # <<>> /\ queue' = Tail(queue) /\ cfg' = Head(queue) /\ heard' = h
        /\ pc' \in HopOrPoll(h)
        /\ UNCHANGED <<frequencies, freq0, index, hopRates, applied, dev, up, tuned, refused, cut>>
    BY DEF HandleBlock, devVars
  <1>2. /\ Head(queue) = queue[1] /\ Len(queue) \in Nat \ {0} /\ Len(queue') = Len(queue) - 1
        /\ \A i \in 1 .. Len(queue) - 1 : queue'[i] = queue[i + 1]
    BY <1>1, Dequeued DEF IInv, TypeOK
  <1>3. heard \in 0 .. HopBlocks /\ HopBlocks > QueueCap /\ HopBlocks \in Nat /\ QueueCap \in Nat
    BY ConstantsAssumption DEF IInv, TypeOK, Timed
  <1>4. h \in 0 .. HopBlocks /\ (h = heard + 1 \/ (heard = HopBlocks /\ h = HopBlocks))
    BY <1>3
  <1>5. pc' = "poll" \/ (pc' = "hop" /\ frequencies > 1 /\ h = HopBlocks)
    BY <1>1 DEF HopOrPoll, Timed
  <1> HIDE DEF h
  <1>6. BandTime' /\ DecodersOfBand'
    BY <1>1, <1>2, <1>3, <1>5 DEF IInv, BandTime, DecodersOfBand, Hopping
  <1>7. ASSUME Fresh PROVE Fresh'
    <2>1. heard' > QueueCap => cfg' = tuned'
      BY <1>1, <1>2, <1>3, <1>4, <1>7 DEF Fresh
    <2>2. ASSUME NEW i \in 1 .. Len(queue'), i + heard' > QueueCap PROVE queue'[i] = tuned'
      <3>1. i + 1 \in 1 .. Len(queue) /\ i \in 1 .. Len(queue) - 1
        BY <1>2
      <3>2. (i + 1) + heard > QueueCap
        BY <1>1, <1>3, <1>4, <2>2, <3>1
      <3> QED
        BY <1>1, <1>2, <1>7, <3>1, <3>2 DEF Fresh
    <2> QED
      BY <2>1, <2>2 DEF Fresh
  <1> QED
    BY <1>1, <1>5, <1>6, <1>7 DEF IInv, DeviceOfBand, Hopping, Frequency

(* At the end of a band's time the last block had the device's rate, so that
   comparing the next rate with that block's is as good. *)
LEMMA HopKeeps == ASSUME Timed, IInv, Hop PROVE BandTime' /\ DecodersOfBand' /\ DeviceOfBand'
  <1>1. /\ pc = "hop" /\ pc' = "tune" /\ heard' = 0 /\ index' = (index + 1) % frequencies
        /\ cut' = IF cfg = tuned THEN 0 ELSE cut
        /\ UNCHANGED <<frequencies, freq0, hopRates, cfg, applied, dev, up, queue>>
    BY DEF Hop
  <1>2. BandTime' /\ DecodersOfBand'
    BY <1>1 DEF IInv, BandTime, DecodersOfBand, Hopping
  <1>3. index' \in Nat /\ tuned \in Tunings /\ heard \in Nat /\ Len(queue) \in Nat /\ QueueCap \in Nat
    BY <1>1, NextBandIn, ConstantsAssumption DEF IInv, TypeOK
  <1>4. Fresh'
    BY <1>1, <1>3 DEF IInv, BandTime, Fresh
  <1>5. ASSUME up = 1, Hopping, cut' = 0, hopRates > 1, refused' = 0
        PROVE  tuned'.rate = RateOf(index')
    <2>1. cfg = tuned
      BY <1>1, <1>5, ConstantsAssumption DEF IInv, BandTime, DeviceOfBand, Fresh, Timed
    <2>2. CASE tuned' = [tuned EXCEPT !.rate = RateOf(index')]
      BY <1>3, <2>2, NewRate, RateOfIn
    <2>3. CASE RateOf(index') = cfg.rate /\ tuned' = tuned
      BY <2>1, <2>3
    <2> QED
      BY <1>5, <2>2, <2>3 DEF Hop
  <1> QED
    BY <1>1, <1>2, <1>4, <1>5 DEF DeviceOfBand, Hopping

LEMMA TuneKeeps == ASSUME IInv, Tune PROVE BandTime' /\ DecodersOfBand' /\ DeviceOfBand'
  <1>1. /\ pc = "tune" /\ pc' = "poll"
        /\ UNCHANGED <<frequencies, freq0, index, hopRates, cfg, heard, queue, refused, cut>>
        /\ applied' = IF applied = Manual THEN Manual ELSE index
        /\ SetFreq(Frequency(index))
    BY DEF Tune, ApplyBand
  <1>2. BandTime'
    BY <1>1 DEF IInv, BandTime, SetFreq, devVars, Hopping
  <1>3. DecodersOfBand'
    <2>1. index \in Nat
      BY DEF IInv, TypeOK
    <2> QED
      BY <1>1, <2>1 DEF IInv, DecodersOfBand, Hopping, Manual
  <1>4. CASE tuned' = [tuned EXCEPT !.freq = Frequency(index)] /\ UNCHANGED <<plugged, dev, up, faults>>
    <2>1. tuned'.freq = Frequency(index) /\ tuned'.rate = tuned.rate
      BY <1>4, NewFreq, FrequencyIn DEF IInv, TypeOK
    <2>2. Fresh'
      <3>1. heard = 0 /\ Len(queue) <= QueueCap /\ Len(queue) \in Nat /\ QueueCap \in Nat
        BY <1>1, ConstantsAssumption DEF IInv, TypeOK, BandTime
      <3> QED
        BY <1>1, <3>1 DEF Fresh
    <2> QED
      BY <1>1, <1>2, <1>3, <1>4, <2>1, <2>2 DEF IInv, DeviceOfBand, Hopping, Frequency
  <1>5. CASE up' = 0 \/ (dev = 0 /\ UNCHANGED devVars)
    BY <1>2, <1>3, <1>5 DEF IInv, BandTime, DeviceOfBand, devVars
  <1> QED
    BY <1>1, <1>4, <1>5 DEF SetFreq

LEMMA ByHandKeeps ==
  ASSUME IInv, (\E f \in Freqs : SetCenterFreq(f)) \/ (\E r \in Rates : SetSampleRate(r))
  PROVE  BandTime' /\ DecodersOfBand' /\ DeviceOfBand'
  <1>1. ASSUME NEW f \in Freqs, SetCenterFreq(f)
        PROVE  BandTime' /\ DecodersOfBand' /\ DeviceOfBand'
    BY <1>1 DEF IInv, BandTime, DecodersOfBand, DeviceOfBand, SetCenterFreq, Hopping
  <1>2. ASSUME NEW r \in Rates, SetSampleRate(r)
        PROVE  BandTime' /\ DecodersOfBand' /\ DeviceOfBand'
    <2>1. tuned'.freq = tuned.freq
      BY <1>2, NewRate DEF IInv, TypeOK, SetSampleRate
    <2> QED
      BY <1>2, <2>1 DEF IInv, BandTime, DecodersOfBand, DeviceOfBand, SetSampleRate, Hopping, Frequency
  <1> QED
    BY <1>1, <1>2

(* A restart that does not cut the band short finds no block under way, and
   cfg on the band. *)
LEMMA RestartKeeps == ASSUME IInv, Restart PROVE BandTime' /\ DecodersOfBand' /\ DeviceOfBand'
  <1>1. /\ pc = "poll" /\ dev' = plugged /\ up' = plugged
        /\ UNCHANGED <<frequencies, freq0, index, hopRates, applied, pc, heard, queue, refused>>
    BY DEF Restart
  <1>2. BandTime' /\ DecodersOfBand'
    BY <1>1 DEF IInv, BandTime, DecodersOfBand, Hopping
  <1>3. CASE plugged = 1 /\ cut' = 0
    <2>1. cfg.freq = Frequency(index) /\ queue = <<>> /\ tuned' = cfg'
      BY <1>3 DEF Restart
    <2>2. cfg'.freq = cfg.freq /\ (hopRates > 1 => cfg'.rate = RateOf(index))
      <3>1. RateOf(index) \in Rates /\ cfg \in Tunings
        BY RateOfIn DEF IInv, TypeOK
      <3>2. cfg' = IF hopRates > 1 THEN [cfg EXCEPT !.rate = RateOf(index)] ELSE cfg
        BY <1>3 DEF Restart
      <3> QED
        BY <3>1, <3>2, NewRate
    <2>3. Fresh'
      BY <1>1, <2>1 DEF Fresh
    <2> QED
      BY <1>1, <1>2, <2>1, <2>2, <2>3 DEF DeviceOfBand, Frequency
  <1>4. CASE plugged # 1 \/ cut' # 0
    BY <1>1, <1>2, <1>4 DEF DeviceOfBand
  <1> QED
    BY <1>3, <1>4

LEMMA StepKeeps ==
  ASSUME Timed, IInv, TypeOK', [Next]_vars
  PROVE  IInv'
  <1>1. CASE UNCHANGED vars
    BY <1>1 DEF vars, cfgVars, flowVars, devVars, IInv, TypeOK, BandTime, DecodersOfBand,
       DeviceOfBand, Fresh, Hopping, Frequency
  <1>2. CASE Dies
    BY <1>2 DEF Dies, cfgVars, IInv, BandTime, DecodersOfBand, DeviceOfBand, Hopping
  <1>3. CASE Plug
    BY <1>3 DEF Plug, cfgVars, IInv, BandTime, DecodersOfBand, DeviceOfBand, Fresh, Hopping, Frequency
  <1> QED
    BY <1>1, <1>2, <1>3, DeliverKeeps, BlockKeeps, HopKeeps, TuneKeeps, ByHandKeeps, RestartKeeps
       DEF Next, Main, IInv

LEMMA InvIsWhole == IInv => BandIsWhole
  BY DEF IInv, DecodersOfBand, DeviceOfBand, BandIsWhole, Hopping

(* Between two handlers the device's frequency and rate and the registered
   decoders are those of one band, whatever deaths, refused rates, failed
   retunes and late blocks came before, as long as a band lasts longer than
   the blocks that can be under way. *)
THEOREM BandStaysWhole == Timed => (Spec => []BandIsWhole)
  <1> SUFFICES ASSUME Timed PROVE Spec => []BandIsWhole
    OBVIOUS
  <1>1. Init => IInv
    BY InitHolds
  <1>2. IInv /\ TypeOK' /\ [Next]_vars => IInv'
    BY StepKeeps
  <1> QED
    BY <1>1, <1>2, TypeCorrect, InvIsWhole, PTL DEF Spec
=============================================================================
