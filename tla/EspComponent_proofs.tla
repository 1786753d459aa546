--------------------------- MODULE EspComponent_proofs ---------------------------
(***************************************************************************)
(* The component's alarm and its sum of overruns, for every polling        *)
(* interval, STALL_MS and number of overruns.                              *)
(***************************************************************************)
EXTENDS EspComponent, TLAPS

(* Bit-valued variables one by one: TypeOK states them together. *)
Bits ==
  /\ network \in {0, 1} /\ clock \in {0, 1} /\ seenUp \in {0, 1} /\ started \in {0, 1}
  /\ failed \in {0, 1} /\ exited \in {0, 1} /\ looped \in {0, 1} /\ loopsNew \in {0, 1}
  /\ framesNew \in {0, 1} /\ stopped \in {0, 1} /\ stalled \in {0, 1} /\ error \in {0, 1}
  /\ stream \in {0, 1} /\ taking \in {0, 1} /\ interrupted \in {0, 1} /\ restarts \in {0, 1}

Times ==
  /\ upFor \in 0 .. SyncTimeout
  /\ sinceLoops \in 0 .. Stall + 1 /\ sinceFrames \in 0 .. Stall + 1
  /\ loopAge \in 0 .. Stall + 1 /\ frameAge \in 0 .. Stall + 1
  /\ interval \in Intervals /\ sinceUpdate \in 0 .. interval

Task ==
  /\ main \in {"none", "init", "loop", "hung", "ended"}
  /\ main = "none" => looped = 0 /\ stream = 0

(* What is still to be added to the sum is part of what was lost. *)
Sum ==
  /\ overruns \in Nat /\ lastOverruns \in Nat /\ overrunsTotal \in Nat
  /\ lost \in 0 .. MaxOverruns
  /\ overruns <= lost /\ lastOverruns <= lost
  /\ overrunsTotal + Delta <= lost
  /\ restarts = 0 => lost - overrunsTotal = overruns - lastOverruns

(* Nothing changed since the last update, or since the mark was moved: what
   the component counts from the mark is no longer than it really was, for
   frames while the stream was never away. *)
Marks ==
  /\ loopsNew = 0 => sinceLoops <= loopAge
  /\ framesNew = 0 /\ interrupted = 0 => sinceFrames <= frameAge
  /\ stream = 0 => interrupted = 1

IInv == Bits /\ Times /\ Task /\ Sum /\ Marks

-----------------------------------------------------------------------------
LEMMA LesserBounded ==
  ASSUME NEW n \in Nat, NEW i \in 0 .. n
  PROVE  Lesser(i + 1, n) \in 0 .. n
  BY DEF Lesser

LEMMA AgesKeepOrder ==
  ASSUME NEW n \in Nat, NEW i \in 0 .. n, NEW j \in 0 .. n, i <= j
  PROVE  Lesser(i + 1, n) <= Lesser(j + 1, n)
  BY DEF Lesser

LEMMA InvImpliesType == IInv => TypeOK
  <1> SUFFICES ASSUME IInv PROVE TypeOK
    OBVIOUS
  <1>1. overrunsTotal \in 0 .. MaxOverruns /\ overruns \in 0 .. MaxOverruns
          /\ lastOverruns \in 0 .. MaxOverruns
    <2>1. Delta \in Nat
      BY DEF IInv, Sum, Delta
    <2> QED
      BY <2>1, ComponentAssumption DEF IInv, Sum
  <1> QED
    BY <1>1 DEF IInv, Bits, Times, Task, Sum, TypeOK

LEMMA InvImpliesSum == IInv => OverrunsAreReal
  <1>1. IInv => Delta \in Nat
    BY DEF IInv, Sum, Delta
  <1> QED
    BY <1>1, ComponentAssumption DEF IInv, Sum, OverrunsAreReal

LEMMA InitHolds == Init => IInv
  BY ComponentAssumption DEF Init, IInv, Bits, Times, Task, Sum, Marks, Delta

LEMMA SurroundingsKeep == ASSUME IInv, Surroundings PROVE IInv'
  BY DEF IInv, Bits, Times, Task, Sum, Marks, Delta, Surroundings, NetworkChanges, ClockIsSet,
     counters, judged, streaming, usb, ages

LEMMA MainKeeps == ASSUME IInv, Main PROVE IInv'
  BY DEF IInv, Bits, Times, Task, Sum, Marks, Delta, Main, MainLoops, MainHangs, MainEnds,
     start, counters, judged, streaming, usb, ages

(* The driver's counter goes on, or back to 0 with a new stream. *)
LEMMA UsbKeepsSum == ASSUME IInv, Usb PROVE Sum'
  <1>1. CASE StreamStarts
    BY <1>1, ComponentAssumption DEF IInv, Bits, Sum, Delta, StreamStarts
  <1>2. CASE Overrun
    BY <1>2, ComponentAssumption DEF IInv, Sum, Delta, Overrun
  <1>3. CASE StreamStops \/ TakingChanges
    BY <1>3 DEF IInv, Sum, Delta, StreamStops, TakingChanges, usb
  <1> QED
    BY <1>1, <1>2, <1>3 DEF Usb

LEMMA UsbKeeps == ASSUME IInv, Usb PROVE IInv'
  <1>1. Bits'
    BY DEF IInv, Bits, Usb, StreamStarts, StreamStops, TakingChanges, Overrun, start, counters,
       judged, streaming, usb
  <1>2. Times'
    <2>1. frameAge' \in {frameAge, 0} /\ 0 \in 0 .. Stall + 1
      BY ComponentAssumption
         DEF Usb, StreamStarts, StreamStops, TakingChanges, Overrun, streaming
    <2> QED
      BY <2>1 DEF IInv, Times, Usb, start, judged, ages
  <1>3. Task' /\ Marks'
    <2> USE DEF IInv, Task, Marks, Usb, start, counters, judged, streaming, ages
    <2>1. CASE StreamStarts
      BY <2>1 DEF StreamStarts
    <2>2. CASE StreamStops
      BY <2>2 DEF StreamStops
    <2>3. CASE TakingChanges \/ Overrun
      BY <2>3 DEF TakingChanges, Overrun
    <2> QED
      BY <2>1, <2>2, <2>3
  <1> QED
    BY <1>1, <1>2, <1>3, UsbKeepsSum DEF IInv

LEMMA TickKeeps == ASSUME IInv, Tick PROVE IInv'
  <1>1. Bits' /\ Task'
    BY DEF IInv, Bits, Task, Tick, usb, Passes, Takes
  <1>2. Times'
    <2>1. interval \in Nat /\ Stall + 1 \in Nat /\ SyncTimeout \in Nat
      BY ComponentAssumption DEF IInv, Times
    <2>2. /\ Lesser(sinceUpdate + 1, interval) \in 0 .. interval
          /\ Lesser(upFor + 1, SyncTimeout) \in 0 .. SyncTimeout
          /\ Lesser(loopAge + 1, Stall + 1) \in 0 .. Stall + 1
          /\ Lesser(frameAge + 1, Stall + 1) \in 0 .. Stall + 1
          /\ Lesser(sinceLoops + 1, Stall + 1) \in 0 .. Stall + 1
          /\ Lesser(sinceFrames + 1, Stall + 1) \in 0 .. Stall + 1
      BY <2>1, LesserBounded DEF IInv, Times
    <2>3. 0 \in 0 .. Stall + 1
      BY <2>1
    <2> QED
      BY <2>2, <2>3 DEF IInv, Times, Tick
  <1>3. Sum'
    BY DEF IInv, Sum, Delta, Tick, usb
  <1>4. Marks'
    <2>1. Stall + 1 \in Nat
      BY ComponentAssumption
    <2>2. loopsNew = 0 => Lesser(sinceLoops + 1, Stall + 1) <= Lesser(loopAge + 1, Stall + 1)
      BY <2>1, AgesKeepOrder DEF IInv, Times, Marks
    <2>3. framesNew = 0 /\ interrupted = 0 =>
            Lesser(sinceFrames + 1, Stall + 1) <= Lesser(frameAge + 1, Stall + 1)
      BY <2>1, AgesKeepOrder DEF IInv, Times, Marks
    <2> QED
      BY <2>2, <2>3 DEF IInv, Bits, Marks, Tick, Takes
  <1> QED
    BY <1>1, <1>2, <1>3, <1>4 DEF IInv

LEMMA LoopKeeps == ASSUME IInv, Loop PROVE IInv'
  BY DEF IInv, Bits, Times, Task, Sum, Marks, Delta, Loop, NetworkSeen, StartTask, counters,
     streaming, usb, ages

(* An update takes the driver's counter into the sum, or leaves both. *)
LEMMA UpdateKeepsSum == ASSUME IInv, Update PROVE Sum'
  <1>1. CASE Count
    <2>1. Delta \in Nat
      BY DEF IInv, Sum, Delta
    <2>2. Delta' = 0
      BY <1>1 DEF IInv, Sum, Delta, Count
    <2> QED
      BY <1>1, <2>1, <2>2 DEF IInv, Bits, Sum, Delta, Count
  <1>2. CASE UNCHANGED usb
    BY <1>2 DEF IInv, Sum, Delta, usb
  <1> QED
    BY <1>1, <1>2 DEF Update, Count

LEMMA UpdateKeeps == ASSUME IInv, Update PROVE IInv'
  <1>1. sinceUpdate' = 0 /\ UNCHANGED <<start, main, looped, streaming, exited, loopAge>>
    BY DEF Update
  <1>2. 0 \in 0 .. Stall + 1 /\ 0 \in 0 .. interval
    BY ComponentAssumption DEF IInv, Times
  <1>3. restarts' \in {0, 1} /\ stopped' \in {0, 1}
    BY DEF IInv, Bits, Update, Count, usb
  <1>4. CASE CheckLiveness
    BY <1>1, <1>2, <1>3, <1>4, UpdateKeepsSum
       DEF IInv, Bits, Times, Task, Marks, CheckLiveness, start, streaming
  <1>5. CASE error' \in {0, 1} /\ UNCHANGED <<sinceLoops, sinceFrames, stalled, loopsNew, framesNew>>
    BY <1>1, <1>2, <1>3, <1>5, UpdateKeepsSum DEF IInv, Bits, Times, Task, Marks, start, streaming
  <1> QED
    BY <1>4, <1>5 DEF Update, IInv, Bits

LEMMA StepKeeps == ASSUME IInv, [Next]_vars PROVE IInv'
  <1>1. CASE UNCHANGED vars
    BY <1>1 DEF vars, start, counters, judged, streaming, usb, ages, IInv, Bits, Times, Task, Sum, Marks, Delta
  <1> QED
    BY <1>1, SurroundingsKeep, MainKeeps, UsbKeeps, TickKeeps, LoopKeeps, UpdateKeeps DEF Next

LEMMA Invariance == Spec => []IInv
  BY InitHolds, StepKeeps, PTL DEF Spec

-----------------------------------------------------------------------------
(* Every field of the component, the task it watches and the counters it
   reads stays in its type, for every interval and timeout. *)
THEOREM TypeCorrect == Spec => []TypeOK
  BY Invariance, InvImpliesType, PTL

(* update() never adds an overrun twice, however often the driver starts its
   counter again between two updates. *)
THEOREM SumIsReal == Spec => []OverrunsAreReal
  BY Invariance, InvImpliesSum, PTL

(* An update that raises the alarm does so because the main loop has stood
   still, or the stream has run untaken, for more than STALL_MS, or because the
   stream is back. *)
LEMMA RaisedIsTrue ==
  ASSUME IInv, [Next]_vars, stalled = 0, stalled' = 1
  PROVE  loopAge > Stall \/ frameAge > Stall \/ IsBack
  <1>1. Update /\ CheckLiveness
    BY DEF Next, vars, judged, Surroundings, Main, Usb, Tick, Loop, Update
  <1>2. CASE LoopStalled
    BY <1>2, ComponentAssumption DEF LoopStalled, MarkLoops, IInv, Bits, Times, Marks
  <1>3. CASE FrameStalled
    BY <1>3, ComponentAssumption DEF IsBack, FrameStalled, MarkFrames, IInv, Bits, Times, Marks
  <1> QED
    BY <1>1, <1>2, <1>3 DEF CheckLiveness

(* check_liveness_() accuses no receiver that is well, with no stream, or with
   one that was not away since a frame was last taken, for every interval
   between its updates. *)
THEOREM NoFalseAlarm == Spec => AlarmIsTrue
  BY Invariance, RaisedIsTrue, PTL DEF Spec, AlarmIsTrue
=============================================================================
