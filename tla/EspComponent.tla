------------------------------ MODULE EspComponent ------------------------------
(***************************************************************************)
(* The ESPHome component (src/components/rtl_433/rtl_433_component.cpp):   *)
(* it starts rtl_433's task when the network is up and the clock is set,   *)
(* or has not been for long enough, and at every update judges from        *)
(* counters it only samples then whether rtl_433 has ended, hangs, or      *)
(* takes no samples although the USB stream runs.                          *)
(*                                                                         *)
(* Counters of which only a change matters are modelled by whether they    *)
(* changed since the last update.  Time is counted in units between which  *)
(* a running main loop passes at least once (mg_mgr_poll's 500 ms).        *)
(***************************************************************************)
EXTENDS Naturals

CONSTANTS
  Stall,       \* STALL_MS
  Intervals,   \* the polling intervals update() may be configured with
  SyncTimeout, \* time_sync_timeout_ms_
  MaxOverruns  \* bound: overruns of the driver

ASSUME ComponentAssumption ==
  Intervals \subseteq Nat \ {0} /\ {Stall, SyncTimeout, MaxOverruns} \subseteq Nat

VARIABLES
  interval,       \* of the Intervals
  network, clock, \* 1: the network is up, the clock is set
  upFor,          \* time since network_up_ms_; SyncTimeout is as good as later
  seenUp,         \* network_up_ms_ is set
  started, failed,\* started_; mark_failed()
  main,           \* rtl_433's main task
  exited,         \* rtl433_port_exit_code >= 0
  looped,         \* rtl433_port_main_loops # 0
  loopsNew,       \* rtl433_port_main_loops # last_loops_
  framesNew,      \* rtl433_port_frames # last_frames_
  sinceLoops,     \* time since last_loops_ms_; Stall + 1 is as good as later
  sinceFrames,    \* time since last_frames_ms_
  stopped, stalled,
  error,          \* the component's error status
  stream,         \* the driver delivers samples: effective_sps > 0
  taking,         \* the demodulator takes them
  overruns, lastOverruns, overrunsTotal, \* the driver's counter, last_overruns_, overruns_total_
  sinceUpdate,    \* time since the last update
  loopAge,        \* history: time since the main loop last passed
  frameAge,       \* history: time the stream has run since without a frame taken
  interrupted,    \* history: 1 if the stream was away since a frame was last taken
  lost,           \* history: overruns there really were
  restarts        \* history: 1 if the stream has restarted

start == <<interval, network, clock, upFor, seenUp, started, failed>>
counters == <<looped, loopsNew, framesNew>>
judged == <<sinceLoops, sinceFrames, stopped, stalled, error>>
usb == <<overruns, lastOverruns, overrunsTotal, lost, restarts>>
streaming == <<stream, taking, frameAge, interrupted>>
ages == <<sinceUpdate, loopAge>>
vars == <<start, main, exited, counters, judged, streaming, usb, ages>>

TypeOK ==
  /\ {network, clock, seenUp, started, failed, exited} \subseteq {0, 1}
  /\ {looped, loopsNew, framesNew, stopped, stalled, error, stream, taking, interrupted, restarts} \subseteq {0, 1}
  /\ upFor \in 0 .. SyncTimeout /\ main \in {"none", "init", "loop", "hung", "ended"}
  /\ {sinceLoops, sinceFrames, loopAge, frameAge} \subseteq 0 .. Stall + 1
  /\ interval \in Intervals /\ sinceUpdate \in 0 .. interval
  /\ {overruns, lastOverruns, overrunsTotal, lost} \subseteq 0 .. MaxOverruns
  /\ main = "none" => looped = 0 /\ stream = 0

Init ==
  /\ interval \in Intervals
  /\ network = 0 /\ clock = 0 /\ upFor = 0 /\ seenUp = 0 /\ started = 0 /\ failed = 0
  /\ main = "none" /\ exited = 0 /\ looped = 0 /\ loopsNew = 0 /\ framesNew = 0
  /\ sinceLoops = 0 /\ sinceFrames = 0 /\ stopped = 0 /\ stalled = 0 /\ error = 0
  /\ stream = 0 /\ taking = 1 /\ interrupted = 1
  /\ overruns = 0 /\ lastOverruns = 0 /\ overrunsTotal = 0 /\ lost = 0 /\ restarts = 0
  /\ sinceUpdate = 0 /\ loopAge = 0 /\ frameAge = 0

Lesser(a, b) == IF a < b THEN a ELSE b

-----------------------------------------------------------------------------
(* What happens around the component. *)

(* The network comes and goes, the clock is set. *)
NetworkChanges == network' = 1 - network /\ UNCHANGED clock
ClockIsSet == clock = 0 /\ clock' = 1 /\ UNCHANGED network
Surroundings ==
  /\ NetworkChanges \/ ClockIsSet
  /\ UNCHANGED <<interval, upFor, seenUp, started, failed, main, exited, counters, judged, streaming, usb, ages>>

(* rtl_433's main task: set up, its loop, a hang and its end, main returning
   or an exit(). *)
MainLoops == main \in {"init", "hung"} /\ main' = "loop" /\ UNCHANGED exited
MainHangs == main \in {"init", "loop"} /\ main' = "hung" /\ UNCHANGED exited
MainEnds == main \in {"init", "loop"} /\ main' = "ended" /\ exited' = 1
Main ==
  /\ MainLoops \/ MainHangs \/ MainEnds
  /\ UNCHANGED <<start, counters, judged, streaming, usb, ages>>

(* The USB stream starts, with its counters at 0, and stops; the acquire
   thread or the demodulator stops taking its samples, and takes them again. *)
StreamStarts ==
  /\ stream = 0 /\ main \in {"init", "loop", "hung"} /\ stream' = 1
  /\ overruns' = 0 /\ restarts' = IF lost > 0 THEN 1 ELSE restarts
  /\ UNCHANGED <<taking, frameAge, interrupted, lastOverruns, overrunsTotal, lost>>
StreamStops ==
  /\ stream = 1 /\ stream' = 0 /\ frameAge' = 0 /\ interrupted' = 1
  /\ UNCHANGED <<taking, usb>>
TakingChanges ==
  /\ main = "loop" /\ taking' = 1 - taking
  /\ UNCHANGED <<stream, frameAge, interrupted, usb>>
Overrun ==
  /\ stream = 1 /\ lost < MaxOverruns /\ overruns' = overruns + 1 /\ lost' = lost + 1
  /\ UNCHANGED <<streaming, lastOverruns, overrunsTotal, restarts>>
Usb ==
  /\ StreamStarts \/ StreamStops \/ TakingChanges \/ Overrun
  /\ UNCHANGED <<start, main, exited, counters, judged, ages>>

(* Time passes; a main loop that runs passes (rtl433_port_main_tick), and
   frames are counted. *)
Passes == main = "loop"
Takes == Passes /\ stream = 1 /\ taking = 1
Tick ==
  /\ (failed = 1 \/ sinceUpdate < interval)
  /\ sinceUpdate' = Lesser(sinceUpdate + 1, interval)
  /\ upFor' = IF seenUp = 1 THEN Lesser(upFor + 1, SyncTimeout) ELSE upFor
  /\ looped' = IF Passes THEN 1 ELSE looped
  /\ loopsNew' = IF Passes THEN 1 ELSE loopsNew
  /\ framesNew' = IF Takes THEN 1 ELSE framesNew
  /\ loopAge' = IF Passes THEN 0 ELSE Lesser(loopAge + 1, Stall + 1)
  /\ frameAge' = IF Takes \/ stream = 0 THEN 0 ELSE Lesser(frameAge + 1, Stall + 1)
  /\ interrupted' = IF Takes THEN 0 ELSE interrupted
  /\ sinceLoops' = Lesser(sinceLoops + 1, Stall + 1)
  /\ sinceFrames' = Lesser(sinceFrames + 1, Stall + 1)
  /\ UNCHANGED <<interval, network, clock, seenUp, started, failed, main, exited, stopped, stalled, error,
                 stream, taking, usb>>

-----------------------------------------------------------------------------
(* The component.  ESPHome calls neither handler once it is marked failed. *)

(* loop(): wait for the network, then for the clock, but not forever. *)
WaitsForClock == clock = 1                                        \* a mutant
WaitedFor == clock = 1 \/ (seenUp = 1 /\ upFor >= SyncTimeout) \/ SyncTimeout = 0
NetworkSeen ==
  /\ started = 0 /\ network = 1 /\ failed = 0 /\ seenUp = 0 /\ ~WaitedFor /\ seenUp' = 1
  /\ UNCHANGED <<network, clock, upFor, started, failed, main, error>>
StartTask ==
  /\ started = 0 /\ network = 1 /\ failed = 0 /\ WaitedFor /\ seenUp' = 1 /\ started' = 1
  /\ \/ main' = "init" /\ UNCHANGED <<failed, error>>
     \/ main' = main /\ failed' = 1 /\ error' = 1          \* no memory for its stack
  /\ UNCHANGED <<network, clock, upFor>>
Loop ==
  /\ NetworkSeen \/ StartTask
  /\ UNCHANGED <<interval, exited, counters, sinceLoops, sinceFrames, stopped, stalled, streaming, usb, ages>>

(* The driver's counters are read while it has a device; a counter that is
   less than the last one has restarted. *)
DeltaAll == overruns                                              \* a mutant
Delta == IF overruns >= lastOverruns THEN overruns - lastOverruns ELSE overruns
ReadsUsb == stopped' = 0 /\ main # "none"
Count ==
  /\ overrunsTotal' = overrunsTotal + Delta /\ lastOverruns' = overruns
  /\ UNCHANGED <<overruns, lost, restarts>>

(* check_liveness_(): when the marks are moved, and what is judged by them. *)
MarkAnyhow == loopsNew = 1 \/ looped = 1 \/ looped = 0            \* a mutant
MarkLoops == loopsNew = 1 \/ looped = 0
MarkOnFrames == framesNew = 1                                     \* a mutant
MarkFrames == framesNew = 1 \/ stream = 0
LoopStalled == ~MarkLoops /\ sinceLoops > Stall
JudgedBefore == sinceFrames > Stall                               \* a mutant
FrameStalled == ~MarkFrames /\ sinceFrames > Stall
CheckLiveness ==
  /\ sinceLoops' = IF MarkLoops THEN 0 ELSE sinceLoops
  /\ sinceFrames' = IF MarkFrames THEN 0 ELSE sinceFrames
  /\ loopsNew' = IF MarkLoops THEN 0 ELSE loopsNew
  /\ framesNew' = IF MarkFrames THEN 0 ELSE framesNew
  /\ stalled' = IF LoopStalled \/ FrameStalled THEN 1 ELSE 0
  /\ error' = CASE stalled = 0 /\ stalled' = 1 -> 1
                [] stalled = 1 /\ stalled' = 0 -> 0
                [] OTHER -> error

JudgesAlways == failed = 0                                        \* a mutant
Judges == stopped' = 0
Update ==
  /\ failed = 0 /\ sinceUpdate = interval /\ sinceUpdate' = 0
  /\ stopped' = IF started = 1 /\ exited = 1 THEN 1 ELSE stopped
  /\ \/ ReadsUsb /\ Count
     \/ (stream = 0 \/ ~ReadsUsb) /\ UNCHANGED usb
  /\ IF Judges THEN CheckLiveness
     ELSE /\ error' = IF stopped = 0 THEN 1 ELSE error
          /\ UNCHANGED <<sinceLoops, sinceFrames, stalled, loopsNew, framesNew>>
  /\ UNCHANGED <<start, main, exited, looped, streaming, loopAge>>

Next == Surroundings \/ Main \/ Usb \/ Tick \/ Loop \/ Update

(* Time passes, and ESPHome's main loop calls the component's handlers. *)
Spec == Init /\ [][Next]_vars /\ WF_vars(Tick) /\ WF_vars(Loop) /\ WF_vars(Update)

-----------------------------------------------------------------------------
(* Properties. *)

(* "Either stopping for this long means it is hung": a receiver is accused only
   if its main loop has not passed, or its stream has run with nothing taken,
   for longer than STALL_MS, although both are looked at only at updates, which
   may be further apart than that, and never for want of a stream.  Left out is
   a stream that is back but was away since the last frame: an update that
   finds no frame since the one before counts the time it was away too. *)
IsBack == stream = 1 /\ interrupted = 1
AlarmIsTrue ==
  [][(stalled = 0 /\ stalled' = 1) => (loopAge > Stall \/ frameAge > Stall \/ IsBack)]_vars

(* A main loop that hangs once it has run, and a stream whose samples are no
   longer taken, are reported unless they recover first. *)
Hung == main = "hung" /\ looped = 1
Untaken == main = "loop" /\ stream = 1 /\ taking = 0
DeadIsReported == (Hung ~> (error = 1 \/ ~Hung)) /\ (Untaken ~> (error = 1 \/ ~Untaken))

(* A receiver that is fine again, with its stream on or off, stops reporting
   an error, unless rtl_433 has ended. *)
Fine(s) == main = "loop" /\ stream = s /\ taking = 1
RecoveryIsReported ==
  /\ <>[]Fine(1) => <>[](error = 0)
  /\ <>[]Fine(0) => <>[](error = 0)

(* "reboot to recover": that rtl_433 ended is reported in the end and from
   then on, whatever was reported before or is judged of its counters. *)
EndIsReported == exited = 1 ~> [](error = 1 /\ stopped = 1)

(* The sum of overruns is never more than there were, although the driver's
   counter starts again with every stream; it is exact but for those since
   the last update while no stream is restarted. *)
OverrunsAreReal ==
  /\ overrunsTotal <= lost
  /\ restarts = 0 => lost - overrunsTotal = overruns - lastOverruns

(* rtl_433 is held back for the clock, "but not forever": with the network up
   it is started, or marked failed. *)
StartsAnyway == <>[](network = 1) => <>(started = 1)
=============================================================================
