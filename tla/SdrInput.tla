------------------------------- MODULE SdrInput -------------------------------
(***************************************************************************)
(* The life of the input device: the watchdog of the rtl_433 main task     *)
(* (timer_handler, start_sdr), the acquire thread it starts and joins      *)
(* (sdr_start, sdr_stop, esp_sdr_read_loop), the blocks that travel from   *)
(* the one to the other through mongoose's control socket, and a dongle    *)
(* that is unplugged, faults or stalls.                                    *)
(*                                                                         *)
(* The main task is one loop, mg_mgr_poll(): select, at most one block     *)
(* from the control socket, then the timers.  The device runs with         *)
(* "-D restart" (components/rtl_433/__init__.py), so a stalled input is    *)
(* stopped and opened again.                                               *)
(*                                                                         *)
(* Time is counted in watchdog intervals (1.5 s).  What a block holds does *)
(* not matter here, only whether its buffer is still allocated; retunes    *)
(* and labels are in TuneLabels.                                           *)
(***************************************************************************)
EXTENDS Naturals, Sequences

CONSTANTS
  StartTicks,   \* watchdog intervals the driver takes to start a stream
  BackoffMax,   \* longest wait after failed starts, in watchdog intervals
  QueueCap,     \* blocks the control socket holds before it drops
  Timely,       \* values of timely to look at
  MayExit,      \* may a decoder or a request call exit() on the main task?
  MaxFaults     \* bound: unplugs, stream faults, stalls and failed starts

ASSUME ConstantsAssumption ==
  /\ StartTicks \in Nat
  /\ BackoffMax \in Nat \ {0}
  /\ QueueCap \in Nat \ {0}
  /\ Timely \subseteq {0, 1} /\ MayExit \in BOOLEAN
  /\ MaxFaults \in Nat

VARIABLES
  plugged,      \* 1 while the dongle is on the bus
  stream,       \* driver: "on", "off", or "stalled" (on, but no samples come)
  raised,       \* events counted since the read loop looked: esp_errors, esp_disconnects
  dev,          \* cfg->dev: "none" or "open" (allocated)
  exitAcquire,  \* dev->exit_acquire
  running,      \* dev->running
  espStreaming, \* dev->esp_streaming
  rpc,          \* where the acquire thread is ("ended": there is none)
  startLeft,    \* intervals until the driver has started the stream
  failures,     \* esp_start_failures
  hold,         \* intervals until esp_start_not_before
  queue,        \* blocks on the control socket
  mpc,          \* where the main task is
  cur,          \* the block the main task works on
  watchdog,     \* cfg->watchdog # 0
  devState,     \* cfg->dev_state
  faults,       \* faults that happened
  timely        \* 1 if threads keep up with the watchdog (see Quiet); it never changes

drvVars   == <<plugged, stream, raised>>
devVars   == <<dev, exitAcquire, running, espStreaming>>
startVars == <<startLeft, failures, hold>>
mainVars  == <<mpc, cur, watchdog, devState>>
runVars   == <<faults, timely>>
vars == <<drvVars, devVars, rpc, startVars, queue, mainVars, runVars>>

(* A block is known by what became of the buffer it points into. *)
Blocks == {"valid", "freed"}

TypeOK ==
  /\ plugged \in {0, 1} /\ stream \in {"on", "off", "stalled"}
  /\ raised \subseteq {"error", "disconnect"}
  /\ dev \in {"none", "open"}
  /\ exitAcquire \in {0, 1} /\ running \in {0, 1} /\ espStreaming \in {0, 1}
  /\ rpc \in {"ended", "gate", "starting", "enter", "check", "go", "read", "send"}
  /\ startLeft \in 0 .. StartTicks /\ failures \in Nat /\ hold \in 0 .. BackoffMax
  /\ queue \in Seq(Blocks)
  /\ mpc \in {"select", "control", "decode", "timers", "join", "reopen", "exited"}
  /\ cur \in Blocks /\ watchdog \in {0, 1}
  /\ devState \in {"stopped", "starting", "grace", "started"}
  /\ faults \in Nat

(* main() called start_sdr(): a dongle was there, or not. *)
Init ==
  /\ plugged \in {0, 1} /\ stream = "off" /\ raised = {}
  /\ dev = IF plugged = 1 THEN "open" ELSE "none"
  /\ exitAcquire = 0 /\ running = 0 /\ espStreaming = 0
  /\ rpc = IF plugged = 1 THEN "gate" ELSE "ended"
  /\ startLeft = 0 /\ failures = 0 /\ hold = 0
  /\ queue = <<>> /\ mpc = "select" /\ cur = "valid" /\ watchdog = 0
  /\ devState = IF plugged = 1 THEN "starting" ELSE "stopped"
  /\ faults = 0 /\ timely \in Timely

-----------------------------------------------------------------------------
(* The dongle and its driver (external). *)

Fault == faults < MaxFaults /\ faults' = faults + 1 /\ UNCHANGED timely

Unplug ==
  /\ plugged = 1 /\ Fault
  /\ plugged' = 0 /\ stream' = "off" /\ raised' = raised \cup {"disconnect"}
  /\ UNCHANGED <<devVars, rpc, startVars, queue, mainVars>>

Plug ==
  /\ plugged = 0 /\ plugged' = 1
  /\ UNCHANGED <<stream, raised, devVars, rpc, startVars, queue, mainVars, runVars>>

(* The stream dies with an error event, or just stops delivering. *)
StreamBreaks ==
  /\ stream = "on" /\ Fault
  /\ \/ stream' = "off" /\ raised' = raised \cup {"error"}
     \/ stream' = "stalled" /\ UNCHANGED raised
  /\ UNCHANGED <<plugged, devVars, rpc, startVars, queue, mainVars>>

-----------------------------------------------------------------------------
(* The acquire thread. *)

(* Still backing off after failed starts: give up, the watchdog comes again. *)
Gate ==
  /\ rpc = "gate"
  /\ IF failures > 0 /\ hold > 0
       THEN rpc' = "ended" /\ UNCHANGED startLeft
       ELSE rpc' = "starting" /\ startLeft' = StartTicks
  /\ UNCHANGED <<drvVars, devVars, failures, hold, queue, mainVars, runVars>>

(* Without the main task there is no watchdog to count intervals: the start
   takes its time. *)
StartTakesTime ==
  /\ mpc = "exited" /\ rpc = "starting" /\ startLeft > 0
  /\ startLeft' = startLeft - 1
  /\ UNCHANGED <<drvVars, devVars, rpc, failures, hold, queue, mainVars, runVars>>

StartStream ==
  /\ rpc = "starting" /\ startLeft = 0 /\ plugged = 1
  /\ stream' = "on" /\ espStreaming' = 1 /\ failures' = 0
  /\ rpc' = "enter"
  /\ UNCHANGED <<plugged, raised, dev, exitAcquire, running, startLeft, hold,
                 queue, mainVars, runVars>>

(* 1000 ms << failures, which stops growing after five: here in intervals. *)
Doubled(f) == <<1, 2, 4, 8, 16, 32>>[IF f < 5 THEN f + 1 ELSE 6]

(* A backoff that is never capped (a mutant). *)
BackoffUncapped(f) == Doubled(f)

(* 1 s, 2 s, 4 s ... at most 30 s. *)
Backoff(f) == IF Doubled(f) > BackoffMax THEN BackoffMax ELSE Doubled(f)

StartFails ==
  /\ rpc = "starting" /\ startLeft = 0
  /\ \/ plugged = 0 /\ UNCHANGED runVars
     \/ plugged = 1 /\ Fault
  /\ failures' = failures + 1 /\ hold' = Backoff(failures)
  /\ espStreaming' = 0 /\ rpc' = "ended"
  /\ UNCHANGED <<drvVars, dev, exitAcquire, running, startLeft, queue, mainVars>>

(* seen_disconnects and seen_errors are read, dev->running is set. *)
EnterLoop ==
  /\ rpc = "enter"
  /\ raised' = {} /\ running' = 1 /\ rpc' = "check"
  /\ UNCHANGED <<plugged, stream, dev, exitAcquire, espStreaming, startVars, queue,
                 mainVars, runVars>>

(* Before every read, first exit_acquire (under the lock), and then whether
   dev->running still holds (not under it), an error event, or go on. *)
StopSeen ==
  /\ rpc = "check" /\ exitAcquire = 1
  /\ rpc' = "ended"
  /\ UNCHANGED <<drvVars, devVars, startVars, queue, mainVars, runVars>>

NoStopSeen ==
  /\ rpc = "check" /\ exitAcquire = 0
  /\ rpc' = "go"
  /\ UNCHANGED <<drvVars, devVars, startVars, queue, mainVars, runVars>>

(* What was read of the block so far is handed over, if anything was. *)
HandOver == rpc' \in {"send", "ended"}

(* The stop came between the two looks. *)
StopSeenLate ==
  /\ rpc = "go" /\ running = 0
  /\ HandOver
  /\ UNCHANGED <<drvVars, devVars, startVars, queue, mainVars, runVars>>

GiveUp ==
  /\ espStreaming' = 0 /\ running' = 0 /\ HandOver
  /\ UNCHANGED <<drvVars, dev, exitAcquire, startVars, queue, mainVars, runVars>>

ErrorSeen ==
  /\ rpc = "go" /\ running = 1 /\ "error" \in raised
  /\ GiveUp

GoRead ==
  /\ rpc = "go" /\ running = 1 /\ "error" \notin raised
  /\ rpc' = "read"
  /\ UNCHANGED <<drvVars, devVars, startVars, queue, mainVars, runVars>>

ReadBlock ==
  /\ rpc = "read" /\ stream = "on"
  /\ rpc' = "send"
  /\ UNCHANGED <<drvVars, devVars, startVars, queue, mainVars, runVars>>

(* 500 ms without samples, or NOT_STREAMING that may be a rate change. *)
ReadWaits ==
  /\ rpc = "read"
  /\ \/ stream = "stalled"
     \/ stream = "off" /\ espStreaming = 1 /\ "disconnect" \notin raised
  /\ rpc' = "check"
  /\ UNCHANGED <<drvVars, devVars, startVars, queue, mainVars, runVars>>

ReadFails ==
  /\ rpc = "read" /\ stream = "off"
  /\ GiveUp

(* A callback that waits until the main task has taken the block (a mutant:
   what mg_broadcast did before its reply was taken out). *)
SendAndWait ==
  /\ rpc = "send" /\ mpc = "select"
  /\ queue' = IF Len(queue) < QueueCap THEN Append(queue, "valid") ELSE queue
  /\ rpc' = IF running = 1 THEN "check" ELSE "ended"
  /\ UNCHANGED <<drvVars, devVars, startVars, mainVars, runVars>>

(* acquire_callback: mg_broadcast() sends the event and does not wait.  A
   full socket drops it. *)
Send ==
  /\ rpc = "send"
  /\ queue' = IF Len(queue) < QueueCap THEN Append(queue, "valid") ELSE queue
  /\ rpc' = IF running = 1 THEN "check" ELSE "ended"
  /\ UNCHANGED <<drvVars, devVars, startVars, mainVars, runVars>>

-----------------------------------------------------------------------------
(* The main task. *)

(* select() returns: the control socket is readable, or a timer may be due. *)
Select ==
  /\ mpc = "select"
  /\ mpc' = IF queue # <<>> THEN "control" ELSE "timers"
  /\ UNCHANGED <<drvVars, devVars, rpc, startVars, queue, cur, watchdog, devState,
                 runVars>>

TakeBlock ==
  /\ mpc = "control"
  /\ cur' = Head(queue) /\ queue' = Tail(queue) /\ mpc' = "decode"
  /\ UNCHANGED <<drvVars, devVars, rpc, startVars, watchdog, devState, runVars>>

(* sdr_handler() feeds the watchdog and decodes the block. *)
HandleBlock ==
  /\ mpc = "decode"
  /\ watchdog' = 1 /\ mpc' = "timers"
  /\ UNCHANGED <<drvVars, devVars, rpc, startVars, queue, cur, devState, runVars>>

NoTimerDue ==
  /\ mpc = "timers" /\ mpc' = "select"
  /\ UNCHANGED <<drvVars, devVars, rpc, startVars, queue, cur, watchdog, devState,
                 runVars>>

(* Nobody has anything to do before the next interval: every block is
   decoded, and the acquire thread is gone, inside a start that takes time,
   waiting for samples that do not come, or has delivered. *)
Quiet ==
  /\ queue = <<>>
  /\ \/ rpc = "ended"
     \/ rpc = "starting" /\ startLeft > 0
     \/ rpc \in {"check", "go", "read"} /\ (stream # "on" \/ watchdog = 1)

(* The watchdog timer fires: an interval is over. *)
Tick ==
  /\ mpc = "timers" /\ (timely = 1 => Quiet)
  /\ startLeft' = IF startLeft > 0 THEN startLeft - 1 ELSE 0
  /\ hold' = IF hold > 0 THEN hold - 1 ELSE 0
  /\ UNCHANGED <<drvVars, rpc, failures, queue, cur, runVars>>

(* A watchdog that is never reset (a mutant). *)
TickFedKeeps ==
  /\ Tick /\ watchdog = 1
  /\ devState' = IF devState \in {"starting", "grace"} THEN "started" ELSE devState
  /\ mpc' = "select" /\ UNCHANGED <<watchdog, devVars>>

(* A block came in the last interval. *)
TickFed ==
  /\ Tick /\ watchdog = 1
  /\ devState' = IF devState \in {"starting", "grace"} THEN "started" ELSE devState
  /\ watchdog' = 0 /\ mpc' = "select"
  /\ UNCHANGED devVars

(* A device that was just started gets one more interval. *)
TickGrace ==
  /\ Tick /\ watchdog = 0 /\ devState = "starting"
  /\ devState' = "grace" /\ mpc' = "select"
  /\ UNCHANGED <<watchdog, devVars>>

(* No grace for a device that is starting (a mutant). *)
StopAtOnce ==
  /\ Tick /\ watchdog = 0 /\ devState # "stopped"
  /\ exitAcquire' = 1 /\ running' = 0
  /\ mpc' = "join"
  /\ UNCHANGED <<dev, espStreaming, watchdog, devState>>

(* The start failed or the reads stalled: sdr_stop() asks the thread to end
   and waits for it. *)
TickStop ==
  /\ Tick /\ watchdog = 0 /\ devState \in {"grace", "started"}
  /\ exitAcquire' = 1 /\ running' = 0
  /\ mpc' = "join"
  /\ UNCHANGED <<dev, espStreaming, watchdog, devState>>

(* Stopped for want of a dongle: try again. *)
TickRetry ==
  /\ Tick /\ watchdog = 0 /\ devState = "stopped"
  /\ mpc' = "reopen"
  /\ UNCHANGED <<devVars, watchdog, devState>>

(* A stop that does not wait for the thread (a mutant). *)
NoJoin ==
  /\ mpc = "join"
  /\ devState' = "stopped" /\ mpc' = "reopen"
  /\ UNCHANGED <<drvVars, devVars, rpc, startVars, queue, cur, watchdog, runVars>>

Join ==
  /\ mpc = "join" /\ rpc = "ended"
  /\ devState' = "stopped" /\ mpc' = "reopen"
  /\ UNCHANGED <<drvVars, devVars, rpc, startVars, queue, cur, watchdog, runVars>>

(* sdr_close(): the driver stops, the device and its buffer are freed. *)
AllFreed == [i \in DOMAIN queue |-> "freed"]

(* A close that leaves the driver streaming (a mutant). *)
CloseOnly ==
  /\ mpc = "reopen" /\ mpc' = "select"
  /\ queue' = IF dev = "open" THEN AllFreed ELSE queue
  /\ espStreaming' = 0 /\ exitAcquire' = 0 /\ running' = 0
  /\ IF plugged = 1
       THEN dev' = "open" /\ rpc' = "gate" /\ devState' = "starting"
       ELSE dev' = "none" /\ UNCHANGED <<rpc, devState>>
  /\ UNCHANGED <<drvVars, startVars, cur, watchdog, runVars>>

(* start_sdr(): close what is open, then open and start what is plugged in. *)
Reopen ==
  /\ mpc = "reopen" /\ mpc' = "select"
  /\ stream' = IF dev = "open" THEN "off" ELSE stream
  /\ queue' = IF dev = "open" THEN AllFreed ELSE queue
  /\ espStreaming' = 0 /\ exitAcquire' = 0 /\ running' = 0
  /\ IF plugged = 1
       THEN dev' = "open" /\ rpc' = "gate" /\ devState' = "starting"
       ELSE dev' = "none" /\ UNCHANGED <<rpc, devState>>
  /\ UNCHANGED <<plugged, raised, startVars, cur, watchdog, runVars>>

(* An exit that only stops the driver (a mutant). *)
ExitForgetsThread ==
  /\ MayExit /\ mpc \in {"decode", "timers"}
  /\ mpc' = "exited"
  /\ IF dev = "open"
       THEN espStreaming' = 0 /\ stream' = "off"
       ELSE UNCHANGED <<espStreaming, stream>>
  /\ UNCHANGED <<plugged, raised, dev, exitAcquire, running, rpc, startVars,
                 queue, cur, watchdog, devState, runVars>>

(* exit() on the main task, from a decoder or a request handler: the exit
   hook (esp_exit_cleanup, sdr_abort) stops the driver and asks the thread to
   end, then the task is gone. *)
Exit ==
  /\ MayExit /\ mpc \in {"decode", "timers"}
  /\ mpc' = "exited"
  /\ IF dev = "open"
       THEN /\ exitAcquire' = 1 /\ running' = 0 /\ espStreaming' = 0
            /\ stream' = "off"
       ELSE UNCHANGED <<exitAcquire, running, espStreaming, stream>>
  /\ UNCHANGED <<plugged, raised, dev, rpc, startVars, queue, cur, watchdog,
                 devState, runVars>>

-----------------------------------------------------------------------------
Reader ==
  \/ Gate \/ StartTakesTime \/ StartStream \/ StartFails \/ EnterLoop
  \/ StopSeen \/ NoStopSeen \/ StopSeenLate \/ ErrorSeen \/ GoRead
  \/ ReadBlock \/ ReadFails \/ Send

Watchdog == TickFed \/ TickGrace \/ TickStop \/ TickRetry

Main ==
  \/ Select \/ TakeBlock \/ HandleBlock \/ NoTimerDue
  \/ Watchdog \/ Join \/ Reopen

Next ==
  \/ Unplug \/ Plug \/ StreamBreaks
  \/ Reader \/ ReadWaits
  \/ Main \/ Exit

Spec == Init /\ [][Next]_vars

(* Both tasks are scheduled, the watchdog timer keeps firing and the dongle
   is plugged in again in the end.  The reader's wait on a stream that is
   not there is bounded (ESP_SDR_NOT_STREAMING_MAX_MS). *)
Fairness ==
  /\ WF_vars(Reader) /\ SF_vars(ReadFails) /\ WF_vars(ReadWaits)
  /\ WF_vars(Main) /\ SF_vars(Watchdog)
  /\ WF_vars(Plug)

FairSpec == Spec /\ Fairness

-----------------------------------------------------------------------------
(* Properties. *)

(* The acquire thread never outlives the device it works on: sdr_close()
   frees it only after the join. *)
ReaderHasItsDevice == rpc # "ended" => dev = "open"

(* A thread starts the stream of a driver that is stopped, however starts,
   stops and unplugs interleaved before: sdr_close() stops the driver after
   the join, when no thread is left that could start it again. *)
StartsStopped == rpc \in {"gate", "starting"} => stream = "off"

(* An input that works is never stopped: neither a start the driver finishes
   within an interval, nor a stream that flows. *)
HealthyIsLeftAlone ==
  [][timely = 1 /\ mpc # "join" /\ mpc' = "join" =>
       /\ rpc # "starting"
       /\ rpc \in {"check", "go", "read"} => stream # "on"]_vars

(* sdr_stop() never blocks the event loop for good: the acquire thread never
   waits for the task that is joining it. *)
StopReturns == timely = 1 /\ mpc = "join" ~> mpc # "join"

(* Whatever the dongle did, blocks are decoded again in the end. *)
InputRecovers == timely = 1 => []<><<HandleBlock>>_vars \/ <>(mpc = "exited")

(* After exit() the acquire thread ends by itself, wherever it was: nothing
   joins it any more. *)
ExitEndsThread == mpc = "exited" ~> rpc = "ended"

(* "All previous sdr_event_t buffers will be invalid after calling
   sdr_close().  Make sure none are in use anymore." (include/sdr.h) *)
NoFreedBlock == mpc = "decode" => cur = "valid"
=============================================================================
