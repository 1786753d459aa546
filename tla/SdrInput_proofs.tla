---------------------------- MODULE SdrInput_proofs ----------------------------
(***************************************************************************)
(* The acquire thread, its device and the driver, for threads of any       *)
(* relative speed and every number of faults: no thread on a freed device, *)
(* no start of a running driver.                                           *)
(***************************************************************************)
EXTENDS SdrInput, TLAPS

(* The main task knows whether there is a thread: none if the device counts
   as stopped, none while it is reopened, and none without a device. *)
ThreadKnown ==
  /\ ReaderHasItsDevice
  /\ devState = "stopped" \/ mpc = "reopen" => rpc = "ended"

(* Only a thread that has started the driver leaves it running, and only on
   an open device. *)
DriverKnown == StartsStopped /\ (dev = "none" => stream = "off")

(* Nobody but the main task takes blocks from the control socket. *)
BlockWaits == mpc = "control" => queue # <<>>

IInv == TypeOK /\ ThreadKnown /\ DriverKnown /\ BlockWaits

-----------------------------------------------------------------------------
LEMMA BackoffBounded ==
  ASSUME NEW f \in Nat
  PROVE  Backoff(f) \in 0 .. BackoffMax
  <1>1. PICK i \in 1 .. 6 : i = IF f < 5 THEN f + 1 ELSE 6
    OBVIOUS
  <1>2. Doubled(f) \in Nat
    BY <1>1 DEF Doubled
  <1> QED
    BY <1>2, ConstantsAssumption DEF Backoff

LEMMA CountDown ==
  ASSUME NEW n \in Nat, NEW i \in 0 .. n
  PROVE  (IF i > 0 THEN i - 1 ELSE 0) \in 0 .. n
  OBVIOUS

LEMMA QueueGrows ==
  ASSUME NEW q \in Seq(Blocks)
  PROVE  Append(q, "valid") \in Seq(Blocks) /\ Append(q, "valid") # <<>>
  BY DEF Blocks

LEMMA QueueShrinks ==
  ASSUME NEW q \in Seq(Blocks), q # <<>>
  PROVE  Head(q) \in Blocks /\ Tail(q) \in Seq(Blocks)
  OBVIOUS

LEMMA FreedIsQueue ==
  ASSUME queue \in Seq(Blocks)
  PROVE  AllFreed \in Seq(Blocks)
  BY DEF AllFreed, Blocks

LEMMA InitHolds == Init => IInv
  BY ConstantsAssumption DEF Init, IInv, TypeOK, Blocks, ThreadKnown, ReaderHasItsDevice,
     DriverKnown, StartsStopped, BlockWaits

(* The dongle comes, goes and breaks; the main task and the thread stand. *)
LEMMA DongleKeeps ==
  ASSUME IInv, Unplug \/ Plug \/ StreamBreaks
  PROVE  IInv'
  <1>1. faults' \in Nat
    BY DEF IInv, TypeOK, Unplug, Plug, StreamBreaks, Fault, runVars
  <1>2. CASE Unplug
    BY <1>1, <1>2 DEF Unplug, IInv, TypeOK, ThreadKnown, ReaderHasItsDevice,
       DriverKnown, StartsStopped, BlockWaits, devVars, startVars, mainVars, runVars
  <1>3. CASE Plug
    BY <1>1, <1>3 DEF Plug, IInv, TypeOK, ThreadKnown, ReaderHasItsDevice,
       DriverKnown, StartsStopped, BlockWaits, devVars, startVars, mainVars, runVars
  <1>4. CASE StreamBreaks
    <2>1. dev = "open" /\ rpc \notin {"gate", "starting"}
      BY <1>4 DEF StreamBreaks, IInv, TypeOK, DriverKnown, StartsStopped
    <2>2. stream' \in {"on", "off", "stalled"} /\ raised' \subseteq {"error", "disconnect"}
      BY <1>4 DEF StreamBreaks, IInv, TypeOK
    <2>3. UNCHANGED <<plugged, dev, exitAcquire, running, espStreaming, rpc, startLeft,
                      failures, hold, queue, mpc, cur, watchdog, devState>>
      BY <1>4 DEF StreamBreaks, devVars, startVars, mainVars, runVars
    <2> QED
      BY <1>1, <2>1, <2>2, <2>3 DEF IInv, TypeOK, ThreadKnown, ReaderHasItsDevice,
         DriverKnown, StartsStopped, BlockWaits
  <1> QED
    BY <1>2, <1>3, <1>4

(* A thread that starts. *)
LEMMA StartKeeps ==
  ASSUME IInv, Gate \/ StartTakesTime \/ StartStream \/ StartFails \/ EnterLoop
  PROVE  IInv'
  <1> USE DEF IInv, TypeOK, ThreadKnown, ReaderHasItsDevice, DriverKnown, StartsStopped,
              BlockWaits, drvVars, devVars, startVars, mainVars, runVars
  <1>1. CASE Gate
    BY <1>1, ConstantsAssumption DEF Gate
  <1>2. CASE StartTakesTime
    <2>1. startLeft' \in 0 .. StartTicks
      BY <1>2, ConstantsAssumption DEF StartTakesTime
    <2> QED
      BY <1>2, <2>1 DEF StartTakesTime
  <1>3. CASE StartStream
    BY <1>3 DEF StartStream
  <1>4. CASE StartFails
    <2>1. faults' \in Nat
      BY <1>4 DEF StartFails, Fault
    <2>2. hold' \in 0 .. BackoffMax /\ failures' \in Nat
      BY <1>4, BackoffBounded DEF StartFails
    <2> QED
      BY <1>4, <2>1, <2>2 DEF StartFails
  <1>5. CASE EnterLoop
    BY <1>5 DEF EnterLoop
  <1> QED
    BY <1>1, <1>2, <1>3, <1>4, <1>5

(* A thread that reads. *)
LEMMA ReadKeeps ==
  ASSUME IInv,
         \/ StopSeen \/ NoStopSeen \/ StopSeenLate \/ ErrorSeen \/ GoRead
         \/ ReadBlock \/ ReadFails \/ ReadWaits \/ Send
  PROVE  IInv'
  <1> USE DEF IInv, TypeOK, ThreadKnown, ReaderHasItsDevice, DriverKnown, StartsStopped,
              BlockWaits, drvVars, devVars, startVars, mainVars, runVars
  <1>1. CASE StopSeen
    BY <1>1 DEF StopSeen
  <1>2. CASE NoStopSeen
    BY <1>2 DEF NoStopSeen
  <1>3. CASE StopSeenLate
    BY <1>3 DEF StopSeenLate, HandOver
  <1>4. CASE ErrorSeen
    BY <1>4 DEF ErrorSeen, GiveUp, HandOver
  <1>5. CASE GoRead
    BY <1>5 DEF GoRead
  <1>6. CASE ReadBlock
    BY <1>6 DEF ReadBlock
  <1>7. CASE ReadFails
    BY <1>7 DEF ReadFails, GiveUp, HandOver
  <1>8. CASE ReadWaits
    BY <1>8 DEF ReadWaits
  <1>9. CASE Send
    <2>1. queue' \in Seq(Blocks) /\ (queue # <<>> => queue' # <<>>)
      BY <1>9, QueueGrows DEF Send
    <2> QED
      BY <1>9, <2>1 DEF Send
  <1> QED
    BY <1>1, <1>2, <1>3, <1>4, <1>5, <1>6, <1>7, <1>8, <1>9

(* The main task takes a block, or an interval ends. *)
LEMMA LoopKeeps ==
  ASSUME IInv, Select \/ TakeBlock \/ HandleBlock \/ NoTimerDue \/ Watchdog
  PROVE  IInv'
  <1> USE DEF IInv, TypeOK, ThreadKnown, ReaderHasItsDevice, DriverKnown, StartsStopped,
              BlockWaits, drvVars, devVars, startVars, runVars
  <1>1. CASE Select
    BY <1>1 DEF Select
  <1>2. CASE TakeBlock
    BY <1>2, QueueShrinks DEF TakeBlock
  <1>3. CASE HandleBlock
    BY <1>3 DEF HandleBlock
  <1>4. CASE NoTimerDue
    BY <1>4 DEF NoTimerDue
  <1>5. ASSUME Tick PROVE startLeft' \in 0 .. StartTicks /\ hold' \in 0 .. BackoffMax
    BY <1>5, CountDown, ConstantsAssumption DEF Tick
  <1>6. CASE TickFed
    BY <1>5, <1>6 DEF TickFed, Tick
  <1>7. CASE TickGrace
    BY <1>5, <1>7 DEF TickGrace, Tick
  <1>8. CASE TickStop
    BY <1>5, <1>8 DEF TickStop, Tick
  <1>9. CASE TickRetry
    BY <1>5, <1>9 DEF TickRetry, Tick
  <1> QED
    BY <1>1, <1>2, <1>3, <1>4, <1>6, <1>7, <1>8, <1>9 DEF Watchdog

(* The device is stopped, reopened, or left behind. *)
LEMMA CloseKeeps ==
  ASSUME IInv, Join \/ Reopen \/ Exit
  PROVE  IInv'
  <1> USE DEF IInv, TypeOK, ThreadKnown, ReaderHasItsDevice, DriverKnown, StartsStopped,
              BlockWaits, drvVars, devVars, startVars, runVars
  <1>1. CASE Join
    BY <1>1 DEF Join
  <1>2. CASE Reopen
    <2>1. queue' \in Seq(Blocks)
      BY <1>2, FreedIsQueue DEF Reopen
    <2>2. rpc = "ended" /\ stream' = "off"
      BY <1>2 DEF Reopen
    <2>3. CASE plugged = 1
      BY <1>2, <2>1, <2>2, <2>3 DEF Reopen
    <2>4. CASE plugged = 0
      BY <1>2, <2>1, <2>2, <2>4 DEF Reopen
    <2> QED
      BY <2>3, <2>4
  <1>3. CASE Exit
    BY <1>3 DEF Exit
  <1> QED
    BY <1>1, <1>2, <1>3

LEMMA Invariant == Spec => []IInv
  <1>1. IInv /\ [Next]_vars => IInv'
    <2> SUFFICES ASSUME IInv, [Next]_vars PROVE IInv'
      OBVIOUS
    <2>1. CASE UNCHANGED vars
      BY <2>1 DEF vars, drvVars, devVars, startVars, mainVars, runVars, IInv, TypeOK, ThreadKnown,
         ReaderHasItsDevice, DriverKnown, StartsStopped, BlockWaits
    <2>2. CASE Next
      BY <2>2, DongleKeeps, StartKeeps, ReadKeeps, LoopKeeps, CloseKeeps
         DEF Next, Reader, Main
    <2> QED
      BY <2>1, <2>2
  <1> QED
    BY InitHolds, <1>1, PTL DEF Spec

(* The input's state stays in its type: intervals, backoff and the control
   socket keep to their bounds. *)
THEOREM TypeCorrect == Spec => []TypeOK
  BY Invariant, PTL DEF IInv

(* sdr_close() never frees a device whose acquire thread still runs, whatever
   the speed of the threads and the number of faults. *)
THEOREM NoThreadOnFreedDevice == Spec => []ReaderHasItsDevice
  BY Invariant, PTL DEF IInv, ThreadKnown

(* A thread always starts a stopped driver. *)
THEOREM DriverIsStoppedFirst == Spec => []StartsStopped
  BY Invariant, PTL DEF IInv, DriverKnown

-----------------------------------------------------------------------------
(* The driver starts a stream within an interval of the watchdog. *)
StartsInTime == StartTicks <= 1

(* Until an interval has passed since the thread was started, the device
   counts as starting: threads that keep up leave no interval out. *)
StartIsKnown ==
  timely = 1 /\ (rpc = "gate" \/ (rpc = "starting" /\ startLeft > 0)) => devState = "starting"

LEMMA StartKnownStep ==
  ASSUME StartsInTime, IInv, StartIsKnown, [Next]_vars
  PROVE  StartIsKnown'
  <1> USE DEF StartIsKnown, drvVars, devVars, startVars, mainVars, runVars
  <1>1. startLeft \in 0 .. 1
    BY ConstantsAssumption DEF StartsInTime, IInv, TypeOK
  <1>2. CASE UNCHANGED vars
    BY <1>2 DEF vars
  <1>3. CASE Unplug \/ Plug \/ StreamBreaks
    BY <1>3 DEF Unplug, Plug, StreamBreaks, Fault
  <1>4. CASE Gate \/ StartTakesTime \/ StartStream \/ StartFails \/ EnterLoop
    <2>1. CASE Gate
      BY <2>1 DEF Gate
    <2>2. CASE StartTakesTime
      BY <2>2 DEF StartTakesTime
    <2>3. CASE StartStream \/ StartFails \/ EnterLoop
      BY <2>3 DEF StartStream, StartFails, EnterLoop
    <2> QED
      BY <1>4, <2>1, <2>2, <2>3
  <1>5. CASE \/ StopSeen \/ NoStopSeen \/ StopSeenLate \/ ErrorSeen \/ GoRead
             \/ ReadBlock \/ ReadFails \/ ReadWaits \/ Send
    BY <1>5 DEF StopSeen, NoStopSeen, StopSeenLate, ErrorSeen, GoRead, ReadBlock, ReadFails,
       ReadWaits, Send, GiveUp, HandOver
  <1>6. CASE Select \/ TakeBlock \/ HandleBlock \/ NoTimerDue
    BY <1>6 DEF Select, TakeBlock, HandleBlock, NoTimerDue
  <1>7. CASE Watchdog
    <2>1. Tick
      BY <1>7 DEF Watchdog, TickFed, TickGrace, TickStop, TickRetry
    <2>2. startLeft' = 0 /\ rpc' = rpc /\ timely' = timely
      BY <1>1, <2>1 DEF Tick
    <2>3. timely = 1 => rpc # "gate"
      BY <2>1 DEF Tick, Quiet
    <2> QED
      BY <2>2, <2>3
  <1>8. CASE Join \/ Reopen \/ Exit
    BY <1>8 DEF Join, Reopen, Exit, IInv, ThreadKnown
  <1> QED
    BY <1>2, <1>3, <1>4, <1>5, <1>6, <1>7, <1>8 DEF Next, Reader, Main

(* Only the watchdog joins the thread, and with threads that keep up not one
   that starts or reads from a stream that flows. *)
LEMMA HealthyStep ==
  ASSUME IInv, StartIsKnown, [Next]_vars, timely = 1, mpc # "join", mpc' = "join"
  PROVE  /\ rpc # "starting"
         /\ rpc \in {"check", "go", "read"} => stream # "on"
  <1>1. CASE TickStop
    <2>1. Quiet /\ watchdog = 0 /\ devState # "starting"
      BY <1>1 DEF TickStop, Tick
    <2> QED
      BY <2>1 DEF Quiet, StartIsKnown
  <1>2. CASE ~TickStop
    <2> USE DEF vars, drvVars, devVars, startVars, mainVars, runVars
    <2>1. UNCHANGED mpc \/ mpc' # "join"
      <3>1. CASE Unplug \/ Plug \/ StreamBreaks \/ UNCHANGED vars
        BY <3>1 DEF Unplug, Plug, StreamBreaks
      <3>2. CASE Reader \/ ReadWaits
        BY <3>2 DEF Reader, Gate, StartTakesTime, StartStream, StartFails, EnterLoop, StopSeen,
           NoStopSeen, StopSeenLate, ErrorSeen, GoRead, ReadBlock, ReadFails, ReadWaits, Send, GiveUp
      <3>3. CASE Main \/ Exit
        BY <1>2, <3>3 DEF Main, Exit, Select, TakeBlock, HandleBlock, NoTimerDue, Watchdog, TickFed,
           TickGrace, TickRetry, Join, Reopen
      <3> QED
        BY <3>1, <3>2, <3>3 DEF Next
    <2> QED
      BY <2>1
  <1> QED
    BY <1>1, <1>2

(* The watchdog stops no input that works, whatever came before: with threads
   that keep up and a driver that starts within an interval, neither a start
   under way nor a stream that flows is ever cut off. *)
THEOREM WatchdogSparesHealthy == StartsInTime => (Spec => HealthyIsLeftAlone)
  <1> SUFFICES ASSUME StartsInTime PROVE Spec => HealthyIsLeftAlone
    OBVIOUS
  <1>1. Init => StartIsKnown
    BY DEF Init, StartIsKnown
  <1>2. IInv /\ StartIsKnown /\ [Next]_vars => StartIsKnown'
    BY StartKnownStep
  <1>3. IInv /\ StartIsKnown /\ [Next]_vars =>
          [timely = 1 /\ mpc # "join" /\ mpc' = "join" =>
             /\ rpc # "starting"
             /\ rpc \in {"check", "go", "read"} => stream # "on"]_vars
    BY HealthyStep
  <1> QED
    BY <1>1, <1>2, <1>3, Invariant, PTL DEF Spec, HealthyIsLeftAlone
=============================================================================
