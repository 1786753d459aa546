-------------------------------- MODULE RtlTcp --------------------------------
(***************************************************************************)
(* The rtl_tcp server (src/idf/rtl433_core/src/output_rtltcp.c): a thread  *)
(* serves one client at a time with the frames the main task broadcasts,   *)
(* and obeys its commands, on its own thread, while the main task hops     *)
(* over the bands.                                                         *)
(*                                                                         *)
(* The main task's blocks, hops and restarts are those of BandHop, here    *)
(* with each load and store the two threads may race on a step of its own. *)
(* Of the commands SET_FREQ is modelled.                                   *)
(***************************************************************************)
EXTENDS Integers, Sequences

CONSTANTS
  NBands,      \* configured frequencies, more than one
  Asks,        \* frequencies a client asks for
  Width,       \* data_cnt and prev_cnt wrap here: 2^32
  Ahead,       \* what prev_cnt begins ahead of data_cnt: 9
  Control,     \* 1 if clients may change settings (control, not read-only)
  MaxCommands, \* bound: commands of all clients
  MaxFaults    \* bound: deaths of the stream

ASSUME ConstantsAssumption ==
  /\ NBands \in Nat \ {0, 1} /\ Width \in Nat \ {0} /\ Ahead \in 1 .. Width - 1
  /\ Asks \subseteq Nat \ (0 .. NBands - 1)
  /\ Control \in {0, 1} /\ {MaxCommands, MaxFaults} \subseteq Nat

VARIABLES
  spc,         \* where the server thread is
  client,      \* "none", "open", "full" (takes no more data), "gone"
  backlog,     \* 1 while another client waits to be accepted
  inbox,       \* commands the client has sent
  arg,         \* the command being obeyed
  lead,        \* prev_cnt - data_cnt, modulo Width
  buf,         \* 1 once srv->data_buf is set
  frequencies, freq0, index, \* cfg, as in BandHop
  applied,     \* applied_band: a band, or Manual
  pending,     \* manual_tune_pending
  tuned,       \* the device's frequency
  mpc,         \* where the main task is
  next,        \* what it has read: an index, then a frequency
  up,          \* 1 while the stream runs
  asked,       \* history: the last frequency asked for, or None
  raced,       \* history: 1 if a hop met that request, it was refused or the input restarted
  commands, faults \* how many there were

connVars == <<client, backlog, inbox, commands>>
dataVars == <<lead, buf>>
cfgVars == <<frequencies, freq0, index>>
mainVars == <<applied, mpc, next, up, faults>>
tuneVars == <<arg, pending, tuned, asked, raced>>
vars == <<spc, connVars, dataVars, cfgVars, mainVars, tuneVars>>

Manual == -2
None == -1
Frequency(i) == IF i = 0 THEN freq0 ELSE i
Freqs == 0 .. NBands - 1 \cup Asks

Init ==
  /\ spc = "accept" /\ client = "none" /\ backlog = 0 /\ inbox = <<>> /\ commands = 0
  /\ lead = 0 /\ buf = 0
  /\ frequencies = NBands /\ freq0 = 0 /\ index = 0
  /\ applied = 0 /\ mpc = "poll" /\ next = 0 /\ up = 1 /\ faults = 0
  /\ arg = None /\ pending = 0 /\ tuned = 0 /\ asked = None /\ raced = 0

-----------------------------------------------------------------------------
(* Clients (external). *)

Connects ==
  /\ backlog = 0 /\ backlog' = 1
  /\ UNCHANGED <<spc, client, inbox, commands, dataVars, cfgVars, mainVars, tuneVars>>

Commands ==
  /\ client \in {"open", "full"} /\ commands < MaxCommands /\ commands' = commands + 1
  /\ \E f \in Asks : inbox' = Append(inbox, f)
  /\ UNCHANGED <<spc, client, backlog, dataVars, cfgVars, mainVars, tuneVars>>

(* It stops reading, reads again, or leaves. *)
Turns ==
  /\ \/ client = "open" /\ client' \in {"full", "gone"}
     \/ client = "full" /\ client' \in {"open", "gone"}
  /\ UNCHANGED <<spc, backlog, inbox, commands, dataVars, cfgVars, mainVars, tuneVars>>

-----------------------------------------------------------------------------
(* The server thread. *)

Accept ==
  /\ spc = "accept" /\ backlog = 1
  /\ client' = "open" /\ backlog' = 0 /\ lead' = Ahead /\ spc' = "read"
  /\ UNCHANGED <<inbox, commands, buf, cfgVars, mainVars, tuneVars>>

(* All commands that have come are obeyed first. *)
TakeCommand ==
  /\ spc = "read" /\ inbox # <<>>
  /\ inbox' = Tail(inbox)
  /\ IF Control = 1
       THEN spc' = "one" /\ arg' = Head(inbox) /\ UNCHANGED <<pending, tuned, asked, raced>>
       ELSE UNCHANGED <<spc, tuneVars>>
  /\ UNCHANGED <<client, backlog, commands, dataVars, cfgVars, mainVars>>

(* The end of the connection goes unnoticed (a mutant). *)
EndUnseen ==
  /\ spc = "read" /\ inbox = <<>>
  /\ spc' = "writable"
  /\ UNCHANGED <<connVars, dataVars, cfgVars, mainVars, tuneVars>>

(* No more commands: a connection that ended reads as 0 bytes. *)
NoCommand ==
  /\ spc = "read" /\ inbox = <<>>
  /\ spc' = IF client = "gone" THEN "close" ELSE "writable"
  /\ UNCHANGED <<connVars, dataVars, cfgVars, mainVars, tuneVars>>

(* At most 100 ms for the socket to take data again. *)
Writable ==
  /\ spc = "writable"
  /\ spc' = IF client = "full" THEN "close" ELSE "wait"
  /\ UNCHANGED <<connVars, dataVars, cfgVars, mainVars, tuneVars>>

(* The next frame, for a new client the current one. *)
TakeFrame ==
  /\ spc = "wait" /\ lead # 0 /\ buf = 1
  /\ lead' = 0 /\ spc' = "send"
  /\ UNCHANGED <<connVars, buf, cfgVars, mainVars, tuneVars>>

(* send_all() waits as long as the client takes nothing, and fails once it is
   gone; its result is not looked at. *)
SendFrame ==
  /\ spc = "send" /\ client # "full"
  /\ spc' = "read"
  /\ UNCHANGED <<connVars, dataVars, cfgVars, mainVars, tuneVars>>

Close ==
  /\ spc = "close" /\ spc' = "accept" /\ client' = "none" /\ inbox' = <<>>
  /\ UNCHANGED <<backlog, commands, dataVars, cfgVars, mainVars, tuneVars>>

(* set_center_freq(), store by store. *)
Hopping == mpc \in {"hop", "store", "look", "tune"}

AskKeepsHopping ==                                            \* a mutant
  /\ spc = "one" /\ spc' = "two"
  /\ asked' = arg /\ raced' = IF Hopping THEN 1 ELSE 0
  /\ UNCHANGED <<connVars, dataVars, cfgVars, mainVars, arg, pending, tuned>>
AskEndsHopping ==
  /\ spc = "one" /\ spc' = "two" /\ frequencies' = 1
  /\ asked' = arg /\ raced' = IF Hopping THEN 1 ELSE 0
  /\ UNCHANGED <<connVars, dataVars, freq0, index, mainVars, arg, pending, tuned>>
AskIndex ==
  /\ spc = "two" /\ spc' = "three" /\ index' = 0
  /\ UNCHANGED <<connVars, dataVars, frequencies, freq0, mainVars, tuneVars>>
AskFrequency ==
  /\ spc = "three" /\ spc' = "four" /\ freq0' = arg
  /\ UNCHANGED <<connVars, dataVars, frequencies, index, mainVars, tuneVars>>

(* rtl433_port_manual_tune() is not on the main task. *)
AskDecoders ==
  /\ spc = "four" /\ spc' = "five" /\ pending' = 1
  /\ UNCHANGED <<connVars, dataVars, cfgVars, mainVars, arg, tuned, asked, raced>>

(* A retune that fails, as when the device is closed, goes unnoticed: nothing
   looks at its result, and the frequency stays as it was. *)
AskTune ==
  /\ spc = "five" /\ spc' = "read" /\ arg' = None
  /\ \/ tuned' = arg /\ UNCHANGED raced
     \/ raced' = 1 /\ UNCHANGED tuned
  /\ UNCHANGED <<connVars, dataVars, cfgVars, mainVars, pending, asked>>

Obey == AskEndsHopping \/ AskIndex \/ AskFrequency \/ AskDecoders \/ AskTune

Server ==
  \/ Accept \/ TakeCommand \/ NoCommand \/ Writable \/ TakeFrame \/ SendFrame \/ Close
  \/ Obey

-----------------------------------------------------------------------------
(* The main task. *)

(* It may be time to hop, or with -E hop an event was decoded, which hops even
   in a list of one frequency.  A hop meets a request whose frequency is not
   stored yet. *)
HopNow ==
  \/ mpc' = "tick" /\ UNCHANGED raced
  \/ mpc' = "hop" /\ raced' = IF spc \in {"two", "three"} THEN 1 ELSE raced

(* A block is broadcast and decoded. *)
HandleBlock ==
  /\ mpc = "poll" /\ up = 1
  /\ buf' = 1 /\ lead' = (lead + Width - 1) % Width
  /\ HopNow
  /\ UNCHANGED <<spc, connVars, cfgVars, applied, next, up, faults, arg, pending, tuned, asked>>

NoBlock ==
  /\ mpc = "poll" /\ mpc' = "tick"
  /\ UNCHANGED <<spc, connVars, dataVars, cfgVars, applied, next, up, faults, tuneVars>>

HopReads ==
  /\ mpc = "hop" /\ mpc' = "store" /\ next' = (index + 1) % frequencies
  /\ UNCHANGED <<spc, connVars, dataVars, cfgVars, applied, up, faults, tuneVars>>
HopStores ==
  /\ mpc = "store" /\ mpc' = "look" /\ index' = next
  /\ UNCHANGED <<spc, connVars, dataVars, frequencies, freq0, applied, next, up, faults, tuneVars>>
HopLooks ==
  /\ mpc = "look" /\ mpc' = "tune" /\ next' = Frequency(index)
  /\ UNCHANGED <<spc, connVars, dataVars, cfgVars, applied, up, faults, tuneVars>>
HopTunes ==
  /\ mpc = "tune" /\ mpc' = "apply" /\ tuned' \in {next, tuned} /\ next' = 0
  /\ UNCHANGED <<spc, connVars, dataVars, cfgVars, applied, up, faults, arg, pending, asked, raced>>
HopApplies ==
  /\ mpc = "apply" /\ mpc' = "tick" /\ applied' = IF applied = Manual THEN Manual ELSE index
  /\ UNCHANGED <<spc, connVars, dataVars, cfgVars, next, up, faults, tuneVars>>

(* rtl433_port_main_tick() does not look for a request (a mutant). *)
TickOnly ==
  /\ mpc = "tick" /\ mpc' = "poll"
  /\ UNCHANGED <<spc, connVars, dataVars, cfgVars, applied, next, up, faults, tuneVars>>

(* rtl433_port_main_tick() applies what another task asked for. *)
Tick ==
  /\ mpc = "tick" /\ mpc' = "poll" /\ pending' = 0
  /\ applied' = IF pending = 1 THEN Manual ELSE applied
  /\ UNCHANGED <<spc, connVars, dataVars, cfgVars, next, up, faults, arg, tuned, asked, raced>>

Dies ==
  /\ up = 1 /\ faults < MaxFaults /\ faults' = faults + 1 /\ up' = 0
  /\ UNCHANGED <<spc, connVars, dataVars, cfgVars, applied, mpc, next, tuneVars>>

(* The watchdog: start_sdr() sets the frequency
   of the last one (BandHop). *)
Restart ==
  /\ mpc = "poll" /\ up = 0 /\ up' = 1
  /\ tuned' \in Freqs /\ raced' = 1
  /\ UNCHANGED <<spc, connVars, dataVars, cfgVars, applied, mpc, next, faults, arg, pending, asked>>

Hop == HopReads \/ HopStores \/ HopLooks \/ HopTunes \/ HopApplies
Main == HandleBlock \/ NoBlock \/ Hop \/ Tick \/ Restart

-----------------------------------------------------------------------------
Next == Connects \/ Commands \/ Turns \/ Server \/ Main \/ Dies

Spec == Init /\ [][Next]_vars

(* Both threads are scheduled, the watchdog restarts the input, and a stream
   that runs delivers blocks.  A thread that waits for a frame wakes before
   2^32 of them have passed. *)
Fairness == WF_vars(Server) /\ SF_vars(TakeFrame) /\ WF_vars(Main) /\ SF_vars(HandleBlock) /\ SF_vars(Restart)

FairSpec == Spec /\ Fairness

-----------------------------------------------------------------------------
(* Properties. *)

(* A client that leaves never keeps the thread: the next one is accepted in
   the end, wherever the thread was in its loop, in a command or a wait. *)
GoneClientMakesRoom == client = "gone" ~> spc = "accept"

(* The decoders follow a frequency a client asks for, and for good: a hop
   that is under way on the main task never brings a band's own back. *)
DecodersFollow == asked # None ~> [](applied = Manual)

(* Once a request is obeyed the device has the frequency last asked for and
   keeps it, through hops on later events too ("no more hopping", r_api.c):
   unless a hop was under way or began before its frequency was stored, the
   retune failed, or the input restarted. *)
TunedAsAsked ==
  asked # None /\ raced = 0 /\ spc \notin {"two", "three", "four", "five"} =>
    tuned = asked
=============================================================================
