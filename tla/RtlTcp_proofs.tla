----------------------------- MODULE RtlTcp_proofs -----------------------------
(***************************************************************************)
(* The rtl_tcp thread, for any number of bands, frequencies, commands and  *)
(* deaths of the stream: a request that no hop meets before its frequency  *)
(* is stored is obeyed for good, whatever hops the timer and the decoded   *)
(* events bring later, and wherever they meet the rest of its stores.  The *)
(* frequency is the device's alone, the decoders are asked for by a flag:  *)
(* what is proved of them is that no hop takes them back.                  *)
(***************************************************************************)
EXTENDS RtlTcp, TLAPS

(* Inside set_center_freq(), after its first store. *)
Obeying == spc \in {"two", "three", "four", "five"}

(* Once a client has asked, the list has one frequency. *)
HoppingIsOver == asked # None => frequencies = 1

(* A request nothing raced: its stores stand as they were made, and a hop on
   an event, which begins only after the frequency is stored, works with
   them: it goes from the one frequency to itself. *)
StoresStand ==
  asked # None /\ raced = 0 =>
    /\ spc \in {"two", "three"} => ~Hopping
    /\ spc # "two" => index = 0
    /\ spc \notin {"two", "three"} => freq0 = asked
    /\ mpc = "store" => next = 0
    /\ mpc = "tune" => next = asked

(* The call under way obeys the last request. *)
Calls == Obeying => arg = asked /\ asked # None

TypeOK ==
  /\ spc \in {"accept", "read", "writable", "wait", "send", "close", "one", "two", "three", "four", "five"}
  /\ client \in {"none", "open", "full", "gone"} /\ backlog \in {0, 1}
  /\ inbox \in Seq(Asks) /\ arg \in Asks \cup {None} /\ (spc = "one" => arg # None)
  /\ lead \in 0 .. Width - 1 /\ buf \in {0, 1}
  /\ frequencies \in 1 .. NBands /\ index \in 0 .. NBands - 1 /\ {freq0, tuned} \subseteq Freqs
  /\ applied \in 0 .. NBands - 1 \cup {Manual} /\ pending \in {0, 1}
  /\ mpc \in {"poll", "hop", "store", "look", "tune", "apply", "tick"} /\ next \in Freqs
  /\ mpc = "store" => next \in 0 .. NBands - 1
  /\ up \in {0, 1} /\ asked \in Asks \cup {None} /\ raced \in {0, 1}
  /\ commands \in 0 .. MaxCommands /\ faults \in 0 .. MaxFaults

(* The request for the manual decoders is pending or was granted, once the
   store that makes it is past. *)
DecodersAsked == asked # None /\ spc \notin {"two", "three", "four"} => pending = 1 \/ applied = Manual

IInv == TypeOK /\ HoppingIsOver /\ StoresStand /\ Calls /\ DecodersAsked /\ TunedAsAsked

-----------------------------------------------------------------------------
(* A frequency a client asks for is one; None is not. *)
LEMMA Constants ==
  /\ NBands \in Nat /\ NBands > 1 /\ Width \in Nat /\ Width > 0 /\ Ahead \in 1 .. Width - 1
  /\ Asks \subseteq Freqs /\ Asks \subseteq Nat /\ None \notin Asks /\ 0 .. NBands - 1 \subseteq Freqs
  /\ MaxCommands \in Nat /\ MaxFaults \in Nat
  BY ConstantsAssumption DEF Freqs, None

LEMMA InitHolds == Init => IInv
  BY Constants
     DEF Init, IInv, TypeOK, HoppingIsOver, StoresStand, Calls, Obeying, DecodersAsked, TunedAsAsked, Hopping, None, Manual

(* Clients change only what is on the socket. *)
LEMMA ClientKeeps ==
  ASSUME IInv, Connects \/ Commands \/ Turns
  PROVE  IInv'
  <1>1. /\ client' \in {"none", "open", "full", "gone"} /\ backlog' \in {0, 1}
        /\ inbox' \in Seq(Asks) /\ commands' \in 0 .. MaxCommands
    <2>1. CASE Connects
      BY <2>1 DEF IInv, TypeOK, Connects
    <2>2. CASE Commands
      BY <2>2, Constants DEF IInv, TypeOK, Commands
    <2>3. CASE Turns
      BY <2>3 DEF IInv, TypeOK, Turns
    <2> QED
      BY <2>1, <2>2, <2>3
  <1>2. UNCHANGED <<spc, dataVars, cfgVars, mainVars, tuneVars>>
    BY DEF Connects, Commands, Turns
  <1> QED
    BY <1>1, <1>2
       DEF IInv, TypeOK, HoppingIsOver, StoresStand, Calls, Obeying, DecodersAsked, TunedAsAsked, Hopping,
           dataVars, cfgVars, mainVars, tuneVars

(* The thread's loop around the commands. *)
LEMMA LoopKeeps ==
  ASSUME IInv, Accept \/ TakeCommand \/ NoCommand \/ Writable \/ TakeFrame \/ SendFrame \/ Close
  PROVE  IInv'
  <1>1. CASE TakeCommand
    <2>1. inbox' \in Seq(Asks) /\ Head(inbox) \in Asks
      BY <1>1 DEF IInv, TypeOK, TakeCommand
    <2> QED
      BY <1>1, <2>1, Constants
         DEF IInv, TypeOK, HoppingIsOver, StoresStand, Calls, Obeying, DecodersAsked, TunedAsAsked, Hopping, TakeCommand,
             dataVars, cfgVars, mainVars, tuneVars
  <1>2. CASE ~TakeCommand
    <2>1. /\ spc \in {"accept", "read", "writable", "wait", "send", "close"}
          /\ spc' \in {"accept", "read", "writable", "wait", "send", "close"}
          /\ client' \in {"none", "open", "full", "gone"} /\ backlog' \in {0, 1}
          /\ inbox' \in Seq(Asks) /\ lead' \in 0 .. Width - 1
      <3> USE DEF IInv, TypeOK, connVars, dataVars
      <3>1. CASE Accept
        BY <3>1, Constants DEF Accept
      <3>2. CASE TakeFrame
        BY <3>2, Constants DEF TakeFrame
      <3>3. CASE Close
        BY <3>3 DEF Close
      <3>4. CASE NoCommand \/ Writable \/ SendFrame
        BY <3>4 DEF NoCommand, Writable, SendFrame
      <3> QED
        BY <1>2, <3>1, <3>2, <3>3, <3>4
    <2>2. UNCHANGED <<buf, commands, cfgVars, mainVars, tuneVars>>
      BY <1>2 DEF Accept, NoCommand, Writable, TakeFrame, SendFrame, Close, connVars, dataVars
    <2> QED
      BY <2>1, <2>2
         DEF IInv, TypeOK, HoppingIsOver, StoresStand, Calls, Obeying, DecodersAsked, TunedAsAsked, Hopping,
             dataVars, cfgVars, mainVars, tuneVars
  <1> QED
    BY <1>1, <1>2

(* set_center_freq(): the first store ends the hopping, or remembers a hop
   under way; the last one tunes. *)
LEMMA ObeyKeeps ==
  ASSUME IInv, Obey
  PROVE  IInv'
  <1> USE Constants DEF IInv, TypeOK, HoppingIsOver, StoresStand, Calls, Obeying, DecodersAsked, TunedAsAsked, Hopping,
                        connVars, dataVars, cfgVars, mainVars, tuneVars
  <1>1. CASE AskEndsHopping
    BY <1>1 DEF AskEndsHopping
  <1>2. CASE AskIndex
    BY <1>2 DEF AskIndex
  <1>3. CASE AskFrequency
    BY <1>3 DEF AskFrequency
  <1>4. CASE AskDecoders
    BY <1>4 DEF AskDecoders
  <1>5. CASE AskTune
    BY <1>5 DEF AskTune
  <1> QED
    BY <1>1, <1>2, <1>3, <1>4, <1>5 DEF Obey

(* A hop on the main task: with the list ended it goes from the one frequency
   to itself. *)
LEMMA HopKeeps ==
  ASSUME IInv, Hop
  PROVE  IInv'
  <1> USE Constants DEF IInv, TypeOK, HoppingIsOver, StoresStand, Calls, Obeying, DecodersAsked, TunedAsAsked, Hopping,
                        connVars, dataVars, cfgVars, mainVars, tuneVars
  <1>1. CASE HopReads
    <2>1. /\ (index + 1) % frequencies \in 0 .. NBands - 1
          /\ frequencies = 1 => (index + 1) % frequencies = 0
      OBVIOUS
    <2> QED
      BY <1>1, <2>1 DEF HopReads
  <1>2. CASE HopStores
    BY <1>2 DEF HopStores
  <1>3. CASE HopLooks
    BY <1>3 DEF HopLooks, Frequency
  <1>4. CASE HopTunes
    BY <1>4 DEF HopTunes
  <1>5. CASE HopApplies
    BY <1>5 DEF HopApplies
  <1> QED
    BY <1>1, <1>2, <1>3, <1>4, <1>5 DEF Hop

(* The rest of the main task. *)
LEMMA MainKeeps ==
  ASSUME IInv, HandleBlock \/ NoBlock \/ Tick \/ Restart \/ Dies
  PROVE  IInv'
  <1> USE Constants DEF IInv, TypeOK, HoppingIsOver, StoresStand, Calls, Obeying, DecodersAsked, TunedAsAsked, Hopping,
                        connVars, dataVars, cfgVars, mainVars, tuneVars
  <1>1. CASE HandleBlock
    <2>1. (lead + Width - 1) % Width \in 0 .. Width - 1
      OBVIOUS
    <2> QED
      BY <1>1, <2>1 DEF HandleBlock, HopNow
  <1>2. CASE NoBlock
    BY <1>2 DEF NoBlock
  <1>3. CASE Tick
    BY <1>3 DEF Tick
  <1>4. CASE Restart
    BY <1>4 DEF Restart
  <1>5. CASE Dies
    BY <1>5 DEF Dies
  <1> QED
    BY <1>1, <1>2, <1>3, <1>4, <1>5

(* The inductive invariant holds in every state. *)
LEMMA Invariant == Spec => []IInv
  <1>1. IInv /\ [Next]_vars => IInv'
    <2> SUFFICES ASSUME IInv, [Next]_vars PROVE IInv'
      OBVIOUS
    <2>1. CASE Connects \/ Commands \/ Turns
      BY <2>1, ClientKeeps
    <2>2. CASE Server
      BY <2>2, LoopKeeps, ObeyKeeps DEF Server
    <2>3. CASE Main \/ Dies
      BY <2>3, HopKeeps, MainKeeps DEF Main
    <2>4. CASE UNCHANGED vars
      BY <2>4
         DEF vars, connVars, dataVars, cfgVars, mainVars, tuneVars,
             IInv, TypeOK, HoppingIsOver, StoresStand, Calls, Obeying, DecodersAsked, TunedAsAsked, Hopping
    <2> QED
      BY <2>1, <2>2, <2>3, <2>4 DEF Next
  <1> QED
    BY InitHolds, <1>1, PTL DEF Spec

(* The thread, its client and what it shares with the main task stay in
   their types. *)
THEOREM TypeCorrect == Spec => []TypeOK
  BY Invariant, PTL DEF IInv

(* The device keeps the frequency a client asked for (set_center_freq,
   "no more hopping"), through later hops on events and retunes that fail
   there, unless a hop was under way or began before the frequency was stored,
   the request's own retune failed, or the input restarted. *)
THEOREM TunesAsAsked == Spec => []TunedAsAsked
  BY Invariant, PTL DEF IInv

(* A request for the manual decoders is never lost between the two threads
   (rtl433_port_manual_tune, rtl433_port_main_tick): it is pending or was
   granted, and once granted it is for good. *)
THEOREM DecodersAreAsked == Spec => []DecodersAsked /\ [][applied = Manual => applied' = Manual]_vars
  <1>1. [Next]_vars => [applied = Manual => applied' = Manual]_vars
    BY DEF Next, vars, Server, Main, Hop, Obey, connVars, dataVars, cfgVars, mainVars, tuneVars,
           Connects, Commands, Turns, Accept, TakeCommand, NoCommand, Writable, TakeFrame, SendFrame, Close,
           AskEndsHopping, AskIndex, AskFrequency, AskDecoders, AskTune, HandleBlock, HopNow, NoBlock,
           HopReads, HopStores, HopLooks, HopTunes, HopApplies, Tick, Restart, Dies
  <1> QED
    BY Invariant, <1>1, PTL DEF Spec, IInv
=============================================================================
