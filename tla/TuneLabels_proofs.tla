-------------------------- MODULE TuneLabels_proofs --------------------------
(***************************************************************************)
(* Proofs about the label protocol, for every set of setters, block length,*)
(* ring size and number of setter calls and faults.                        *)
(***************************************************************************)
EXTENDS TuneLabels, TLAPS

LEMMA UniformIsTuning == \A e \in Nat : Uniform(e) \in Tuning
BY DEF Uniform, Tuning

LEMMA ExceptIsTuning ==
  \A t \in Tuning, k \in Knobs, e \in Nat : [t EXCEPT ![k] = e] \in Tuning
BY DEF Tuning

LEMMA TuningValues == \A t \in Tuning, k \in Knobs : t[k] \in Nat
BY DEF Tuning

LEMMA NoSamples == <<>> \in Seq(Tuning)
OBVIOUS

LEMMA KnobNames == "freq" \in Knobs /\ "rate" \in Knobs
BY DEF Knobs

LEMMA IdleIsCall == Idle \in Call
BY KnobNames DEF Idle, Call

LEMMA CallUpdate ==
  \A f \in [Setters -> Call], s \in Setters, c \in Call :
    [f EXCEPT ![s] = c] \in [Setters -> Call]
OBVIOUS

LEMMA CallParts ==
  \A c \in Call : c.pc \in {"idle", "label", "restart", "fallback"}
                  /\ c.knob \in Knobs /\ c.e \in Nat /\ c.old \in Nat
                  /\ c.raced \in {0, 1}
BY DEF Call

LEMMA CallMade ==
  \A p \in {"idle", "label", "restart", "fallback"}, k \in Knobs, e, o \in Nat, r \in {0, 1} :
    [pc |-> p, knob |-> k, e |-> e, old |-> o, raced |-> r] \in Call
BY DEF Call

(* A call that is marked as raced, or that goes on, is otherwise the same. *)
LEMMA CallMarked ==
  ASSUME NEW c \in Call, NEW m, m = [c EXCEPT !.raced = 1]
  PROVE  /\ m \in Call /\ m.raced = 1
         /\ m.pc = c.pc /\ m.knob = c.knob /\ m.e = c.e /\ m.old = c.old
BY DEF Call

LEMMA CallMoved ==
  ASSUME NEW c \in Call, NEW p \in {"label", "fallback"}, NEW m, m = [c EXCEPT !.pc = p]
  PROVE  /\ m \in Call /\ m.pc = p
         /\ m.raced = c.raced /\ m.knob = c.knob /\ m.e = c.e /\ m.old = c.old
BY DEF Call

LEMMA NextNat == \A n \in Nat : n + 1 \in Nat
OBVIOUS

LEMMA BeginCalls ==
  ASSUME TypeOK, NEW s \in Setters, NEW c \in Call, Begin(s, c)
  PROVE  setter' \in [Setters -> Call]
<1>1. \A t \in Setters : [setter[t] EXCEPT !.raced = 1] \in Call
  BY CallMarked DEF TypeOK
<1>2. QED
  BY <1>1 DEF Begin

LEMMA InitTypeOK == Init => TypeOK
<1> SUFFICES ASSUME Init PROVE TypeOK
  OBVIOUS
<1>1. hw \in Tuning /\ want \in Tuning /\ label \in Tuning /\ cfgd \in Tuning
  BY UniformIsTuning DEF Init
<1>2. setter \in [Setters -> Call]
  BY IdleIsCall DEF Init
<1>3. ring \in Seq(Tuning) /\ block \in Seq(Tuning)
  BY DEF Init
<1>4. out \in [label : Tuning, samples : Seq(Tuning), sure : SUBSET Knobs]
  BY UniformIsTuning DEF Init
<1>5. QED
  BY <1>1, <1>2, <1>3, <1>4 DEF Init, TypeOK, StartingUp

LEMMA TypeStep == TypeOK /\ [Next]_vars => TypeOK'
<1> SUFFICES ASSUME TypeOK, [Next]_vars PROVE TypeOK'
  OBVIOUS
<1> USE DEF TypeOK
<1>0. CASE UNCHANGED vars
  BY <1>0 DEF vars, drvVars, devVars, readerVars
<1>1. CASE Capture
  BY <1>1 DEF Capture, devVars, readerVars
<1>2. CASE StreamDies
  BY <1>2 DEF StreamDies, devVars, readerVars
<1>3. ASSUME NEW s \in Setters, NEW k \in Knobs, NEW p \in {"label", "restart"},
             Request(s, k, p)
      PROVE  /\ want' \in Tuning /\ setter' \in [Setters -> Call]
             /\ epoch' \in Nat /\ tunes' \in Nat
  <2>1. epoch + 1 \in Nat /\ tunes + 1 \in Nat
    OBVIOUS
  <2>2. \A b \in {0, 1} : [pc |-> p, knob |-> k, e |-> epoch + 1, old |-> want[k],
                           raced |-> b] \in Call
    BY <2>1, TuningValues, CallMade
  <2>3. setter' \in [Setters -> Call]
    BY <1>3, <2>2, BeginCalls DEF Request
  <2>4. QED
    BY <1>3, <2>1, <2>3, ExceptIsTuning DEF Request
<1>4. ASSUME NEW k \in Knobs, DriverTakes(k) PROVE hw' \in Tuning
  BY <1>4, ExceptIsTuning DEF DriverTakes
<1>5. ASSUME NEW s \in Setters, SetCenterFreq(s) PROVE TypeOK'
  <2>1. want' \in Tuning /\ setter' \in [Setters -> Call] /\ epoch' \in Nat /\ tunes' \in Nat
    BY <1>3, <1>5, KnobNames DEF SetCenterFreq
  <2>2. hw' \in Tuning
    BY <1>4, <1>5, KnobNames DEF SetCenterFreq
  <2>3. QED
    BY <1>5, <2>1, <2>2 DEF SetCenterFreq, Request, DriverTakes, readerVars
<1>6. ASSUME NEW s \in Setters, SetCenterFreqFails(s) PROVE TypeOK'
  <2>1. /\ want' = [want EXCEPT !["freq"] = epoch + 1]
        /\ epoch' = epoch + 1 /\ tunes' = tunes + 1
    BY <1>6 DEF SetCenterFreqFails
  <2>2. want' \in Tuning /\ epoch' \in Nat /\ tunes' \in Nat
    <3>1. epoch + 1 \in Nat /\ tunes + 1 \in Nat
      OBVIOUS
    <3>2. QED
      BY <2>1, <3>1, ExceptIsTuning, KnobNames
  <2>3. setter' \in [Setters -> Call]
    BY <1>6, BeginCalls, IdleIsCall DEF SetCenterFreqFails
  <2>4. sure' \subseteq Knobs
    BY <1>6 DEF SetCenterFreqFails
  <2>5. QED
    BY <1>6, <2>2, <2>3, <2>4 DEF SetCenterFreqFails, drvVars, readerVars
<1>7. ASSUME NEW s \in Setters, SetSampleRate(s) PROVE TypeOK'
  <2>1. want' \in Tuning /\ setter' \in [Setters -> Call] /\ epoch' \in Nat /\ tunes' \in Nat
    BY <1>3, <1>7, KnobNames DEF SetSampleRate
  <2>2. hw' \in Tuning
    BY <1>4, <1>7, KnobNames DEF SetSampleRate
  <2>3. QED
    BY <1>7, <2>1, <2>2 DEF SetSampleRate, Request, DriverTakes, readerVars
<1>8. ASSUME NEW s \in Setters, SetSameRate(s) PROVE TypeOK'
  <2>1. \A b \in {0, 1} : [pc |-> "label", knob |-> "rate", e |-> want["rate"],
                           old |-> want["rate"], raced |-> b] \in Call
    BY TuningValues, KnobNames, CallMade
  <2>2. setter' \in [Setters -> Call]
    BY <1>8, <2>1, BeginCalls DEF SetSameRate
  <2>3. QED
    BY <1>8, <2>2 DEF SetSameRate, drvVars, devVars, readerVars
<1>9. ASSUME NEW s \in Setters, SetRateStops(s) PROVE TypeOK'
  <2>1. want' \in Tuning /\ setter' \in [Setters -> Call] /\ epoch' \in Nat /\ tunes' \in Nat
    BY <1>3, <1>9, KnobNames DEF SetRateStops
  <2>2. ring' \in Seq(Tuning)
    BY <1>9, NoSamples DEF SetRateStops
  <2>3. QED
    BY <1>9, <2>1, <2>2 DEF SetRateStops, Request, readerVars
<1>10. ASSUME NEW s \in Setters, SetRateStarts(s) PROVE TypeOK'
  <2>1. setter' \in [Setters -> Call]
    <3>1. ASSUME NEW p \in {"label", "fallback"}, GoesOn(s, p)
          PROVE  setter' \in [Setters -> Call]
      BY <3>1, CallMoved, CallUpdate DEF GoesOn
    <3>2. GoesOn(s, "label") \/ GoesOn(s, "fallback")
      BY <1>10 DEF SetRateStarts
    <3>3. QED
      BY <3>1, <3>2
  <2>2. want' \in Tuning
    BY <1>10, CallParts, ExceptIsTuning, KnobNames DEF SetRateStarts
  <2>3. hw' \in Tuning
    BY <1>10 DEF SetRateStarts, StreamStarts
  <2>4. faults' \in Nat
    BY <1>10, NextNat DEF SetRateStarts
  <2>5. QED
    BY <1>10, <2>1, <2>2, <2>3, <2>4 DEF SetRateStarts, StreamStarts, readerVars
<1>11. ASSUME NEW s \in Setters, SetRateFallsBack(s) PROVE TypeOK'
  BY <1>11, IdleIsCall, CallUpdate
     DEF SetRateFallsBack, StreamStarts, devVars, readerVars
<1>12. ASSUME NEW s \in Setters, SetLabel(s) PROVE TypeOK'
  <2>1. label' \in Tuning
    BY <1>12, CallParts, ExceptIsTuning DEF SetLabel
  <2>2. setter' \in [Setters -> Call] /\ gen' \in Nat
    BY <1>12, IdleIsCall, CallUpdate DEF SetLabel
  <2>3. sure' \subseteq Knobs
    BY <1>12, CallParts DEF SetLabel, SureAfter
  <2>4. QED
    BY <1>12, <2>1, <2>2, <2>3 DEF SetLabel, drvVars, readerVars
<1>13. CASE ReadSettings
  BY <1>13 DEF ReadSettings, drvVars, devVars, StartingUp
<1>14. CASE StartStream
  <2>1. hw' \in Tuning /\ ring' \in Seq(Tuning)
    <3>1. (hw' = cfgd /\ ring' = <<>>) \/ (hw' = hw /\ ring' = ring)
      BY <1>14 DEF StartStream, StreamStarts, drvVars
    <3>2. QED
      BY <3>1, NoSamples
  <2>4. faults' \in Nat
    BY <1>14, NextNat DEF StartStream
  <2>2. rpc' \in {"gain", "ended"}
    BY <1>14 DEF StartStream
  <2>3. QED
    BY <1>14, <2>1, <2>2, <2>4 DEF StartStream, StreamStarts, drvVars, devVars, StartingUp
<1>15. CASE EnterLoop
  BY <1>15 DEF EnterLoop, drvVars, devVars, InLoop
<1>16. CASE BlockStart
  BY <1>16 DEF BlockStart, drvVars, devVars, InLoop
<1>17. CASE Discard
  BY <1>17 DEF Discard, devVars, InLoop
<1>18. CASE BlockFull
  BY <1>18 DEF BlockFull, drvVars, devVars, InLoop
<1>19. CASE StopRequested
  <2>1. rpc' \in {"ended", "label"}
    BY <1>19 DEF StopRequested
  <2>2. block' \in Seq(Tuning)
    BY <1>19, NoSamples DEF StopRequested
  <2>3. faults' \in Nat
    BY <1>19, NextNat DEF StopRequested
  <2>4. QED
    BY <1>19, <2>1, <2>2, <2>3 DEF StopRequested, drvVars, devVars, InLoop
<1>20. CASE ErrorReported
  BY <1>20 DEF ErrorReported, drvVars, devVars, InLoop
<1>21. CASE ReadMore
  BY <1>21 DEF ReadMore, drvVars, devVars, InLoop
<1>22. CASE ReadGets
  BY <1>22 DEF ReadGets, devVars, InLoop
<1>23. CASE ReadWaits
  BY <1>23 DEF ReadWaits, drvVars, devVars, InLoop
<1>24. CASE ReadFails
  BY <1>24 DEF ReadFails, drvVars, devVars, InLoop
<1>25. CASE LabelBlock
  BY <1>25 DEF LabelBlock, drvVars, devVars, InLoop
<1>26. CASE Reopen
  BY <1>26, UniformIsTuning DEF Reopen, StartingUp
<1>5b. QED
  BY <1>11, <1>12, <1>0, <1>1, <1>2, <1>5, <1>6, <1>7, <1>8, <1>9, <1>10, <1>13,
   <1>14, <1>15, <1>16, <1>17, <1>18, <1>19, <1>20, <1>21, <1>22, <1>23,
   <1>24, <1>25, <1>26 DEF Next, SetterStep, Reader

(* Type correctness of every reachable state: no step leaves a setting, a
   generation or a thread position outside what the code can hold. *)
THEOREM TypeCorrect == Spec => []TypeOK
BY InitTypeOK, TypeStep, PTL DEF Spec

-----------------------------------------------------------------------------
(* The inductive invariant behind NoStaleSamples. *)

(* Every sample of q was captured with settings not older than t, for the
   settings of K. *)
NotBefore(q, t, K) == \A i \in DOMAIN q : \A k \in K : q[i][k] >= t[k]

(* A setting that is not sure, or that a raced call is about to leave so. *)
Doubt(k) ==
  k \notin sure \/ \E s \in Setters : setter[s].pc # "idle" /\ setter[s].raced = 1
                                      /\ setter[s].knob = k

(* Requests only move on: the label of a sure setting never overtakes the
   setting asked for, nor a running stream the label. *)
Settings ==
  /\ \A k \in Knobs : epoch >= want[k] /\ epoch >= label[k]
  /\ \A k \in sure : want[k] >= label[k] /\ (stream = "on" => hw[k] >= label[k])
  /\ stream = "on" /\ ~Doubt("rate") => hw["rate"] >= want["rate"]

(* What a call under way knows: a raced one, only the request it is for; any
   other, that the driver has taken the change, or that it stands still. *)
CallOK(c) ==
  /\ c.pc # "idle" => /\ epoch >= c.e /\ epoch >= c.old
                      /\ c.knob \in sure => c.old >= label[c.knob]
  /\ c.pc \in {"restart", "fallback"} => c.knob = "rate"
  /\ c.raced = 0 => c.pc # "idle" /\ rpc \notin StartingUp
  /\ c.raced = 0 /\ c.pc = "label" =>
       /\ want[c.knob] = c.e
       /\ c.e > label[c.knob] \/ (c.knob \in sure /\ c.e >= label[c.knob])
       /\ stream = "on" => hw[c.knob] >= c.e
  /\ c.raced = 0 /\ c.pc = "restart" =>
       stream = "off" /\ want["rate"] = c.e /\ c.e > label["rate"]
  /\ c.raced = 0 /\ c.pc = "fallback" => stream = "off"

Calls == \A s \in Setters : CallOK(setter[s])

(* A call that did not race is the only one. *)
Alone ==
  \A s, t \in Setters :
    s # t /\ setter[s].pc # "idle" => setter[t].raced = 1

(* What the stream is about to be started with. *)
StartOK ==
  rpc = "starting" =>
    /\ \A k \in sure : cfgd[k] >= label[k]
    /\ ~Doubt("rate") => cfgd["rate"] >= want["rate"]

GenerationsSeen ==
  /\ rpc \in InLoop => gen >= seen
  /\ rpc = "discard" => gen >= g
  /\ rpc \notin {"check", "read", "label"} => block = <<>>

(* While the generation the reader saw is current, nothing older than the
   label is left in the driver's ring or in the block. *)
Fresh ==
  (rpc = "gain" \/ (rpc \in InLoop \ {"discard"} /\ gen = seen)) =>
     NotBefore(ring, label, sure) /\ NotBefore(block, label, sure)

IInv == Settings /\ Calls /\ Alone /\ StartOK /\ GenerationsSeen /\ Fresh
        /\ NoStaleSamples

-----------------------------------------------------------------------------
LEMMA NextRequest ==
  ASSUME TypeOK, Settings
  PROVE  /\ epoch + 1 \in Nat /\ epoch + 1 > epoch
         /\ \A k \in Knobs : epoch + 1 > want[k] /\ epoch + 1 > label[k]
BY TuningValues DEF TypeOK, Settings

LEMMA Raised ==
  ASSUME NEW t \in Tuning, NEW k \in Knobs, NEW e \in Nat
  PROVE  /\ [t EXCEPT ![k] = e][k] = e
         /\ \A j \in Knobs : j # k => [t EXCEPT ![k] = e][j] = t[j]
BY DEF Tuning

LEMMA NotBeforeNone == \A t, K : NotBefore(<<>>, t, K)
BY DEF NotBefore

LEMMA NotBeforeAppend ==
  ASSUME NEW q \in Seq(Tuning), NEW x \in Tuning, NEW t, NEW K,
         NotBefore(q, t, K), \A k \in K : x[k] >= t[k]
  PROVE  NotBefore(Append(q, x), t, K)
BY DEF NotBefore

LEMMA NotBeforeRead ==
  ASSUME NEW q \in Seq(Tuning), NEW t, NEW K, q # <<>>, NotBefore(q, t, K)
  PROVE  (\A k \in K : Head(q)[k] >= t[k]) /\ NotBefore(Tail(q), t, K)
BY DEF NotBefore

(* A block or a ring stays fresh while its settings stay or stop being sure. *)
LEMMA NotBeforeStands ==
  ASSUME NEW q, NEW t, NEW u, NEW K, NEW J, NotBefore(q, t, K),
         \A k \in J : k \in K /\ u[k] = t[k]
  PROVE  NotBefore(q, u, J)
BY DEF NotBefore

LEMMA CallIs ==
  ASSUME TypeOK, NEW s \in Setters, NEW c, setter' = [setter EXCEPT ![s] = c]
  PROVE  setter'[s] = c /\ \A t \in Setters \ {s} : setter'[t] = setter[t]
BY DEF TypeOK

LEMMA BeginIs ==
  ASSUME TypeOK, NEW s \in Setters, NEW c, Begin(s, c)
  PROVE  /\ setter'[s] = c
         /\ \A t \in Setters \ {s} :
              /\ setter'[t].pc = setter[t].pc /\ setter'[t].knob = setter[t].knob
              /\ setter'[t].e = setter[t].e /\ setter'[t].old = setter[t].old
              /\ setter'[t].raced = 1
BY CallMarked DEF Begin, TypeOK

LEMMA DoubtStands ==
  ASSUME UNCHANGED <<sure, setter>>
  PROVE  \A k \in Knobs : Doubt(k)' <=> Doubt(k)
BY DEF Doubt

(* A call that begins ends no doubt, and one that raced is a doubt. *)
LEMMA BeginDoubts ==
  ASSUME TypeOK, NEW s \in Setters, setter[s].pc = "idle", NEW c, Begin(s, c),
         sure' \subseteq sure
  PROVE  /\ \A k \in Knobs : Doubt(k) => Doubt(k)'
         /\ setter'[s].pc # "idle" /\ setter'[s].raced = 1 => Doubt(setter[s].knob)'
<1>1. ASSUME NEW k \in Knobs, Doubt(k) PROVE Doubt(k)'
  <2>1. CASE k \notin sure
    BY <2>1 DEF Doubt
  <2>2. ASSUME NEW t \in Setters, setter[t].pc # "idle", setter[t].knob = k PROVE Doubt(k)'
    <3>1. t # s
      BY <2>2
    <3>2. setter'[t].pc # "idle" /\ setter'[t].raced = 1 /\ setter'[t].knob = k
      BY <2>2, <3>1, BeginIs
    <3>3. QED
      BY <3>2 DEF Doubt
  <2>3. QED
    BY <1>1, <2>1, <2>2 DEF Doubt
<1>2. QED
  BY <1>1 DEF Doubt

(* A call that goes on or ends only ends the doubt about its own setting. *)
LEMMA StepDoubts ==
  ASSUME TypeOK, NEW s \in Setters, NEW c, setter' = [setter EXCEPT ![s] = c],
         NEW k \in Knobs, Doubt(k), k \in sure' => k \in sure,
         k = setter[s].knob => k \notin sure' \/ setter[s].raced = 0
                               \/ (c.pc # "idle" /\ c.raced = 1 /\ c.knob = k)
  PROVE  Doubt(k)'
<1>1. CASE k \notin sure
  BY <1>1 DEF Doubt
<1>2. ASSUME NEW t \in Setters, setter[t].pc # "idle", setter[t].raced = 1, setter[t].knob = k
      PROVE  Doubt(k)'
  <2>1. CASE t = s
    BY <1>2, <2>1, CallIs DEF Doubt
  <2>2. CASE t # s
    <3>1. setter'[t] = setter[t]
      BY <2>2, CallIs
    <3>2. QED
      BY <1>2, <3>1 DEF Doubt
  <2>3. QED
    BY <2>1, <2>2
<1>3. QED
  BY <1>1, <1>2 DEF Doubt

(* A call that begins leaves the others' standing: they race with it now. *)
LEMMA BeginKeeps ==
  ASSUME TypeOK, Calls, Alone, NEW s \in Setters, MayTune(s), NEW c, Begin(s, c),
         UNCHANGED <<rpc, label>>, sure' \subseteq sure, epoch' >= epoch, epoch' \in Nat,
         c.raced = 1 \/ ~Races(s), CallOK(setter[s])'
  PROVE  Calls' /\ Alone'
<1>1. ASSUME NEW t \in Setters, t # s PROVE CallOK(setter[t])'
  <2>1. setter[t].e \in Nat /\ setter[t].old \in Nat /\ epoch \in Nat
    BY CallParts DEF TypeOK
  <2>2. QED
    BY <1>1, <2>1, BeginIs DEF Calls, CallOK
<1>2. Alone'
  <2> SUFFICES ASSUME NEW t \in Setters, NEW u \in Setters, u # t, setter'[u].pc # "idle"
               PROVE  setter'[t].raced = 1
    BY DEF Alone
  <2>1. CASE t = s
    <3>1. setter[u].pc # "idle" /\ u \in Setters \ {s}
      BY <2>1, BeginIs
    <3>2. QED
      BY <2>1, <3>1, BeginIs DEF Races
  <2>2. QED
    BY <2>1, BeginIs
<1>3. QED
  BY <1>1, <1>2 DEF Calls

(* So does one that goes on or ends: while another is under way, it raced
   with that one, and leaves no setting sure that was not. *)
LEMMA StepKeeps ==
  ASSUME TypeOK, Calls, Alone, NEW s \in Setters, setter[s].pc # "idle",
         NEW c, setter' = [setter EXCEPT ![s] = c], UNCHANGED <<rpc, epoch>>,
         setter[s].raced = 1 =>
           c.raced = 1 /\ \A k \in sure' : k \in sure /\ label'[k] = label[k],
         CallOK(setter[s])'
  PROVE  Calls' /\ Alone'
<1>1. ASSUME NEW t \in Setters, t # s PROVE CallOK(setter[t])'
  <2>1. setter[t].raced = 1 /\ setter'[t] = setter[t]
    BY <1>1, CallIs DEF Alone
  <2>2. CASE setter[t].pc = "idle"
    BY <2>1, <2>2 DEF CallOK
  <2>3. CASE setter[t].pc # "idle"
    <3>1. setter[s].raced = 1
      BY <1>1, <2>3 DEF Alone
    <3>2. QED
      BY <2>1, <3>1 DEF Calls, CallOK
  <2>4. QED
    BY <2>2, <2>3
<1>2. Alone'
  BY CallIs DEF Alone
<1>3. QED
  BY <1>1, <1>2 DEF Calls

LEMMA StartStands ==
  ASSUME StartOK, rpc' = "starting" => rpc = "starting", cfgd' = cfgd,
         rpc = "starting" =>
           /\ \A k \in sure' : k \in sure /\ label'[k] = label[k]
           /\ Doubt("rate") => Doubt("rate")'
           /\ want'["rate"] = want["rate"] \/ Doubt("rate")'
  PROVE  StartOK'
BY DEF StartOK

(* While the samples stand and the settings at most stop being sure, or while
   there is a new generation, the samples stay fresh. *)
LEMMA FreshStands ==
  ASSUME TypeOK, Fresh, GenerationsSeen,
         UNCHANGED <<rpc, seen, block>>, ring' = ring \/ ring' = <<>>,
         \/ gen' = gen /\ \A k \in sure' : k \in sure /\ label'[k] = label[k]
         \/ gen' = gen + 1 /\ (rpc = "gain" => \A k \in sure' : k \in sure /\ label'[k] = label[k])
  PROVE  Fresh'
<1> SUFFICES ASSUME (rpc = "gain" \/ (rpc \in InLoop \ {"discard"} /\ gen = seen))'
             PROVE  NotBefore(ring, label, sure)' /\ NotBefore(block, label, sure)'
  BY DEF Fresh
<1>1. gen' = gen + 1 => rpc = "gain"
  BY DEF GenerationsSeen, TypeOK
<1>2. \A k \in sure' : k \in sure /\ label'[k] = label[k]
  BY <1>1
<1>3. NotBefore(ring, label, sure) /\ NotBefore(block, label, sure)
  BY <1>1 DEF Fresh, TypeOK
<1>4. QED
  BY <1>2, <1>3, NotBeforeStands, NotBeforeNone

(* Whether the acquire thread or the driver's samples move does not matter
   to the settings and the calls. *)
LEMMA SettingsStand ==
  ASSUME Settings, Calls, Alone,
         UNCHANGED <<stream, hw, want, label, epoch, setter, sure>>,
         rpc' \in StartingUp => rpc \in StartingUp
  PROVE  Settings' /\ Calls' /\ Alone'
<1>1. Settings'
  BY DoubtStands, KnobNames DEF Settings
<1>2. Calls' /\ Alone'
  BY DEF Calls, CallOK, Alone
<1>3. QED
  BY <1>1, <1>2

LEMMA InitIInv == Init => IInv
<1> SUFFICES ASSUME Init PROVE IInv
  OBVIOUS
<1>1. Settings
  BY DEF Init, Settings, Uniform, Doubt, Idle
<1>2. Calls /\ Alone
  BY DEF Init, Calls, CallOK, Idle, Alone
<1>3. StartOK
  BY DEF Init, StartOK
<1>4. GenerationsSeen /\ Fresh
  BY DEF Init, GenerationsSeen, Fresh, InLoop
<1>5. NoStaleSamples
  BY DEF Init, NoStaleSamples
<1>6. QED
  BY <1>1, <1>2, <1>3, <1>4, <1>5 DEF IInv

(* A new request: the setting asked for is the last one, and the driver has
   taken it, or captures nothing until it is started. *)
LEMMA RequestKeeps ==
  ASSUME TypeOK, TypeOK', IInv, NEW s \in Setters, MayTune(s),
         NEW k \in Knobs, NEW p \in {"label", "restart"}, Request(s, k, p),
         \/ stream' = "off" /\ (p = "restart" => k = "rate")
         \/ p = "label" /\ stream' = "on" /\ stream = "on"
            /\ hw' = [hw EXCEPT ![k] = epoch + 1]
  PROVE  Settings' /\ Calls' /\ Alone' /\ StartOK' /\ GenerationsSeen'
<1> USE DEF IInv
<1> DEFINE c == [pc |-> p, knob |-> k, e |-> epoch + 1, old |-> want[k],
                 raced |-> IF Races(s) THEN 1 ELSE 0]
<1>1. /\ want' = [want EXCEPT ![k] = epoch + 1] /\ epoch' = epoch + 1
      /\ UNCHANGED <<label, gen, rpc, cfgd, seen, g, block, sure>>
      /\ Begin(s, c) /\ setter[s].pc = "idle"
  BY DEF Request, MayTune, readerVars
<1>2. setter'[s] = c
  BY <1>1, BeginIs
<1>3. /\ setter'[s].pc = p /\ setter'[s].knob = k /\ setter'[s].e = epoch + 1
      /\ setter'[s].old = want[k] /\ setter'[s].raced = (IF Races(s) THEN 1 ELSE 0)
  BY <1>2
<1>4. /\ want'[k] = epoch + 1 /\ \A j \in Knobs : j # k => want'[j] = want[j]
      /\ stream' = "on" => /\ stream = "on" /\ hw'[k] = epoch + 1
                           /\ \A j \in Knobs : j # k => hw'[j] = hw[j]
  BY <1>1, NextRequest, Raised DEF TypeOK
<1>5. \A j \in Knobs : Doubt(j) => Doubt(j)'
  BY <1>1, BeginDoubts
<1>6. Settings'
  <2>1. \A j \in Knobs : epoch' >= want'[j] /\ epoch' >= label'[j]
    <3> SUFFICES ASSUME NEW j \in Knobs PROVE epoch' >= want'[j] /\ epoch' >= label'[j]
      OBVIOUS
    <3>1. /\ epoch' = epoch + 1 /\ epoch + 1 \in Nat /\ label'[j] = label[j]
          /\ epoch + 1 > want[j] /\ epoch + 1 > label[j]
          /\ want'[j] = epoch + 1 \/ want'[j] = want[j]
      BY ONLY TypeOK, IInv, <1>1, <1>4, NextRequest DEF IInv
    <3>2. want[j] \in Nat /\ label[j] \in Nat
      BY ONLY TypeOK, TuningValues DEF TypeOK
    <3>3. QED
      BY ONLY <3>1, <3>2
  <2>2. \A j \in sure' : want'[j] >= label'[j]
    <3> SUFFICES ASSUME NEW j \in sure' PROVE want'[j] >= label'[j]
      OBVIOUS
    <3>1. j \in sure /\ j \in Knobs /\ label'[j] = label[j]
      BY ONLY TypeOK, <1>1 DEF TypeOK
    <3>2. /\ want[j] >= label[j] /\ epoch + 1 > label[j] /\ epoch + 1 \in Nat
          /\ want'[j] = epoch + 1 \/ want'[j] = want[j]
      BY ONLY TypeOK, IInv, <1>4, <3>1, NextRequest DEF IInv, Settings
    <3>3. label[j] \in Nat
      BY ONLY TypeOK, <3>1, TuningValues DEF TypeOK
    <3>4. QED
      BY ONLY <3>1, <3>2, <3>3
  <2>3. \A j \in sure' : stream' = "on" => hw'[j] >= label'[j]
    <3> SUFFICES ASSUME NEW j \in sure', stream' = "on" PROVE hw'[j] >= label'[j]
      OBVIOUS
    <3>1. j \in sure /\ j \in Knobs /\ label'[j] = label[j] /\ label[j] \in Nat
      BY <1>1, TuningValues DEF TypeOK
    <3>2. CASE j = k
      BY <1>4, <3>1, <3>2, NextRequest
    <3>3. CASE j # k
      BY <1>4, <3>1, <3>3 DEF Settings
    <3>4. QED
      BY <3>2, <3>3
  <2>4. stream' = "on" /\ ~Doubt("rate")' => hw'["rate"] >= want'["rate"]
    BY <1>4, <1>5, NextRequest, KnobNames DEF Settings
  <2>5. QED
    BY <2>1, <2>2, <2>3, <2>4 DEF Settings
<1>7. CallOK(setter[s])'
  <2>1. /\ epoch' >= setter'[s].e /\ epoch' >= setter'[s].old
        /\ setter'[s].knob \in sure' => setter'[s].old >= label'[setter'[s].knob]
    BY <1>1, <1>3, NextRequest, TuningValues DEF Settings, TypeOK
  <2>2. setter'[s].raced = 0 => rpc' \notin StartingUp
    BY <1>1, <1>3 DEF Races
  <2>3. setter'[s].e > label'[setter'[s].knob] /\ want'[setter'[s].knob] = setter'[s].e
    BY <1>1, <1>3, <1>4, NextRequest
  <2>4. stream' = "on" => setter'[s].pc = "label" /\ hw'[setter'[s].knob] >= setter'[s].e
    BY <1>3, <1>4, NextRequest
  <2>5. stream' \in {"on", "off"} /\ (p = "restart" => k = "rate" /\ stream' = "off")
    BY DEF TypeOK
  <2>6. setter'[s].pc \in {"label", "restart"} /\ setter'[s].pc = p /\ setter'[s].knob = k
    BY <1>3
  <2>7. setter'[s].pc = "restart" => /\ setter'[s].knob = "rate" /\ stream' = "off"
                                     /\ want'["rate"] = setter'[s].e
                                     /\ setter'[s].e > label'["rate"]
    BY <2>3, <2>5, <2>6
  <2>8. QED
    BY <2>1, <2>2, <2>3, <2>4, <2>6, <2>7 DEF CallOK
<1>8. Calls' /\ Alone'
  <2>1. c.raced = 1 \/ ~Races(s)
    OBVIOUS
  <2>2. epoch' >= epoch /\ epoch' \in Nat
    BY <1>1 DEF TypeOK
  <2>3. QED
    BY <1>1, <1>7, <2>1, <2>2, BeginKeeps
<1>9. StartOK'
  <2>1. rpc = "starting" /\ k = "rate" => Doubt("rate")'
    BY <1>1, <1>2, <1>3, BeginDoubts DEF Races, StartingUp, Doubt
  <2>2. QED
    BY <1>1, <1>4, <1>5, <2>1, StartStands, KnobNames
<1>10. GenerationsSeen'
  BY <1>1 DEF GenerationsSeen
<1>11. QED
  BY <1>6, <1>8, <1>9, <1>10

LEMMA SetterBegins ==
  ASSUME TypeOK, TypeOK', IInv, NEW s \in Setters,
         \/ SetCenterFreq(s) \/ SetSampleRate(s) \/ SetRateStops(s)
         \/ SetCenterFreqFails(s) \/ SetSameRate(s)
  PROVE  IInv'
<1> USE DEF IInv
<1>0. MayTune(s) /\ setter[s].pc = "idle"
  BY DEF SetCenterFreq, SetSampleRate, SetRateStops, SetCenterFreqFails, SetSameRate, MayTune
<1>1. Fresh' /\ NoStaleSamples'
  <2>1. /\ UNCHANGED <<rpc, seen, block, gen, label, out>> /\ sure' \subseteq sure
        /\ ring' = ring \/ ring' = <<>>
    BY DEF SetCenterFreq, SetSampleRate, SetRateStops, SetCenterFreqFails, SetSameRate,
       Request, DriverTakes, drvVars, devVars, readerVars
  <2>2. QED
    BY <2>1, FreshStands DEF NoStaleSamples
<1>2. ASSUME NEW k \in Knobs, Request(s, k, "label"), DriverTakes(k) PROVE IInv'
  <2>1. \/ stream' = "off"
        \/ stream' = "on" /\ stream = "on" /\ hw' = [hw EXCEPT ![k] = epoch + 1]
    BY <1>2 DEF DriverTakes, TypeOK
  <2>2. QED
    BY <1>0, <1>1, <1>2, <2>1, RequestKeeps
<1>3. CASE SetCenterFreq(s) \/ SetSampleRate(s)
  BY <1>2, <1>3, KnobNames DEF SetCenterFreq, SetSampleRate
<1>4. CASE SetRateStops(s)
  BY <1>0, <1>1, <1>4, RequestKeeps, KnobNames DEF SetRateStops
<1>5. CASE SetCenterFreqFails(s)
  <2>1. /\ want' = [want EXCEPT !["freq"] = epoch + 1] /\ epoch' = epoch + 1
        /\ UNCHANGED <<stream, hw, label, gen, rpc, cfgd, seen, g, block>>
        /\ Begin(s, Idle) /\ sure' \subseteq sure
    BY <1>5 DEF SetCenterFreqFails, drvVars, readerVars
  <2>2. want'["freq"] = epoch + 1 /\ want'["rate"] = want["rate"]
    BY <2>1, NextRequest, Raised, KnobNames DEF TypeOK
  <2>3. \A k \in Knobs : Doubt(k) => Doubt(k)'
    BY <1>0, <2>1, BeginDoubts
  <2>4. Settings'
    BY <2>1, <2>2, <2>3, NextRequest, TuningValues, KnobNames DEF Settings, TypeOK, Knobs
  <2>5. setter'[s] = Idle
    BY <2>1, BeginIs
  <2>6. CallOK(setter[s])'
    BY <2>5 DEF Idle, CallOK
  <2>7. Idle.raced = 1
    BY DEF Idle
  <2>8. Calls' /\ Alone'
    <3>1. epoch' >= epoch /\ epoch' \in Nat /\ UNCHANGED <<rpc, label>>
      BY <2>1, NextRequest DEF TypeOK
    <3>2. QED
      BY <1>0, <2>1, <2>6, <2>7, <3>1, BeginKeeps
  <2>9. StartOK' /\ GenerationsSeen'
    BY <2>1, <2>2, <2>3, StartStands, KnobNames DEF GenerationsSeen
  <2>10. QED
    BY <1>1, <2>4, <2>8, <2>9
<1>6. CASE SetSameRate(s)
  <2> DEFINE c == [pc |-> "label", knob |-> "rate", e |-> want["rate"], old |-> want["rate"],
                   raced |-> IF Races(s) \/ "rate" \notin sure THEN 1 ELSE 0]
  <2>1. /\ UNCHANGED <<stream, hw, want, epoch, label, gen, rpc, cfgd, seen, g, block, sure>>
        /\ Begin(s, c)
    BY <1>6 DEF SetSameRate, drvVars, devVars, readerVars
  <2>2. setter'[s] = c
    BY <2>1, BeginIs
  <2>3. /\ setter'[s].pc = "label" /\ setter'[s].knob = "rate"
        /\ setter'[s].e = want["rate"] /\ setter'[s].old = want["rate"]
        /\ setter'[s].raced = (IF Races(s) \/ "rate" \notin sure THEN 1 ELSE 0)
    BY <2>2
  <2>4. \A k \in Knobs : Doubt(k) => Doubt(k)'
    BY <1>0, <2>1, BeginDoubts
  <2>5. Settings'
    BY <2>1, <2>4, KnobNames DEF Settings
  <2>6. setter'[s].raced = 0 => ~Doubt("rate") /\ "rate" \in sure /\ rpc \notin StartingUp
    <3>1. setter'[s].raced = 0 => ~Races(s) /\ "rate" \in sure
      BY <2>3
    <3>2. ~Races(s) => rpc \notin StartingUp /\ \A t \in Setters : setter[t].pc = "idle"
      BY <1>0 DEF Races
    <3>3. QED
      BY <3>1, <3>2 DEF Doubt
  <2>7. CallOK(setter[s])'
    <3>1. want["rate"] \in Nat /\ epoch >= want["rate"]
          /\ ("rate" \in sure => want["rate"] >= label["rate"])
          /\ (stream = "on" /\ ~Doubt("rate") => hw["rate"] >= want["rate"])
      BY KnobNames, TuningValues DEF Settings, TypeOK
    <3>2. QED
      BY <2>1, <2>3, <2>6, <3>1 DEF CallOK
  <2>8. Calls' /\ Alone'
    <3>1. c.raced = 1 \/ ~Races(s)
      OBVIOUS
    <3>2. epoch' >= epoch /\ epoch' \in Nat
      BY <2>1 DEF TypeOK
    <3>3. QED
      BY <1>0, <2>1, <2>7, <3>1, <3>2, BeginKeeps
  <2>9. StartOK' /\ GenerationsSeen'
    BY <2>1, <2>4, StartStands, KnobNames DEF GenerationsSeen
  <2>10. QED
    BY <1>1, <2>5, <2>8, <2>9
<1>7. QED
  BY <1>3, <1>4, <1>5, <1>6

(* The rest of a rate change that stopped the stream. *)
LEMMA RestartGoesOn ==
  ASSUME TypeOK, TypeOK', IInv, NEW s \in Setters, SetRateStarts(s)
  PROVE  IInv'
<1> USE DEF IInv
<1> DEFINE c(p) == [setter[s] EXCEPT !.pc = p]
<1>1. /\ setter[s].pc = "restart" /\ setter[s] \in Call /\ CallOK(setter[s])
      /\ UNCHANGED <<label, gen, ring, rpc, seen, g, cfgd, block, out, epoch, sure>>
  BY DEF SetRateStarts, readerVars, Calls, TypeOK
<1>2. /\ setter[s].knob = "rate" /\ setter[s].e \in Nat /\ setter[s].old \in Nat
      /\ setter[s].raced \in {0, 1}
      /\ epoch >= setter[s].e /\ epoch >= setter[s].old
      /\ "rate" \in sure => setter[s].old >= label["rate"]
      /\ setter[s].raced = 0 => /\ rpc \notin StartingUp /\ stream = "off"
                                /\ want["rate"] = setter[s].e /\ setter[s].e > label["rate"]
  BY <1>1, CallParts DEF CallOK
<1>3. Fresh' /\ NoStaleSamples' /\ GenerationsSeen'
  BY <1>1, FreshStands DEF NoStaleSamples, GenerationsSeen
<1>4. ASSUME NEW p \in {"label", "fallback"}, GoesOn(s, p)
      PROVE  /\ setter' = [setter EXCEPT ![s] = c(p)]
             /\ setter'[s].pc = p /\ setter'[s].raced = setter[s].raced
             /\ setter'[s].knob = "rate" /\ setter'[s].e = setter[s].e
             /\ setter'[s].old = setter[s].old
             /\ c(p).raced = setter[s].raced /\ \A k \in Knobs : Doubt(k) => Doubt(k)'
  <2>1. setter' = [setter EXCEPT ![s] = c(p)]
    BY <1>4 DEF GoesOn
  <2>2. setter'[s] = c(p)
    BY <2>1, CallIs
  <2>3. /\ c(p).pc = p /\ c(p).raced = setter[s].raced /\ c(p).knob = setter[s].knob
        /\ c(p).e = setter[s].e /\ c(p).old = setter[s].old
    BY <1>1, CallMoved
  <2>4. \A k \in Knobs : Doubt(k) => Doubt(k)'
    BY <1>1, <1>2, <2>1, <2>3, StepDoubts
  <2>5. QED
    BY <1>2, <2>1, <2>2, <2>3, <2>4
<1>5. ASSUME NEW p \in {"label", "fallback"}, GoesOn(s, p), CallOK(setter[s])'
      PROVE  Calls' /\ Alone'
  BY <1>1, <1>4, <1>5, StepKeeps
<1>6. CASE StreamStarts(want) /\ GoesOn(s, "label") /\ UNCHANGED <<want, faults>>
  <2>1. hw' = want /\ want' = want /\ stream' = "on"
    BY <1>6 DEF StreamStarts
  <2>2. Settings'
    <3>1. want["rate"] >= want["rate"]
      BY KnobNames, TuningValues DEF TypeOK
    <3>2. QED
      BY <1>1, <2>1, <3>1 DEF Settings
  <2>3. CallOK(setter[s])'
    BY <1>1, <1>2, <1>4, <1>6, <2>1 DEF CallOK
  <2>4. StartOK'
    BY <1>1, <1>4, <1>6, <2>1, StartStands, KnobNames
  <2>5. QED
    BY <1>3, <1>5, <1>6, <2>2, <2>3, <2>4
<1>7. CASE /\ want' = [want EXCEPT !["rate"] = setter[s].old]
           /\ GoesOn(s, "fallback") /\ UNCHANGED <<hw, stream>>
  <2>1. want'["rate"] = setter[s].old /\ want'["freq"] = want["freq"]
    BY <1>2, <1>7, Raised, KnobNames DEF TypeOK
  <2>2. setter[s].raced = 1 => Doubt("rate")'
    BY <1>4, <1>7, KnobNames DEF Doubt
  <2>3. Settings'
    BY <1>1, <1>2, <1>7, <2>1, <2>2 DEF Settings, Knobs, TypeOK
  <2>4. CallOK(setter[s])'
    BY <1>1, <1>2, <1>4, <1>7 DEF CallOK
  <2>5. StartOK'
    <3>1. rpc = "starting" => setter[s].raced = 1
      BY <1>2 DEF StartingUp
    <3>2. QED
      BY <1>1, <1>4, <1>7, <2>2, <3>1, StartStands, KnobNames
  <2>6. QED
    BY <1>3, <1>5, <1>7, <2>3, <2>4, <2>5
<1>8. QED
  BY <1>6, <1>7 DEF SetRateStarts

LEMMA RestartFallsBack ==
  ASSUME TypeOK, TypeOK', IInv, NEW s \in Setters, SetRateFallsBack(s)
  PROVE  IInv'
<1> USE DEF IInv
<1>1. /\ setter[s].pc = "fallback" /\ setter[s].raced \in {0, 1} /\ setter[s].knob = "rate"
      /\ setter[s].raced = 0 => rpc \notin StartingUp /\ stream = "off"
      /\ UNCHANGED <<label, want, gen, ring, rpc, seen, g, cfgd, block, out, epoch>>
      /\ setter' = [setter EXCEPT ![s] = Idle]
      /\ sure' = IF setter[s].raced = 1 THEN sure \ {"rate"} ELSE sure
  BY CallParts DEF SetRateFallsBack, devVars, readerVars, Calls, CallOK, TypeOK
<1>2. Fresh' /\ NoStaleSamples' /\ GenerationsSeen'
  BY <1>1, FreshStands DEF NoStaleSamples, GenerationsSeen
<1>3. setter'[s] = Idle /\ Idle.raced = 1
  BY <1>1, CallIs DEF Idle
<1>4. CallOK(setter[s])'
  BY <1>3 DEF CallOK, Idle
<1>5. Calls' /\ Alone'
  BY <1>1, <1>3, <1>4, StepKeeps
<1>6. \A k \in Knobs : Doubt(k) => Doubt(k)'
  BY <1>1, StepDoubts
<1>7. (hw' = want /\ stream' = "on") \/ UNCHANGED <<hw, stream>>
  BY DEF SetRateFallsBack, StreamStarts
<1>8. Settings'
  <2>1. want["rate"] >= want["rate"]
    BY KnobNames, TuningValues DEF TypeOK
  <2>2. QED
    BY <1>1, <1>6, <1>7, <2>1, KnobNames DEF Settings
<1>9. StartOK'
  BY <1>1, <1>6, StartStands, KnobNames
<1>10. QED
  BY <1>2, <1>5, <1>8, <1>9

(* The label of one setting is written: it is the driver's, or no longer
   sure. *)
LEMMA LabelSet ==
  ASSUME TypeOK, TypeOK', IInv, NEW s \in Setters, SetLabel(s)
  PROVE  IInv'
<1> USE DEF IInv
<1> DEFINE k == setter[s].knob  e == setter[s].e
<1>1. /\ setter[s].pc = "label" /\ setter[s] \in Call /\ CallOK(setter[s])
      /\ UNCHANGED <<stream, hw, want, ring, rpc, seen, g, cfgd, block, out, epoch>>
      /\ label' = [label EXCEPT ![k] = e] /\ gen' = gen + 1
      /\ setter' = [setter EXCEPT ![s] = Idle]
      /\ sure' = SureAfter(k, setter[s].raced)
  BY DEF SetLabel, drvVars, readerVars, Calls, TypeOK
<1>2. /\ k \in Knobs /\ e \in Nat /\ setter[s].raced \in {0, 1} /\ epoch >= e
      /\ setter[s].raced = 0 => /\ rpc \notin StartingUp /\ want[k] = e
                                /\ stream = "on" => hw[k] >= e
  BY <1>1, CallParts DEF CallOK
<1>3. label'[k] = e /\ \A j \in Knobs : j # k => label'[j] = label[j]
  BY <1>1, <1>2, Raised DEF TypeOK
<1>4. /\ setter[s].raced = 1 => sure' = sure \ {k}
      /\ setter[s].raced = 0 => sure' = sure \cup {k}
      /\ \A j \in sure' : j \in Knobs /\ (j # k => j \in sure)
  BY <1>1, <1>2 DEF SureAfter, TypeOK
<1>5. NoStaleSamples' /\ GenerationsSeen'
  BY <1>1 DEF NoStaleSamples, GenerationsSeen, TypeOK
<1>6. setter[s].raced = 1 => \A j \in sure' : j \in sure /\ label'[j] = label[j]
  BY <1>3, <1>4
<1>7. Fresh'
  <2>1. rpc = "gain" => setter[s].raced = 1
    BY <1>2 DEF StartingUp
  <2>2. QED
    BY <1>1, <1>6, <2>1, FreshStands
<1>8. Calls' /\ Alone'
  <2>1. setter'[s] = Idle /\ Idle.raced = 1
    <3>1. setter'[s] = Idle
      BY <1>1, CallIs
    <3>2. QED
      BY <3>1 DEF Idle
  <2>2. CallOK(setter[s])'
    BY <2>1 DEF CallOK, Idle
  <2>3. QED
    BY <1>1, <1>6, <2>1, <2>2, StepKeeps
<1>9. ASSUME NEW j \in Knobs, Doubt(j), j # k \/ setter[s].raced = 1 PROVE Doubt(j)'
  BY <1>1, <1>2, <1>4, <1>9, StepDoubts
<1>10. Settings'
  <2>1. \A j \in Knobs : epoch' >= want'[j] /\ epoch' >= label'[j]
    BY <1>1, <1>2, <1>3 DEF Settings
  <2>2. \A j \in sure' : want'[j] >= label'[j] /\ (stream' = "on" => hw'[j] >= label'[j])
    BY <1>1, <1>2, <1>3, <1>4 DEF Settings
  <2>3. stream' = "on" /\ ~Doubt("rate")' => hw'["rate"] >= want'["rate"]
    BY <1>1, <1>2, <1>9, KnobNames DEF Settings
  <2>4. QED
    BY <2>1, <2>2, <2>3 DEF Settings
<1>11. StartOK'
  <2>1. rpc = "starting" => setter[s].raced = 1
    BY <1>2 DEF StartingUp
  <2>2. QED
    BY <1>1, <1>6, <1>9, <2>1, StartStands, KnobNames
<1>12. QED
  BY <1>5, <1>7, <1>8, <1>10, <1>11

LEMMA IInvStep ==
  ASSUME TypeOK, TypeOK', IInv, [Next]_vars
  PROVE  IInv'
<1> USE DEF IInv
<1>1. CASE UNCHANGED vars
  BY <1>1, SettingsStand, DoubtStands, KnobNames DEF vars, drvVars, devVars, readerVars,
     StartOK, GenerationsSeen, Fresh, NoStaleSamples
<1>2. CASE Capture
  <2>1. Settings' /\ Calls' /\ Alone'
    BY <1>2, SettingsStand DEF Capture, devVars, readerVars
  <2>2. StartOK' /\ GenerationsSeen' /\ NoStaleSamples'
    BY <1>2, DoubtStands, KnobNames DEF Capture, devVars, readerVars, StartOK,
       GenerationsSeen, NoStaleSamples
  <2>3. Fresh'
    <3>1. \A k \in sure : hw[k] >= label[k]
      BY <1>2 DEF Capture, Settings
    <3>2. NotBefore(ring, label, sure) => NotBefore(ring', label', sure')
      BY <1>2, <3>1, NotBeforeAppend DEF Capture, devVars, TypeOK
    <3>3. QED
      BY <1>2, <3>2 DEF Capture, devVars, readerVars, Fresh
  <2>4. QED
    BY <2>1, <2>2, <2>3
<1>3. CASE StreamDies
  <2>1. /\ stream' = "off"
        /\ UNCHANGED <<hw, ring, want, label, gen, setter, rpc, cfgd, seen, g, block, out,
                       sure, epoch>>
    BY <1>3 DEF StreamDies, devVars, readerVars
  <2>2. Settings' /\ StartOK'
    BY <2>1, DoubtStands, KnobNames DEF Settings, StartOK
  <2>3. Calls' /\ Alone'
    BY <2>1 DEF Calls, CallOK, Alone
  <2>4. QED
    BY <2>1, <2>2, <2>3 DEF GenerationsSeen, Fresh, NoStaleSamples
<1>4. ASSUME NEW s \in Setters, SetterStep(s) PROVE IInv'
  BY <1>4, RestartGoesOn, RestartFallsBack, LabelSet DEF SetterStep
<1>5. ASSUME UNCHANGED <<stream, hw, devVars, setter, sure, epoch>>,
             rpc' \in StartingUp => rpc \in StartingUp
      PROVE  Settings' /\ Calls' /\ Alone'
  BY <1>5, SettingsStand DEF devVars
<1>6. CASE ReadSettings
  <2>1. StartOK'
    <3>1. want["rate"] >= want["rate"]
      BY KnobNames, TuningValues DEF TypeOK
    <3>2. QED
      BY <1>6, <3>1 DEF ReadSettings, devVars, StartOK, Settings
  <2>2. QED
    BY <1>5, <1>6, <2>1 DEF ReadSettings, drvVars, devVars, GenerationsSeen, Fresh,
       NoStaleSamples, StartingUp, InLoop
<1>7. CASE StartStream
  <2>1. rpc = "starting" /\ UNCHANGED <<devVars, setter, seen, g, block, out, sure, epoch>>
    BY <1>7 DEF StartStream
  <2>2. \/ rpc' = "gain" /\ ring' = <<>> /\ hw' = cfgd /\ stream' = "on"
        \/ rpc' = "ended" /\ UNCHANGED <<ring, hw, stream>>
    BY <1>7 DEF StartStream, StreamStarts, drvVars
  <2>3. Settings'
    BY <2>1, <2>2, DoubtStands, KnobNames DEF devVars, Settings, StartOK
  <2>4. Calls' /\ Alone'
    <3>1. \A s \in Setters : setter[s].raced # 0
      BY <2>1 DEF Calls, CallOK, StartingUp
    <3>2. QED
      BY <2>1, <3>1 DEF devVars, Calls, CallOK, Alone
  <2>5. StartOK' /\ GenerationsSeen'
    BY <2>1, <2>2 DEF StartOK, GenerationsSeen, InLoop
  <2>6. Fresh'
    BY <2>1, <2>2, NotBeforeNone DEF Fresh, InLoop, GenerationsSeen
  <2>7. QED
    BY <2>1, <2>3, <2>4, <2>5, <2>6 DEF NoStaleSamples
<1>8. CASE EnterLoop
  BY <1>5, <1>8 DEF EnterLoop, drvVars, devVars, StartOK, GenerationsSeen, Fresh,
     NoStaleSamples, StartingUp, InLoop, TypeOK
<1>9. CASE BlockStart
  BY <1>5, <1>9 DEF BlockStart, drvVars, devVars, StartOK, GenerationsSeen, Fresh,
     NoStaleSamples, StartingUp, InLoop, TypeOK
<1>10. CASE Discard
  BY <1>5, <1>10, NotBeforeNone DEF Discard, devVars, StartOK, GenerationsSeen, Fresh,
     NoStaleSamples, StartingUp, InLoop, TypeOK
<1>11. CASE BlockFull \/ ErrorReported \/ ReadMore \/ ReadWaits \/ ReadFails
  BY <1>5, <1>11 DEF BlockFull, ErrorReported, ReadMore, ReadWaits, ReadFails, drvVars,
     devVars, StartOK, GenerationsSeen, Fresh, NoStaleSamples, StartingUp, InLoop
<1>12. CASE StopRequested
  BY <1>5, <1>12 DEF StopRequested, drvVars, devVars, StartOK, GenerationsSeen, Fresh,
     NoStaleSamples, StartingUp, InLoop
<1>13. CASE ReadGets
  <2>1. Fresh'
    <3>1. /\ rpc = "read" /\ rpc' = "check" /\ ring # <<>>
          /\ block' = Append(block, Head(ring)) /\ ring' = Tail(ring)
          /\ UNCHANGED <<label, sure, gen, seen>>
      BY <1>13 DEF ReadGets, devVars
    <3>2. Head(ring) \in Tuning
      BY <3>1 DEF TypeOK
    <3>3. NotBefore(ring, label, sure) /\ NotBefore(block, label, sure)
            => NotBefore(ring', label', sure') /\ NotBefore(block', label', sure')
      BY <3>1, <3>2, NotBeforeRead, NotBeforeAppend DEF TypeOK
    <3>4. QED
      BY <3>1, <3>3 DEF Fresh, InLoop
  <2>2. QED
    BY <1>5, <1>13, <2>1 DEF ReadGets, devVars, StartOK, GenerationsSeen,
       NoStaleSamples, StartingUp, InLoop
<1>14. CASE LabelBlock
  <2>1. StartOK' /\ GenerationsSeen'
    BY <1>14 DEF LabelBlock, devVars, StartOK, GenerationsSeen, StartingUp, InLoop
  <2>2. Fresh'
    BY <1>14, NotBeforeNone DEF LabelBlock, drvVars, devVars, Fresh, InLoop
  <2>3. NoStaleSamples'
    BY <1>14 DEF LabelBlock, Fresh, NotBefore, NoStaleSamples, InLoop
  <2>4. QED
    BY <1>5, <1>14, <2>1, <2>2, <2>3 DEF LabelBlock, drvVars, StartingUp
<1>15. CASE Reopen
  <2>1. epoch + 1 >= epoch + 1
    BY DEF TypeOK
  <2>2. Settings'
    BY <1>15, <2>1 DEF Reopen, Settings, Uniform
  <2>3. Calls' /\ Alone'
    <3>1. \A s \in Setters : setter[s].pc = "idle" /\ setter'[s] = setter[s]
      BY <1>15 DEF Reopen
    <3>2. \A s \in Setters : setter[s].raced # 0
      BY <3>1 DEF Calls, CallOK
    <3>3. QED
      BY <3>1, <3>2 DEF Calls, CallOK, Alone
  <2>4. StartOK' /\ GenerationsSeen' /\ Fresh'
    BY <1>15 DEF Reopen, StartOK, GenerationsSeen, Fresh, StartingUp, InLoop
  <2>5. QED
    BY <1>15, <2>2, <2>3, <2>4 DEF Reopen, NoStaleSamples
<1>16. QED
  BY <1>1, <1>2, <1>3, <1>4, <1>6, <1>7, <1>8, <1>9, <1>10, <1>11, <1>12, <1>13, <1>14,
     <1>15, SetterBegins DEF Next, Reader

(* No block ever mixes in samples captured before its label's settings took
   effect, but for the settings that a raced call was the last to set: for
   every number of setters, block length, ring size and number of setter
   calls and faults, and whenever the calls come. *)
THEOREM NoStale == Spec => []NoStaleSamples
<1>1. TypeOK /\ TypeOK' /\ IInv /\ [Next]_vars => IInv'
  BY IInvStep
<1>2. IInv => NoStaleSamples
  BY DEF IInv
<1>3. QED
  BY <1>1, <1>2, InitIInv, TypeCorrect, PTL DEF Spec

-----------------------------------------------------------------------------
(* The label protocol implements the stream of labelled blocks. *)

LEMMA SameTuning == Tuning = Stream!Tuning /\ Knobs = Stream!Knobs
BY DEF Tuning, Stream!Tuning, Knobs, Stream!Knobs

LEMMA LabelMovesOn ==
  ASSUME label' \in Tuning, sure' \subseteq Knobs, out' = out,
         \A k \in sure' : label'[k] >= label[k] /\ (k \in sure \/ label'[k] > label[k])
  PROVE  Stream!Next
BY SameTuning DEF Stream!Next, Stream!Change

LEMMA StreamStep ==
  ASSUME TypeOK, TypeOK', IInv, [Next]_vars
  PROVE  [Stream!Next]_<<label, sure, out>>
<1>1. CASE UNCHANGED <<label, sure, out>>
  BY <1>1
<1>2. ASSUME NEW s \in Setters, SetLabel(s) PROVE Stream!Next
  <2> DEFINE k == setter[s].knob  e == setter[s].e
  <2>1. /\ setter[s].pc = "label" /\ setter[s] \in Call /\ CallOK(setter[s])
        /\ label' = [label EXCEPT ![k] = e] /\ sure' = SureAfter(k, setter[s].raced)
        /\ out' = out
    BY <1>2 DEF SetLabel, IInv, Calls, TypeOK
  <2>2. /\ k \in Knobs /\ e \in Nat /\ setter[s].raced \in {0, 1}
        /\ setter[s].raced = 0 => e > label[k] \/ (k \in sure /\ e >= label[k])
    BY <2>1, CallParts DEF CallOK
  <2>3. label'[k] = e /\ \A j \in Knobs : j # k => label'[j] = label[j]
    BY <2>1, <2>2, Raised DEF TypeOK
  <2>4. \A j \in sure' : label'[j] >= label[j] /\ (j \in sure \/ label'[j] > label[j])
    <3> SUFFICES ASSUME NEW j \in sure'
                 PROVE  label'[j] >= label[j] /\ (j \in sure \/ label'[j] > label[j])
      OBVIOUS
    <3>1. j \in Knobs /\ label[j] \in Nat
      BY TuningValues DEF TypeOK
    <3>2. CASE j = k
      BY <2>1, <2>2, <2>3, <3>1, <3>2 DEF SureAfter
    <3>3. CASE j # k
      BY <2>1, <2>3, <3>1, <3>3 DEF SureAfter
    <3>4. QED
      BY <3>2, <3>3
  <2>5. QED
    BY <2>1, <2>4, LabelMovesOn DEF TypeOK
<1>3. CASE LabelBlock
  <2>1. CASE gen = seen /\ block # <<>>
    <3>1. /\ UNCHANGED <<label, sure>>
          /\ out' = [label |-> label, samples |-> block, sure |-> sure]
      BY <1>3, <2>1 DEF LabelBlock, devVars
    <3>2. out'.samples = block
      BY <3>1
    <3>3. block \in Seq(Tuning) /\ NotBefore(block, label, sure)
      BY <1>3, <2>1 DEF LabelBlock, IInv, Fresh, InLoop, TypeOK
    <3>4. Stream!HandOver
      BY <2>1, <3>1, <3>2, <3>3, SameTuning DEF Stream!HandOver, NotBefore
    <3>5. QED
      BY <3>4 DEF Stream!Next
  <2>2. QED
    BY <1>3, <2>1 DEF LabelBlock, devVars
<1>4. CASE Reopen
  <2>1. \A k \in Knobs : label'[k] = epoch + 1 /\ epoch + 1 > label[k]
    BY <1>4, NextRequest DEF Reopen, Uniform, IInv
  <2>2. \A k \in Knobs : label'[k] >= label[k] /\ label'[k] > label[k]
    BY <2>1, TuningValues DEF TypeOK
  <2>3. QED
    BY <1>4, <2>2, LabelMovesOn DEF Reopen, TypeOK
<1>5. CASE Capture \/ StreamDies \/ Discard
  BY <1>1, <1>5 DEF Capture, StreamDies, Discard, devVars
<1>6. ASSUME NEW s \in Setters,
             \/ SetCenterFreq(s) \/ SetSampleRate(s)
             \/ SetSameRate(s) \/ SetRateStops(s) \/ SetRateStarts(s)
      PROVE  UNCHANGED <<label, sure, out>>
  BY <1>6 DEF SetCenterFreq, SetSampleRate, SetSameRate, SetRateStops, SetRateStarts,
     Request, devVars
<1>7. ASSUME NEW s \in Setters, SetCenterFreqFails(s) \/ SetRateFallsBack(s)
      PROVE  Stream!Next
  <2>1. UNCHANGED <<label, out>> /\ sure' \subseteq sure
    BY <1>7 DEF SetCenterFreqFails, SetRateFallsBack, devVars
  <2>2. \A k \in Knobs : label'[k] >= label[k]
    BY <2>1, TuningValues DEF TypeOK
  <2>3. QED
    BY <2>1, <2>2, LabelMovesOn DEF TypeOK
<1>8. CASE \/ ReadSettings \/ StartStream \/ EnterLoop \/ BlockStart \/ BlockFull
           \/ ErrorReported \/ ReadMore \/ ReadGets \/ ReadFails \/ ReadWaits
           \/ StopRequested
  BY <1>1, <1>8 DEF ReadSettings, StartStream, EnterLoop, BlockStart, BlockFull,
     ErrorReported, ReadMore, ReadGets, ReadFails, ReadWaits, StopRequested, devVars
<1>9. QED
  BY <1>1, <1>2, <1>3, <1>4, <1>5, <1>6, <1>7, <1>8
     DEF Next, SetterStep, Reader, vars, devVars

(* What reaches the decoders is a stream of labelled blocks whose labels
   only move on and whose samples are never older than their label, for the
   settings the promise is given for; where a raced call withdrew it, only a
   label for a later request restores it. *)
THEOREM ImplementsStream == Spec => StreamSpec
<1>1. Init => Stream!Init
  BY DEF Init, Stream!Init, Uniform, Knobs, Stream!Knobs
<1>2. TypeOK /\ TypeOK' /\ IInv /\ [Next]_vars => IInv'
  BY IInvStep
<1>3. TypeOK /\ TypeOK' /\ IInv /\ [Next]_vars => [Stream!Next]_<<label, sure, out>>
  BY StreamStep
<1>4. QED
  BY <1>1, <1>2, <1>3, InitIInv, TypeCorrect, PTL DEF Spec, StreamSpec, Stream!Spec

-----------------------------------------------------------------------------
(* The inductive invariant behind the two properties about settled states:
   label, setting asked for, driver and samples are the same tuning, up to
   the settings that are not sure and the ones a call is changing. *)

(* A call for k may have changed the driver while the label still says the
   setting before; a restart that did not race captures nothing. *)
Busy(k) == \E s \in Setters : /\ setter[s].pc # "idle" /\ setter[s].knob = k
                              /\ setter[s].pc = "label" \/ setter[s].raced = 1

Settled == {t \in Tuning : \A k \in sure : t[k] = label[k] \/ Busy(k)}

AllIn(q, S) == \A i \in DOMAIN q : q[i] \in S

(* The acquire thread runs, and the driver reported no failed change. *)
Trusted ==
  rpc \in StartingUp \/ (rpc \in InLoop /\ "error" \notin raised)

(* The generation the reader saw is the current one. *)
Current ==
  rpc \in StartingUp \/ (rpc \in InLoop \ {"discard"} /\ gen = seen)

(* A call for k is between the request and its label. *)
Changing(k) == \E s \in Setters : setter[s].pc \in {"label", "restart"} /\ setter[s].knob = k

CallExact(c) ==
  /\ c.raced = 0 /\ c.pc = "label" =>
       want[c.knob] = c.e /\ (Trusted /\ stream = "on" => hw[c.knob] = c.e)
  /\ c.raced = 0 /\ c.pc = "restart" /\ Trusted /\ "rate" \in sure =>
       c.old = label["rate"]

CallsExact == \A s \in Setters : CallExact(setter[s])

WantExact ==
  Trusted => \A k \in Knobs : Doubt(k) \/ Changing(k) \/ want[k] = label[k]

DriverExact ==
  /\ Trusted /\ stream = "on" => \A k \in Knobs : Doubt(k) \/ hw[k] = want[k]
  /\ rpc = "starting" => \A k \in Knobs : Doubt(k) \/ cfgd[k] = want[k]

SamplesExact ==
  Trusted /\ Current => AllIn(ring, Settled) /\ AllIn(block, Settled)

Exact == CallsExact /\ WantExact /\ DriverExact /\ SamplesExact

-----------------------------------------------------------------------------
LEMMA AllInNone == \A S : AllIn(<<>>, S)
BY DEF AllIn

LEMMA AllInMore ==
  ASSUME NEW q, NEW S, NEW T, S \subseteq T, AllIn(q, S)
  PROVE  AllIn(q, T)
BY DEF AllIn

LEMMA AllInAppend ==
  ASSUME NEW q \in Seq(Tuning), NEW S, NEW x \in Tuning, AllIn(q, S), x \in S
  PROVE  AllIn(Append(q, x), S)
BY DEF AllIn

LEMMA AllInRead ==
  ASSUME NEW q \in Seq(Tuning), NEW S, q # <<>>, AllIn(q, S)
  PROVE  Head(q) \in S /\ AllIn(Tail(q), S)
BY DEF AllIn

(* While no setting becomes sure, changes its label or stops being changed,
   samples that agree with their labels do so still. *)
LEMMA SettledGrows ==
  ASSUME \A k \in sure' : k \in sure /\ label'[k] = label[k] /\ (Busy(k) => Busy(k)')
  PROVE  Settled \subseteq Settled'
BY DEF Settled

LEMMA SamplesStand ==
  ASSUME SamplesExact, Trusted' /\ Current' => Trusted /\ Current,
         \A k \in sure' : k \in sure /\ label'[k] = label[k] /\ (Busy(k) => Busy(k)'),
         ring' = ring \/ ring' = <<>>, block' = block \/ block' = <<>>
  PROVE  SamplesExact'
BY SettledGrows, AllInMore, AllInNone DEF SamplesExact

LEMMA CallsStand ==
  ASSUME UNCHANGED <<setter, sure>>
  PROVE  \A k \in Knobs : /\ Doubt(k)' <=> Doubt(k)
                          /\ Changing(k)' <=> Changing(k)
                          /\ Busy(k)' <=> Busy(k)
BY DEF Doubt, Changing, Busy

(* Where one setter's call begins, goes on or ends, the others raced. *)
LEMMA OneExact ==
  ASSUME NEW s \in Setters, \A t \in Setters \ {s} : setter'[t].raced = 1,
         CallExact(setter[s])'
  PROVE  CallsExact'
<1>1. ASSUME NEW t \in Setters, t # s PROVE CallExact(setter[t])'
  BY <1>1 DEF CallExact
<1>2. QED
  BY <1>1 DEF CallsExact

LEMMA OthersRaced ==
  ASSUME TypeOK, Alone, NEW s \in Setters, setter[s].pc # "idle",
         NEW c, setter' = [setter EXCEPT ![s] = c]
  PROVE  \A t \in Setters \ {s} : setter'[t].raced = 1
BY CallIs DEF Alone

LEMMA BeginChanging ==
  ASSUME TypeOK, NEW s \in Setters, setter[s].pc = "idle", NEW c, Begin(s, c)
  PROVE  \A k \in Knobs : (Changing(k) => Changing(k)') /\ (Busy(k) => Busy(k)')
<1> SUFFICES ASSUME NEW k \in Knobs
             PROVE  (Changing(k) => Changing(k)') /\ (Busy(k) => Busy(k)')
  OBVIOUS
<1>1. ASSUME NEW t \in Setters, setter[t].pc # "idle", setter[t].knob = k
      PROVE  /\ setter'[t].pc = setter[t].pc /\ setter'[t].knob = k
             /\ setter'[t].raced = 1
  BY <1>1, BeginIs
<1>2. QED
  BY <1>1 DEF Changing, Busy

(* Of a call that goes on or ends, what it is changing may end. *)
LEMMA StepChanging ==
  ASSUME TypeOK, NEW s \in Setters, NEW c, setter' = [setter EXCEPT ![s] = c],
         NEW k \in Knobs
  PROVE  /\ k # setter[s].knob \/ setter[s].pc = "fallback"
              => (Changing(k) => Changing(k)')
         /\ (\/ k # setter[s].knob
             \/ setter[s].pc # "label" /\ setter[s].raced = 0
             \/ c.pc # "idle" /\ c.knob = k /\ (c.pc = "label" \/ c.raced = 1))
              => (Busy(k) => Busy(k)')
<1>1. setter'[s] = c /\ \A t \in Setters \ {s} : setter'[t] = setter[t]
  BY CallIs
<1>2. ASSUME k # setter[s].knob \/ setter[s].pc = "fallback", Changing(k) PROVE Changing(k)'
  <2>1. PICK t \in Setters : setter[t].pc \in {"label", "restart"} /\ setter[t].knob = k
    BY <1>2 DEF Changing
  <2>2. t # s
    BY <1>2, <2>1
  <2>3. QED
    BY <1>1, <2>1, <2>2 DEF Changing
<1>3. ASSUME \/ k # setter[s].knob
             \/ setter[s].pc # "label" /\ setter[s].raced = 0
             \/ c.pc # "idle" /\ c.knob = k /\ (c.pc = "label" \/ c.raced = 1),
             Busy(k)
      PROVE  Busy(k)'
  <2>1. PICK t \in Setters : /\ setter[t].pc # "idle" /\ setter[t].knob = k
                             /\ setter[t].pc = "label" \/ setter[t].raced = 1
    BY <1>3 DEF Busy
  <2>2. CASE t # s
    BY <1>1, <2>1, <2>2 DEF Busy
  <2>3. CASE t = s
    BY <1>1, <1>3, <2>1, <2>3 DEF Busy
  <2>4. QED
    BY <2>2, <2>3
<1>4. QED
  BY <1>2, <1>3

LEMMA InitExact == Init => Exact
<1> SUFFICES ASSUME Init PROVE Exact
  OBVIOUS
<1>1. CallsExact
  BY DEF Init, CallsExact, CallExact, Idle
<1>2. WantExact /\ DriverExact
  BY DEF Init, WantExact, DriverExact
<1>3. SamplesExact
  BY AllInNone DEF Init, SamplesExact
<1>4. QED
  BY <1>1, <1>2, <1>3 DEF Exact

(* Before a call that did not race begins, its setting is as the label says. *)
LEMMA QuietIsExact ==
  ASSUME IInv, Exact, NEW s \in Setters, MayTune(s), ~Races(s), Trusted, NEW k \in sure,
         k \in Knobs
  PROVE  ~Doubt(k) /\ want[k] = label[k]
<1>1. \A t \in Setters : setter[t].pc = "idle"
  BY DEF MayTune, Races
<1>2. ~Doubt(k) /\ ~Changing(k)
  BY <1>1 DEF Doubt, Changing
<1>3. QED
  BY <1>2 DEF Exact, WantExact

LEMMA RequestExact ==
  ASSUME TypeOK, TypeOK', IInv, Exact, NEW s \in Setters, MayTune(s),
         NEW k \in Knobs, NEW p \in {"label", "restart"}, Request(s, k, p),
         UNCHANGED raised, ring' = ring \/ ring' = <<>>,
         \/ stream' = "off" /\ (p = "restart" => k = "rate")
         \/ p = "label" /\ stream' = "on" /\ stream = "on"
            /\ hw' = [hw EXCEPT ![k] = epoch + 1]
  PROVE  Exact'
<1> USE DEF Exact
<1> DEFINE c == [pc |-> p, knob |-> k, e |-> epoch + 1, old |-> want[k],
                 raced |-> IF Races(s) THEN 1 ELSE 0]
<1>1. /\ want' = [want EXCEPT ![k] = epoch + 1]
      /\ UNCHANGED <<label, gen, rpc, cfgd, seen, block, sure>>
      /\ Begin(s, c) /\ setter[s].pc = "idle"
  BY DEF Request, MayTune, readerVars
<1>2. /\ setter'[s] = c /\ \A t \in Setters \ {s} : setter'[t].raced = 1
  BY <1>1, BeginIs
<1>3. /\ setter'[s].pc = p /\ setter'[s].knob = k /\ setter'[s].e = epoch + 1
      /\ setter'[s].old = want[k] /\ setter'[s].raced = (IF Races(s) THEN 1 ELSE 0)
  BY <1>2
<1>4. /\ want'[k] = epoch + 1 /\ \A j \in Knobs : j # k => want'[j] = want[j]
      /\ stream' = "on" => /\ stream = "on" /\ hw'[k] = epoch + 1
                           /\ \A j \in Knobs : j # k => hw'[j] = hw[j]
  BY <1>1, NextRequest, Raised DEF TypeOK, IInv
<1>5. \A j \in Knobs : (Doubt(j) => Doubt(j)') /\ (Changing(j) => Changing(j)')
                       /\ (Busy(j) => Busy(j)')
  BY <1>1, BeginDoubts, BeginChanging
<1>6. (Trusted' <=> Trusted) /\ (Current' <=> Current)
  BY <1>1 DEF Trusted, Current
<1>7. CallsExact'
  <2>1. setter'[s].raced = 0 /\ p = "restart" /\ Trusted /\ "rate" \in sure
          => want["rate"] = label["rate"]
    BY <1>3, QuietIsExact, KnobNames
  <2>2. CallExact(setter[s])'
    BY <1>1, <1>3, <1>4, <1>6, <2>1 DEF CallExact
  <2>3. QED
    BY <1>2, <2>2, OneExact
<1>8. WantExact'
  <2>1. Changing(k)'
    BY <1>3 DEF Changing
  <2>2. QED
    BY <1>1, <1>4, <1>5, <1>6, <2>1 DEF WantExact
<1>9. DriverExact'
  <2>1. rpc = "starting" => Doubt(k)'
    BY <1>3 DEF Races, StartingUp, Doubt
  <2>2. QED
    BY <1>1, <1>4, <1>5, <1>6, <2>1 DEF DriverExact
<1>10. SamplesExact'
  <2>1. \A j \in sure' : j \in sure /\ label'[j] = label[j] /\ (Busy(j) => Busy(j)')
    BY <1>1, <1>5 DEF TypeOK
  <2>2. QED
    BY <1>1, <1>6, <2>1, SamplesStand
<1>11. QED
  BY <1>7, <1>8, <1>9, <1>10

LEMMA SetterBeginsExact ==
  ASSUME TypeOK, TypeOK', IInv, Exact, NEW s \in Setters,
         \/ SetCenterFreq(s) \/ SetSampleRate(s) \/ SetRateStops(s)
         \/ SetCenterFreqFails(s) \/ SetSameRate(s)
  PROVE  Exact'
<1> USE DEF Exact
<1>0. MayTune(s) /\ setter[s].pc = "idle"
  BY DEF SetCenterFreq, SetSampleRate, SetRateStops, SetCenterFreqFails, SetSameRate, MayTune
<1>1. ASSUME NEW k \in Knobs, Request(s, k, "label"), DriverTakes(k) PROVE Exact'
  <2>1. \/ stream' = "off"
        \/ stream' = "on" /\ stream = "on" /\ hw' = [hw EXCEPT ![k] = epoch + 1]
    BY <1>1 DEF DriverTakes, TypeOK
  <2>2. UNCHANGED <<raised, ring>>
    BY <1>1 DEF DriverTakes
  <2>3. QED
    BY <1>0, <1>1, <2>1, <2>2, RequestExact
<1>2. CASE SetCenterFreq(s) \/ SetSampleRate(s)
  BY <1>1, <1>2, KnobNames DEF SetCenterFreq, SetSampleRate
<1>3. CASE SetRateStops(s)
  BY <1>0, <1>3, RequestExact, KnobNames DEF SetRateStops
<1>4. ASSUME NEW c, Begin(s, c), UNCHANGED <<stream, hw, label, gen, rpc, cfgd, seen, block, ring>>,
             sure' \subseteq sure, Trusted' => Trusted, want'["rate"] = want["rate"],
             Trusted' => want'["freq"] = want["freq"] \/ "freq" \notin sure',
             CallExact(setter[s])'
      PROVE  Exact'
  <2>1. \A j \in Knobs : (Doubt(j) => Doubt(j)') /\ (Changing(j) => Changing(j)')
                         /\ (Busy(j) => Busy(j)')
    BY <1>0, <1>4, BeginDoubts, BeginChanging
  <2>2. CallsExact'
    BY <1>4, BeginIs, OneExact
  <2>3. Trusted' => want'["freq"] = want["freq"] \/ Doubt("freq")'
    BY <1>4 DEF Doubt
  <2>4. WantExact'
    BY <1>4, <2>1, <2>3 DEF WantExact, Knobs
  <2>5. DriverExact'
    <3>1. rpc = "starting" => Trusted'
      BY <1>4 DEF Trusted, StartingUp
    <3>2. QED
      BY <1>4, <2>1, <2>3, <3>1 DEF DriverExact, Knobs
  <2>6. SamplesExact'
    <3>1. \A j \in sure' : j \in sure /\ label'[j] = label[j] /\ (Busy(j) => Busy(j)')
      BY <1>4, <2>1 DEF TypeOK
    <3>2. Trusted' /\ Current' => Trusted /\ Current
      BY <1>4 DEF Current
    <3>3. QED
      BY <1>4, <3>1, <3>2, SamplesStand
  <2>7. QED
    BY <2>2, <2>4, <2>5, <2>6
<1>5. CASE SetCenterFreqFails(s)
  <2>1. /\ want' = [want EXCEPT !["freq"] = epoch + 1] /\ raised' = raised \cup {"error"}
        /\ UNCHANGED <<stream, hw, ring, label, gen, rpc, cfgd, seen, block>>
        /\ Begin(s, Idle) /\ sure' = IF Races(s) THEN sure \ {"freq"} ELSE sure
    BY <1>5 DEF SetCenterFreqFails, drvVars, readerVars
  <2>2. want'["rate"] = want["rate"]
    BY <2>1, NextRequest, Raised, KnobNames DEF TypeOK, IInv
  <2>3. Trusted' => Trusted
    BY <2>1 DEF Trusted
  <2>4. Trusted' => "freq" \notin sure'
    BY <2>1 DEF Races, Trusted
  <2>5. CallExact(setter[s])'
    <3>1. setter'[s] = Idle
      BY <2>1, BeginIs
    <3>2. QED
      BY <3>1 DEF CallExact, Idle
  <2>6. QED
    BY <1>4, <2>1, <2>2, <2>3, <2>4, <2>5
<1>6. CASE SetSameRate(s)
  <2> DEFINE c == [pc |-> "label", knob |-> "rate", e |-> want["rate"], old |-> want["rate"],
                   raced |-> IF Races(s) \/ "rate" \notin sure THEN 1 ELSE 0]
  <2>1. /\ UNCHANGED <<stream, hw, ring, want, label, gen, rpc, cfgd, seen, block, sure, raised>>
        /\ Begin(s, c)
    BY <1>6 DEF SetSameRate, drvVars, devVars, readerVars
  <2>2. setter'[s] = c
    BY <2>1, BeginIs
  <2>3. /\ setter'[s].pc = "label" /\ setter'[s].knob = "rate"
        /\ setter'[s].e = want["rate"]
        /\ setter'[s].raced = (IF Races(s) \/ "rate" \notin sure THEN 1 ELSE 0)
    BY <2>2
  <2>4. Trusted' <=> Trusted
    BY <2>1 DEF Trusted
  <2>5. setter'[s].raced = 0 /\ Trusted /\ stream = "on" => hw["rate"] = want["rate"]
    <3>1. setter'[s].raced = 0 => ~Races(s) /\ "rate" \in sure
      BY <2>3
    <3>2. QED
      BY <1>0, <3>1, QuietIsExact, KnobNames DEF DriverExact
  <2>6. CallExact(setter[s])'
    BY <2>1, <2>3, <2>4, <2>5 DEF CallExact
  <2>7. QED
    BY <1>4, <2>1, <2>4, <2>6
<1>7. QED
  BY <1>2, <1>3, <1>5, <1>6

LEMMA RestartExact ==
  ASSUME TypeOK, TypeOK', IInv, Exact, NEW s \in Setters, SetRateStarts(s)
  PROVE  Exact'
<1> USE DEF Exact
<1> DEFINE c(p) == [setter[s] EXCEPT !.pc = p]
<1>1. /\ setter[s].pc = "restart" /\ setter[s] \in Call
      /\ CallOK(setter[s]) /\ CallExact(setter[s])
      /\ UNCHANGED <<label, gen, ring, rpc, cfgd, seen, block, raised, sure>>
  BY DEF SetRateStarts, readerVars, IInv, Calls, CallsExact, TypeOK
<1>2. /\ setter[s].knob = "rate" /\ setter[s].old \in Nat /\ setter[s].raced \in {0, 1}
      /\ setter[s].raced = 0 =>
           /\ rpc \notin StartingUp /\ stream = "off" /\ want["rate"] = setter[s].e
           /\ Trusted /\ "rate" \in sure => setter[s].old = label["rate"]
  BY <1>1, CallParts DEF CallOK, CallExact
<1>3. (Trusted' <=> Trusted) /\ (Current' <=> Current)
  BY <1>1 DEF Trusted, Current
<1>4. ASSUME NEW p \in {"label", "fallback"}, GoesOn(s, p)
      PROVE  /\ setter'[s].pc = p /\ setter'[s].raced = setter[s].raced
             /\ setter'[s].knob = "rate" /\ setter'[s].e = setter[s].e
             /\ \A t \in Setters \ {s} : setter'[t].raced = 1
             /\ \A k \in Knobs : (Doubt(k) => Doubt(k)') /\ (Busy(k) => Busy(k)')
             /\ Changing("freq") => Changing("freq")'
  <2>1. setter' = [setter EXCEPT ![s] = c(p)]
    BY <1>4 DEF GoesOn
  <2>2. setter'[s] = c(p) /\ \A t \in Setters \ {s} : setter'[t].raced = 1
    BY <1>1, <2>1, CallIs, OthersRaced DEF IInv
  <2>3. /\ c(p).pc = p /\ c(p).raced = setter[s].raced /\ c(p).knob = setter[s].knob
        /\ c(p).e = setter[s].e
    BY <1>1, CallMoved
  <2>4. \A k \in Knobs : Doubt(k) => Doubt(k)'
    BY <1>1, <1>2, <2>1, <2>3, StepDoubts
  <2>5. \A k \in Knobs : Busy(k) => Busy(k)'
    BY <1>1, <1>2, <2>1, <2>3, StepChanging
  <2>6. Changing("freq") => Changing("freq")'
    BY <1>2, <2>1, StepChanging, KnobNames
  <2>7. QED
    BY <1>2, <2>2, <2>3, <2>4, <2>5, <2>6
<1>5. ASSUME NEW p \in {"label", "fallback"}, GoesOn(s, p) PROVE SamplesExact'
  <2>1. \A k \in sure' : k \in sure /\ label'[k] = label[k] /\ (Busy(k) => Busy(k)')
    BY <1>1, <1>4, <1>5 DEF TypeOK
  <2>2. QED
    BY <1>1, <1>3, <2>1, SamplesStand
<1>6. CASE StreamStarts(want) /\ GoesOn(s, "label") /\ UNCHANGED <<want, faults>>
  <2>1. hw' = want /\ want' = want /\ stream' = "on"
    BY <1>6 DEF StreamStarts
  <2>2. CallExact(setter[s])'
    BY <1>2, <1>4, <1>6, <2>1 DEF CallExact
  <2>3. CallsExact'
    BY <1>4, <1>6, <2>2, OneExact
  <2>4. Changing("rate")'
    BY <1>4, <1>6 DEF Changing
  <2>5. WantExact'
    BY <1>1, <1>3, <1>4, <1>6, <2>1, <2>4 DEF WantExact, Knobs
  <2>6. DriverExact'
    BY <1>1, <1>4, <1>6, <2>1 DEF DriverExact
  <2>7. QED
    BY <1>5, <1>6, <2>3, <2>5, <2>6
<1>7. CASE /\ want' = [want EXCEPT !["rate"] = setter[s].old]
           /\ GoesOn(s, "fallback") /\ UNCHANGED <<hw, stream>>
  <2>1. want'["rate"] = setter[s].old /\ want'["freq"] = want["freq"]
    BY <1>2, <1>7, Raised, KnobNames DEF TypeOK
  <2>2. setter[s].raced = 1 => Doubt("rate")'
    BY <1>4, <1>7, KnobNames DEF Doubt
  <2>3. CallExact(setter[s])'
    BY <1>4, <1>7 DEF CallExact
  <2>4. CallsExact'
    BY <1>4, <1>7, <2>3, OneExact
  <2>5. Trusted' => Doubt("rate")' \/ want'["rate"] = label'["rate"]
    BY <1>1, <1>2, <1>3, <2>1, <2>2 DEF Doubt
  <2>6. WantExact'
    BY <1>1, <1>3, <1>4, <1>7, <2>1, <2>5 DEF WantExact, Knobs
  <2>7. DriverExact'
    <3>1. stream = "on" \/ rpc = "starting" => Doubt("rate")'
      BY <1>2, <2>2 DEF StartingUp
    <3>2. QED
      BY <1>1, <1>3, <1>4, <1>7, <2>1, <3>1 DEF DriverExact, Knobs
  <2>8. QED
    BY <1>5, <1>7, <2>4, <2>6, <2>7
<1>8. QED
  BY <1>6, <1>7 DEF SetRateStarts

LEMMA FallsBackExact ==
  ASSUME TypeOK, TypeOK', IInv, Exact, NEW s \in Setters, SetRateFallsBack(s)
  PROVE  Exact'
<1> USE DEF Exact
<1>1. /\ setter[s].pc = "fallback" /\ setter[s].raced \in {0, 1} /\ setter[s].knob = "rate"
      /\ setter[s].raced = 0 => rpc \notin StartingUp /\ stream = "off"
      /\ UNCHANGED <<label, want, gen, ring, rpc, cfgd, seen, block, raised>>
      /\ setter' = [setter EXCEPT ![s] = Idle]
      /\ sure' = IF setter[s].raced = 1 THEN sure \ {"rate"} ELSE sure
  BY CallParts DEF SetRateFallsBack, devVars, readerVars, IInv, Calls, CallOK, TypeOK
<1>2. (Trusted' <=> Trusted) /\ (Current' <=> Current)
  BY <1>1 DEF Trusted, Current
<1>3. CallsExact'
  <2>1. CallExact(setter[s])'
    <3>1. setter'[s] = Idle
      BY <1>1, CallIs
    <3>2. QED
      BY <3>1 DEF CallExact, Idle
  <2>2. QED
    BY <1>1, <2>1, OneExact, OthersRaced DEF IInv
<1>4. \A k \in Knobs : (Doubt(k) => Doubt(k)') /\ (Changing(k) => Changing(k)')
  BY <1>1, StepDoubts, StepChanging
<1>5. setter[s].raced = 1 => Doubt("rate")'
  BY <1>1 DEF Doubt
<1>6. WantExact'
  BY <1>1, <1>2, <1>4 DEF WantExact
<1>7. DriverExact'
  <2>1. hw' = want \/ UNCHANGED <<hw, stream>>
    BY DEF SetRateFallsBack, StreamStarts
  <2>2. QED
    BY <1>1, <1>2, <1>4, <2>1 DEF DriverExact
<1>8. SamplesExact'
  <2>1. \A k \in sure' : k \in sure /\ label'[k] = label[k] /\ (Busy(k) => Busy(k)')
    <3> SUFFICES ASSUME NEW k \in sure' PROVE k \in sure /\ (Busy(k) => Busy(k)')
      BY <1>1
    <3>1. k \in sure /\ k \in Knobs /\ (k # "rate" \/ setter[s].raced = 0)
      BY <1>1 DEF TypeOK
    <3>2. QED
      BY <1>1, <3>1, StepChanging
  <2>2. QED
    BY <1>1, <1>2, <2>1, SamplesStand
<1>9. QED
  BY <1>3, <1>6, <1>7, <1>8

LEMMA LabelExact ==
  ASSUME TypeOK, TypeOK', IInv, Exact, NEW s \in Setters, SetLabel(s)
  PROVE  Exact'
<1> USE DEF Exact
<1> SUFFICES ASSUME NEW k \in Knobs, NEW e \in Nat, k = setter[s].knob, e = setter[s].e
             PROVE  Exact'
  BY CallParts DEF TypeOK
<1>1. /\ setter[s].pc = "label" /\ setter[s] \in Call
      /\ CallOK(setter[s]) /\ CallExact(setter[s])
      /\ UNCHANGED <<stream, hw, want, ring, rpc, seen, cfgd, block, raised>>
      /\ label' = [label EXCEPT ![k] = e] /\ gen' = gen + 1
      /\ setter' = [setter EXCEPT ![s] = Idle]
      /\ sure' = SureAfter(k, setter[s].raced)
  BY DEF SetLabel, drvVars, readerVars, IInv, Calls, CallsExact, TypeOK
<1>2. /\ k \in Knobs /\ e \in Nat /\ setter[s].raced \in {0, 1}
      /\ setter[s].raced = 0 => /\ rpc \notin StartingUp /\ want[k] = e
                                /\ Trusted /\ stream = "on" => hw[k] = e
  BY <1>1, CallParts DEF CallOK, CallExact
<1>3. label'[k] = e /\ \A j \in Knobs : j # k => label'[j] = label[j]
  BY <1>1, <1>2, Raised DEF TypeOK
<1>4. /\ setter[s].raced = 1 => sure' = sure \ {k}
      /\ \A j \in sure' : j \in Knobs /\ (j # k => j \in sure)
  BY <1>1, <1>2 DEF SureAfter, TypeOK
<1>5. Trusted' <=> Trusted
  BY <1>1 DEF Trusted
<1>6. ASSUME NEW j \in Knobs, j # k
      PROVE  (Doubt(j) => Doubt(j)') /\ (Changing(j) => Changing(j)') /\ (Busy(j) => Busy(j)')
  <2>1. Doubt(j) => Doubt(j)'
    BY <1>1, <1>4, <1>6, StepDoubts
  <2>2. (Changing(j) => Changing(j)') /\ (Busy(j) => Busy(j)')
    BY <1>1, <1>6, StepChanging
  <2>3. QED
    BY <2>1, <2>2
<1>7. setter[s].raced = 1 => Doubt(k)'
  BY <1>4 DEF Doubt
<1>8. CallsExact'
  <2>1. CallExact(setter[s])'
    <3>1. setter'[s] = Idle
      BY <1>1, CallIs
    <3>2. QED
      BY <3>1 DEF CallExact, Idle
  <2>2. QED
    BY <1>1, <2>1, OneExact, OthersRaced DEF IInv
<1>9. WantExact'
  BY <1>1, <1>2, <1>3, <1>5, <1>6, <1>7 DEF WantExact
<1>10. DriverExact'
  BY <1>1, <1>2, <1>5, <1>6, <1>7 DEF DriverExact, StartingUp
<1>11. SamplesExact'
  <2>1. CASE setter[s].raced = 0
    <3>1. ~Current'
      BY <1>1, <1>2, <2>1 DEF Current, IInv, GenerationsSeen, TypeOK
    <3>2. QED
      BY <3>1 DEF SamplesExact
  <2>2. CASE setter[s].raced = 1
    <3>1. \A j \in sure' : j \in sure /\ label'[j] = label[j] /\ (Busy(j) => Busy(j)')
      BY <1>3, <1>4, <1>6, <2>2
    <3>2. Current' => Current
      BY <1>1 DEF Current, IInv, GenerationsSeen, TypeOK
    <3>3. QED
      BY <1>1, <1>5, <3>1, <3>2, SamplesStand
  <2>3. QED
    BY <1>2, <2>1, <2>2
<1>12. QED
  BY <1>8, <1>9, <1>10, <1>11

LEMMA ExactStep ==
  ASSUME TypeOK, TypeOK', IInv, Exact, [Next]_vars
  PROVE  Exact'
<1> USE DEF Exact
<1>1. ASSUME UNCHANGED <<label, setter, want, stream, hw, sure>>,
             Trusted' => Trusted, rpc' = "starting" => rpc = "starting" /\ cfgd' = cfgd
      PROVE  CallsExact' /\ WantExact' /\ DriverExact'
  BY <1>1, CallsStand DEF CallsExact, CallExact, WantExact, DriverExact
<1>2. ASSUME UNCHANGED <<label, setter, sure>>,
             ring' = ring \/ ring' = <<>>, block' = block \/ block' = <<>>,
             Trusted' /\ Current' => Trusted /\ Current
      PROVE  SamplesExact'
  BY <1>2, CallsStand, SamplesStand DEF TypeOK
<1>3. CASE UNCHANGED vars
  BY <1>1, <1>2, <1>3 DEF vars, drvVars, devVars, readerVars, Trusted, Current
<1>4. CASE Capture
  <2>1. /\ stream = "on" /\ hw \in Tuning /\ ring' = Append(ring, hw)
        /\ UNCHANGED <<stream, hw, label, setter, want, sure, rpc, cfgd, raised, gen, seen,
                       block>>
    BY <1>4 DEF Capture, devVars, readerVars, TypeOK
  <2>2. (Trusted' <=> Trusted) /\ (Current' <=> Current)
    BY <2>1 DEF Trusted, Current
  <2>3. CallsExact' /\ WantExact' /\ DriverExact'
    BY <1>1, <2>1, <2>2
  <2>4. ASSUME Trusted, NEW k \in sure, ~Busy(k) PROVE hw[k] = label[k]
    <3>1. k \in Knobs
      BY DEF TypeOK
    <3>2. ~Doubt(k)
      BY <2>4 DEF Doubt, Busy
    <3>3. ~Changing(k)
      <4> SUFFICES ASSUME NEW s \in Setters, setter[s].pc \in {"label", "restart"},
                          setter[s].knob = k
                   PROVE  FALSE
        BY DEF Changing
      <4>1. setter[s].pc = "restart" /\ setter[s].raced # 1
        BY <2>4 DEF Busy
      <4>2. CallOK(setter[s]) /\ setter[s].raced = 0
        BY <4>1, CallParts DEF IInv, Calls, TypeOK
      <4>3. QED
        BY <2>1, <4>1, <4>2 DEF CallOK
    <3>4. QED
      BY <2>1, <2>4, <3>1, <3>2, <3>3 DEF WantExact, DriverExact
  <2>5. Trusted => hw \in Settled
    BY <2>1, <2>4 DEF Settled
  <2>6. Settled' = Settled
    BY <2>1, CallsStand DEF Settled, TypeOK
  <2>7. Trusted /\ Current => AllIn(ring', Settled)
    <3>1. ring \in Seq(Tuning)
      BY DEF TypeOK
    <3>2. hw \in Settled /\ AllIn(ring, Settled) => AllIn(Append(ring, hw), Settled)
      BY <2>1, <3>1, AllInAppend
    <3>3. QED
      BY <2>1, <2>5, <3>2 DEF SamplesExact
  <2>8. SamplesExact'
    BY <2>1, <2>2, <2>6, <2>7 DEF SamplesExact
  <2>9. QED
    BY <2>3, <2>8
<1>5. CASE StreamDies
  <2>1. /\ stream' = "off" /\ raised \subseteq raised'
        /\ UNCHANGED <<label, setter, want, sure, rpc, cfgd, gen, seen, block, ring, hw>>
    BY <1>5 DEF StreamDies, devVars, readerVars
  <2>2. (Trusted' => Trusted) /\ (Current' <=> Current)
    BY <2>1 DEF Trusted, Current
  <2>3. CallsExact' /\ WantExact' /\ DriverExact'
    BY <2>1, <2>2, CallsStand DEF CallsExact, CallExact, WantExact, DriverExact
  <2>4. QED
    BY <1>2, <2>1, <2>2, <2>3
<1>6. ASSUME NEW s \in Setters, SetterStep(s) PROVE Exact'
  BY <1>6, RestartExact, FallsBackExact, LabelExact DEF SetterStep
<1>7. CASE ReadSettings
  <2>1. /\ rpc = "gate" /\ cfgd' = want
        /\ UNCHANGED <<label, setter, want, stream, hw, sure, ring, block>>
    BY <1>7 DEF ReadSettings, drvVars, devVars
  <2>2. Trusted /\ Current
    BY <2>1 DEF Trusted, Current, StartingUp
  <2>3. CallsExact' /\ WantExact' /\ DriverExact'
    BY <2>1, <2>2, CallsStand DEF CallsExact, CallExact, WantExact, DriverExact
  <2>4. QED
    BY <1>2, <2>1, <2>2, <2>3
<1>8. CASE StartStream
  <2>1. /\ rpc = "starting"
        /\ UNCHANGED <<label, setter, want, sure, raised, gen, seen, block>>
    BY <1>8 DEF StartStream, devVars
  <2>2. \/ rpc' = "gain" /\ ring' = <<>> /\ hw' = cfgd
        \/ rpc' = "ended" /\ UNCHANGED <<ring, stream, hw>>
    BY <1>8 DEF StartStream, StreamStarts, drvVars
  <2>3. Trusted /\ Current
    BY <2>1 DEF Trusted, Current, StartingUp
  <2>4. CallsExact'
    <3>1. \A s \in Setters : setter[s].raced # 0
      BY <2>1 DEF IInv, Calls, CallOK, StartingUp
    <3>2. QED
      BY <2>1, <3>1 DEF CallsExact, CallExact
  <2>5. WantExact' /\ DriverExact'
    BY <2>1, <2>2, <2>3, CallsStand DEF WantExact, DriverExact
  <2>6. SamplesExact'
    BY <1>2, <2>1, <2>2, <2>3
  <2>7. QED
    BY <2>4, <2>5, <2>6
<1>9. CASE EnterLoop
  BY <1>1, <1>2, <1>9 DEF EnterLoop, drvVars, devVars, Trusted, Current, StartingUp, InLoop
<1>10. CASE BlockStart \/ BlockFull \/ StopRequested
            \/ ErrorReported \/ ReadMore \/ ReadFails \/ ReadWaits
  BY <1>1, <1>2, <1>10 DEF BlockStart, BlockFull, StopRequested, ErrorReported,
     ReadMore, ReadFails, ReadWaits, drvVars, devVars, Trusted, Current, StartingUp, InLoop
<1>11. CASE LabelBlock
  BY <1>1, <1>2, <1>11 DEF LabelBlock, drvVars, devVars, Trusted, Current, StartingUp, InLoop
<1>12. CASE Discard
  <2>1. /\ rpc = "discard" /\ rpc' = "check" /\ ring' = <<>> /\ block' = <<>>
        /\ UNCHANGED <<label, setter, want, sure, raised, stream, hw>>
    BY <1>12 DEF Discard, devVars, IInv, GenerationsSeen
  <2>2. Trusted' => Trusted
    BY <2>1 DEF Trusted, InLoop, StartingUp
  <2>3. SamplesExact'
    BY <2>1, AllInNone DEF SamplesExact
  <2>4. QED
    BY <1>1, <2>1, <2>2, <2>3
<1>13. CASE ReadGets
  <2>1. /\ rpc = "read" /\ rpc' = "check" /\ ring # <<>>
        /\ block' = Append(block, Head(ring)) /\ ring' = Tail(ring)
        /\ UNCHANGED <<label, setter, want, sure, raised, stream, hw, gen, seen>>
    BY <1>13 DEF ReadGets, devVars
  <2>2. (Trusted' => Trusted) /\ (Current' => Current)
    BY <2>1 DEF Trusted, Current, InLoop, StartingUp
  <2>3. Head(ring) \in Tuning /\ ring \in Seq(Tuning) /\ block \in Seq(Tuning)
    BY <2>1 DEF TypeOK
  <2>4. AllIn(ring, Settled) /\ AllIn(block, Settled)
          => AllIn(ring', Settled) /\ AllIn(block', Settled)
    <3>1. AllIn(ring, Settled) => Head(ring) \in Settled /\ AllIn(Tail(ring), Settled)
      BY <2>1, <2>3, AllInRead
    <3>2. Head(ring) \in Settled /\ AllIn(block, Settled)
            => AllIn(Append(block, Head(ring)), Settled)
      BY <2>3, AllInAppend
    <3>3. QED
      BY <2>1, <3>1, <3>2
  <2>5. Settled' = Settled
    BY <2>1, CallsStand DEF Settled, TypeOK
  <2>6. SamplesExact'
    BY <2>2, <2>4, <2>5 DEF SamplesExact
  <2>7. QED
    BY <1>1, <2>1, <2>2, <2>6
<1>14. CASE Reopen
  <2>1. /\ rpc' = "gate" /\ stream' = "off" /\ ring' = <<>> /\ want' = label'
        /\ block' = <<>> /\ setter' = setter
        /\ \A s \in Setters : setter[s].pc = "idle"
    BY <1>14 DEF Reopen, IInv, GenerationsSeen
  <2>2. CallsExact'
    BY <2>1 DEF CallsExact, CallExact
  <2>3. QED
    BY <2>1, <2>2, AllInNone DEF WantExact, DriverExact, SamplesExact
<1>15. QED
  BY <1>3, <1>4, <1>5, <1>6, <1>7, <1>8, <1>9, <1>10, <1>11, <1>12, <1>13, <1>14,
     SetterBeginsExact DEF Next, Reader

(* A block handed over with no change under way and no failed change
   reported has exactly the settings on its label, but for those a raced
   call was the last to set, for every number of setters and every bound. *)
THEOREM SettledExact == Spec => SettledBlockIsAsLabelled
<1> DEFINE Handed == (out' # out /\ ~InFlight /\ "error" \notin raised) =>
                       \A i \in DOMAIN out'.samples : \A k \in sure :
                         out'.samples[i][k] = out'.label[k]
<1>1. TypeOK /\ TypeOK' /\ IInv /\ [Next]_vars => IInv'
  BY IInvStep
<1>2. TypeOK /\ TypeOK' /\ IInv /\ Exact /\ [Next]_vars => Exact'
  BY ExactStep
<1>3. TypeOK /\ IInv /\ Exact /\ [Next]_vars => [Handed]_vars
  <2> SUFFICES ASSUME TypeOK, IInv, Exact, Next, out' # out, ~InFlight,
                      "error" \notin raised
               PROVE  \A i \in DOMAIN out'.samples : \A k \in sure :
                        out'.samples[i][k] = out'.label[k]
    OBVIOUS
  <2>1. LabelBlock
    BY DEF Next, SetterStep, Reader, Capture, StreamDies, SetCenterFreq,
       SetCenterFreqFails, SetSampleRate, SetSameRate, SetRateStops, SetRateStarts,
       SetRateFallsBack, SetLabel, Request, ReadSettings, StartStream, EnterLoop,
       BlockStart, Discard, BlockFull, StopRequested, ErrorReported, ReadMore,
       ReadGets, ReadWaits, ReadFails, Reopen
  <2>2. out' = [label |-> label, samples |-> block, sure |-> sure] /\ AllIn(block, Settled)
    BY <2>1 DEF LabelBlock, Exact, SamplesExact, Trusted, Current, InLoop
  <2>3. \A k \in Knobs : ~Busy(k)
    BY DEF InFlight, Busy
  <2>4. \A t \in Settled : \A k \in sure : t[k] = label[k]
    BY <2>3 DEF Settled, TypeOK
  <2>5. QED
    BY <2>2, <2>4 DEF AllIn
<1>4. QED
  BY <1>1, <1>2, <1>3, InitIInv, InitExact, TypeCorrect, PTL
     DEF Spec, SettledBlockIsAsLabelled

(* Once the calls are done the label is what the driver is tuned to, but for
   what a raced call was the last to set, for every number of setters and
   every bound. *)
THEOREM LabelSettles == Spec => []SettledLabel
<1>1. TypeOK /\ TypeOK' /\ IInv /\ [Next]_vars => IInv'
  BY IInvStep
<1>2. TypeOK /\ TypeOK' /\ IInv /\ Exact /\ [Next]_vars => Exact'
  BY ExactStep
<1>3. TypeOK /\ Exact => SettledLabel
  <2> SUFFICES ASSUME TypeOK, Exact, rpc \in InLoop, stream = "on", ~InFlight,
                      "error" \notin raised, NEW k \in sure
               PROVE  label[k] = hw[k]
    BY DEF SettledLabel
  <2>1. k \in Knobs /\ ~Doubt(k) /\ ~Changing(k)
    BY DEF Doubt, Changing, InFlight, TypeOK
  <2>2. QED
    BY <2>1 DEF Exact, WantExact, DriverExact, Trusted
<1>4. QED
  BY <1>1, <1>2, <1>3, InitIInv, InitExact, TypeCorrect, PTL DEF Spec
=============================================================================
