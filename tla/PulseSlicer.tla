------------------------------ MODULE PulseSlicer ------------------------------
(***************************************************************************)
(* The slicers of src/idf/rtl433_core/src/pulse_slicer.c: each goes over   *)
(* the pulses and gaps of a package, collects bits for a decoder and hands *)
(* them over when the message ends.                                        *)
(*                                                                         *)
(* A step takes one pulse and gap, or one of the two ("symbol"), as the    *)
(* loop of the device's slicer does.  It comes from a sender that codes a  *)
(* message as r_device.h and pulse_slicer.h describe the device's coding,  *)
(* with every width a little off, or it is noise.                          *)
(*                                                                         *)
(* The tuning of the bit period to a long preamble is not followed: a      *)
(* device's fit is the period the slicer works with, its clock the one     *)
(* the sender has.                                                         *)
(***************************************************************************)
EXTENDS Integers, BitBuffer

CONSTANTS
  Devices,   \* [coding, short, long, reset, gap, sync, tol, fit, clock], in samples
  Noise,     \* widths of noise
  Preamble,  \* pulses of the OSV1 preamble: 12
  MaxPulses  \* bound: steps since the last silence, syncs before a row

Codings == {"pcm", "ppm", "pwm", "manchester", "dmc", "piwm_raw", "piwm_dc", "nrzs", "osv1", "rzi"}

(* A device has the widths its coding needs (flex.c demands them, too). *)
ASSUME SlicerAssumption ==
  /\ Noise \subseteq Nat /\ {Preamble, MaxPulses} \subseteq Nat
  /\ \A d \in Devices :
       /\ d.coding \in Codings
       /\ {d.short, d.long, d.reset, d.gap, d.sync, d.tol, d.fit, d.clock} \subseteq Nat
       /\ d.short > 0 /\ (d.coding \in {"pcm", "rzi"} => d.long > 0 /\ d.fit > 0)

VARIABLES
  device, \* the r_device
  s,      \* the slicer: [bits, since (time_since_last), half (manbit), phase, seen (preamble),
          \* out (what account_event got in the last step)]
  place,  \* where the sender is in its message: in the middle of a bit, in a preamble
  sent,   \* history: the rows of the message so far
  due,    \* history: <<>>, or <<the rows of the message that ended with the last step>>
  clean,  \* history: 1 while the message is the sender's and no noise
  steps   \* history: steps since the last silence, at most MaxPulses

vars == <<device, s, place, sent, due, clean, steps>>

(* A slicer as it is called for a package: Manchester coding begins with a 0. *)
Fresh(d) == [bits |-> IF d.coding = "manchester" THEN AddBit(Clear, 0) ELSE Clear,
             since |-> 0, half |-> 0, phase |-> 0, seen |-> 0, out |-> <<>>]

-----------------------------------------------------------------------------
(* A step t of a slicer is its state and what it handed over. *)

Dist(a, b) == IF a > b THEN a - b ELSE b - a
Lesser(a, b) == IF a < b THEN a ELSE b
Add(t, bit) == [t EXCEPT !.bits = AddBit(@, bit)]
NewRow(t) == [t EXCEPT !.bits = AddRow(@)]
HasRow(t) == t.bits.num > 0
HasRowBits(t) == HasRow(t) /\ t.bits.len[t.bits.num - 1] > 0
HasData(t) == t.bits.len[0] > 0 \/ t.bits.num > 1

AccountKeeps(t) == [t EXCEPT !.out = Append(@, t.bits)]       \* a mutant
Account(t) == [t EXCEPT !.out = Append(@, t.bits), !.bits = Clear]

(* How many widths w there are in x: rounded, and none for a negative x. *)
Periods(x, w) == IF 2 * x + w < 0 THEN 0 ELSE (2 * x + w) \div (2 * w)
GapLimit(d) == IF d.gap > 0 THEN d.gap ELSE d.reset
MaxZeros(d) == GapLimit(d) \div d.long
Tolerance(d) == IF d.tol > 0 THEN d.tol ELSE d.long \div 4

Pcm(d, t, p, g, last) ==
  LET highs == Periods(p, IF d.short = d.long THEN d.fit ELSE d.short)
      lows == Lesser(Periods(g + d.short - d.long, d.fit), MaxZeros(d))
      b == AddRun(AddRun(t.bits, 1, highs), 0, lows)
      u == CASE d.short # d.long /\ Dist(p, d.short) > Tolerance(d) -> [t EXCEPT !.bits = Clear]
             [] g > GapLimit(d) /\ g <= d.reset
                /\ ~(d.short # d.long /\ Dist(p, d.short) > Tolerance(d)) -> [t EXCEPT !.bits = AddRow(b)]
             [] OTHER -> [t EXCEPT !.bits = b]
  IN IF (last = 1 \/ g > d.reset) /\ HasData(u) THEN Account(u) ELSE u

(* Windows, both ends not included, for 0, 1 and sync. *)
Precise(d, zero, one) ==
  [zero |-> <<zero - d.tol, zero + d.tol>>, one |-> <<one - d.tol, one + d.tol>>,
   sync |-> IF d.sync > 0 THEN <<d.sync - d.tol, d.sync + d.tol>> ELSE <<0, 0>>]
Within(x, w) == x > w[1] /\ x < w[2]
Between(a, b) == (a + b) \div 2

PpmWindows(d) ==
  LET m == Between(d.short, d.long)
  IN IF d.tol > 0 THEN Precise(d, d.short, d.long)
     ELSE [zero |-> <<0, m + 1>>, one |-> <<m, GapLimit(d)>>, sync |-> <<0, 0>>]

Ppm(d, t, p, g, last) ==
  LET w == PpmWindows(d)
      u == CASE Within(g, w.zero) -> Add(t, 0)
             [] ~Within(g, w.zero) /\ Within(g, w.one) -> Add(t, 1)
             [] ~Within(g, w.zero) /\ ~Within(g, w.one) /\ Within(g, w.sync) -> [t EXCEPT !.bits = AddSync(@)]
             [] ~Within(g, w.zero) /\ ~Within(g, w.one) /\ ~Within(g, w.sync) /\ g < d.reset -> NewRow(t)
             [] OTHER -> t
  IN IF (last = 1 \/ g >= d.reset) /\ HasData(u) THEN Account(u) ELSE u

Far(d, p, g) == d.reset + p + g                               \* INT_MAX
PwmWindows(d, far) ==
  LET a == Between(d.short, d.long)
      x == Between(d.sync, d.short)
      y == Between(d.sync, d.long)
  IN CASE d.tol > 0 -> Precise(d, d.long, d.short)
       [] d.tol = 0 /\ d.sync = 0 -> [one |-> <<0, a + 1>>, zero |-> <<a, far>>, sync |-> <<0, 0>>]
       [] d.tol = 0 /\ d.sync > 0 /\ d.sync < d.short
            -> [sync |-> <<0, x + 1>>, one |-> <<x, a + 1>>, zero |-> <<a, far>>]
       [] d.tol = 0 /\ d.sync >= d.short /\ d.sync < d.long
            -> [one |-> <<0, x + 1>>, sync |-> <<x, y + 1>>, zero |-> <<y, far>>]
       [] OTHER -> [one |-> <<0, a + 1>>, zero |-> <<a, y + 1>>, sync |-> <<y, far>>]

Pwm(d, t, p, g, last) ==
  LET w == PwmWindows(d, Far(d, p, g))
      u == CASE Within(p, w.one) -> Add(t, 1)
             [] ~Within(p, w.one) /\ Within(p, w.zero) -> Add(t, 0)
             [] ~Within(p, w.one) /\ ~Within(p, w.zero) /\ Within(p, w.sync) -> [t EXCEPT !.bits = AddSync(@)]
             [] ~Within(p, w.one) /\ ~Within(p, w.zero) /\ ~Within(p, w.sync) /\ p > w.one[1] -> NewRow(t)
             [] OTHER -> t                                    \* a spurious short pulse
  IN CASE (last = 1 \/ g > d.reset) /\ HasRow(u) -> Account(u)
       [] ~((last = 1 \/ g > d.reset) /\ HasRow(u)) /\ d.gap > 0 /\ g > d.gap /\ HasRowBits(u) -> NewRow(u)
       [] OTHER -> u

(* Zero-bit Manchester coding: an edge more than one and a half half periods
   after the last data edge is one. *)
Edge(d, t, w, bit) ==
  IF 2 * (w + t.since) > 3 * d.short THEN [Add(t, bit) EXCEPT !.since = 0] ELSE [t EXCEPT !.since = @ + w]
OutOfClock(d, w) == d.tol > 0 /\ (w < d.short - d.tol \/ w > 2 * d.short + d.tol)

Manchester(d, t, p, g, last) ==
  LET long == 2 * p > 3 * d.short /\ p <= 2 * d.short + d.tol
      u == IF OutOfClock(d, p) \/ OutOfClock(d, g)
             THEN [Add(NewRow(IF long THEN Add(t, 1) ELSE t), 0) EXCEPT !.since = 0]
             ELSE Edge(d, t, p, 1)
  IN IF (last = 1 \/ g > d.reset) /\ HasRow(u) THEN [Add(Account(u), 0) EXCEPT !.since = 0]
     ELSE Edge(d, u, g, 0)

(* Differential Manchester: a short symbol is half of a 1 (phase 1 expects
   the other half), a long one is a 0. *)
DmcFirst(d, t, x) ==
  CASE Dist(x, d.short) < d.tol -> [Add(t, 1) EXCEPT !.phase = 1]
    [] Dist(x, d.short) >= d.tol /\ Dist(x, d.long) < d.tol -> Add(t, 0)
    [] Dist(x, d.short) >= d.tol /\ Dist(x, d.long) >= d.tol /\ x >= d.reset - d.tol /\ HasRow(t) -> Account(t)
    [] OTHER -> t
DmcSymbol(d, t, x) ==
  LET u == [t EXCEPT !.phase = 0]
  IN CASE t.phase = 1 /\ Dist(x, d.short) <= d.tol -> u
       [] t.phase = 1 /\ Dist(x, d.short) > d.tol /\ x < d.reset - d.tol -> IF HasRowBits(u) THEN NewRow(u) ELSE u
       [] OTHER -> DmcFirst(d, u, x)
Dmc(d, t, p, g) == DmcSymbol(d, DmcSymbol(d, t, p), g)

(* Pulse interval and width, raw and differential: each symbol is bits. *)
Ends(d, t, x, last) == IF (last = 1 \/ x > d.reset) /\ HasRow(t) THEN Account(t) ELSE t

RawSymbol(d, t, x, level, last) ==
  LET w == Periods(x, d.short)
      u == CASE x > d.long -> NewRow(t)
             [] x <= d.long /\ Dist(x, w * d.short) < d.tol -> [t EXCEPT !.bits = AddRun(@, level, w)]
             [] x <= d.long /\ Dist(x, w * d.short) >= d.tol /\ x < d.reset /\ HasRowBits(t) -> NewRow(t)
             [] OTHER -> t
  IN Ends(d, u, x, last)
PiwmRaw(d, t, p, g, last) == RawSymbol(d, RawSymbol(d, t, p, 1, 0), g, 0, last)

DcSymbol(d, t, x, last) ==
  LET u == CASE Dist(x, d.short) < d.tol -> Add(t, 1)
             [] Dist(x, d.short) >= d.tol /\ Dist(x, d.long) < d.tol -> Add(t, 0)
             [] Dist(x, d.short) >= d.tol /\ Dist(x, d.long) >= d.tol /\ x < d.reset /\ HasRowBits(t) -> NewRow(t)
             [] OTHER -> t
  IN Ends(d, u, x, last)
PiwmDc(d, t, p, g, last) == DcSymbol(d, DcSymbol(d, t, p, 0), g, last)

(* NRZ-space: a pulse is as many ones as it is long, and a zero. *)
Nrzs(d, t, p, g, last) ==
  LET u == IF p = d.short THEN t
           ELSE [t EXCEPT !.bits = AddBit(AddRun(@, 1, IF p > d.short THEN p \div d.short ELSE 0), 0)]
  IN IF last = 1 \/ g >= d.reset THEN Account(u) ELSE u

(* Oregon Scientific v1: a preamble (phase 0), a sync pulse (1), Manchester
   coded data (2); then the package is of no more interest (3). *)
HalfMin(d) == d.short \div 2
HalfMax(d) == (d.short * 3) \div 2
HalfBit(t, bit) == IF t.half = 0 THEN [Add(t, bit) EXCEPT !.half = 1] ELSE [t EXCEPT !.half = 0]
HalfBits(d, t, w, bit) == IF w > HalfMax(d) THEN HalfBit(HalfBit(t, bit), bit) ELSE HalfBit(t, bit)

Osv1Preamble(d, t, p, g) ==
  CASE p <= HalfMin(d) \/ g <= HalfMin(d) -> [t EXCEPT !.phase = 3]
    [] p > HalfMin(d) /\ g > HalfMin(d) /\ g <= HalfMax(d) -> [t EXCEPT !.seen = Lesser(@, Preamble) + 1]
    [] OTHER -> [t EXCEPT !.phase = IF t.seen + 1 = Preamble THEN 1 ELSE 3]
Osv1Sync(d, t, p, g) ==
  CASE p < 2 * HalfMax(d) \/ g < 2 * HalfMax(d) -> [t EXCEPT !.phase = 3]
    [] p >= 2 * HalfMax(d) /\ g >= 2 * HalfMax(d) /\ g > p -> [HalfBit(t, 0) EXCEPT !.phase = 2]
    [] OTHER -> [t EXCEPT !.phase = 2]
Osv1Data(d, t, p, g, last) ==
  LET u == HalfBits(d, t, p, 1)
  IN IF (last = 1 \/ g > d.reset) /\ HasRow(u) THEN [Account(u) EXCEPT !.phase = 3] ELSE HalfBits(d, u, g, 0)
Osv1(d, t, p, g, last) ==
  CASE t.phase = 0 -> Osv1Preamble(d, t, p, g)
    [] t.phase = 1 -> Osv1Sync(d, t, p, g)
    [] t.phase = 2 -> Osv1Data(d, t, p, g, last)
    [] OTHER -> t

(* Return-to-zero inverted: dips are zeros, the time between them ones.
   phase 0 is at_start. *)
Rzi(d, t, p, g, last) ==
  LET high == IF t.phase = 0 THEN p ELSE p + d.short - d.long
      u == [t EXCEPT !.phase = 1,
                     !.bits = AddRun(@, 1, IF high < 0 THEN 0 ELSE (high + d.long \div 2) \div d.long)]
  IN CASE (last = 1 \/ g > d.reset) /\ u.bits.len[0] > 0 -> [Account(u) EXCEPT !.phase = 0]
       [] (last = 1 \/ g > d.reset) /\ u.bits.len[0] = 0 -> [u EXCEPT !.bits = Clear, !.phase = 0]
       [] OTHER -> Add(u, 0)

Slice(d, t, p, g, last) ==
  CASE d.coding = "pcm" -> Pcm(d, t, p, g, last)
    [] d.coding = "ppm" -> Ppm(d, t, p, g, last)
    [] d.coding = "pwm" -> Pwm(d, t, p, g, last)
    [] d.coding = "manchester" -> Manchester(d, t, p, g, last)
    [] d.coding = "dmc" -> Dmc(d, t, p, g)
    [] d.coding = "piwm_raw" -> PiwmRaw(d, t, p, g, last)
    [] d.coding = "piwm_dc" -> PiwmDc(d, t, p, g, last)
    [] d.coding = "nrzs" -> Nrzs(d, t, p, g, last)
    [] d.coding = "osv1" -> Osv1(d, t, p, g, last)
    [] d.coding = "rzi" -> Rzi(d, t, p, g, last)

-----------------------------------------------------------------------------
(* The sender: what pulse and what gap may come next, the bits they say and
   the place after them.  Places 0 and 1 are, in Manchester coding, the middle
   and the end of a bit, in DMC the ends and the middle of a bit, in RZI the
   start and what follows; 2 and more are the preamble and sync of OSV1. *)

Bits(bit, n) == [i \in 1 .. n |-> bit]
Sym(w, says, next) == [w |-> w, says |-> says, next |-> next]
OsvSync == 2 + Preamble

Level(d, q, level) ==
  CASE d.coding \in {"manchester", "osv1"} ->
         IF q = 0 THEN {Sym(d.short, <<>>, 1), Sym(2 * d.short, <<level>>, 0)} ELSE {Sym(d.short, <<level>>, 0)}
    [] d.coding = "dmc" ->
         IF q = 0 THEN {Sym(d.short, <<1>>, 1), Sym(d.long, <<0>>, 0)} ELSE {Sym(d.short, <<>>, 0)}
    [] d.coding = "piwm_raw" -> {Sym(w * d.short, Bits(level, w), 0) : w \in 1 .. d.long \div d.short}
    [] d.coding = "piwm_dc" -> {Sym(d.short, <<1>>, 0), Sym(d.long, <<0>>, 0)}

Pulse(d, q) ==
  CASE d.coding = "pcm" /\ d.short # d.long -> {Sym(d.short, <<1>>, 0)}
    [] d.coding = "pcm" /\ d.short = d.long -> {Sym(h * d.clock, Bits(1, h), 0) : h \in 1 .. 2}
    [] d.coding = "ppm" -> {Sym(d.short, <<>>, 0)}
    [] d.coding = "pwm" -> {Sym(d.short, <<1>>, 0), Sym(d.long, <<0>>, 0)}
    [] d.coding = "nrzs" -> {Sym(k * d.short + d.short \div 2, Append(Bits(1, k), 0), 0) : k \in 0 .. 2}
    [] d.coding = "rzi" /\ q = 0 -> {Sym(k * d.long, Bits(1, k), 1) : k \in 1 .. 2}
    [] d.coding = "rzi" /\ q = 1 -> {Sym(k * d.long + d.long - d.short, Bits(1, k), 1) : k \in 0 .. 2}
    [] d.coding = "osv1" /\ q >= 2 -> {Sym(IF q = OsvSync THEN 4 * d.short - 1 ELSE d.short, <<>>, q)}
    [] OTHER -> Level(d, q, 1)

Gap(d, q) ==
  CASE d.coding = "pcm" -> {Sym((d.clock - d.short) + k * d.clock, Bits(0, k), 0) :
                             k \in IF d.short = d.long THEN 1 .. 2 ELSE 0 .. 1}
    [] d.coding = "ppm" -> {Sym(d.short, <<0>>, 0), Sym(d.long, <<1>>, 0)}
    [] d.coding \in {"pwm", "nrzs"} -> {Sym(d.short, <<>>, 0)}
    [] d.coding = "rzi" -> {Sym(d.short, <<0>>, 1)}
    [] d.coding = "osv1" /\ q >= 2 ->
         IF q = OsvSync THEN {Sym(4 * d.short - 3, <<>>, 1), Sym(5 * d.short - 1, <<0>>, 0)}
         ELSE {Sym(IF q + 1 = OsvSync THEN 2 * d.short ELSE d.short, <<>>, q + 1)}
    [] OTHER -> Level(d, q, 0)

(* A gap between rows, and one that ends the message: to PCM it is as many
   zeros as there may be. *)
Pause(d) == Sym(d.reset - 1, IF d.coding = "pcm" THEN Bits(0, MaxZeros(d)) ELSE <<>>, 0)
Silence(d) == [Pause(d) EXCEPT !.w = d.reset + 1]
Silences(d, last) ==
  {Silence(d)} \cup IF last = 1 /\ d.coding \in {"pcm", "pwm", "manchester"} THEN {Sym(0, <<>>, 0)} ELSE {}

First(d) == IF d.coding = "osv1" THEN 2 ELSE 0
Nothing(d) == IF d.coding = "manchester" THEN <<<<0>>>> ELSE <<<<>>>>

Init ==
  /\ device \in Devices /\ s = Fresh(device)
  /\ place = First(device) /\ sent = Nothing(device) /\ due = <<>> /\ clean = 1 /\ steps = 0

-----------------------------------------------------------------------------
(* One turn of the slicer's loop; a new package finds the slicer fresh. *)

Take(p, g, last) ==
  /\ LET t == Slice(device, [s EXCEPT !.out = <<>>], p, g, last)
     IN s' = IF last = 1 THEN [Fresh(device) EXCEPT !.out = t.out] ELSE t
  /\ \A r \in Row : s'.bits.syncs[r] <= MaxPulses               \* a bound
  /\ UNCHANGED device

(* Widths are off by less than any tolerance. *)
Off == {-1, 0, 1}
Said(says) == [sent EXCEPT ![Len(sent)] = @ \o says]

Send ==
  /\ clean = 1 /\ steps < MaxPulses
  /\ \E x \in Pulse(device, place) : \E y \in Gap(device, x.next), i \in Off, j \in Off :
       /\ Take(x.w + i, y.w + j, 0)
       /\ sent' = Said(x.says \o y.says) /\ place' = y.next
  /\ due' = <<>> /\ steps' = steps + 1 /\ UNCHANGED clean

SendPause ==
  /\ clean = 1 /\ steps < MaxPulses /\ device.gap > 0 /\ device.coding \in {"pcm", "ppm", "pwm"}
  /\ \E x \in Pulse(device, place), i \in Off :
       /\ Take(x.w + i, Pause(device).w, 0)
       /\ sent' = Append(Said(x.says \o Pause(device).says), <<>>)
  /\ due' = <<>> /\ steps' = steps + 1 /\ UNCHANGED <<place, clean>>

(* A sync, a pulse in PWM and a gap in PPM, begins a row. *)
SendSync ==
  /\ clean = 1 /\ steps < MaxPulses /\ device.sync > 0
  /\ \E i \in Off : IF device.coding = "pwm" THEN Take(device.sync + i, device.short, 0)
                     ELSE Take(device.short, device.sync + i, 0)
  /\ sent' = IF sent[Len(sent)] = <<>> THEN sent ELSE Append(sent, <<>>)
  /\ due' = <<>> /\ steps' = steps + 1 /\ UNCHANGED <<place, clean>>

(* After a silence, or in the next package, there is a new message; the OSV1
   slicer waits for the package. *)
NewMessage(last) ==
  /\ sent' = Nothing(device) /\ place' = First(device) /\ steps' = 0
  /\ clean' = IF last = 1 \/ device.coding # "osv1" THEN 1 ELSE 0

Finish(last) ==
  /\ clean = 1 /\ place < 2
  /\ \E x \in Pulse(device, place), y \in Silences(device, last), i \in Off :
       /\ Take(x.w + i, y.w, last)
       /\ due' = <<Said(x.says \o y.says)>>
       /\ \E r \in DOMAIN due'[1] : due'[1][r] # <<>>
  /\ NewMessage(last)

Interfere(last) ==
  /\ \E p, g \in Noise :
       /\ Take(p, g, last)
       /\ IF last = 1 \/ g > device.reset THEN NewMessage(last)
          ELSE steps < MaxPulses /\ steps' = steps + 1 /\ clean' = 0 /\ sent' = <<>> /\ place' = 0
  /\ due' = <<>>

Next ==
  \/ Send \/ SendPause \/ SendSync
  \/ \E last \in {0, 1} : Finish(last) \/ Interfere(last)

Spec == Init /\ [][Next]_vars

-----------------------------------------------------------------------------
(* Widths that a slicer tells apart, each a little off: with a tolerance, or by
   what lies halfway. *)
Distinct(d, a, b) == Dist(a, b) > IF d.tol > 0 THEN d.tol ELSE 3

(* A device whose widths can be told apart: the timings of a coding do not run
   into one another nor into the limits of a row or a message. *)
Decodable(d) ==
  /\ d.tol # 1 /\ d.gap + 1 < d.reset
  /\ d.sync > 0 => d.coding \in {"ppm", "pwm"}
  /\ d.coding = "pcm" =>
       /\ 2 < d.short /\ d.short <= d.long /\ (d.short < d.long => Tolerance(d) > 0)
       /\ 2 * (Dist(d.clock, d.long) + 2 * Dist(d.clock, d.fit) + 1) < d.fit
       /\ LET most == IF d.short = d.long THEN 2 ELSE 1
          IN most <= MaxZeros(d) /\ (d.clock - d.short) + most * d.clock < GapLimit(d)
       /\ MaxZeros(d) * d.fit < d.reset + d.short - d.long
  /\ d.coding \in {"ppm", "pwm"} =>
       /\ Distinct(d, d.short, d.long)
       /\ d.sync > 0 => Distinct(d, d.sync, d.short) /\ Distinct(d, d.sync, d.long)
       /\ d.tol = 0 => 1 < d.short /\ d.short < d.long
  /\ d.coding = "ppm" =>
       /\ d.tol = 0 => d.sync = 0 /\ d.long + 1 < GapLimit(d)
       /\ \A w \in {d.short, d.long, d.sync} : w + d.tol < d.reset
  /\ d.coding = "pwm" => d.sync # 1 /\ d.short < GapLimit(d)
  /\ d.coding = "manchester" => 4 < d.short /\ d.tol < d.short /\ 2 * d.short + d.tol < d.reset
  /\ d.coding \in {"dmc", "piwm_dc"} =>
       /\ d.tol > 0 /\ Distinct(d, d.short, d.long)
       /\ d.short + d.tol < d.reset /\ d.long + d.tol < d.reset
  /\ d.coding = "piwm_raw" =>
       d.tol > 0 /\ 2 < d.short /\ (d.long \div d.short) * d.short < d.long /\ d.long <= d.reset
  /\ d.coding = "nrzs" => 3 < d.short /\ d.short + 1 < d.reset
  /\ d.coding = "osv1" => 0 < Preamble /\ 3 < d.short /\ 2 * d.short < d.reset
  /\ d.coding = "rzi" => 2 < d.long /\ d.short < d.reset

(* A message that the buffer holds, with a row to spare for the slicers that
   add one. *)
SlotsOf(row) == IF row = <<>> THEN 1 ELSE (Len(row) + RowBits - 1) \div RowBits
Taken(rows) == LET f[r \in 0 .. Len(rows)] == IF r = 0 THEN 0 ELSE f[r - 1] + SlotsOf(rows[r]) IN f
Fits(rows) == Taken(rows)[Len(rows)] < Rows

(* What a decoder gets of a message: its rows, but not those without bits, for
   the space a long row runs on into counts as such.  Zero-bit Manchester with
   a tolerance adds a row with the 0 of a next message, and it cannot tell a
   last 1 that takes half a period from the end of the bit before. *)
Filled(rows) ==
  LET f[r \in 0 .. Len(rows)] ==
        CASE r = 0 -> <<>>
          [] r > 0 /\ rows[r] = <<>> -> f[r - 1]
          [] OTHER -> Append(f[r - 1], rows[r])
  IN f[Len(rows)]
Reads(d, rows, msg) ==
  LET n == Len(msg)
      m == Len(msg[n])
  IN IF d.coding = "manchester" /\ d.tol > 0
       THEN \/ rows = Append(msg, <<0>>)
            \/ msg[n][m] = 1 /\ rows = Append([msg EXCEPT ![n] = SubSeq(@, 1, m - 1)], <<0>>)
     ELSE rows = msg

(* A message of the sender, of any rows, with widths off by less than the
   tolerance, is handed to the decoder exactly once and exactly as it was
   sent, also after noise that a silence or a new package ended: no bits, rows
   or times stay from what was before (pulse_slicer.c:62 "always reset the
   bitbuffer after accounting, so every slicer starts the next message
   clean"). *)
MessageIsDecoded ==
  due # <<>> /\ Fits(due[1]) => Len(s.out) = 1 /\ Reads(device, Filled(Contents(s.out[1])), Filled(due[1]))

(* The rows of the bit buffer never share memory and never leave it, also when
   long rows run on into the next ones and all rows are used up; the next free
   row lies past the last bit. *)
RowsAreApart ==
  LET b == s.bits
      end(r) == r * RowBits + b.len[r]
  IN /\ b \in BitBuffers
     /\ \A r \in Row : b.len[r] > 0 => r < b.num /\ end(r) <= b.free * RowBits
     /\ \A q, r \in Row : q < r /\ b.len[r] > 0 => end(q) <= r * RowBits

-----------------------------------------------------------------------------
(* What senders do to a row, for decoders to undo. *)

ManchesterCoded(row) == [i \in 1 .. 2 * Len(row) |->
  IF i % 2 = 0 THEN row[i \div 2] ELSE 1 - row[(i + 1) \div 2]]
(* The level changes with each bit of the value. *)
Toggled(row, bit) ==
  LET f[i \in 0 .. Len(row)] == IF i = 0 THEN 0 ELSE IF row[i] = bit THEN 1 - f[i - 1] ELSE f[i - 1]
  IN [i \in DOMAIN row |-> f[i]]
(* The level changes with each cycle, and within those of a 0. *)
DifferentialCoded(row, level) ==
  LET f[i \in 0 .. 2 * Len(row)] ==
        IF i = 0 THEN level
        ELSE IF i % 2 = 1 \/ row[i \div 2] = 0 THEN 1 - f[i - 1] ELSE f[i - 1]
  IN [i \in 1 .. 2 * Len(row) |-> f[i]]

(* The decoders' helpers undo the line codes: Manchester, NRZS, NRZM, and
   differential Manchester whatever the level it begins with, once a 1 shows
   where the cycles are. *)
CodesAreUndone ==
  LET row == BitsOf(s.bits, 0)
      n == 2 * Len(row)
  IN /\ ManchesterDecode(ManchesterCoded(row), 0, 0) = [pos |-> n, out |-> row]
     /\ NrzsDecode(Toggled(row, 0)) = row /\ NrzmDecode(Toggled(row, 1)) = row
     /\ Invert(Invert(row)) = row
     /\ 1 \in {row[i] : i \in DOMAIN row} =>
          \A level \in Bit : DifferentialDecode(DifferentialCoded(row, level), 0, 0).out = row

(* bitbuffer_search() finds the first place at or after the start where a part
   of the row stands, also when the row nearly has it before. *)
SearchFindsFirst ==
  LET row == BitsOf(s.bits, 0)
      Is(p, part) == \A i \in DOMAIN part : row[p + i] = part[i]
  IN \A a \in 1 .. Len(row) : \A b \in a .. Len(row), start \in 0 .. a - 1 :
       LET part == SubSeq(row, a, b)
           p == Search(row, start, part)
       IN start <= p /\ p < a /\ Is(p, part) /\ \A q \in start .. p - 1 : ~Is(q, part)

=============================================================================
