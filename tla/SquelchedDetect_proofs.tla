------------------------- MODULE SquelchedDetect_proofs -------------------------
(***************************************************************************)
(* Proofs about push_sdr_flow: the pulse detector, the squelch before it,  *)
(* and both together, for every number of pulses, pieces, flushes and      *)
(* every limit.                                                            *)
(*                                                                         *)
(* First the detector: no sample is lost or counted twice, and what is     *)
(* returned is a whole package.  Width is a sum over the stored pulses and *)
(* gaps, so it needs an induction: sets of naturals that hold 0 and are    *)
(* closed under + 1 hold every natural.  Then what one sample makes of an  *)
(* FSK detector, which is a function of its record alone.  Then the        *)
(* inductive invariant, one lemma for each step.                           *)
(*                                                                         *)
(* Then the squelch: exactly the wanted pieces are processed, in order.  A *)
(* push touches the fate of two pieces only, the new one and the one       *)
(* before it, and LookBehind is what the code remembers of the latter.     *)
(*                                                                         *)
(* Then the composition: its steps are steps of the two.                   *)
(***************************************************************************)
EXTENDS SquelchedDetect, WellFoundedInduction, TLAPS

(* Induction on the naturals, for < is well-founded on them. *)
LEMMA Induction ==
  ASSUME NEW S, 0 \in S, \A n \in Nat : n \in S => n + 1 \in S
  PROVE  Nat \subseteq S
  <1> DEFINE T == Nat \ S
             R == OpToRel(<, Nat)
  <1> SUFFICES ASSUME T # {} PROVE FALSE
    OBVIOUS
  <1>1. IsWellFoundedOn(R, Nat)
    BY NatLessThanWellFounded
  <1>2. \A x, y \in Nat : y < x => <<y, x>> \in R
    BY DEF OpToRel
  <1> HIDE DEF R
  <1>3. PICK x \in T : \A y \in T : <<y, x>> \notin R
    BY <1>1, WFMin
  <1>4. x \in Nat /\ x # 0 /\ x - 1 \in Nat /\ x - 1 < x
    BY <1>3
  <1>5. x - 1 \in S
    BY <1>2, <1>3, <1>4
  <1> QED
    BY <1>3, <1>4, <1>5

-----------------------------------------------------------------------------
(* Width, one pulse and gap at a time. *)

Widths(p, w, n) == w = [k \in 0 .. n |-> IF k = 0 THEN 0 ELSE w[k - 1] + p.pulse[k - 1] + p.gap[k - 1]]

LEMMA WidthsExist ==
  ASSUME NEW p, NEW n \in Nat
  PROVE  \E w : Widths(p, w, n)
  <1> DEFINE S == {m \in Nat : \E w : Widths(p, w, m)}
  <1>1. 0 \in S
    <2> DEFINE w == [k \in 0 .. 0 |-> 0]
    <2>1. Widths(p, w, 0)
      BY DEF Widths
    <2> QED
      BY <2>1
  <1>2. ASSUME NEW m \in Nat, m \in S PROVE m + 1 \in S
    <2>1. PICK w : Widths(p, w, m)
      BY <1>2
    <2> DEFINE v == [k \in 0 .. m + 1 |-> IF k = m + 1 THEN w[m] + p.pulse[m] + p.gap[m] ELSE w[k]]
    <2>2. Widths(p, v, m + 1)
      <3> SUFFICES ASSUME NEW k \in 0 .. m + 1
                   PROVE  v[k] = IF k = 0 THEN 0 ELSE v[k - 1] + p.pulse[k - 1] + p.gap[k - 1]
        BY DEF Widths
      <3>1. \A i \in 0 .. m : w[i] = IF i = 0 THEN 0 ELSE w[i - 1] + p.pulse[i - 1] + p.gap[i - 1]
        BY <2>1 DEF Widths
      <3>2. CASE k = m + 1
        BY <3>2
      <3>3. CASE k # m + 1
        BY <3>1, <3>3
      <3> QED
        BY <3>2, <3>3
    <2> QED
      BY <2>2
  <1> HIDE DEF S
  <1>3. Nat \subseteq S
    BY <1>1, <1>2, Induction
  <1> QED
    BY <1>3 DEF S

LEMMA WidthIs ==
  ASSUME NEW p, NEW n \in Nat
  PROVE  \E w : Widths(p, w, n) /\ Width(p, n) = w[n]
  <1> DEFINE w == CHOOSE v : Widths(p, v, n)
  <1>1. Widths(p, w, n)
    BY WidthsExist
  <1>2. Width(p, n) = w[n]
    BY DEF Width, Widths
  <1> QED
    BY <1>1, <1>2

(* Two packages with the same first n pulses and gaps are as wide so far. *)
LEMMA WidthAgrees ==
  ASSUME NEW p, NEW q, NEW w, NEW v, NEW i \in Nat, NEW j \in Nat, Widths(p, w, i), Widths(q, v, j),
         NEW n \in Nat, n <= i, n <= j,
         \A k \in 0 .. n - 1 : p.pulse[k] = q.pulse[k] /\ p.gap[k] = q.gap[k]
  PROVE  w[n] = v[n]
  <1> DEFINE S == {m \in Nat : m <= n => w[m] = v[m]}
  <1>1. \A k \in 0 .. i : w[k] = IF k = 0 THEN 0 ELSE w[k - 1] + p.pulse[k - 1] + p.gap[k - 1]
    BY DEF Widths
  <1>2. \A k \in 0 .. j : v[k] = IF k = 0 THEN 0 ELSE v[k - 1] + q.pulse[k - 1] + q.gap[k - 1]
    BY DEF Widths
  <1>3. 0 \in S
    BY <1>1, <1>2
  <1>4. ASSUME NEW m \in Nat, m \in S PROVE m + 1 \in S
    <2> SUFFICES ASSUME m + 1 <= n PROVE w[m + 1] = v[m + 1]
      OBVIOUS
    <2>1. w[m] = v[m] /\ p.pulse[m] = q.pulse[m] /\ p.gap[m] = q.gap[m]
      BY <1>4
    <2>2. w[m + 1] = w[m] + p.pulse[m] + p.gap[m] /\ v[m + 1] = v[m] + q.pulse[m] + q.gap[m]
      BY <1>1, <1>2
    <2> QED
      BY <2>1, <2>2
  <1> HIDE DEF S
  <1>5. Nat \subseteq S
    BY <1>3, <1>4, Induction
  <1> QED
    BY <1>5 DEF S

LEMMA WidthSame ==
  ASSUME NEW p, NEW q, NEW n \in Nat,
         \A k \in 0 .. n - 1 : p.pulse[k] = q.pulse[k] /\ p.gap[k] = q.gap[k]
  PROVE  Width(p, n) = Width(q, n)
  <1>1. PICK w : Widths(p, w, n) /\ Width(p, n) = w[n]
    BY WidthIs
  <1>2. PICK v : Widths(q, v, n) /\ Width(q, n) = v[n]
    BY WidthIs
  <1> QED
    BY <1>1, <1>2, WidthAgrees

LEMMA WidthStep ==
  ASSUME NEW p
  PROVE  /\ Width(p, 0) = 0
         /\ \A n \in Nat : Width(p, n + 1) = Width(p, n) + p.pulse[n] + p.gap[n]
  <1>1. Width(p, 0) = 0
    <2>1. PICK w : Widths(p, w, 0) /\ Width(p, 0) = w[0]
      BY WidthIs
    <2> QED
      BY <2>1 DEF Widths
  <1>2. ASSUME NEW n \in Nat PROVE Width(p, n + 1) = Width(p, n) + p.pulse[n] + p.gap[n]
    <2>1. PICK w : Widths(p, w, n + 1) /\ Width(p, n + 1) = w[n + 1]
      BY WidthIs
    <2>2. PICK v : Widths(p, v, n) /\ Width(p, n) = v[n]
      BY WidthIs
    <2>3. w[n] = v[n]
      <3>1. n + 1 \in Nat /\ n <= n + 1 /\ n <= n
        OBVIOUS
      <3> QED
        BY <2>1, <2>2, <3>1, WidthAgrees
    <2>4. w[n + 1] = w[n] + p.pulse[n] + p.gap[n]
      <3>1. n + 1 \in 0 .. n + 1 /\ n + 1 # 0 /\ (n + 1) - 1 = n
        OBVIOUS
      <3>2. \A k \in 0 .. n + 1 : w[k] = IF k = 0 THEN 0 ELSE w[k - 1] + p.pulse[k - 1] + p.gap[k - 1]
        BY <2>1 DEF Widths
      <3> QED
        BY <3>1, <3>2
    <2> QED
      BY <2>1, <2>2, <2>3, <2>4
  <1> QED
    BY <1>1, <1>2

Rows(p) == p.pulse \in [Index -> Nat] /\ p.gap \in [Index -> Nat]

LEMMA WidthType ==
  ASSUME NEW p, Rows(p), NEW n \in 0 .. MaxPulses
  PROVE  Width(p, n) \in Nat
  <1> DEFINE S == {m \in Nat : m <= MaxPulses => Width(p, m) \in Nat}
  <1>1. 0 \in S
    BY WidthStep
  <1>2. ASSUME NEW m \in Nat, m \in S PROVE m + 1 \in S
    <2> SUFFICES ASSUME m + 1 <= MaxPulses PROVE Width(p, m + 1) \in Nat
      OBVIOUS
    <2>1. m \in Index /\ Width(p, m) \in Nat
      BY <1>2, FskAssumption DEF Index
    <2>2. p.pulse[m] \in Nat /\ p.gap[m] \in Nat
      BY <2>1 DEF Rows
    <2> QED
      BY <2>1, <2>2, WidthStep
  <1> HIDE DEF S
  <1>3. Nat \subseteq S
    BY <1>1, <1>2, Induction
  <1> QED
    BY <1>3, FskAssumption DEF S

(* What is left when the first h pulses and gaps are shifted out. *)
LEMMA WidthShift ==
  ASSUME NEW p, NEW q, Rows(p), Rows(q), NEW h \in Nat, NEW n \in Nat, h + n <= MaxPulses,
         \A k \in 0 .. n - 1 : q.pulse[k] = p.pulse[k + h] /\ q.gap[k] = p.gap[k + h]
  PROVE  Width(p, h + n) = Width(p, h) + Width(q, n)
  <1> DEFINE S == {m \in Nat : m <= n => Width(p, h + m) = Width(p, h) + Width(q, m)}
  <1>1. 0 \in S
    <2>1. Width(q, 0) = 0 /\ Width(p, h) \in Nat
      BY WidthStep, WidthType, FskAssumption
    <2> QED
      BY <2>1
  <1>2. ASSUME NEW m \in Nat, m \in S PROVE m + 1 \in S
    <2> SUFFICES ASSUME m + 1 <= n PROVE Width(p, h + (m + 1)) = Width(p, h) + Width(q, m + 1)
      OBVIOUS
    <2>1. Width(p, (h + m) + 1) = Width(p, h + m) + p.pulse[h + m] + p.gap[h + m]
      BY WidthStep
    <2>2. Width(q, m + 1) = Width(q, m) + q.pulse[m] + q.gap[m]
      BY WidthStep
    <2>3. q.pulse[m] = p.pulse[h + m] /\ q.gap[m] = p.gap[h + m]
      OBVIOUS
    <2>4. Width(p, h + m) = Width(p, h) + Width(q, m)
      BY <1>2
    <2>5. Width(p, h) \in Nat /\ Width(q, m) \in Nat
      BY WidthType, FskAssumption
    <2>6. q.pulse[m] \in Nat /\ q.gap[m] \in Nat
      BY FskAssumption DEF Rows, Index
    <2> QED
      BY <2>1, <2>2, <2>3, <2>4, <2>5, <2>6
  <1> HIDE DEF S
  <1>3. Nat \subseteq S
    BY <1>1, <1>2, Induction
  <1> QED
    BY <1>3 DEF S

-----------------------------------------------------------------------------
(* The FSK detectors: what each step makes of a detector f, and that it loses
   no sample. *)

FskOk(f) == f \in FskState /\ f.num < MaxPulses

(* The classic detector finds and loses its way back to the first pulse, and
   stores only pulses and gaps that are long enough. *)
Long(f) ==
  \A k \in 0 .. f.num - 1 :
    /\ f.gap[k] >= MinPulseSamples
    /\ f.pulse[k] >= MinPulseSamples \/ (k = 0 /\ f.pulse[0] = 0)
Classical(f) ==
  /\ f.skip = SkipSamples
  /\ f.state = "INIT" => f.num = 0
  /\ f.state = "FH" => f.num > 0
  /\ f.state = "FL" => f.pulse[f.num] >= MinPulseSamples
  /\ Long(f)
Begun(f) == f.state = "INIT" => f.num = 0 /\ f.pulse[0] = 0

Grown(f) == [f EXCEPT !.len = @ + 1]

LEMMA Sizes ==
  /\ MinPulseSamples \in Nat /\ MinPulseSamples >= 1 /\ MaxPulses \in Nat /\ MaxPulses >= 2
  /\ SkipSamples \in Nat /\ Half \in Nat /\ Half >= 1 /\ Half < MaxPulses
  /\ \A k : k \in Index <=> k \in Nat /\ k < MaxPulses
  BY FskAssumption DEF Half, Index

LEMMA FskRows ==
  ASSUME NEW f \in FskState
  PROVE  /\ Rows(f) /\ f.len \in Nat /\ f.skip \in 0 .. SkipSamples /\ f.num \in 0 .. MaxPulses
         /\ f.lost \in Nat /\ \A k \in Index : f.pulse[k] \in Nat /\ f.gap[k] \in Nat
         /\ \A n \in 0 .. MaxPulses : Width(f, n) \in Nat
  <1>1. Rows(f)
    BY DEF FskState, Rows
  <1> QED
    BY <1>1, WidthType DEF FskState, Rows

LEMMA GrownKeeps ==
  ASSUME NEW f, FskOk(f)
  PROVE  /\ FskOk(Grown(f)) /\ Seen(Grown(f)) = Seen(f) + 1
         /\ Classical(f) => Classical(Grown(f))
  <1>1. FskOk(Grown(f))
    BY DEF FskOk, Grown, FskState
  <1>2. /\ Grown(f).num = f.num /\ Grown(f).state = f.state /\ Grown(f).skip = f.skip
        /\ Grown(f).lost = f.lost /\ Grown(f).pulse = f.pulse /\ Grown(f).gap = f.gap
        /\ Grown(f).len = f.len + 1
    BY DEF FskOk, Grown, FskState
  <1>3. f.num \in Nat
    BY DEF FskOk, FskState
  <1>4. Width(Grown(f), f.num) = Width(f, f.num)
    BY <1>2, <1>3, WidthSame
  <1>5. Seen(Grown(f)) = Seen(f) + 1
    <2>1. f.num \in Index /\ f \in FskState /\ f.num \in 0 .. MaxPulses
      BY Sizes DEF FskOk, FskState
    <2>2. /\ Width(f, f.num) \in Nat /\ f.pulse[f.num] \in Nat /\ f.len \in Nat /\ f.lost \in Nat
          /\ f.skip \in 0 .. SkipSamples
      BY <2>1, FskRows
    <2> QED
      BY <1>2, <1>4, <2>2, Sizes DEF Seen
  <1> QED
    BY <1>1, <1>2, <1>5 DEF Classical, Long

LEMMA StorePulseKeeps ==
  ASSUME NEW f, FskOk(f), f.state # "FL"
  PROVE  /\ FskOk(StorePulse(f)) /\ Seen(StorePulse(f)) = Seen(f)
         /\ StorePulse(f).state = "FL"
         /\ Classical(f) /\ f.len >= MinPulseSamples => Classical(StorePulse(f))
  <1> DEFINE g == StorePulse(f)
  <1>1. f.num \in Index /\ f \in FskState /\ f.num \in 0 .. MaxPulses /\ f.num \in Nat
    BY Sizes DEF FskOk, FskState
  <1>2. /\ Width(f, f.num) \in Nat /\ f.pulse[f.num] \in Nat /\ f.len \in Nat /\ f.lost \in Nat
        /\ f.skip \in 0 .. SkipSamples
    BY <1>1, FskRows
  <1>3. /\ g.state = "FL" /\ g.num = f.num /\ g.skip = f.skip /\ g.lost = f.lost /\ g.gap = f.gap /\ g.len = 0
        /\ g.pulse = [f.pulse EXCEPT ![f.num] = f.len]
    BY <1>1 DEF StorePulse, FskState
  <1>4. FskOk(g)
    BY <1>1, <1>2 DEF StorePulse, FskOk, FskState
  <1>5. /\ g.pulse[f.num] = f.len
        /\ \A k \in 0 .. f.num - 1 : g.pulse[k] = f.pulse[k] /\ g.gap[k] = f.gap[k]
    BY <1>1, <1>3, Sizes DEF FskState
  <1> HIDE DEF g
  <1>6. Width(g, f.num) = Width(f, f.num)
    BY <1>1, <1>5, WidthSame
  <1>7. Seen(g) = Seen(f)
    BY <1>2, <1>3, <1>5, <1>6, Sizes DEF Seen
  <1>8. ASSUME Classical(f), f.len >= MinPulseSamples PROVE Classical(g)
    BY <1>1, <1>3, <1>5, <1>8 DEF Classical, Long
  <1> QED
    BY <1>3, <1>4, <1>7, <1>8 DEF g

(* A gap is stored: the package may be full until half of it is shifted out. *)
LEMMA GapKeptKeeps ==
  ASSUME NEW f, FskOk(f), f.state = "FL"
  PROVE  LET g == GapKept(f)
         IN  /\ g \in FskState /\ g.num = f.num + 1 /\ g.state = "FH" /\ g.skip = f.skip
             /\ Seen(g) = Seen(f)
             /\ Classical(f) /\ f.len >= MinPulseSamples => Classical(g)
  <1> DEFINE g == GapKept(f)
  <1>1. f.num \in Index /\ f \in FskState /\ f.num \in 0 .. MaxPulses /\ f.num \in Nat
    BY Sizes DEF FskOk, FskState
  <1>2. /\ Width(f, f.num) \in Nat /\ f.pulse[f.num] \in Nat /\ f.len \in Nat /\ f.lost \in Nat
        /\ f.skip \in 0 .. SkipSamples
    BY <1>1, FskRows
  <1>3. /\ g.state = "FH" /\ g.num = f.num + 1 /\ g.skip = f.skip /\ g.lost = f.lost /\ g.pulse = f.pulse
        /\ g.len = 0 /\ g.gap = [f.gap EXCEPT ![f.num] = f.len]
    BY <1>1 DEF GapKept, FskState
  <1>4. g \in FskState
    <2>1. f.num + 1 \in 0 .. MaxPulses
      BY <1>1, Sizes
    <2>2. [f.gap EXCEPT ![f.num] = f.len] \in [Index -> Nat]
      BY <1>1, <1>2 DEF FskState
    <2> QED
      BY <1>1, <2>1, <2>2 DEF GapKept, FskState
  <1>5. /\ g.gap[f.num] = f.len
        /\ \A k \in 0 .. f.num - 1 : g.pulse[k] = f.pulse[k] /\ g.gap[k] = f.gap[k]
    BY <1>1, <1>3, Sizes DEF FskState
  <1> HIDE DEF g
  <1>6. Width(g, f.num) = Width(f, f.num)
    BY <1>1, <1>5, WidthSame
  <1>7. Width(g, f.num + 1) = Width(f, f.num) + f.pulse[f.num] + f.len
    <2>1. Width(g, f.num + 1) = Width(g, f.num) + g.pulse[f.num] + g.gap[f.num]
      BY <1>1, WidthStep
    <2> QED
      BY <1>3, <1>5, <1>6, <2>1
  <1>8. Seen(g) = Seen(f)
    BY <1>1, <1>2, <1>3, <1>7, Sizes DEF Seen
  <1>9. ASSUME Classical(f), f.len >= MinPulseSamples PROVE Classical(g)
    <2>1. Long(g)
      <3> SUFFICES ASSUME NEW k \in 0 .. f.num
                   PROVE  /\ g.gap[k] >= MinPulseSamples
                          /\ g.pulse[k] >= MinPulseSamples \/ (k = 0 /\ g.pulse[0] = 0)
        BY <1>1, <1>3 DEF Long
      <3>1. CASE k = f.num
        BY <1>3, <1>5, <1>9, <3>1 DEF Classical
      <3>2. CASE k # f.num
        BY <1>1, <1>3, <1>5, <1>9, <3>2 DEF Classical, Long
      <3> QED
        BY <3>1, <3>2
    <2> QED
      BY <1>1, <1>3, <1>9, <2>1 DEF Classical
  <1> QED
    BY <1>3, <1>4, <1>8, <1>9 DEF g

LEMMA ShiftKeeps ==
  ASSUME NEW f \in FskState, f.state = "FH", f.num = MaxPulses
  PROVE  LET g == PulseDataShift(f)
         IN  /\ FskOk(g) /\ g.state = "FH" /\ Seen(g) = Seen(f)
             /\ Classical(f) => Classical(g)
  <1> DEFINE g == PulseDataShift(f)
  <1>1. /\ f.len \in Nat /\ f.lost \in Nat /\ Rows(f) /\ f.skip \in 0 .. SkipSamples
        /\ Width(f, Half) \in Nat /\ Width(f, f.num) \in Nat
    BY FskRows, Sizes
  <1>2. /\ g.state = "FH" /\ g.num = f.num - Half /\ g.skip = f.skip /\ g.lost = f.lost + Width(f, Half)
        /\ g.pulse = Shift(f.pulse) /\ g.gap = Shift(f.gap) /\ g.len = f.len
    BY DEF PulseDataShift, FskState
  <1>3. Shift(f.pulse) \in [Index -> Nat] /\ Shift(f.gap) \in [Index -> Nat]
    BY <1>1 DEF Shift, Rows
  <1>4. FskOk(g)
    <2>1. f.num - Half \in 0 .. MaxPulses /\ f.num - Half < MaxPulses /\ f.lost + Width(f, Half) \in Nat
      BY <1>1, Sizes
    <2> QED
      BY <1>2, <1>3, <2>1 DEF PulseDataShift, FskOk, FskState
  <1>5. \A k \in 0 .. g.num - 1 : /\ g.pulse[k] = f.pulse[k + Half] /\ g.gap[k] = f.gap[k + Half]
    <2> SUFFICES ASSUME NEW k \in 0 .. g.num - 1
                 PROVE  g.pulse[k] = f.pulse[k + Half] /\ g.gap[k] = f.gap[k + Half]
      OBVIOUS
    <2>1. k \in Index /\ k + Half \in Index
      BY <1>2, Sizes
    <2> QED
      BY <1>2, <2>1 DEF Shift
  <1>6. Rows(g)
    BY <1>2, <1>3 DEF Rows
  <1> HIDE DEF g
  <1>7. Width(f, Half + g.num) = Width(f, Half) + Width(g, g.num)
    <2>1. g.num \in Nat /\ Half \in Nat /\ Half + g.num <= MaxPulses
      BY <1>2, Sizes
    <2>2. Rows(f)
      BY <1>1
    <2> DEFINE n == g.num
    <2>3. \A k \in 0 .. n - 1 : g.pulse[k] = f.pulse[k + Half] /\ g.gap[k] = f.gap[k + Half]
      BY <1>5
    <2>4. n \in Nat /\ Half + n <= MaxPulses
      BY <2>1
    <2> HIDE DEF n
    <2>5. Width(f, Half + n) = Width(f, Half) + Width(g, n)
      BY <1>6, <2>1, <2>2, <2>3, <2>4, WidthShift, SMTT(30)
    <2> QED
      BY <2>5 DEF n
  <1>8. Seen(g) = Seen(f)
    <2>1. Half + g.num = f.num
      BY <1>2, Sizes
    <2>2. Width(g, g.num) \in Nat
      BY <1>2, <1>6, Sizes, WidthType
    <2> QED
      BY <1>1, <1>2, <1>7, <2>1, <2>2, Sizes DEF Seen
  <1>9. ASSUME Classical(f) PROVE Classical(g)
    <2>1. Long(g)
      <3> SUFFICES ASSUME NEW k \in 0 .. g.num - 1
                   PROVE  g.gap[k] >= MinPulseSamples /\ g.pulse[k] >= MinPulseSamples
        BY DEF Long
      <3>1. k + Half \in 0 .. f.num - 1 /\ k + Half # 0
        BY <1>2, Sizes
      <3> QED
        BY <1>5, <1>9, <3>1 DEF Classical, Long
    <2> QED
      BY <1>2, <1>9, <2>1, Sizes DEF Classical
  <1> QED
    BY <1>2, <1>4, <1>8, <1>9 DEF g

LEMMA StoreGapKeeps ==
  ASSUME NEW f, FskOk(f), f.state = "FL"
  PROVE  /\ FskOk(StoreGap(f)) /\ Seen(StoreGap(f)) = Seen(f) /\ StoreGap(f).state = "FH"
         /\ Classical(f) /\ f.len >= MinPulseSamples => Classical(StoreGap(f))
  <1>1. f.num \in Nat /\ f.num < MaxPulses
    BY DEF FskOk, FskState
  <1>2. CASE f.num + 1 >= MaxPulses
    <2>1. f.num + 1 = MaxPulses
      BY <1>1, <1>2, Sizes
    <2>2. StoreGap(f) = PulseDataShift(GapKept(f))
      BY <1>2 DEF StoreGap
    <2> QED
      BY <2>1, <2>2, GapKeptKeeps, ShiftKeeps
  <1>3. CASE ~(f.num + 1 >= MaxPulses)
    <2>1. StoreGap(f) = GapKept(f)
      BY <1>3 DEF StoreGap
    <2>2. f.num + 1 < MaxPulses
      BY <1>1, <1>3, Sizes
    <2> QED
      BY <2>1, <2>2, GapKeptKeeps DEF FskOk
  <1> QED
    BY <1>2, <1>3

(* What was stored is taken back. *)
LEMMA RewindToGapKeeps ==
  ASSUME NEW f, FskOk(f), f.state = "FH", Classical(f)
  PROVE  LET g == RewindToGap(f) IN FskOk(g) /\ Seen(g) = Seen(f) /\ Classical(g)
  <1> DEFINE g == RewindToGap(f)
             m == f.num - 1
  <1>1. f.num \in Index /\ f \in FskState /\ f.num \in 0 .. MaxPulses /\ f.num \in Nat
        /\ m \in Nat /\ m \in Index /\ m \in 0 .. MaxPulses
    BY Sizes DEF FskOk, FskState, Classical
  <1>2. /\ f.pulse[m] \in Nat /\ f.gap[m] \in Nat /\ f.len \in Nat /\ f.lost \in Nat
        /\ Width(f, m) \in Nat /\ f.skip \in 0 .. SkipSamples
    BY <1>1, FskRows
  <1>3. /\ g.num = m /\ g.skip = f.skip /\ g.lost = f.lost /\ g.pulse = f.pulse
        /\ g.len = f.len + f.gap[m] /\ g.gap = f.gap
        /\ g.state = IF m = 0 /\ f.pulse[0] = 0 THEN "INIT" ELSE "FL"
    BY <1>1 DEF RewindToGap, FskState
  <1>4. FskOk(g)
    <2>1. f.len + f.gap[m] \in Nat /\ m \in 0 .. MaxPulses /\ m < MaxPulses
      BY <1>1, <1>2, Sizes
    <2> QED
      BY <1>1, <2>1 DEF RewindToGap, FskOk, FskState
  <1>5. Width(f, m + 1) = Width(f, m) + f.pulse[m] + f.gap[m] /\ m + 1 = f.num
    BY <1>1, WidthStep
  <1> HIDE DEF g
  <1>6. Width(g, m) = Width(f, m)
    BY <1>1, <1>3, WidthSame
  <1> HIDE DEF m
  <1>7. Seen(g) = Seen(f)
    BY <1>2, <1>3, <1>5, <1>6, Sizes DEF Seen
  <1>8. Classical(g)
    <2>1. Long(g) /\ (f.pulse[m] >= MinPulseSamples \/ (m = 0 /\ f.pulse[0] = 0))
      BY <1>1, <1>3, <1>5 DEF Classical, Long
    <2> QED
      BY <1>3, <2>1 DEF Classical
  <1> QED
    BY <1>4, <1>7, <1>8 DEF g

LEMMA RewindToPulseKeeps ==
  ASSUME NEW f, FskOk(f), f.state = "FL", Classical(f)
  PROVE  LET g == RewindToPulse(f) IN FskOk(g) /\ Seen(g) = Seen(f) /\ Classical(g)
  <1> DEFINE g == RewindToPulse(f)
  <1>1. f.num \in Index /\ f \in FskState /\ f.num \in 0 .. MaxPulses /\ f.num \in Nat
    BY Sizes DEF FskOk, FskState
  <1>2. /\ f.pulse[f.num] \in Nat /\ f.len \in Nat /\ f.lost \in Nat /\ Width(f, f.num) \in Nat
        /\ f.skip \in 0 .. SkipSamples
    BY <1>1, FskRows
  <1>3. /\ g.num = f.num /\ g.skip = f.skip /\ g.lost = f.lost /\ g.pulse = f.pulse
        /\ g.len = f.len + f.pulse[f.num] /\ g.gap = f.gap
        /\ g.state = IF f.num = 0 THEN "INIT" ELSE "FH"
    BY <1>1 DEF RewindToPulse, FskState
  <1>4. FskOk(g)
    <2>1. f.len + f.pulse[f.num] \in Nat
      BY <1>2
    <2> QED
      BY <1>1, <2>1 DEF RewindToPulse, FskOk, FskState
  <1> HIDE DEF g
  <1>5. Width(g, f.num) = Width(f, f.num)
    BY <1>1, <1>3, WidthSame
  <1>6. Seen(g) = Seen(f)
    BY <1>2, <1>3, <1>5, Sizes DEF Seen
  <1>7. Classical(g)
    BY <1>1, <1>3 DEF Classical, Long
  <1> QED
    BY <1>4, <1>6, <1>7 DEF g

LEMMA FirstUpKeeps ==
  ASSUME NEW f, FskOk(f), Classical(f), f.state = "INIT", f.len >= MinPulseSamples
  PROVE  LET g == [f EXCEPT !.state = "FH", !.pulse[0] = 0, !.gap[0] = f.len, !.num = @ + 1, !.len = 0]
         IN  FskOk(g) /\ Seen(g) = Seen(f) /\ Classical(g)
  <1> DEFINE g == [f EXCEPT !.state = "FH", !.pulse[0] = 0, !.gap[0] = f.len, !.num = @ + 1, !.len = 0]
  <1>1. f.num = 0 /\ 0 \in Index /\ f \in FskState /\ f.len \in Nat /\ f.lost \in Nat /\ f.skip = SkipSamples
    BY Sizes, FskRows DEF FskOk, Classical
  <1>2. /\ g.state = "FH" /\ g.num = 1 /\ g.skip = f.skip /\ g.lost = f.lost /\ g.len = 0
        /\ g.pulse[0] = 0 /\ g.gap[0] = f.len
    BY <1>1 DEF FskState
  <1>3. FskOk(g)
    <2>1. f.num + 1 \in 0 .. MaxPulses /\ f.num + 1 < MaxPulses
      BY <1>1, Sizes
    <2>2. [f.pulse EXCEPT ![0] = 0] \in [Index -> Nat] /\ [f.gap EXCEPT ![0] = f.len] \in [Index -> Nat]
      BY <1>1 DEF FskState
    <2> QED
      BY <1>1, <2>1, <2>2 DEF FskOk, FskState
  <1> HIDE DEF g
  <1>4. Width(g, 1) = f.len /\ Width(f, 0) = 0
    <2>1. Width(g, 0 + 1) = Width(g, 0) + g.pulse[0] + g.gap[0] /\ Width(g, 0) = 0
      BY WidthStep
    <2> QED
      BY <1>1, <1>2, <2>1, WidthStep
  <1>5. Seen(g) = Seen(f)
    BY <1>1, <1>2, <1>4, Sizes DEF Seen
  <1>6. Classical(g)
    BY <1>1, <1>2 DEF Classical, Long
  <1> QED
    BY <1>3, <1>5, <1>6 DEF g

LEMMA ClassicKeeps ==
  ASSUME NEW s, FskOk(s), Classical(s), NEW fm \in Fm
  PROVE  FskOk(Classic(s, fm)) /\ Seen(Classic(s, fm)) = Seen(s) + 1 /\ Classical(Classic(s, fm))
  <1> DEFINE f == Grown(s)
             g == Classic(s, fm)
  <1>1. FskOk(f) /\ Seen(f) = Seen(s) + 1 /\ Classical(f)
    BY GrownKeeps
  <1>2. f.state \in {"INIT", "FH", "FL"}
    BY <1>1 DEF FskOk, FskState
  <1>3. f = [s EXCEPT !.len = @ + 1]
    BY DEF Grown
  <1> HIDE DEF f
  <1>4. CASE f.state = "INIT" /\ f.len >= MinPulseSamples /\ fm = "up"
    <2>1. g = [f EXCEPT !.state = "FH", !.pulse[0] = 0, !.gap[0] = f.len, !.num = @ + 1, !.len = 0]
      BY <1>3, <1>4 DEF Classic
    <2> QED
      BY <1>1, <1>4, <2>1, FirstUpKeeps
  <1>5. CASE f.state = "INIT" /\ f.len >= MinPulseSamples /\ fm = "down"
    <2>1. g = StorePulse(f)
      BY <1>3, <1>5 DEF Classic
    <2> QED
      BY <1>1, <1>5, <2>1, StorePulseKeeps
  <1>6. CASE f.state = "FH" /\ fm = "down" /\ f.len >= MinPulseSamples
    <2>1. g = StorePulse(f)
      BY <1>3, <1>6 DEF Classic
    <2> QED
      BY <1>1, <1>6, <2>1, StorePulseKeeps
  <1>7. CASE f.state = "FH" /\ fm = "down" /\ ~(f.len >= MinPulseSamples)
    <2>1. g = RewindToGap(f)
      BY <1>3, <1>7 DEF Classic
    <2> QED
      BY <1>1, <1>7, <2>1, RewindToGapKeeps
  <1>8. CASE f.state = "FL" /\ fm = "up" /\ f.len >= MinPulseSamples
    <2>1. g = StoreGap(f)
      BY <1>3, <1>8 DEF Classic
    <2> QED
      BY <1>1, <1>8, <2>1, StoreGapKeeps
  <1>9. CASE f.state = "FL" /\ fm = "up" /\ ~(f.len >= MinPulseSamples)
    <2>1. g = RewindToPulse(f)
      BY <1>3, <1>9 DEF Classic
    <2> QED
      BY <1>1, <1>9, <2>1, RewindToPulseKeeps
  <1>10. CASE /\ ~(f.state = "INIT" /\ f.len >= MinPulseSamples /\ fm \in {"up", "down"})
              /\ ~(f.state = "FH" /\ fm = "down") /\ ~(f.state = "FL" /\ fm = "up")
    <2>1. g = f
      BY <1>3, <1>10 DEF Classic
    <2> QED
      BY <1>1, <2>1
  <1> QED
    BY <1>2, <1>4, <1>5, <1>6, <1>7, <1>8, <1>9, <1>10 DEF Fm

LEMMA MinMaxKeeps ==
  ASSUME NEW s, FskOk(s), Begun(s), NEW fm \in Fm
  PROVE  FskOk(MinMax(s, fm)) /\ Seen(MinMax(s, fm)) = Seen(s) + 1 /\ Begun(MinMax(s, fm))
  <1> DEFINE f == Grown(s)
             g == MinMax(s, fm)
  <1>1. FskOk(f) /\ Seen(f) = Seen(s) + 1 /\ f.skip = s.skip /\ f.state = s.state /\ Begun(f)
    <2>1. f.skip = s.skip /\ f.state = s.state /\ f.num = s.num /\ f.pulse = s.pulse
      BY DEF Grown, FskOk, FskState
    <2> QED
      BY <2>1, GrownKeeps DEF Begun
  <1>2. s.state \in {"INIT", "FH", "FL"} /\ s.skip \in 0 .. SkipSamples
    BY DEF FskOk, FskState
  <1>3. f = [s EXCEPT !.len = @ + 1]
    BY DEF Grown
  <1> HIDE DEF f
  <1>4. CASE s.skip > 0
    <2>1. g = [s EXCEPT !.skip = @ - 1]
      BY <1>4 DEF MinMax
    <2>2. /\ g.skip = s.skip - 1 /\ g.lost = s.lost /\ g.num = s.num /\ g.state = s.state /\ g.len = s.len
          /\ g.pulse = s.pulse /\ g.gap = s.gap /\ FskOk(g)
      BY <1>2, <1>4, <2>1, Sizes DEF FskOk, FskState
    <2>3. /\ s.num \in Nat /\ s.num \in Index /\ s.len \in Nat /\ s.lost \in Nat /\ s.pulse[s.num] \in Nat
          /\ Width(s, s.num) \in Nat
      BY FskRows, Sizes DEF FskOk
    <2> HIDE DEF g
    <2>4. Width(g, s.num) = Width(s, s.num)
      BY <2>2, <2>3, WidthSame
    <2>5. Seen(g) = Seen(s) + 1
      BY <1>2, <2>2, <2>3, <2>4, Sizes DEF Seen
    <2>6. Begun(g)
      BY <2>2 DEF Begun
    <2> QED
      BY <2>2, <2>5, <2>6 DEF g
  <1>5. CASE ~(s.skip > 0) /\ s.state = "INIT"
    <2>1. g = [f EXCEPT !.state = IF fm = "up" THEN "FH" ELSE "FL"]
      BY <1>2, <1>3, <1>5 DEF MinMax
    <2>2. /\ g.skip = f.skip /\ g.lost = f.lost /\ g.num = 0 /\ f.num = 0 /\ g.len = f.len
          /\ g.pulse = f.pulse /\ g.gap = f.gap /\ g.state \in {"FH", "FL"} /\ g.pulse[0] = 0 /\ FskOk(g)
      BY <1>1, <1>5, <2>1 DEF FskOk, FskState, Begun
    <2>3. f.skip \in 0 .. SkipSamples /\ f.len \in Nat /\ f.lost \in Nat
      BY <1>1 DEF FskOk, FskState
    <2> HIDE DEF g
    <2>4. Seen(g) = Seen(f)
      BY <1>1, <1>5, <2>2, <2>3, WidthStep DEF Seen
    <2> QED
      BY <1>1, <2>2, <2>4 DEF g, Begun
  <1>6. CASE ~(s.skip > 0) /\ s.state = "FH" /\ fm = "down"
    <2>1. g = StorePulse(f)
      BY <1>2, <1>3, <1>6 DEF MinMax
    <2> QED
      BY <1>1, <1>6, <2>1, StorePulseKeeps DEF Begun
  <1>7. CASE ~(s.skip > 0) /\ s.state = "FL" /\ fm = "up"
    <2>1. g = StoreGap(f)
      BY <1>2, <1>3, <1>7 DEF MinMax
    <2> QED
      BY <1>1, <1>7, <2>1, StoreGapKeeps DEF Begun
  <1>8. CASE ~(s.skip > 0) /\ s.state # "INIT" /\ ~(s.state = "FH" /\ fm = "down") /\ ~(s.state = "FL" /\ fm = "up")
    <2>1. g = f
      BY <1>2, <1>3, <1>8 DEF MinMax
    <2> QED
      BY <1>1, <2>1
  <1> QED
    BY <1>2, <1>4, <1>5, <1>6, <1>7, <1>8

(* The package that ends has one more gap, or pulse, and all samples. *)
LEMMA WrapUpKeeps ==
  ASSUME NEW s, FskOk(s), Classical(s)
  PROVE  /\ WrapUp(s) \in FskState /\ WrapUp(s).num = s.num + 1
         /\ s.num > 0 => WrapUp(s).lost + Width(WrapUp(s), s.num + 1) = Seen(s) + 1
         /\ \A k \in 0 .. s.num - 1 :
              /\ WrapUp(s).gap[k] >= MinPulseSamples
              /\ WrapUp(s).pulse[k] >= MinPulseSamples \/ (k = 0 /\ WrapUp(s).pulse[0] = 0)
  <1> DEFINE f == Grown(s)
             g == WrapUp(s)
  <1>1. s.num \in Index /\ s \in FskState /\ s.num \in 0 .. MaxPulses /\ s.num \in Nat /\ s.num < MaxPulses
    BY Sizes DEF FskOk, FskState
  <1>2. /\ s.pulse[s.num] \in Nat /\ s.len \in Nat /\ s.lost \in Nat /\ Width(s, s.num) \in Nat
        /\ s.skip = SkipSamples
    BY <1>1, FskRows DEF Classical
  <1>3. s.num + 1 \in 0 .. MaxPulses /\ s.len + 1 \in Nat
    BY <1>1, <1>2, Sizes
  <1>4. /\ g \in FskState /\ g.num = s.num + 1 /\ g.lost = s.lost
        /\ \A k \in 0 .. s.num - 1 : g.pulse[k] = s.pulse[k] /\ g.gap[k] = s.gap[k]
        /\ s.state = "FH" => g.pulse[s.num] = s.len + 1 /\ g.gap[s.num] = 0
        /\ s.state # "FH" => g.pulse[s.num] = s.pulse[s.num] /\ g.gap[s.num] = s.len + 1
    <2>1. CASE s.state = "FH"
      <3>1. g = [s EXCEPT !.len = s.len + 1, !.pulse[s.num] = s.len + 1, !.gap[s.num] = 0, !.num = s.num + 1]
        BY <1>1, <2>1 DEF WrapUp, FskState
      <3>2. /\ [s.pulse EXCEPT ![s.num] = s.len + 1] \in [Index -> Nat]
            /\ [s.gap EXCEPT ![s.num] = 0] \in [Index -> Nat]
        BY <1>1, <1>3 DEF FskState
      <3>3. g \in FskState
        BY <1>1, <1>3, <3>1, <3>2 DEF FskState
      <3> QED
        BY <1>1, <2>1, <3>1, <3>3, Sizes DEF FskState
    <2>2. CASE s.state # "FH"
      <3>1. g = [s EXCEPT !.len = s.len + 1, !.gap[s.num] = s.len + 1, !.num = s.num + 1]
        <4>1. ~(s.num >= MaxPulses) /\ ~(s.num < MaxPulses /\ s.state = "FH")
          BY <1>1, <2>2, Sizes
        <4> QED
          BY <1>1, <4>1 DEF WrapUp, FskState
      <3>2. [s.gap EXCEPT ![s.num] = s.len + 1] \in [Index -> Nat]
        BY <1>1, <1>3 DEF FskState
      <3>3. g \in FskState
        BY <1>1, <1>3, <3>1, <3>2 DEF FskState
      <3> QED
        BY <1>1, <2>2, <3>1, <3>3, Sizes DEF FskState
    <2> QED
      BY <2>1, <2>2
  <1> HIDE DEF g
  <1>5. Width(g, s.num) = Width(s, s.num)
    BY <1>1, <1>4, WidthSame
  <1>6. Width(g, s.num + 1) = Width(g, s.num) + g.pulse[s.num] + g.gap[s.num]
    BY <1>1, WidthStep
  <1>7. s.num > 0 => g.lost + Width(g, s.num + 1) = Seen(s) + 1
    BY <1>1, <1>2, <1>4, <1>5, <1>6, Sizes DEF Seen, Classical, FskState
  <1>8. \A k \in 0 .. s.num - 1 :
          /\ g.gap[k] >= MinPulseSamples
          /\ g.pulse[k] >= MinPulseSamples \/ (k = 0 /\ g.pulse[0] = 0)
    BY <1>4 DEF Classical, Long
  <1> QED
    BY <1>4, <1>7, <1>8 DEF g

-----------------------------------------------------------------------------
(* The invariant. *)

(* The package so far: nothing yet behind the present pulse, every pulse and
   gap in front of it a real one, and the present one as far as it is known. *)
Whole(p) ==
  \A k \in 0 .. p.num - 1 : p.pulse[k] >= MinPulseSamples /\ p.gap[k] \in MinPulseSamples .. MaxGap + 1
Package ==
  ook # "IDLE" =>
    /\ \A k \in Index : k > pulses.num => pulses.pulse[k] = 0
    /\ ook = "PULSE" /\ length < MinPulseSamples => pulses.pulse[pulses.num] = 0
    /\ ook = "GAP_START" => length < MinPulseSamples /\ pulses.pulse[pulses.num] >= MinPulseSamples
    /\ ook = "GAP" => length <= MaxGap
    /\ ook = "GAP" /\ eop = 0 /\ cut = 0 =>
         length >= MinPulseSamples /\ pulses.pulse[pulses.num] >= MinPulseSamples
    /\ cut = 0 => Whole(pulses)

(* After a spurious pulse the package is ended by the next sample. *)
Spurious == eop = 1 => ook = "GAP" /\ left > 0 /\ pulses.num > 1 /\ pulses.pulse[pulses.num] = 0

Detector ==
  ook # "IDLE" => (fpdm = "classic" => Classical(fsk)) /\ (fpdm = "minmax" => Begun(fsk))

IInv ==
  /\ TypeOK /\ Package /\ Spurious /\ Detector
  /\ EverySampleCounted /\ FskSamplesCounted /\ PackageIsWhole /\ FskWidthsAreReal


LEMMA Typed ==
  ASSUME IInv
  PROVE  /\ pos \in Nat /\ length \in Nat /\ pulses.offset \in Nat /\ pulses.num \in 0 .. MaxPulses
         /\ ook \in {"IDLE", "PULSE", "GAP_START", "GAP"} /\ fpdm \in {"classic", "minmax"}
         /\ maxPulse \in Nat /\ leadIn \in 0 .. LowRatio + 1 /\ eop \in {0, 1} /\ cut \in {0, 1}
         /\ left \in 0 .. MaxBlock /\ reread \in Am \cup {"new"} /\ MaxBlock \in Nat /\ LowRatio \in Nat
         /\ \A k \in Index : pulses.pulse[k] \in Nat /\ pulses.gap[k] \in Nat
         /\ \A n \in 0 .. MaxPulses : Width(pulses, n) \in Nat
         /\ fsk \in FskState
         /\ ook # "IDLE" => FskOk(fsk) /\ pulses.num \in Index /\ pulses.num < MaxPulses
  <1>1. Rows(pulses)
    BY DEF IInv, TypeOK, Rows
  <1>2. \A n \in 0 .. MaxPulses : Width(pulses, n) \in Nat
    BY <1>1, WidthType
  <1>3. MaxBlock \in Nat /\ LowRatio \in Nat
    BY DetectAssumption
  <1> QED
    BY <1>1, <1>2, <1>3, Sizes DEF IInv, TypeOK, FskOk, Rows

(* The sample is taken: nothing was returned. *)
LEMMA TakenKeeps ==
  ASSUME IInv, NEW e \in {0, 1}, left > 0, Taken(e)
  PROVE  /\ left' \in 0 .. MaxBlock /\ pos' \in Nat /\ reread' \in Am \cup {"new"} /\ eop' \in {0, 1}
         /\ cut' \in {0, 1} /\ pos' = pos + 1
         /\ eop' = 1 => e = 1 /\ left' > 0
         /\ cut' = 0 => (cut = 0 \/ ook = "IDLE") /\ (e = 1 => eop' = 1)
         /\ last' = None /\ PackageIsWhole' /\ FskWidthsAreReal' /\ last'.type # "FSK"
         /\ last'.type \in {"none", "OOK", "FSK"}
  <1>1. last' = None /\ last'.type = "none"
    BY DEF Taken, None
  <1>2. left' = left - 1 /\ left \in 0 .. MaxBlock /\ left # 0
    BY Typed DEF Taken
  <1>3. left' \in 0 .. MaxBlock
    BY <1>2, Typed
  <1>4. /\ pos' = pos + 1 /\ pos' \in Nat /\ reread' = "new" /\ eop' = IF left = 1 THEN 0 ELSE e
        /\ cut' = IF left = 1 /\ e = 1 THEN 1 ELSE IF ook = "IDLE" THEN 0 ELSE cut
    BY Typed DEF Taken
  <1>5. left # 1 => left' > 0
    BY <1>2, Typed
  <1>6. cut \in {0, 1}
    BY Typed
  <1> QED
    BY <1>1, <1>3, <1>4, <1>5, <1>6 DEF PackageIsWhole, FskWidthsAreReal

LEMMA FeedKeeps ==
  ASSUME IInv, ook # "IDLE", NEW fm \in Fm, Feed(fm), UNCHANGED fpdm
  PROVE  /\ FskOk(fsk') /\ fsk' \in FskState
         /\ pulses.num = 0 => Seen(fsk') = Seen(fsk) + 1
         /\ fpdm = "classic" => Classical(fsk')
         /\ fpdm = "minmax" => Begun(fsk')
         /\ fpdm = "classic" /\ fsk'.state = "FH" => fsk'.num > 0
  <1>1. FskOk(fsk) /\ fpdm \in {"classic", "minmax"} /\ pulses.num \in Nat
    BY Typed
  <1>2. (fpdm = "classic" => Classical(fsk)) /\ (fpdm = "minmax" => Begun(fsk))
    BY DEF IInv, Detector
  <1>3. CASE pulses.num > 0
    <2>1. fsk' = fsk
      BY <1>3 DEF Feed
    <2> QED
      BY <1>1, <1>2, <1>3, <2>1 DEF FskOk, Classical
  <1>4. CASE pulses.num = 0 /\ fpdm = "classic"
    <2>1. fsk' = Classic(fsk, fm)
      BY <1>4 DEF Feed
    <2> QED
      BY <1>1, <1>2, <1>4, <2>1, ClassicKeeps DEF FskOk, Classical
  <1>5. CASE pulses.num = 0 /\ fpdm = "minmax"
    <2>1. fsk' = MinMax(fsk, fm)
      BY <1>5 DEF Feed
    <2> QED
      BY <1>1, <1>2, <1>5, <2>1, MinMaxKeeps DEF FskOk
  <1> QED
    BY <1>1, <1>3, <1>4, <1>5

LEMMA FskInitOk ==
  /\ FskOk(FskInit) /\ FskInit \in FskState /\ Seen(FskInit) = 0 /\ Classical(FskInit) /\ Begun(FskInit)
  /\ FskInit.state = "INIT"
  <1>1. Cleared \in [Index -> Nat] /\ \A k \in Index : Cleared[k] = 0
    BY DEF Cleared
  <1>2. FskOk(FskInit)
    BY <1>1, Sizes DEF FskOk, FskInit, FskState
  <1>3. Seen(FskInit) = 0
    <2>1. Width(FskInit, 0) = 0
      BY WidthStep
    <2> QED
      BY <2>1, Sizes DEF Seen, FskInit
  <1>4. Begun(FskInit)
    BY <1>1, Sizes DEF Begun, FskInit
  <1>5. Classical(FskInit)
    BY DEF Classical, Long, FskInit
  <1> QED
    BY <1>2, <1>3, <1>4, <1>5 DEF FskOk, FskInit

-----------------------------------------------------------------------------
(* The steps. *)

LEMMA IdleStartStep ==
  ASSUME IInv, NEW am \in Am, left > 0, IdleStart(am), UNCHANGED fpdm
  PROVE  IInv'
  <1>1. ook = "IDLE" /\ eop = 0 /\ Taken(eop)
    BY Typed DEF IdleStart, IInv, Spurious
  <1>2. /\ pulses' = [Empty EXCEPT !.offset = pos] /\ fsk' = FskInit
        /\ length' = 0 /\ maxPulse' = 0 /\ ook' = "PULSE" /\ leadIn' = leadIn /\ fpdm' = fpdm
    BY DEF IdleStart
  <1>3. /\ pulses'.offset = pos /\ pulses'.num = 0 /\ \A k \in Index : pulses'.pulse[k] = 0
        /\ pulses' \in [offset : Nat, num : 0 .. MaxPulses, pulse : [Index -> Nat], gap : [Index -> Nat]]
    BY <1>2, Typed, Sizes DEF Empty, Cleared
  <1>4. TypeOK'
    BY <1>1, <1>2, <1>3, Typed, TakenKeeps, FskInitOk, Sizes DEF TypeOK, FskOk
  <1>5. Package' /\ Spurious' /\ Detector'
    BY <1>1, <1>2, <1>3, TakenKeeps, FskInitOk, Sizes DEF Package, Whole, Spurious, Detector
  <1>6. EverySampleCounted' /\ FskSamplesCounted'
    <2>1. Width(pulses', 0) = 0
      BY WidthStep
    <2> QED
      BY <1>1, <1>2, <1>3, <2>1, Typed, TakenKeeps, FskInitOk DEF EverySampleCounted, FskSamplesCounted
  <1> QED
    BY <1>1, <1>4, <1>5, <1>6, TakenKeeps DEF IInv

LEMMA IdleWaitsStep ==
  ASSUME IInv, NEW am \in Am, left > 0, IdleWaits(am), UNCHANGED fpdm
  PROVE  IInv'
  <1>1. ook = "IDLE" /\ eop = 0 /\ Taken(eop)
    BY Typed DEF IdleWaits, IInv, Spurious
  <1>2. UNCHANGED <<ook, length, maxPulse, pulses, fsk>> /\ leadIn' \in 0 .. LowRatio + 1
    BY Typed DEF IdleWaits
  <1>3. TypeOK'
    BY <1>1, <1>2, TakenKeeps DEF TypeOK, IInv
  <1>4. Package' /\ Spurious' /\ Detector' /\ EverySampleCounted' /\ FskSamplesCounted'
    BY <1>1, <1>2, TakenKeeps DEF Package, Spurious, Detector, EverySampleCounted, FskSamplesCounted
  <1> QED
    BY <1>1, <1>3, <1>4, TakenKeeps DEF IInv

LEMMA InPulseStep ==
  ASSUME IInv, NEW am \in Am, NEW fm \in Fm, left > 0, InPulse(am, fm), UNCHANGED fpdm
  PROVE  IInv'
  <1>1. ook = "PULSE" /\ eop = 0 /\ Taken(eop) /\ Feed(fm) /\ FskOk(fsk)
    BY Typed DEF InPulse, IInv, Spurious
  <1>2. length' = length + 1 /\ UNCHANGED <<ook, maxPulse, leadIn, pulses>>
    BY DEF InPulse
  <1>3. TypeOK'
    BY <1>1, <1>2, Typed, TakenKeeps, FeedKeeps DEF TypeOK, IInv, FskOk
  <1>4. Package' /\ Spurious' /\ Detector'
    BY <1>1, <1>2, Typed, TakenKeeps, FeedKeeps, Sizes DEF IInv, Package, Whole, Spurious, Detector
  <1>5. EverySampleCounted' /\ FskSamplesCounted'
    BY <1>1, <1>2, Typed, TakenKeeps, FeedKeeps DEF IInv, EverySampleCounted, FskSamplesCounted
  <1> QED
    BY <1>1, <1>3, <1>4, <1>5, TakenKeeps DEF IInv

LEMMA PulseSpuriousStep ==
  ASSUME IInv, NEW am \in Am, NEW fm \in Fm, left > 0, PulseSpurious(am, fm), UNCHANGED fpdm
  PROVE  IInv'
  <1> DEFINE e == IF pulses.num <= 1 THEN eop ELSE 1
  <1>1. /\ ook = "PULSE" /\ eop = 0 /\ Taken(e) /\ Feed(fm) /\ FskOk(fsk) /\ e \in {0, 1}
        /\ length + 1 < MinPulseSamples
    BY Typed DEF PulseSpurious, IInv, Spurious
  <1>2. /\ length' = length + 1 /\ UNCHANGED <<maxPulse, leadIn, pulses>>
        /\ ook' = IF pulses.num <= 1 THEN "IDLE" ELSE "GAP"
        /\ e = 1 <=> ook' = "GAP"
    BY <1>1 DEF PulseSpurious
  <1> HIDE DEF e
  <1>3. TypeOK'
    BY <1>1, <1>2, Typed, TakenKeeps, FeedKeeps DEF TypeOK, IInv, FskOk
  <1>4. pulses.num \in Index /\ pulses.pulse[pulses.num] = 0 /\ length \in Nat
    BY <1>1, Typed, Sizes DEF IInv, Package
  <1>5. ook' # "IDLE" => ook' = "GAP" /\ e = 1 /\ pulses.num > 1
    BY <1>2, Typed
  <1>6. length' <= MaxGap
    BY <1>1, <1>2, <1>4, Sizes, DetectAssumption
  <1>7. Package'
    BY <1>1, <1>2, <1>4, <1>5, <1>6, TakenKeeps DEF IInv, Package, Whole
  <1>8. Spurious' /\ Detector'
    BY <1>1, <1>2, <1>4, <1>5, TakenKeeps, FeedKeeps DEF Spurious, Detector
  <1>9. EverySampleCounted' /\ FskSamplesCounted'
    BY <1>1, <1>2, <1>4, <1>5, Typed, TakenKeeps DEF IInv, EverySampleCounted, FskSamplesCounted
  <1> QED
    BY <1>1, <1>3, <1>7, <1>8, <1>9, TakenKeeps DEF IInv

LEMMA PulseEndsStep ==
  ASSUME IInv, NEW am \in Am, NEW fm \in Fm, left > 0, PulseEnds(am, fm), UNCHANGED fpdm
  PROVE  IInv'
  <1>1. /\ ook = "PULSE" /\ eop = 0 /\ Taken(eop) /\ Feed(fm) /\ FskOk(fsk)
        /\ length + 1 >= MinPulseSamples /\ length + 1 \in Nat
    BY Typed DEF PulseEnds, IInv, Spurious
  <1>2. /\ pulses' = [pulses EXCEPT !.pulse[pulses.num] = length + 1]
        /\ length' = 0 /\ ook' = "GAP_START" /\ leadIn' = leadIn /\ maxPulse' \in Nat
    BY <1>1, Typed DEF PulseEnds, Longest
  <1>3. /\ pulses.num \in Index /\ pulses.num \in Nat /\ pulses.num < MaxPulses
        /\ pulses \in [offset : Nat, num : 0 .. MaxPulses, pulse : [Index -> Nat], gap : [Index -> Nat]]
    BY <1>1, Typed, Sizes DEF IInv, TypeOK
  <1>4. /\ pulses'.offset = pulses.offset /\ pulses'.num = pulses.num /\ pulses'.gap = pulses.gap
        /\ pulses'.pulse[pulses.num] = length + 1
        /\ \A k \in Index : k # pulses.num => pulses'.pulse[k] = pulses.pulse[k]
        /\ pulses' \in [offset : Nat, num : 0 .. MaxPulses, pulse : [Index -> Nat], gap : [Index -> Nat]]
    BY <1>1, <1>2, <1>3
  <1>5. Width(pulses', pulses.num) = Width(pulses, pulses.num)
    <2>1. \A k \in 0 .. pulses.num - 1 : pulses'.pulse[k] = pulses.pulse[k] /\ pulses'.gap[k] = pulses.gap[k]
      BY <1>3, <1>4, Sizes
    <2> QED
      BY <1>3, <2>1, WidthSame
  <1>6. TypeOK'
    BY <1>1, <1>2, <1>3, <1>4, Typed, TakenKeeps, FeedKeeps DEF TypeOK, IInv, FskOk
  <1>7. Package'
    <2>1. Whole(pulses) => Whole(pulses')
      BY <1>3, <1>4, Sizes DEF Whole
    <2> QED
      BY <1>1, <1>2, <1>3, <1>4, <2>1, TakenKeeps, Sizes DEF IInv, Package
  <1>8. Spurious' /\ Detector'
    BY <1>1, <1>2, TakenKeeps, FeedKeeps DEF Spurious, Detector
  <1>9. EverySampleCounted'
    <2>1. pos - 1 = pulses.offset + Width(pulses, pulses.num) + length
      BY <1>1, Typed DEF IInv, EverySampleCounted
    <2>2. Width(pulses, pulses.num) \in Nat /\ pos \in Nat /\ length \in Nat /\ pulses.offset \in Nat
      BY Typed
    <2>3. pos' = pos + 1
      BY <1>1, TakenKeeps
    <2> QED
      BY <1>2, <1>4, <1>5, <2>1, <2>2, <2>3 DEF EverySampleCounted
  <1>10. FskSamplesCounted'
    BY <1>1, <1>2, <1>4, Typed, TakenKeeps, FeedKeeps DEF IInv, FskSamplesCounted
  <1> QED
    BY <1>1, <1>6, <1>7, <1>8, <1>9, <1>10, TakenKeeps DEF IInv

LEMMA GapWasSpuriousStep ==
  ASSUME IInv, NEW am \in Am, NEW fm \in Fm, left > 0, GapWasSpurious(am, fm), UNCHANGED fpdm
  PROVE  IInv'
  <1>1. /\ ook = "GAP_START" /\ eop = 0 /\ Taken(eop) /\ Feed(fm) /\ FskOk(fsk)
        /\ pulses.pulse[pulses.num] \in Nat
    BY Typed DEF GapWasSpurious, IInv, Spurious
  <1>2. /\ length' = length + 1 + pulses.pulse[pulses.num] /\ ook' = "PULSE"
        /\ UNCHANGED <<maxPulse, leadIn, pulses>>
    BY DEF GapWasSpurious
  <1>3. TypeOK'
    BY <1>1, <1>2, Typed, TakenKeeps, FeedKeeps DEF TypeOK, IInv, FskOk
  <1>4. length' >= MinPulseSamples /\ length' \in Nat
    BY <1>1, <1>2, Typed, Sizes DEF IInv, Package
  <1>5. Package' /\ Spurious' /\ Detector'
    BY <1>1, <1>2, <1>4, TakenKeeps, FeedKeeps, Sizes DEF IInv, Package, Whole, Spurious, Detector
  <1>6. EverySampleCounted' /\ FskSamplesCounted'
    BY <1>1, <1>2, Typed, TakenKeeps, FeedKeeps DEF IInv, EverySampleCounted, FskSamplesCounted
  <1> QED
    BY <1>1, <1>3, <1>5, <1>6, TakenKeeps DEF IInv

LEMMA GapStartStep ==
  ASSUME IInv, NEW am \in Am, NEW fm \in Fm, left > 0, GapStart(am, fm), UNCHANGED fpdm
  PROVE  IInv'
  <1>1. /\ ook = "GAP_START" /\ eop = 0 /\ Taken(eop) /\ Feed(fm) /\ FskOk(fsk)
        /\ pulses.pulse[pulses.num] \in Nat /\ length \in Nat
    BY Typed DEF GapStart, IInv, Spurious
  <1>2. /\ length' = length + 1 /\ UNCHANGED <<maxPulse, leadIn, pulses>>
        /\ ook' = IF length + 1 >= MinPulseSamples THEN "GAP" ELSE "GAP_START"
    BY DEF GapStart, GapIsReal
  <1>3. TypeOK'
    BY <1>1, <1>2, Typed, TakenKeeps, FeedKeeps DEF TypeOK, IInv, FskOk
  <1>4. /\ pulses.pulse[pulses.num] >= MinPulseSamples /\ length < MinPulseSamples
    BY <1>1, Sizes DEF IInv, Package
  <1>5. ook' = "GAP" => length' = MinPulseSamples /\ length' <= MaxGap
    BY <1>1, <1>2, <1>4, Sizes, DetectAssumption
  <1>6. Package' /\ Spurious' /\ Detector'
    BY <1>1, <1>2, <1>4, <1>5, TakenKeeps, FeedKeeps, Sizes DEF IInv, Package, Whole, Spurious, Detector
  <1>7. EverySampleCounted' /\ FskSamplesCounted'
    BY <1>1, <1>2, Typed, TakenKeeps, FeedKeeps DEF IInv, EverySampleCounted, FskSamplesCounted
  <1> QED
    BY <1>1, <1>3, <1>6, <1>7, TakenKeeps DEF IInv

LEMMA InGapStep ==
  ASSUME IInv, NEW am \in Am, left > 0, InGap(am), UNCHANGED fpdm
  PROVE  IInv'
  <1>1. /\ ook = "GAP" /\ eop = 0 /\ Taken(eop) /\ FskOk(fsk) /\ length + 1 <= MaxGap
        /\ pulses.pulse[pulses.num] \in Nat /\ length \in Nat
    BY Typed, DetectAssumption DEF InGap, EndOfPackage, IInv, Spurious
  <1>2. length' = length + 1 /\ UNCHANGED <<ook, maxPulse, leadIn, pulses, fsk>>
    BY DEF InGap
  <1>3. TypeOK'
    BY <1>1, <1>2, Typed, TakenKeeps DEF TypeOK, IInv
  <1>4. Package' /\ Spurious' /\ Detector'
    BY <1>1, <1>2, TakenKeeps, Sizes DEF IInv, Package, Whole, Spurious, Detector
  <1>5. EverySampleCounted' /\ FskSamplesCounted'
    BY <1>1, <1>2, Typed, TakenKeeps DEF IInv, EverySampleCounted, FskSamplesCounted
  <1> QED
    BY <1>1, <1>3, <1>4, <1>5, TakenKeeps DEF IInv

(* A gap is stored behind the present pulse. *)
OokState == [offset : Nat, num : 0 .. MaxPulses, pulse : [Index -> Nat], gap : [Index -> Nat]]

LEMMA ClosedIs ==
  ASSUME NEW p \in OokState, p.num < MaxPulses, NEW g \in Nat
  PROVE  /\ Closed(p, g) \in OokState
         /\ Closed(p, g).offset = p.offset /\ Closed(p, g).num = p.num + 1 /\ Closed(p, g).pulse = p.pulse
         /\ Closed(p, g).gap[p.num] = g
         /\ \A k \in Index : k # p.num => Closed(p, g).gap[k] = p.gap[k]
         /\ Width(Closed(p, g), p.num + 1) = Width(p, p.num) + p.pulse[p.num] + g
  <1> DEFINE q == Closed(p, g)
  <1>1. p.num \in Nat /\ p.num \in Index /\ p.num + 1 \in 0 .. MaxPulses
    BY Sizes DEF OokState
  <1>2. /\ q.offset = p.offset /\ q.num = p.num + 1 /\ q.pulse = p.pulse
        /\ q.gap = [p.gap EXCEPT ![p.num] = g] /\ q \in OokState
    BY <1>1 DEF Closed, OokState
  <1>3. q.gap[p.num] = g /\ \A k \in Index : k # p.num => q.gap[k] = p.gap[k]
    BY <1>1, <1>2 DEF OokState
  <1> HIDE DEF q
  <1>4. Width(q, p.num) = Width(p, p.num)
    <2>1. \A k \in 0 .. p.num - 1 : q.pulse[k] = p.pulse[k] /\ q.gap[k] = p.gap[k]
      BY <1>1, <1>2, <1>3, Sizes
    <2> QED
      BY <1>1, <2>1, WidthSame
  <1>5. Width(q, p.num + 1) = Width(q, p.num) + q.pulse[p.num] + q.gap[p.num]
    BY <1>1, WidthStep
  <1> QED
    BY <1>2, <1>3, <1>4, <1>5 DEF q

(* All that PackageIsWhole says of the pulses and gaps of a package p whose
   last real row is m. *)
Tidy(p) ==
  LET n == IF p.num > 1 /\ p.pulse[p.num - 1] = 0 /\ p.gap[p.num - 1] = 0 THEN p.num - 1 ELSE p.num
  IN /\ \A k \in 0 .. n - 1 : p.pulse[k] >= MinPulseSamples \/ (k = n - 1 /\ k > 1 /\ p.pulse[k] = 0)
     /\ \A k \in 0 .. n - 2 : p.gap[k] \in MinPulseSamples .. MaxGap + 1

LEMMA TidyIs ==
  ASSUME NEW p, NEW m \in Nat,
         p.num = m + 1 \/ (p.num = m + 2 /\ p.pulse[m + 1] = 0 /\ p.gap[m + 1] = 0),
         \A k \in 0 .. m - 1 : p.pulse[k] >= MinPulseSamples /\ p.gap[k] \in MinPulseSamples .. MaxGap + 1,
         p.pulse[m] >= MinPulseSamples \/ (m > 1 /\ p.pulse[m] = 0)
  PROVE  Tidy(p)
  <1> DEFINE n == IF p.num > 1 /\ p.pulse[p.num - 1] = 0 /\ p.gap[p.num - 1] = 0 THEN p.num - 1 ELSE p.num
  <1>1. n = m \/ n = m + 1
    OBVIOUS
  <1> HIDE DEF n
  <1>2. \A k \in 0 .. n - 1 : p.pulse[k] >= MinPulseSamples \/ (k = n - 1 /\ k > 1 /\ p.pulse[k] = 0)
    <2> SUFFICES ASSUME NEW k \in 0 .. n - 1
                 PROVE  p.pulse[k] >= MinPulseSamples \/ (k = n - 1 /\ k > 1 /\ p.pulse[k] = 0)
      OBVIOUS
    <2>1. k \in 0 .. m - 1 \/ (k = m /\ k = n - 1)
      BY <1>1
    <2> QED
      BY <2>1
  <1>3. \A k \in 0 .. n - 2 : p.gap[k] \in MinPulseSamples .. MaxGap + 1
    <2> SUFFICES ASSUME NEW k \in 0 .. n - 2 PROVE p.gap[k] \in MinPulseSamples .. MaxGap + 1
      OBVIOUS
    <2>1. k \in 0 .. m - 1
      BY <1>1
    <2> QED
      BY <2>1
  <1> QED
    BY <1>2, <1>3 DEF Tidy, n

LEMMA NextPulseStep ==
  ASSUME IInv, NEW am \in Am, left > 0, NextPulse(am), UNCHANGED fpdm
  PROVE  IInv'
  <1>1. /\ ook = "GAP" /\ eop = 0 /\ Taken(eop) /\ FskOk(fsk) /\ pulses.num + 1 < MaxPulses
        /\ pulses.pulse[pulses.num] \in Nat /\ length + 1 \in Nat /\ length <= MaxGap /\ length \in Nat
    BY Typed, Sizes DEF NextPulse, IInv, Package
  <1>2. pulses' = Closed(pulses, length + 1) /\ length' = 0 /\ ook' = "PULSE" /\ UNCHANGED <<maxPulse, leadIn, fsk>>
    BY DEF NextPulse
  <1>3. pulses \in OokState /\ pulses.num \in Index /\ pulses.num \in Nat /\ pulses.num < MaxPulses
    BY <1>1, Typed, Sizes DEF IInv, TypeOK, OokState
  <1>4. /\ pulses' \in OokState /\ pulses'.offset = pulses.offset /\ pulses'.num = pulses.num + 1
        /\ pulses'.pulse = pulses.pulse /\ pulses'.gap[pulses.num] = length + 1
        /\ \A k \in Index : k # pulses.num => pulses'.gap[k] = pulses.gap[k]
        /\ Width(pulses', pulses.num + 1) = Width(pulses, pulses.num) + pulses.pulse[pulses.num] + (length + 1)
    BY <1>1, <1>2, <1>3, ClosedIs
  <1>5. TypeOK'
    BY <1>1, <1>2, <1>4, Typed, TakenKeeps DEF TypeOK, IInv, FskOk, OokState
  <1>6. Package'
    <2>1. cut' = 0 => Whole(pulses')
      <3> SUFFICES ASSUME cut' = 0, NEW k \in 0 .. pulses.num
                   PROVE  pulses'.pulse[k] >= MinPulseSamples /\ pulses'.gap[k] \in MinPulseSamples .. MaxGap + 1
        BY <1>3, <1>4 DEF Whole
      <3>1. cut = 0
        BY <1>1, TakenKeeps
      <3>2. CASE k = pulses.num
        BY <1>1, <1>4, <3>1, <3>2, Sizes, DetectAssumption DEF IInv, Package
      <3>3. CASE k # pulses.num
        <4>1. Whole(pulses)
          BY <1>1, <3>1 DEF IInv, Package
        <4> QED
          BY <1>3, <1>4, <3>3, <4>1, Sizes DEF Whole
      <3> QED
        BY <3>2, <3>3
    <2>2. \A k \in Index : k > pulses'.num - 1 => pulses'.pulse[k] = 0
      BY <1>1, <1>3, <1>4, Sizes DEF IInv, Package
    <2>3. pulses'.num \in Index
      BY <1>1, <1>3, <1>4, Sizes
    <2> QED
      BY <1>2, <1>3, <1>4, <2>1, <2>2, <2>3, Sizes DEF Package
  <1>7. Spurious' /\ Detector'
    BY <1>1, <1>2, TakenKeeps DEF Spurious, Detector, IInv
  <1>8. EverySampleCounted' /\ FskSamplesCounted'
    <2>1. pos - 1 = pulses.offset + Width(pulses, pulses.num) + length + pulses.pulse[pulses.num]
      BY <1>1 DEF IInv, EverySampleCounted
    <2>2. Width(pulses, pulses.num) \in Nat /\ pos \in Nat /\ pulses.offset \in Nat
      BY Typed
    <2>3. pos' = pos + 1 /\ last'.type # "FSK"
      BY <1>1, TakenKeeps
    <2>4. Width(pulses', pulses'.num) = Width(pulses, pulses.num) + pulses.pulse[pulses.num] + (length + 1)
      BY <1>4
    <2>5. pos' - 1 = pulses'.offset + Width(pulses', pulses'.num) + length'
      BY <1>1, <1>2, <1>4, <2>1, <2>2, <2>3, <2>4
    <2>6. pulses'.num # 0 /\ length' = 0 /\ ook' = "PULSE"
      BY <1>2, <1>3, <1>4
    <2>7. EverySampleCounted'
      BY <1>1, <1>2, <1>4, <2>2, <2>4, <2>5, <2>6 DEF EverySampleCounted
    <2> QED
      BY <2>3, <2>6, <2>7 DEF FskSamplesCounted
  <1> QED
    BY <1>1, <1>5, <1>6, <1>7, <1>8, TakenKeeps DEF IInv

(* The package is returned. *)
LEMMA ReturnOokStep ==
  ASSUME IInv, NEW am \in Am, left > 0, ReturnOok(am), UNCHANGED fpdm
  PROVE  IInv'
  <1> DEFINE p == Closed(pulses, length + 1)
  <1>1. /\ ook = "GAP" /\ FskOk(fsk) /\ length \in Nat /\ length + 1 \in Nat
        /\ pulses.pulse[pulses.num] \in Nat
    BY Typed DEF ReturnOok
  <1>2. /\ pulses' = Ending(am) /\ ook' = "IDLE" /\ eop' = 0 /\ reread' = am /\ length' \in Nat
        /\ last' = [type |-> "OOK", flushed |-> 0, cut |-> cut, end |-> pos, ook |-> Ending(am), fsk |-> fsk]
        /\ UNCHANGED <<fpdm, left, pos, cut, maxPulse, leadIn, fsk>>
    BY <1>1 DEF ReturnOok, Returned
  <1>3. pulses \in OokState /\ pulses.num \in Index /\ pulses.num \in Nat /\ pulses.num < MaxPulses
    BY <1>1, Typed, Sizes DEF IInv, TypeOK, OokState
  <1>4. /\ p \in OokState /\ p.offset = pulses.offset /\ p.num = pulses.num + 1 /\ p.pulse = pulses.pulse
        /\ p.gap[pulses.num] = length + 1 /\ \A k \in Index : k # pulses.num => p.gap[k] = pulses.gap[k]
        /\ Width(p, pulses.num + 1) = Width(pulses, pulses.num) + pulses.pulse[pulses.num] + (length + 1)
    BY <1>1, <1>3, ClosedIs
  <1>5. /\ pulses' \in OokState /\ pulses'.offset = pulses.offset /\ pulses'.pulse = pulses.pulse
        /\ \A k \in Index : k < pulses.num => pulses'.gap[k] = pulses.gap[k]
        /\ \/ pulses'.num = pulses.num + 1
           \/ /\ pulses'.num = pulses.num + 2 /\ pulses.num + 1 \in Index /\ pulses'.pulse[pulses.num + 1] = 0
              /\ pulses'.gap[pulses.num + 1] = 0
        /\ Width(pulses', pulses'.num) = Width(pulses, pulses.num) + pulses.pulse[pulses.num] + (length + 1)
    <2>1. CASE am # "high" \/ pulses.num + 1 = MaxPulses
      <3>1. pulses' = p
        BY <1>2, <2>1 DEF Ending
      <3> HIDE DEF p
      <3> QED
        BY <1>3, <1>4, <3>1, Sizes
    <2>2. CASE ~(am # "high" \/ pulses.num + 1 = MaxPulses)
      <3>1. pulses' = Closed(p, 0)
        BY <1>2, <2>2 DEF Ending
      <3>2. p.num < MaxPulses /\ pulses.num + 1 \in Index
        BY <1>3, <1>4, <2>2, Sizes
      <3>3. pulses.pulse[pulses.num + 1] = 0
        BY <1>1, <1>3, <3>2 DEF IInv, Package
      <3> HIDE DEF p
      <3>4. /\ pulses' \in OokState /\ pulses'.offset = p.offset /\ pulses'.num = p.num + 1 /\ pulses'.pulse = p.pulse
            /\ pulses'.gap[p.num] = 0 /\ \A k \in Index : k # p.num => pulses'.gap[k] = p.gap[k]
            /\ Width(pulses', p.num + 1) = Width(p, p.num) + p.pulse[p.num] + 0
        BY <1>4, <3>1, <3>2, ClosedIs
      <3>5. Width(pulses, pulses.num) \in Nat
        BY Typed
      <3> QED
        BY <1>1, <1>3, <1>4, <3>2, <3>3, <3>4, <3>5, Sizes
    <2> QED
      BY <2>1, <2>2
  <1> HIDE DEF p
  <1>6. TypeOK'
    BY <1>1, <1>2, <1>5, Typed DEF TypeOK, IInv, OokState
  <1>7. Package' /\ Spurious' /\ Detector' /\ EverySampleCounted' /\ FskSamplesCounted' /\ FskWidthsAreReal'
    BY <1>2 DEF Package, Spurious, Detector, EverySampleCounted, FskSamplesCounted, FskWidthsAreReal
  <1>8. PackageIsWhole'
    <2> SUFFICES ASSUME cut = 0 PROVE PackageIsWhole'
      BY <1>2 DEF PackageIsWhole
    <2>1. Whole(pulses) /\ (pulses.pulse[pulses.num] >= MinPulseSamples
                            \/ (pulses.num > 1 /\ pulses.pulse[pulses.num] = 0))
      BY <1>1, Typed DEF IInv, Package, Spurious
    <2> DEFINE m == pulses.num
    <2>2. \A k \in 0 .. m - 1 : pulses'.pulse[k] >= MinPulseSamples /\ pulses'.gap[k] \in MinPulseSamples .. MaxGap + 1
      BY <1>3, <1>5, <2>1, Sizes DEF Whole
    <2>3. /\ m \in Nat
          /\ pulses'.num = m + 1 \/ (pulses'.num = m + 2 /\ pulses'.pulse[m + 1] = 0 /\ pulses'.gap[m + 1] = 0)
          /\ pulses'.pulse[m] >= MinPulseSamples \/ (m > 1 /\ pulses'.pulse[m] = 0)
      BY <1>3, <1>5, <2>1
    <2> HIDE DEF m
    <2>4. Tidy(pulses')
      BY <2>2, <2>3, TidyIs
    <2>5. Width(pulses', pulses'.num) = pos - pulses'.offset
      <3>1. pos - 1 = pulses.offset + Width(pulses, pulses.num) + length + pulses.pulse[pulses.num]
        BY <1>1 DEF IInv, EverySampleCounted
      <3>2. Width(pulses, pulses.num) \in Nat /\ pos \in Nat /\ pulses.offset \in Nat
        BY Typed
      <3> QED
        BY <1>1, <1>5, <3>1, <3>2
    <2> QED
      BY <1>2, <2>4, <2>5 DEF PackageIsWhole, Tidy
  <1> QED
    BY <1>6, <1>7, <1>8 DEF IInv

LEMMA ReturnFskStep ==
  ASSUME IInv, NEW am \in Am, left > 0, ReturnFsk(am), UNCHANGED fpdm
  PROVE  IInv'
  <1>1. /\ ook = "GAP_START" /\ FskOk(fsk) /\ length + 1 \in Nat /\ fsk.num > MinPulses
        /\ fsk.num \in Nat /\ fsk.num < MaxPulses /\ MinPulses \in Nat
    BY Typed, DetectAssumption DEF ReturnFsk, FskFound, FskOk, FskState
  <1>2. /\ length' = length + 1 /\ fsk' = Wrapped /\ ook' = "IDLE" /\ eop' = 0 /\ reread' = am
        /\ last' = [type |-> "FSK", flushed |-> 0, cut |-> cut, end |-> pos, ook |-> pulses, fsk |-> Wrapped]
        /\ UNCHANGED <<fpdm, left, pos, cut, maxPulse, leadIn, pulses>>
    BY DEF ReturnFsk, Returned
  <1>3. fpdm = "classic" => Classical(fsk) /\ Wrapped = WrapUp(fsk)
    BY <1>1 DEF IInv, Detector, Wrapped
  <1>4. fpdm = "minmax" => Wrapped = fsk
    BY DEF Wrapped
  <1>5. /\ fsk' \in FskState
        /\ fpdm = "classic" =>
             /\ fsk'.num = fsk.num + 1 /\ fsk'.lost + Width(fsk', fsk.num + 1) = Seen(fsk) + 1
             /\ \A k \in 0 .. fsk.num - 1 :
                  /\ fsk'.gap[k] >= MinPulseSamples
                  /\ fsk'.pulse[k] >= MinPulseSamples \/ (k = 0 /\ fsk'.pulse[0] = 0)
    BY <1>1, <1>2, <1>3, <1>4, Typed, WrapUpKeeps DEF FskOk
  <1>6. TypeOK'
    BY <1>1, <1>2, <1>5, Typed DEF TypeOK, IInv
  <1>7. Package' /\ Spurious' /\ Detector' /\ EverySampleCounted' /\ PackageIsWhole'
    BY <1>2 DEF Package, Spurious, Detector, EverySampleCounted, PackageIsWhole
  <1>8. FskWidthsAreReal'
    BY <1>1, <1>2, <1>5 DEF FskWidthsAreReal
  <1>9. FskSamplesCounted'
    <2> SUFFICES ASSUME fpdm = "classic", pulses.num = 0
                 PROVE  fsk'.lost + Width(fsk', fsk'.num) = pos - pulses.offset
      BY <1>2 DEF FskSamplesCounted
    <2>1. Seen(fsk) = pos - 1 - pulses.offset
      BY <1>1 DEF IInv, FskSamplesCounted
    <2>2. Width(fsk', fsk'.num) = Width(fsk', fsk.num + 1)
      BY <1>5
    <2> QED
      BY <1>5, <2>1, <2>2, Typed
  <1> QED
    BY <1>6, <1>7, <1>8, <1>9 DEF IInv

LEMMA BlockStep ==
  ASSUME IInv, NEW n \in 1 .. MaxBlock, BlockOf(n)
  PROVE  IInv'
  <1>1. /\ left = 0 /\ left' = n /\ last' = None /\ last'.type = "none"
        /\ UNCHANGED <<fpdm, ook, length, maxPulse, leadIn, pulses, fsk, eop, reread, pos, cut>>
    BY DEF BlockOf, detector, None
  <1>2. eop = 0 /\ n \in 0 .. MaxBlock
    BY <1>1, Typed DEF IInv, Spurious
  <1>3. TypeOK'
    BY <1>1, <1>2 DEF IInv, TypeOK
  <1>4. Package' /\ Spurious' /\ Detector' /\ EverySampleCounted'
    BY <1>1, <1>2 DEF IInv, Package, Spurious, Detector, EverySampleCounted
  <1>5. FskSamplesCounted' /\ PackageIsWhole' /\ FskWidthsAreReal'
    BY <1>1 DEF IInv, FskSamplesCounted, PackageIsWhole, FskWidthsAreReal
  <1> QED
    BY <1>3, <1>4, <1>5 DEF IInv

LEMMA FlushDropsStep ==
  ASSUME IInv, FlushDrops
  PROVE  IInv'
  <1>1. /\ left = 0 /\ ook' = "IDLE" /\ last' = None /\ last'.type = "none"
        /\ UNCHANGED <<fpdm, length, maxPulse, leadIn, pulses, fsk, eop, left, reread, pos, cut>>
    BY DEF FlushDrops, None
  <1>2. eop = 0
    BY <1>1, Typed DEF IInv, Spurious
  <1>3. TypeOK'
    BY <1>1 DEF IInv, TypeOK
  <1>4. Package' /\ Spurious' /\ Detector' /\ EverySampleCounted'
    BY <1>1, <1>2 DEF Package, Spurious, Detector, EverySampleCounted
  <1>5. FskSamplesCounted' /\ PackageIsWhole' /\ FskWidthsAreReal'
    BY <1>1 DEF FskSamplesCounted, PackageIsWhole, FskWidthsAreReal
  <1> QED
    BY <1>3, <1>4, <1>5 DEF IInv

LEMMA ResetStep ==
  ASSUME IInv, Reset
  PROVE  IInv'
  <1>1. /\ left = 0 /\ ook' = "IDLE" /\ length' = 0 /\ maxPulse' = 0 /\ leadIn' = 0
        /\ fsk' = [fsk EXCEPT !.state = "INIT", !.len = 0, !.skip = SkipSamples]
        /\ last' = None /\ last'.type = "none" /\ UNCHANGED <<fpdm, pulses, eop, left, reread, pos, cut>>
    BY DEF Reset, None
  <1>2. eop = 0
    BY <1>1, Typed DEF IInv, Spurious
  <1>3. fsk' \in FskState /\ fsk'.state = "INIT"
    <2>1. fsk \in FskState /\ SkipSamples \in 0 .. SkipSamples /\ 0 \in Nat
      BY Typed, Sizes
    <2> QED
      BY <1>1, <2>1 DEF FskState
  <1>4. TypeOK'
    BY <1>1, <1>3, Typed DEF IInv, TypeOK
  <1>5. Package' /\ Spurious' /\ Detector' /\ EverySampleCounted'
    BY <1>1, <1>2 DEF Package, Spurious, Detector, EverySampleCounted
  <1>6. FskSamplesCounted' /\ PackageIsWhole' /\ FskWidthsAreReal'
    BY <1>1 DEF FskSamplesCounted, PackageIsWhole, FskWidthsAreReal
  <1> QED
    BY <1>4, <1>5, <1>6 DEF IInv

(* What a flush makes of the present pulse, and of the package. *)
Flushed == IF PulseStored THEN [pulses EXCEPT !.pulse[pulses.num] = length] ELSE pulses

LEMMA FlushedIs ==
  ASSUME IInv, FlushReturns
  PROVE  /\ Flushed \in OokState /\ Flushed.offset = pulses.offset /\ Flushed.num = pulses.num
         /\ Flushed.gap = pulses.gap /\ pulses.num \in Index /\ Flushed.pulse[pulses.num] \in Nat
         /\ \A k \in Index : k # pulses.num => Flushed.pulse[k] = pulses.pulse[k]
         /\ Width(Flushed, pulses.num) = Width(pulses, pulses.num)
         /\ length' \in Nat /\ pos - 1 = pulses.offset + Width(pulses, pulses.num) + Flushed.pulse[pulses.num] + length'
         /\ cut = 0 => \/ Flushed.pulse[pulses.num] >= MinPulseSamples
                       \/ pulses.num > 1 /\ Flushed.pulse[pulses.num] = 0
  <1>1. /\ ook # "IDLE" /\ left = 0 /\ eop = 0 /\ length \in Nat /\ pulses.num \in Index /\ pulses.num \in Nat
        /\ pulses.num < MaxPulses /\ pulses.offset \in Nat /\ pulses.pulse[pulses.num] \in Nat /\ pos \in Nat
        /\ Width(pulses, pulses.num) \in Nat /\ pulses \in OokState
    BY Typed, Sizes DEF FlushReturns, IInv, Spurious, TypeOK, OokState
  <1>2. length' = IF PulseStored THEN 0 ELSE length
    BY DEF FlushReturns
  <1>3. /\ Flushed \in OokState /\ Flushed.offset = pulses.offset /\ Flushed.num = pulses.num
        /\ Flushed.gap = pulses.gap /\ \A k \in Index : k # pulses.num => Flushed.pulse[k] = pulses.pulse[k]
        /\ Flushed.pulse[pulses.num] = IF PulseStored THEN length ELSE pulses.pulse[pulses.num]
    BY <1>1 DEF Flushed, OokState
  <1>4. Width(Flushed, pulses.num) = Width(pulses, pulses.num)
    <2>1. \A k \in 0 .. pulses.num - 1 : Flushed.pulse[k] = pulses.pulse[k] /\ Flushed.gap[k] = pulses.gap[k]
      BY <1>1, <1>3, Sizes
    <2> QED
      BY <1>1, <2>1, WidthSame
  <1>5. CASE PulseStored
    <2>1. length >= MinPulseSamples /\ ook = "PULSE"
      BY <1>1, <1>5, Sizes DEF PulseStored, TooShort
    <2>2. pos - 1 = pulses.offset + Width(pulses, pulses.num) + length
      BY <1>1, <2>1 DEF IInv, EverySampleCounted
    <2> QED
      BY <1>1, <1>2, <1>3, <1>4, <1>5, <2>1, <2>2
  <1>6. CASE TooShort
    <2>1. /\ ~PulseStored /\ pulses.pulse[pulses.num] = 0 /\ pulses.num > 1 /\ ook = "PULSE"
      BY <1>1, <1>6 DEF PulseStored, TooShort, IInv, Package, FlushReturns
    <2>2. pos - 1 = pulses.offset + Width(pulses, pulses.num) + length
      BY <1>1, <2>1 DEF IInv, EverySampleCounted
    <2> QED
      BY <1>1, <1>2, <1>3, <1>4, <2>1, <2>2
  <1>7. CASE ook # "PULSE"
    <2>1. /\ ~PulseStored
          /\ cut = 0 => pulses.pulse[pulses.num] >= MinPulseSamples
      BY <1>1, <1>7, Typed DEF PulseStored, IInv, Package
    <2>2. pos - 1 = pulses.offset + Width(pulses, pulses.num) + length + pulses.pulse[pulses.num]
      BY <1>1, <1>7 DEF IInv, EverySampleCounted
    <2> QED
      BY <1>1, <1>2, <1>3, <1>4, <1>7, <2>1, <2>2 DEF PulseStored
  <1> QED
    BY <1>5, <1>6, <1>7 DEF PulseStored

LEMMA FlushReturnsStep ==
  ASSUME IInv, FlushReturns
  PROVE  IInv'
  <1> DEFINE isFsk == ook # "GAP" /\ FskFound
  <1>1. /\ left = 0 /\ ook # "IDLE" /\ ook' = "IDLE" /\ UNCHANGED <<fpdm, leadIn, eop, left, reread, pos, cut>>
        /\ fsk' = IF isFsk THEN Wrapped ELSE fsk
        /\ pulses' = IF isFsk THEN Flushed ELSE Closed(Flushed, length')
        /\ last' = [type |-> IF isFsk THEN "FSK" ELSE "OOK", flushed |-> 1, cut |-> cut,
                    end |-> pos - 1, ook |-> pulses', fsk |-> fsk']
    BY DEF FlushReturns, Flushed
  <1>2. maxPulse' \in Nat /\ length' \in Nat
    BY Typed, FlushedIs DEF FlushReturns, Longest
  <1>3. eop = 0 /\ FskOk(fsk)
    BY <1>1, Typed DEF IInv, Spurious
  <1> HIDE DEF isFsk
  <1>4. /\ fsk' \in FskState
        /\ (fpdm = "classic" /\ fsk'.state = "FH") => fsk'.num > 0
        /\ fpdm = "classic" /\ isFsk =>
             \A k \in 0 .. fsk'.num - 2 :
               /\ fsk'.gap[k] >= MinPulseSamples
               /\ fsk'.pulse[k] >= MinPulseSamples \/ (k = 0 /\ fsk'.pulse[k] = 0)
    <2>1. CASE isFsk /\ fpdm = "classic"
      <3>1. fsk' = WrapUp(fsk) /\ Classical(fsk) /\ fsk.num \in Nat
        BY <1>1, <1>3, <2>1 DEF Wrapped, IInv, Detector, FskOk, FskState
      <3> QED
        BY <1>3, <3>1, WrapUpKeeps
    <2>2. CASE ~(isFsk /\ fpdm = "classic")
      BY <1>1, <1>3, <2>2 DEF Wrapped, IInv, TypeOK
    <2> QED
      BY <2>1, <2>2
  <1>5. pulses' \in OokState
    BY <1>1, <1>2, FlushedIs, ClosedIs, Sizes
  <1>6. TypeOK'
    <2>1. last'.type \in {"none", "OOK", "FSK"}
      BY <1>1
    <2>2. /\ leadIn' \in 0 .. LowRatio + 1 /\ eop' \in {0, 1} /\ left' \in 0 .. MaxBlock /\ reread' \in Am \cup {"new"}
          /\ pos' \in Nat /\ cut' \in {0, 1} /\ fpdm' = fpdm /\ fpdm \in {"classic", "minmax"}
      BY <1>1, Typed
    <2>3. ook' = "IDLE" /\ pulses' \in [offset : Nat, num : 0 .. MaxPulses, pulse : [Index -> Nat], gap : [Index -> Nat]]
      BY <1>1, <1>5 DEF OokState
    <2>4. ook' # "IDLE" => pulses'.num < MaxPulses /\ fsk'.num < MaxPulses
      BY <2>3
    <2>5. ook' \in {"IDLE", "PULSE", "GAP_START", "GAP"}
      BY <2>3
    <2> QED
      BY <1>2, <1>4, <2>1, <2>2, <2>3, <2>4, <2>5 DEF TypeOK
  <1>7. Package' /\ Spurious' /\ Detector' /\ EverySampleCounted' /\ FskSamplesCounted'
    BY <1>1, <1>3 DEF Package, Spurious, Detector, EverySampleCounted, FskSamplesCounted
  <1>8. FskWidthsAreReal'
    BY <1>1, <1>4 DEF FskWidthsAreReal
  <1>9. PackageIsWhole'
    <2> SUFFICES ASSUME ~isFsk, cut = 0 PROVE PackageIsWhole'
      BY <1>1 DEF PackageIsWhole
    <2> DEFINE m == pulses.num
    <2>1. pulses' = Closed(Flushed, length')
      BY <1>1
    <2>2. /\ pulses'.offset = pulses.offset /\ pulses'.num = m + 1 /\ pulses'.pulse = Flushed.pulse
          /\ \A k \in Index : k # m => pulses'.gap[k] = pulses.gap[k]
          /\ Width(pulses', m + 1) = Width(pulses, m) + Flushed.pulse[m] + length'
      BY <2>1, FlushedIs, ClosedIs, Sizes
    <2>3. m \in Nat /\ m \in Index /\ Whole(pulses)
      BY <1>1, FlushedIs, Sizes DEF IInv, Package
    <2>4. \A k \in 0 .. m - 1 : pulses'.pulse[k] >= MinPulseSamples /\ pulses'.gap[k] \in MinPulseSamples .. MaxGap + 1
      BY <2>2, <2>3, FlushedIs, Sizes DEF Whole
    <2>5. pulses'.pulse[m] >= MinPulseSamples \/ (m > 1 /\ pulses'.pulse[m] = 0)
      BY <2>2, FlushedIs
    <2>6. Width(pulses', pulses'.num) = (pos - 1) - pulses'.offset
      BY <1>2, <2>2, <2>3, FlushedIs, Typed
    <2> HIDE DEF m
    <2>7. Tidy(pulses')
      BY <2>2, <2>3, <2>4, <2>5, TidyIs
    <2> QED
      BY <1>1, <2>6, <2>7 DEF PackageIsWhole, Tidy
  <1> QED
    BY <1>6, <1>7, <1>8, <1>9 DEF IInv

-----------------------------------------------------------------------------
(* The theorems. *)

LEMMA InitIInv == Init => IInv
  <1> SUFFICES ASSUME Init PROVE IInv
    OBVIOUS
  <1>1. Cleared \in [Index -> Nat]
    BY DEF Cleared
  <1>2. TypeOK
    BY <1>1, FskInitOk, Sizes, DetectAssumption DEF Init, TypeOK, Empty, None
  <1> QED
    BY <1>2 DEF Init, IInv, None, Package, Spurious, Detector, EverySampleCounted, FskSamplesCounted,
                PackageIsWhole, FskWidthsAreReal

(* A sample, whatever the state it finds. *)
LEMMA SampleStep ==
  ASSUME IInv, NEW am \in Am, NEW fm \in Fm, SampleOf(am, fm)
  PROVE  IInv'
  <1>1. left > 0 /\ UNCHANGED fpdm
    BY DEF SampleOf
  <1>2. CASE IdleStart(am)
    BY <1>1, <1>2, IdleStartStep
  <1>3. CASE IdleWaits(am)
    BY <1>1, <1>3, IdleWaitsStep
  <1>4. CASE InPulse(am, fm)
    BY <1>1, <1>4, InPulseStep
  <1>5. CASE PulseSpurious(am, fm)
    BY <1>1, <1>5, PulseSpuriousStep
  <1>6. CASE PulseEnds(am, fm)
    BY <1>1, <1>6, PulseEndsStep
  <1>7. CASE GapWasSpurious(am, fm)
    BY <1>1, <1>7, GapWasSpuriousStep
  <1>8. CASE GapStart(am, fm)
    BY <1>1, <1>8, GapStartStep
  <1>9. CASE ReturnFsk(am)
    BY <1>1, <1>9, ReturnFskStep
  <1>10. CASE InGap(am)
    BY <1>1, <1>10, InGapStep
  <1>11. CASE NextPulse(am)
    BY <1>1, <1>11, NextPulseStep
  <1>12. CASE ReturnOok(am)
    BY <1>1, <1>12, ReturnOokStep
  <1> QED
    BY <1>2, <1>3, <1>4, <1>5, <1>6, <1>7, <1>8, <1>9, <1>10, <1>11, <1>12 DEF SampleOf

LEMMA NextIInv == IInv /\ [Next]_vars => IInv'
  <1> SUFFICES ASSUME IInv, [Next]_vars PROVE IInv'
    OBVIOUS
  <1>1. CASE Block
    BY <1>1, BlockStep DEF Block
  <1>2. CASE Sample
    BY <1>2, SampleStep DEF Sample
  <1>3. CASE FlushDrops
    BY <1>3, FlushDropsStep
  <1>4. CASE FlushReturns
    BY <1>4, FlushReturnsStep
  <1>5. CASE Reset
    BY <1>5, ResetStep
  <1>6. CASE UNCHANGED vars
    BY <1>6 DEF vars, detector, IInv, TypeOK, Package, Spurious, Detector, EverySampleCounted, FskSamplesCounted,
                PackageIsWhole, FskWidthsAreReal
  <1> QED
    BY <1>1, <1>2, <1>3, <1>4, <1>5, <1>6 DEF Next

LEMMA Invariant == Spec => []IInv
  <1>1. Init => IInv
    BY InitIInv
  <1>2. IInv /\ [Next]_vars => IInv'
    BY NextIInv
  <1> QED
    BY <1>1, <1>2, PTL DEF Spec

(* No sequence of samples, of block ends, flushes and resets takes a counter or
   an index of pulse_detect_package out of its range: the packages never have
   more than PD_MAX_PULSES pulses, and while one is under way there is room. *)
THEOREM TypeCorrect == Spec => []TypeOK
  BY Invariant, PTL DEF IInv

(* The count of the present pulse or gap, and what is stored, add up to the
   samples since the package began, whatever was joined, dropped or rewound. *)
THEOREM EverySampleIsCounted == Spec => []EverySampleCounted
  BY Invariant, PTL DEF IInv

(* pulse_detect_fsk_classic and _minmax have seen every sample of the first
   pulse, and the package they leave is as long as the pulse it replaces,
   although pulses were joined, taken back and shifted out. *)
THEOREM FskSamplesAreCounted == Spec => []FskSamplesCounted
  BY Invariant, PTL DEF IInv

(* The slicers get a package that covers its stretch of the stream and holds no
   pulse or gap that is too short, or a gap that should have ended it. *)
THEOREM PackagesAreWhole == Spec => []PackageIsWhole
  BY Invariant, PTL DEF IInv

(* pulse_detect_fsk_classic stores no pulse and no gap that is too short to be
   real, other than the first pulse of a package that starts low and its last. *)
THEOREM FskWidthsAreLong == Spec => []FskWidthsAreReal
  BY Invariant, PTL DEF IInv

-----------------------------------------------------------------------------
(* The squelch. *)

SqIInv == SquelchTypeOK /\ ExactlyWanted /\ InOrder /\ LookBehind

Done(i) == \E k \in DOMAIN done : done[k] = i

-----------------------------------------------------------------------------
(* Appending to a sequence keeps what it holds and adds one element. *)
LEMMA AppendIs ==
  ASSUME NEW S, NEW s \in Seq(S), NEW x \in S
  PROVE  /\ Append(s, x) \in Seq(S)
         /\ Len(Append(s, x)) = Len(s) + 1
         /\ DOMAIN Append(s, x) = 1 .. Len(s) + 1
         /\ DOMAIN s = 1 .. Len(s) /\ Len(s) \in Nat
         /\ \A i \in 1 .. Len(s) : Append(s, x)[i] = s[i]
         /\ Append(s, x)[Len(s) + 1] = x
  OBVIOUS

(* An ascending sequence stays one if a larger element is appended, and it
   then holds that element too. *)
LEMMA AppendLarger ==
  ASSUME NEW n \in Nat, NEW s \in Seq(1 .. n), NEW x \in Nat,
         \A k, l \in DOMAIN s : k < l => s[k] < s[l],
         \A k \in DOMAIN s : s[k] < x
  PROVE  /\ \A k, l \in DOMAIN Append(s, x) : k < l => Append(s, x)[k] < Append(s, x)[l]
         /\ \A i \in Nat : (\E k \in DOMAIN Append(s, x) : Append(s, x)[k] = i)
                     <=> (\E k \in DOMAIN s : s[k] = i) \/ i = x
  <1> DEFINE t == Append(s, x)
  <1>0. s \in Seq(Nat) /\ \A k \in DOMAIN s : s[k] \in 1 .. n
    OBVIOUS
  <1>1. /\ Len(s) \in Nat /\ DOMAIN s = 1 .. Len(s)
        /\ DOMAIN t = 1 .. Len(s) + 1
        /\ \A i \in 1 .. Len(s) : t[i] = s[i]
        /\ t[Len(s) + 1] = x
    BY <1>0, AppendIs
  <1> HIDE DEF t
  <1>2. \A k, l \in DOMAIN t : k < l => t[k] < t[l]
    <2> SUFFICES ASSUME NEW k \in DOMAIN t, NEW l \in DOMAIN t, k < l
                 PROVE  t[k] < t[l]
      OBVIOUS
    <2>1. k \in 1 .. Len(s)
      BY <1>1
    <2>2. CASE l = Len(s) + 1
      BY <1>1, <2>1, <2>2
    <2>3. CASE l # Len(s) + 1
      BY <1>1, <2>1, <2>3
    <2> QED
      BY <2>2, <2>3
  <1>3. ASSUME NEW i \in Nat
        PROVE  (\E k \in DOMAIN t : t[k] = i) <=> (\E k \in DOMAIN s : s[k] = i) \/ i = x
    <2>1. ASSUME NEW k \in DOMAIN t, t[k] = i
          PROVE  (\E m \in DOMAIN s : s[m] = i) \/ i = x
      <3>1. CASE k = Len(s) + 1
        BY <1>1, <2>1, <3>1
      <3>2. CASE k # Len(s) + 1
        BY <1>1, <2>1, <3>2
      <3> QED
        BY <3>1, <3>2
    <2>2. ASSUME NEW k \in DOMAIN s, s[k] = i
          PROVE  \E m \in DOMAIN t : t[m] = i
      <3>1. k \in DOMAIN t /\ t[k] = i
        BY <1>1, <2>2
      <3> QED
        BY <3>1
    <2>3. Len(s) + 1 \in DOMAIN t /\ t[Len(s) + 1] = x
      BY <1>1
    <2> QED
      BY <2>1, <2>2, <2>3
  <1> QED
    BY <1>2, <1>3 DEF t

-----------------------------------------------------------------------------
LEMMA SqInitHolds == SquelchInit => SqIInv
  BY DEF SquelchInit, SqIInv, SquelchTypeOK, ExactlyWanted, InOrder, LookBehind

(* What a push does to the history of pieces. *)
LEMMA PushHistory ==
  ASSUME SquelchTypeOK, NEW a \in {0, 1}, Push(a)
  PROVE  /\ Len(active) \in Nat /\ Len(active') = Len(active) + 1
         /\ DOMAIN active = 1 .. Len(active) /\ DOMAIN segment = 1 .. Len(active)
         /\ DOMAIN active' = 1 .. Len(active) + 1
         /\ DOMAIN segment' = 1 .. Len(active) + 1
         /\ active' \in Seq({0, 1}) /\ segment' \in Seq(Nat) /\ Len(segment') = Len(active')
         /\ \A i \in 1 .. Len(active) : active'[i] = active[i] /\ segment'[i] = segment[i]
         /\ active'[Len(active) + 1] = a /\ segment'[Len(active) + 1] = current
         /\ \A i \in 1 .. Len(active) : active[i] \in {0, 1} /\ segment[i] \in Nat
  <1>1. /\ active' = Append(active, a) /\ active \in Seq({0, 1})
        /\ segment' = Append(segment, current) /\ segment \in Seq(Nat)
        /\ Len(segment) = Len(active) /\ current \in Nat
    BY DEF SquelchTypeOK, Push
  <1>2. /\ active' \in Seq({0, 1}) /\ Len(active') = Len(active) + 1
        /\ DOMAIN active' = 1 .. Len(active) + 1
        /\ DOMAIN active = 1 .. Len(active) /\ Len(active) \in Nat
        /\ \A i \in 1 .. Len(active) : active'[i] = active[i]
        /\ active'[Len(active) + 1] = a
    BY <1>1, AppendIs
  <1>3. /\ segment' \in Seq(Nat) /\ Len(segment') = Len(segment) + 1
        /\ DOMAIN segment' = 1 .. Len(segment) + 1 /\ DOMAIN segment = 1 .. Len(segment)
        /\ \A i \in 1 .. Len(segment) : segment'[i] = segment[i]
        /\ segment'[Len(segment) + 1] = current
    BY <1>1, AppendIs
  <1>4. \A i \in 1 .. Len(active) : active[i] \in {0, 1} /\ segment[i] \in Nat
    BY <1>1, <1>2
  <1> QED
    BY <1>1, <1>2, <1>3, <1>4

(* What a push processes: the new piece if it is active or a tail, and the
   one before it if that was skipped and the new one is active. *)
LEMMA PushDone ==
  ASSUME SqIInv, NEW a \in {0, 1}, Push(a)
  PROVE  /\ done' \in Seq(1 .. Len(active) + 1)
         /\ \A k, l \in DOMAIN done' : k < l => done'[k] < done'[l]
         /\ \A i \in Nat : Done(i)' <=>
              \/ Done(i)
              \/ i = Len(active) /\ a = 1 /\ prevLen = 1
              \/ i = Len(active) + 1 /\ (a = 1 \/ prevActive = 1)
  <1> DEFINE n == Len(active)
  <1>0. /\ n \in Nat /\ done \in Seq(1 .. n) /\ done \in Seq(1 .. n + 1)
        /\ prev \in Nat /\ prevDone \in {0, 1} /\ prevLen \in {0, 1} /\ prevActive \in {0, 1}
        /\ \A k \in DOMAIN done : done[k] \in 1 .. n
    BY DEF SqIInv, SquelchTypeOK
  <1>1. \A k, l \in DOMAIN done : k < l => done[k] < done[l]
    BY DEF SqIInv, InOrder
  <1>2. /\ done' = With(With(done, prev, Replay(a)), n + 1, Process(a))
    BY DEF Push
  <1>3. prevLen = 1 => /\ n > 0
                       /\ prevDone = 1 <=> Done(n)
                       /\ prevDone = 0 => prev = n
    BY DEF SqIInv, LookBehind, Done
  <1>4. CASE Replay(a)
    <2>1. a = 1 /\ prevLen = 1 /\ prevDone = 0 /\ prev = n /\ ~Done(n) /\ n > 0
      BY <1>3, <1>4 DEF Replay
    <2>2. \A k \in DOMAIN done : done[k] < n
      BY <1>0, <2>1 DEF Done
    <2> DEFINE d == Append(done, n)
    <2>3. /\ d \in Seq(1 .. n) /\ DOMAIN d = 1 .. Len(done) + 1
      BY <1>0, <2>1, AppendIs
    <2>4. /\ \A k, l \in DOMAIN d : k < l => d[k] < d[l]
          /\ \A i \in Nat : (\E k \in DOMAIN d : d[k] = i) <=> Done(i) \/ i = n
      BY <1>0, <1>1, <2>2, AppendLarger DEF Done
    <2>5. done' = Append(d, n + 1)
      BY <1>2, <1>4, <2>1 DEF With, Process
    <2> HIDE DEF d
    <2>6. \A k \in DOMAIN d : d[k] < n + 1
      BY <1>0, <2>3
    <2>7. d \in Seq(1 .. n + 1)
      BY <1>0, <2>3
    <2>8. /\ \A k, l \in DOMAIN done' : k < l => done'[k] < done'[l]
          /\ \A i \in Nat : Done(i)' <=> (\E k \in DOMAIN d : d[k] = i) \/ i = n + 1
      BY <1>0, <2>3, <2>4, <2>5, <2>6, AppendLarger DEF Done
    <2>9. done' \in Seq(1 .. n + 1)
      BY <1>0, <2>5, <2>7, AppendIs
    <2> QED
      BY <2>1, <2>4, <2>8, <2>9
  <1>5. CASE ~Replay(a) /\ Process(a)
    <2>1. done' = Append(done, n + 1)
      BY <1>2, <1>5 DEF With
    <2>2. \A k \in DOMAIN done : done[k] < n + 1
      BY <1>0
    <2>3. /\ \A k, l \in DOMAIN Append(done, n + 1) :
               k < l => Append(done, n + 1)[k] < Append(done, n + 1)[l]
          /\ \A i \in Nat : (\E k \in DOMAIN Append(done, n + 1) : Append(done, n + 1)[k] = i)
                              <=> (\E k \in DOMAIN done : done[k] = i) \/ i = n + 1
      <3>1. n + 1 \in Nat /\ n \in Nat /\ done \in Seq(1 .. n)
        BY <1>0
      <3> HIDE DEF n
      <3> QED
        BY <1>1, <2>2, <3>1, AppendLarger, Zenon
    <2>7. /\ \A k, l \in DOMAIN done' : k < l => done'[k] < done'[l]
          /\ \A i \in Nat : Done(i)' <=> Done(i) \/ i = n + 1
      BY <2>1, <2>3 DEF Done
    <2>4. done' \in Seq(1 .. n + 1)
      BY <1>0, <2>1, AppendIs
    <2>5. a = 1 /\ prevLen = 1 => Done(n)
      BY <1>0, <1>3, <1>5 DEF Replay
    <2>6. a = 1 \/ prevActive = 1
      BY <1>5 DEF Process
    <2> QED
      BY <2>4, <2>5, <2>6, <2>7
  <1>6. CASE ~Replay(a) /\ ~Process(a)
    <2>1. done' = done
      BY <1>2, <1>6 DEF With
    <2>2. a # 1 /\ prevActive # 1
      BY <1>6 DEF Process
    <2> QED
      BY <1>0, <1>1, <2>1, <2>2 DEF Done
  <1>7. Replay(a) => Process(a)
    BY DEF Replay, Process
  <1> QED
    BY <1>4, <1>5, <1>6, <1>7

(* What a push makes wanted: the new piece if it is active or follows an
   active one of its segment, and the last one if the new one is active. *)
LEMMA PushWanted ==
  ASSUME SquelchTypeOK, NEW a \in {0, 1}, Push(a), NEW n \in Nat, n = Len(active)
  PROVE  /\ \A i \in 1 .. n :
              Wanted(i)' <=> Wanted(i) \/ (i = n /\ a = 1 /\ segment[i] = current)
         /\ Wanted(n + 1)' <=>
              a = 1 \/ (n > 0 /\ segment[n] = current /\ active[n] = 1)
  <1>0. /\ n \in Nat
        /\ DOMAIN active = 1 .. n /\ DOMAIN active' = 1 .. n + 1
        /\ \A i \in 1 .. n : active'[i] = active[i] /\ segment'[i] = segment[i]
        /\ active'[n + 1] = a /\ segment'[n + 1] = current
    BY PushHistory
  <1>1. ASSUME NEW i \in 1 .. n
        PROVE  Wanted(i)' <=> Wanted(i) \/ (i = n /\ a = 1 /\ segment[i] = current)
    <2>1. i \in 1 .. n + 1 /\ active'[i] = active[i] /\ segment'[i] = segment[i]
      BY <1>0
    <2>2. ASSUME NEW j \in 1 .. n
          PROVE  /\ j \in 1 .. n + 1
                 /\ (active[j] = 1 /\ (Adjacent(i, j) \/ Adjacent(j, i))) <=>
                     (active'[j] = 1 /\ (Adjacent(i, j)' \/ Adjacent(j, i)'))
      BY <1>0, <2>1 DEF Adjacent
    <2>3. (active'[n + 1] = 1 /\ (Adjacent(i, n + 1)' \/ Adjacent(n + 1, i)')) <=>
            (i = n /\ a = 1 /\ segment[i] = current)
      BY <1>0, <2>1 DEF Adjacent
    <2>4. ASSUME NEW j \in 1 .. n + 1, j \notin 1 .. n
          PROVE  j = n + 1
      BY <1>0, <2>4
    <2>5. n + 1 \in 1 .. n + 1
      BY <1>0
    <2> DEFINE W(j) == active[j] = 1 /\ (Adjacent(i, j) \/ Adjacent(j, i))
               W1(j) == active'[j] = 1 /\ (Adjacent(i, j)' \/ Adjacent(j, i)')
    <2>6. Wanted(i) <=> active[i] = 1 \/ \E j \in 1 .. n : W(j)
      BY <1>0 DEF Wanted
    <2>7. Wanted(i)' <=> active'[i] = 1 \/ \E j \in 1 .. n + 1 : W1(j)
      BY <1>0 DEF Wanted
    <2>8. \A j \in 1 .. n : j \in 1 .. n + 1 /\ (W(j) <=> W1(j))
      BY <2>2
    <2>9. W1(n + 1) <=> (i = n /\ a = 1 /\ segment[i] = current)
      BY <2>3
    <2> HIDE DEF W, W1
    <2> QED
      BY <2>1, <2>4, <2>5, <2>6, <2>7, <2>8, <2>9
  <1>2. Wanted(n + 1)' <=> a = 1 \/ (n > 0 /\ segment[n] = current /\ active[n] = 1)
    <2>1. Wanted(n + 1)' <=>
            a = 1 \/ \E j \in 1 .. n + 1 :
                       active'[j] = 1 /\ (Adjacent(n + 1, j)' \/ Adjacent(j, n + 1)')
      BY <1>0 DEF Wanted
    <2>2. ASSUME NEW j \in 1 .. n + 1
          PROVE  (active'[j] = 1 /\ (Adjacent(n + 1, j)' \/ Adjacent(j, n + 1)')) <=>
                   (j = n /\ segment[n] = current /\ active[n] = 1)
      BY <1>0 DEF Adjacent
    <2>3. n > 0 <=> n \in 1 .. n + 1
      BY <1>0
    <2> QED
      BY <1>0, <2>1, <2>2, <2>3
  <1> QED
    BY <1>1, <1>2

(* A push keeps the invariant. *)
LEMMA PushKeeps ==
  ASSUME SqIInv, NEW a \in {0, 1}, Push(a)
  PROVE  SqIInv'
  <1> PICK n \in Nat : n = Len(active)
    BY DEF SqIInv, SquelchTypeOK
  <1> USE DEF Done
  <1>0. /\ SquelchTypeOK /\ n \in Nat /\ n = Len(active)
        /\ prevLen \in {0, 1} /\ prevActive \in {0, 1} /\ prevDone \in {0, 1}
        /\ prev \in Nat /\ current \in Nat
    BY DEF SqIInv, SquelchTypeOK
  <1>1. /\ Len(active') = n + 1
        /\ DOMAIN active = 1 .. n /\ DOMAIN segment = 1 .. n
        /\ DOMAIN active' = 1 .. n + 1 /\ DOMAIN segment' = 1 .. n + 1
        /\ active' \in Seq({0, 1}) /\ segment' \in Seq(Nat) /\ Len(segment') = Len(active')
        /\ \A i \in 1 .. n : active'[i] = active[i] /\ segment'[i] = segment[i]
        /\ active'[n + 1] = a /\ segment'[n + 1] = current
        /\ \A i \in 1 .. n : active[i] \in {0, 1} /\ segment[i] \in Nat
    <2> HIDE DEF Done
    <2> QED
      BY <1>0, PushHistory
  <1>2. /\ done' \in Seq(1 .. n + 1)
        /\ \A k, l \in DOMAIN done' : k < l => done'[k] < done'[l]
        /\ \A i \in Nat : Done(i)' <=>
              \/ Done(i)
              \/ i = n /\ a = 1 /\ prevLen = 1
              \/ i = n + 1 /\ (a = 1 \/ prevActive = 1)
    BY <1>0, PushDone
  <1>3. /\ \A i \in 1 .. n :
             Wanted(i)' <=> Wanted(i) \/ (i = n /\ a = 1 /\ segment[i] = current)
        /\ Wanted(n + 1)' <=>
             a = 1 \/ (n > 0 /\ segment[n] = current /\ active[n] = 1)
    BY <1>0, PushWanted
  <1>4. /\ prevLen = 1 <=> (n > 0 /\ segment[n] = current)
        /\ prevActive = 1 <=> (n > 0 /\ segment[n] = current /\ active[n] = 1)
    BY <1>0, <1>1 DEF SqIInv, LookBehind
  <1>5. /\ prevLen' = 1 /\ prevActive' = a /\ current' = current
        /\ prevDone' = IF Process(a) THEN 1 ELSE 0
        /\ prev' = IF Process(a) THEN prev ELSE n + 1
    BY DEF Push
  <1>6. ~ Done(n + 1)
    <2>1. done \in Seq(1 .. n)
      BY DEF SqIInv, SquelchTypeOK
    <2>2. \A k \in DOMAIN done : done[k] \in 1 .. n
      BY <2>1
    <2> QED
      BY <1>0, <2>2
  <1>7. SquelchTypeOK'
    BY <1>0, <1>1, <1>2, <1>5 DEF SquelchTypeOK
  <1>8. ExactlyWanted'
    <2>1. \A i \in 1 .. n : Done(i) <=> Wanted(i)
      BY <1>1 DEF SqIInv, ExactlyWanted
    <2> SUFFICES ASSUME NEW i \in 1 .. n + 1
                 PROVE  Done(i)' <=> Wanted(i)'
      BY <1>1 DEF ExactlyWanted
    <2> HIDE DEF Done
    <2>2. CASE i = n + 1
      <3>1. Done(i)' <=> a = 1 \/ prevActive = 1
        BY <1>0, <1>2, <1>6, <2>2
      <3> QED
        BY <1>3, <1>4, <2>2, <3>1
    <2>3. CASE i # n + 1
      <3>1. i \in 1 .. n
        BY <1>0, <2>3
      <3>2. Done(i)' <=> Done(i) \/ (i = n /\ a = 1 /\ prevLen = 1)
        BY <1>0, <1>2, <2>3, <3>1
      <3> QED
        BY <1>0, <1>3, <1>4, <2>1, <3>1, <3>2
    <2> QED
      BY <2>2, <2>3
  <1>9. InOrder'
    BY <1>2 DEF InOrder
  <1>10. LookBehind'
    <2>1. \A i \in DOMAIN segment' : segment'[i] <= current'
      BY <1>0, <1>1, <1>5 DEF SqIInv, LookBehind
    <2>2. Done(n + 1)' <=> Process(a)
      <3> HIDE DEF Done
      <3> QED
        BY <1>0, <1>2, <1>6 DEF Process
    <2> QED
      BY <1>0, <1>1, <1>5, <2>1, <2>2 DEF LookBehind
  <1> QED
    BY <1>7, <1>8, <1>9, <1>10 DEF SqIInv

(* A flush forgets the look-behind and starts a segment no piece is in. *)
LEMMA SqFlushKeeps ==
  ASSUME SqIInv, Flush
  PROVE  SqIInv'
  <1>1. /\ current' = current + 1 /\ current \in Nat
        /\ prevLen' = 0 /\ prevActive' = 0 /\ prevDone' = 0
        /\ prev' = prev /\ active' = active /\ segment' = segment /\ done' = done
    BY DEF SqIInv, SquelchTypeOK, Flush, NewSegment
  <1>2. SquelchTypeOK'
    BY <1>1 DEF SqIInv, SquelchTypeOK
  <1>3. ExactlyWanted' /\ InOrder'
    BY <1>1 DEF SqIInv, ExactlyWanted, InOrder, Wanted, Adjacent
  <1>4. LookBehind'
    <2>1. \A i \in DOMAIN segment : segment[i] \in Nat /\ segment[i] <= current
      BY DEF SqIInv, SquelchTypeOK, LookBehind
    <2> QED
      BY <1>1, <2>1 DEF LookBehind
  <1> QED
    BY <1>2, <1>3, <1>4 DEF SqIInv

(* The inductive invariant holds in every state. *)
LEMMA SqInvariant == SquelchSpec => []SqIInv
  <1>1. SqIInv /\ [SquelchNext]_squelch => SqIInv'
    <2> SUFFICES ASSUME SqIInv, [SquelchNext]_squelch PROVE SqIInv'
      OBVIOUS
    <2>1. CASE \E a \in {0, 1} : Push(a)
      BY <2>1, PushKeeps
    <2>2. CASE Flush
      BY <2>2, SqFlushKeeps
    <2>3. CASE UNCHANGED squelch
      BY <2>3 DEF squelch, SqIInv, SquelchTypeOK, ExactlyWanted, InOrder, LookBehind, Wanted, Adjacent
    <2> QED
      BY <2>1, <2>2, <2>3 DEF SquelchNext
  <1> QED
    BY SqInitHolds, <1>1, PTL DEF SquelchSpec

(* The look-behind of push_sdr_flow and the history of pieces keep to their
   types. *)
THEOREM SquelchTypeCorrect == SquelchSpec => []SquelchTypeOK
  BY SqInvariant, PTL DEF SqIInv

(* Exactly the active pieces and their neighbours of the same segment are
   processed (the look-behind of push_sdr_flow). *)
THEOREM NoBurstIsCut == SquelchSpec => []ExactlyWanted
  BY SqInvariant, PTL DEF SqIInv

(* Pieces are processed in the order they were captured, none twice. *)
THEOREM ProcessedInOrder == SquelchSpec => []InOrder
  BY SqInvariant, PTL DEF SqIInv

-----------------------------------------------------------------------------
(* Both together. *)

(* The detector has what it was fed, piece by piece. *)
FlowOK ==
  /\ wave \in Seq(Waves) /\ Len(wave) = Len(active)
  /\ fed \in 0 .. Len(done) /\ left \in 0 .. Piece /\ (left > 0 => fed > 0)
  /\ pos = fed * Piece - left

Recent(k) == segment[done[k]] = current

(* What the detector has not yet seen, or is seeing, is of the present segment,
   and so is all that a package under way is made of. *)
ToCome == \A k \in DOMAIN done : (k > fed \/ (k = fed /\ left > 0)) => Recent(k)
Joined == ook # "IDLE" => \A k \in DOMAIN done : k * Piece > pulses.offset => Recent(k)

FlowIInv == IInv /\ SqIInv /\ FlowOK /\ ToCome /\ Joined /\ PackageOfOneSegment

flowVars == <<vars, wave, fed, squelch>>

(* A push adds to what is processed, and only pieces of the present segment. *)
LEMMA PushAdds ==
  ASSUME SqIInv, NEW a \in {0, 1}, Push(a)
  PROVE  /\ Len(done) \in Nat /\ Len(done') \in Nat /\ Len(done) <= Len(done')
         /\ DOMAIN done = 1 .. Len(done) /\ DOMAIN done' = 1 .. Len(done')
         /\ \A k \in 1 .. Len(done) : done'[k] = done[k] /\ done[k] \in 1 .. Len(active)
         /\ \A k \in 1 .. Len(done') : k > Len(done) => segment'[done'[k]] = current
  <1> PICK n \in Nat : n = Len(active)
    BY DEF SqIInv, SquelchTypeOK
  <1>1. /\ done \in Seq(1 .. n) /\ done \in Seq(1 .. n + 1) /\ prev \in Nat /\ prevDone \in {0, 1} /\ prevLen \in {0, 1}
        /\ n = Len(active)
    BY DEF SqIInv, SquelchTypeOK
  <1>2. /\ Len(done) \in Nat /\ DOMAIN done = 1 .. Len(done)
        /\ \A k \in 1 .. Len(done) : done[k] \in 1 .. n
    BY <1>1
  <1>3. /\ \A i \in 1 .. n : segment'[i] = segment[i]
        /\ segment'[n + 1] = current
    BY <1>1, PushHistory DEF SqIInv
  <1>4. done' = With(With(done, prev, Replay(a)), n + 1, Process(a))
    BY <1>1 DEF Push
  <1>5. CASE Replay(a)
    <2>1. n > 0 /\ prev = n /\ segment[n] = current
      BY <1>1, <1>5 DEF SqIInv, LookBehind, Replay
    <2> DEFINE d == Append(done, n)
    <2>2. /\ d \in Seq(1 .. n + 1) /\ Len(d) = Len(done) + 1 /\ DOMAIN d = 1 .. Len(done) + 1
          /\ \A k \in 1 .. Len(done) : d[k] = done[k]
          /\ d[Len(done) + 1] = n
      BY <1>1, <2>1, AppendIs
    <2>3. done' = Append(d, n + 1)
      BY <1>4, <1>5, <2>1 DEF With, Process, Replay
    <2> HIDE DEF d
    <2>4. /\ Len(done') = Len(done) + 2 /\ DOMAIN done' = 1 .. Len(done) + 2
          /\ \A k \in 1 .. Len(done) + 1 : done'[k] = d[k]
          /\ done'[Len(done) + 2] = n + 1
      <3>1. n + 1 \in 1 .. n + 1
        OBVIOUS
      <3> QED
        BY <1>2, <2>2, <2>3, <3>1, AppendIs
    <2>5. ASSUME NEW k \in 1 .. Len(done'), k > Len(done)
          PROVE  segment'[done'[k]] = current
      <3>1. k = Len(done) + 1 \/ k = Len(done) + 2
        BY <1>2, <2>4, <2>5
      <3> QED
        BY <1>2, <1>3, <2>1, <2>2, <2>4, <3>1
    <2> QED
      BY <1>1, <1>2, <2>2, <2>4, <2>5
  <1>6. CASE ~Replay(a) /\ Process(a)
    <2>1. done' = Append(done, n + 1)
      BY <1>4, <1>6 DEF With
    <2>2. /\ Len(done') = Len(done) + 1 /\ DOMAIN done' = 1 .. Len(done) + 1
          /\ \A k \in 1 .. Len(done) : done'[k] = done[k]
          /\ done'[Len(done) + 1] = n + 1
      <3>1. n + 1 \in 1 .. n + 1
        OBVIOUS
      <3> QED
        BY <1>1, <2>1, <3>1, AppendIs
    <2>3. \A k \in 1 .. Len(done') : k > Len(done) => k = Len(done) + 1
      BY <1>2, <2>2
    <2> QED
      BY <1>1, <1>2, <1>3, <2>2, <2>3
  <1>7. CASE ~Replay(a) /\ ~Process(a)
    <2>1. done' = done
      BY <1>4, <1>7 DEF With
    <2> QED
      BY <1>1, <1>2, <2>1
  <1> QED
    BY <1>5, <1>6, <1>7

(* If the pieces from a sample o on are recent, every sample from o to what
   was fed is of the present segment. *)
LEMMA Recently ==
  ASSUME FlowOK, SqIInv, NEW o \in Nat, NEW e \in Int, e <= fed * Piece,
         \A k \in DOMAIN done : k * Piece > o => Recent(k)
  PROVE  \A m \in o .. e - 1 : segment[InPiece(m)] = current
  <1> SUFFICES ASSUME NEW m \in o .. e - 1
               PROVE  segment[InPiece(m)] = current
    OBVIOUS
  <1> DEFINE k == (m \div Piece) + 1
  <1>1. Piece \in Nat /\ Piece > 0 /\ fed \in Nat /\ fed <= Len(done) /\ Len(done) \in Nat /\ DOMAIN done = 1 .. Len(done)
    BY FlowAssumption, DetectAssumption DEF FlowOK, SqIInv, SquelchTypeOK
  <1>2. k \in Nat /\ k > 0 /\ m < k * Piece /\ (k - 1) * Piece <= m
    BY <1>1
  <1>3. k <= fed
    <2> HIDE DEF k
    <2>1. (k - 1) * Piece < fed * Piece
      BY <1>1, <1>2
    <2>2. ASSUME k - 1 >= fed PROVE FALSE
      <3>1. (k - 1) * Piece >= fed * Piece
        BY <1>1, <1>2, <2>2
      <3> QED
        BY <1>1, <1>2, <2>1, <3>1
    <2> QED
      BY <1>1, <1>2, <2>2
  <1>4. k \in DOMAIN done /\ k * Piece > o
    <2> HIDE DEF k
    <2> QED
      BY <1>1, <1>2, <1>3
  <1> QED
    BY <1>4 DEF Recent, InPiece

LEMMA FlowInit == InitFlow => FlowIInv
  <1> SUFFICES ASSUME InitFlow PROVE FlowIInv
    OBVIOUS
  <1>1. IInv /\ SqIInv
    BY InitIInv, SqInitHolds DEF InitFlow
  <1>2. FlowOK /\ ToCome /\ Joined /\ PackageOfOneSegment
    BY FlowAssumption, DetectAssumption
       DEF InitFlow, Init, SquelchInit, FlowOK, ToCome, Joined, PackageOfOneSegment, None
  <1> QED
    BY <1>1, <1>2 DEF FlowIInv

(* The detector's own invariant does not depend on a package being handed on. *)
LEMMA HandedOn ==
  ASSUME IInv, last' = None, UNCHANGED <<fpdm, detector, eop, left, reread, pos, cut>>
  PROVE  IInv'
  BY DEF detector, IInv, TypeOK, Package, Spurious, Detector, EverySampleCounted, FskSamplesCounted,
         PackageIsWhole, FskWidthsAreReal, None

LEMMA ArriveStep ==
  ASSUME FlowIInv, Arrive
  PROVE  FlowIInv'
  <1> PICK w \in Waves : wave' = Append(wave, w) /\ \E a \in Loudness(w) : Push(a)
    BY DEF Arrive
  <1> PICK a \in {0, 1} : Push(a)
    BY DEF Loudness
  <1>1. /\ left = 0 /\ fed = Len(done) /\ last' = None
        /\ UNCHANGED <<fpdm, detector, eop, left, reread, pos, cut, fed>>
    BY DEF Arrive
  <1>2. IInv' /\ SqIInv'
    BY <1>1, HandedOn, PushKeeps DEF FlowIInv
  <1>3. /\ Len(done) \in Nat /\ Len(done') \in Nat /\ Len(done) <= Len(done')
        /\ DOMAIN done = 1 .. Len(done) /\ DOMAIN done' = 1 .. Len(done')
        /\ \A k \in 1 .. Len(done) : done'[k] = done[k] /\ done[k] \in 1 .. Len(active)
        /\ \A k \in 1 .. Len(done') : k > Len(done) => segment'[done'[k]] = current
    BY PushAdds DEF FlowIInv
  <1>4. /\ Len(active) \in Nat /\ Len(active') = Len(active) + 1
        /\ \A i \in 1 .. Len(active) : segment'[i] = segment[i]
    BY PushHistory DEF FlowIInv, SqIInv
  <1>5. current' = current
    BY DEF Push
  <1>6. wave' \in Seq(Waves) /\ Len(wave') = Len(wave) + 1
    BY DEF FlowIInv, FlowOK
  <1>7. FlowOK'
    BY <1>1, <1>3, <1>4, <1>6 DEF FlowIInv, FlowOK
  <1>8. ToCome'
    BY <1>1, <1>3, <1>5 DEF ToCome, Recent
  <1>9. Joined'
    BY <1>1, <1>3, <1>4, <1>5 DEF FlowIInv, Joined, Recent, detector
  <1>10. PackageOfOneSegment'
    BY <1>1 DEF PackageOfOneSegment, None
  <1> QED
    BY <1>2, <1>7, <1>8, <1>9, <1>10 DEF FlowIInv

(* The squelch stands still while the detector works. *)
LEMMA SquelchStands ==
  ASSUME SqIInv, UNCHANGED squelch
  PROVE  SqIInv'
  BY DEF squelch, SqIInv, SquelchTypeOK, ExactlyWanted, InOrder, LookBehind, Wanted, Adjacent

LEMMA PieceStartsStep ==
  ASSUME FlowIInv, PieceStarts
  PROVE  FlowIInv'
  <1>1. /\ fed < Len(done) /\ left = 0 /\ left' = Piece /\ fed' = fed + 1 /\ last' = None
        /\ UNCHANGED <<pos, detector>> /\ UNCHANGED <<wave, squelch>> /\ BlockOf(Piece)
    BY DEF PieceStarts, BlockOf
  <1>2. IInv' /\ SqIInv'
    BY <1>1, BlockStep, SquelchStands, FlowAssumption DEF FlowIInv
  <1>3. FlowOK'
    <2>1. fed \in Nat /\ Len(done) \in Nat /\ Piece \in Nat /\ pos = fed * Piece - left
      BY FlowAssumption, DetectAssumption DEF FlowIInv, FlowOK, SqIInv, SquelchTypeOK
    <2>2. (fed + 1) * Piece - Piece = fed * Piece - 0
      BY <2>1
    <2>3. pos' = fed' * Piece - left'
      BY <1>1, <2>1, <2>2
    <2> QED
      BY <1>1, <2>1, <2>3 DEF FlowIInv, FlowOK, squelch
  <1>4. ToCome'
    BY <1>1 DEF FlowIInv, FlowOK, ToCome, Recent, squelch, SqIInv, SquelchTypeOK
  <1>5. Joined' /\ PackageOfOneSegment'
    BY <1>1 DEF FlowIInv, Joined, PackageOfOneSegment, Recent, None, squelch, detector
  <1> QED
    BY <1>2, <1>3, <1>4, <1>5 DEF FlowIInv

(* What a sample does to the place in the stream and the package's beginning. *)
LEMMA SampleMoves ==
  ASSUME IInv, NEW am \in Am, NEW fm \in Fm, SampleOf(am, fm)
  PROVE  /\ left > 0
         /\ \/ left' = left - 1 /\ pos' = pos + 1 /\ last' = None
            \/ /\ UNCHANGED <<left, pos>> /\ ook' = "IDLE" /\ ook # "IDLE"
               /\ last'.end = pos /\ last'.ook.offset = pulses.offset
         /\ ook' # "IDLE" => IF ook = "IDLE" THEN pulses'.offset = pos ELSE pulses'.offset = pulses.offset
  <1>0. left > 0
    BY DEF SampleOf
  <1>1. pulses \in OokState /\ MaxPulses \in Nat
    BY Sizes DEF IInv, TypeOK, OokState
  <1>2. CASE IdleStart(am)
    BY <1>0, <1>2 DEF IdleStart, Taken, Empty
  <1>3. CASE IdleWaits(am)
    BY <1>0, <1>3 DEF IdleWaits, Taken
  <1>4. CASE InPulse(am, fm) \/ PulseSpurious(am, fm) \/ GapWasSpurious(am, fm) \/ GapStart(am, fm)
    BY <1>0, <1>4 DEF InPulse, PulseSpurious, GapWasSpurious, GapStart, Taken
  <1>5. CASE InGap(am)
    BY <1>0, <1>5 DEF InGap, Taken
  <1>6. CASE PulseEnds(am, fm)
    BY <1>0, <1>1, <1>6 DEF PulseEnds, Taken, OokState
  <1>7. CASE NextPulse(am)
    BY <1>0, <1>1, <1>7 DEF NextPulse, Taken, Closed, OokState
  <1>8. CASE ReturnFsk(am)
    BY <1>0, <1>8 DEF ReturnFsk, Returned
  <1>9. CASE ReturnOok(am)
    <2>1. Ending(am).offset = pulses.offset
      BY <1>1 DEF Ending, Closed, OokState
    <2> QED
      BY <1>0, <1>9, <2>1 DEF ReturnOok, Returned
  <1> QED
    BY <1>2, <1>3, <1>4, <1>5, <1>6, <1>7, <1>8, <1>9 DEF SampleOf

LEMMA PieceSampleStep ==
  ASSUME FlowIInv, PieceSample
  PROVE  FlowIInv'
  <1> DEFINE am == wave[done[fed]][Piece - left]
  <1>0. /\ FlowOK /\ SqIInv /\ IInv /\ ToCome /\ Joined /\ left > 0 /\ SampleOf(am, "none")
        /\ UNCHANGED <<wave, fed, squelch>>
    BY DEF FlowIInv, PieceSample, SampleOf
  <1>1. am \in Am /\ "none" \in Fm
    <2>1. fed \in DOMAIN done /\ done \in Seq(1 .. Len(active)) /\ Len(wave) = Len(active) /\ wave \in Seq(Waves)
      BY <1>0 DEF FlowOK, SqIInv, SquelchTypeOK
    <2>2. done[fed] \in 1 .. Len(wave)
      BY <2>1
    <2>3. wave[done[fed]] \in Waves
      BY <2>1, <2>2
    <2>4. Piece - left \in 0 .. Piece - 1
      BY <1>0, FlowAssumption, DetectAssumption DEF FlowOK
    <2> QED
      BY <2>3, <2>4 DEF Waves, Am, Fm
  <1> HIDE DEF am
  <1>2. IInv' /\ SqIInv'
    BY <1>0, <1>1, SampleStep, SquelchStands
  <1>3. /\ \/ left' = left - 1 /\ pos' = pos + 1 /\ last' = None
           \/ /\ UNCHANGED <<left, pos>> /\ ook' = "IDLE" /\ ook # "IDLE"
              /\ last'.end = pos /\ last'.ook.offset = pulses.offset
        /\ ook' # "IDLE" => IF ook = "IDLE" THEN pulses'.offset = pos ELSE pulses'.offset = pulses.offset
    BY <1>0, <1>1, SampleMoves
  <1>4. /\ Piece \in Nat /\ Piece > 0 /\ fed \in Nat /\ left \in 1 .. Piece /\ pos = fed * Piece - left
        /\ pulses.offset \in Nat /\ pos \in Nat
    BY <1>0, FlowAssumption, DetectAssumption DEF FlowOK, SqIInv, SquelchTypeOK, IInv, TypeOK
  <1>5. FlowOK'
    BY <1>0, <1>3, <1>4 DEF FlowOK, squelch
  <1>6. ToCome'
    BY <1>0, <1>3, <1>4 DEF ToCome, Recent, squelch
  <1>7. Joined'
    <2> SUFFICES ASSUME ook' # "IDLE", NEW k \in DOMAIN done, k * Piece > pulses'.offset
                 PROVE  Recent(k)
      BY <1>0 DEF Joined, Recent, squelch
    <2>1. CASE ook # "IDLE"
      BY <1>0, <1>3, <2>1 DEF Joined
    <2>2. CASE ook = "IDLE"
      <3>1. k \in Nat
        BY <1>0 DEF SqIInv, SquelchTypeOK
      <3>2. k * Piece > fed * Piece - left
        BY <1>3, <1>4, <2>2
      <3>3. k >= fed
        <4> SUFFICES ASSUME k <= fed - 1 PROVE FALSE
          BY <1>4, <3>1
        <4>1. k * Piece <= (fed - 1) * Piece
          BY <1>4, <3>1
        <4>2. (fed - 1) * Piece = fed * Piece - Piece
          BY <1>4
        <4> QED
          BY <1>4, <3>1, <3>2, <4>1, <4>2
      <3> QED
        BY <1>0, <1>4, <3>1, <3>3 DEF ToCome
    <2> QED
      BY <2>1, <2>2
  <1>8. PackageOfOneSegment'
    <2>1. CASE last' = None
      BY <2>1 DEF PackageOfOneSegment, None
    <2>2. CASE last'.end = pos /\ last'.ook.offset = pulses.offset /\ ook # "IDLE"
      <3>1. \A m \in pulses.offset .. pos - 1 : segment[InPiece(m)] = current
        BY <1>0, <1>4, <2>2, Recently DEF Joined
      <3> QED
        BY <1>0, <2>2, <3>1 DEF PackageOfOneSegment, InPiece, squelch
    <2> QED
      BY <1>3, <2>1, <2>2
  <1> QED
    BY <1>2, <1>5, <1>6, <1>7, <1>8 DEF FlowIInv

(* A flush or a reset finds all that was processed fed, and leaves no package
   under way. *)
LEMMA SegmentEnds ==
  ASSUME FlowIInv, FlushFlow \/ ResetFlow
  PROVE  FlowIInv'
  <1>0. /\ FlowOK /\ SqIInv /\ IInv /\ Joined /\ PackageOfOneSegment
        /\ fed = Len(done) /\ left = 0 /\ Flush /\ UNCHANGED <<wave, fed>>
        /\ FlushIdle \/ FlushDrops \/ FlushReturns \/ Reset
    BY DEF FlowIInv, FlushFlow, ResetFlow, FlushIdle, FlushDrops, FlushReturns, Reset
  <1>1. SqIInv'
    BY <1>0, SqFlushKeeps
  <1>2. IInv'
    BY <1>0, HandedOn, FlushDropsStep, FlushReturnsStep, ResetStep DEF FlushIdle
  <1>3. UNCHANGED <<active, segment, done, left, pos>> /\ ook' = "IDLE"
    BY <1>0 DEF Flush, NewSegment, FlushIdle, FlushDrops, FlushReturns, Reset, detector
  <1>4. FlowOK'
    BY <1>0, <1>3 DEF FlowOK
  <1>5. ToCome' /\ Joined'
    <2>1. DOMAIN done = 1 .. Len(done) /\ Len(done) \in Nat
      BY <1>0 DEF SqIInv, SquelchTypeOK
    <2> QED
      BY <1>0, <1>3, <2>1 DEF ToCome, Joined
  <1>6. PackageOfOneSegment'
    <2>1. CASE FlushReturns
      <3>1. last'.end = pos - 1 /\ last'.ook.offset = pulses.offset /\ ook # "IDLE"
        <4>1. pulses \in OokState /\ MaxPulses \in Nat
          BY <1>0, Sizes DEF IInv, TypeOK, OokState
        <4>2. pulses'.offset = pulses.offset
          BY <2>1, <4>1 DEF FlushReturns, Closed, OokState
        <4> QED
          BY <2>1, <4>2 DEF FlushReturns
      <3>2. /\ Piece \in Nat /\ fed \in Nat /\ pos = fed * Piece - 0
            /\ pulses.offset \in Nat /\ pos \in Nat /\ fed * Piece \in Nat
        BY <1>0, FlowAssumption, DetectAssumption DEF FlowOK, SqIInv, SquelchTypeOK, IInv, TypeOK
      <3>3. \A m \in pulses.offset .. (pos - 1) - 1 : segment[InPiece(m)] = current
        <4>1. pos - 1 \in Int /\ pos - 1 <= fed * Piece
          BY <3>2
        <4>2. \A k \in DOMAIN done : k * Piece > pulses.offset => Recent(k)
          BY <1>0, <3>1 DEF Joined
        <4> QED
          BY <1>0, <3>2, <4>1, <4>2, Recently
      <3> QED
        BY <1>0, <1>3, <3>1, <3>3 DEF PackageOfOneSegment, InPiece
    <2>2. CASE FlushIdle \/ FlushDrops \/ Reset
      BY <2>2 DEF FlushIdle, FlushDrops, Reset, PackageOfOneSegment, None
    <2> QED
      BY <1>0, <2>1, <2>2
  <1> QED
    BY <1>1, <1>2, <1>4, <1>5, <1>6 DEF FlowIInv

(* The inductive invariant of the composition. *)
LEMMA FlowInvariant == FlowSpec => []FlowIInv
  <1>1. FlowIInv /\ [NextFlow]_flowVars => FlowIInv'
    <2> SUFFICES ASSUME FlowIInv, [NextFlow]_flowVars PROVE FlowIInv'
      OBVIOUS
    <2>1. CASE UNCHANGED flowVars
      <3>1. UNCHANGED vars /\ UNCHANGED <<wave, fed, squelch>>
        BY <2>1 DEF flowVars
      <3>2. IInv'
        BY <3>1, NextIInv DEF FlowIInv
      <3>3. SqIInv'
        BY <3>1, SquelchStands DEF FlowIInv
      <3> QED
        BY <3>1, <3>2, <3>3
           DEF FlowIInv, vars, detector, squelch, FlowOK, ToCome, Joined, Recent, PackageOfOneSegment, InPiece
    <2> QED
      BY <2>1, ArriveStep, PieceStartsStep, PieceSampleStep, SegmentEnds DEF NextFlow
  <1> QED
    BY FlowInit, <1>1, PTL DEF FlowSpec, flowVars

(* Around the detector the squelch is the one it is by itself: push_sdr_flow
   and flush_sdr_flow implement Squelch. *)
THEOREM ImplementsSquelch == FlowSpec => SquelchSpec
  <1>1. InitFlow => SquelchInit
    BY DEF InitFlow
  <1>2. [NextFlow]_flowVars => [SquelchNext]_squelch
    <2> SUFFICES ASSUME [NextFlow]_flowVars PROVE [SquelchNext]_squelch
      OBVIOUS
    <2>1. CASE Arrive
      BY <2>1 DEF Arrive, Loudness, SquelchNext
    <2>2. CASE FlushFlow \/ ResetFlow
      BY <2>2 DEF FlushFlow, ResetFlow, SquelchNext
    <2>3. CASE PieceStarts \/ PieceSample \/ UNCHANGED flowVars
      BY <2>3 DEF PieceStarts, PieceSample, flowVars, squelch
    <2> QED
      BY <2>1, <2>2, <2>3 DEF NextFlow
  <1> QED
    BY <1>1, <1>2, PTL DEF FlowSpec, SquelchSpec, flowVars

(* Behind the squelch the detector keeps its promises, of the samples it is
   given: push_sdr_flow never feeds it what it could not take. *)
THEOREM DetectsBehindSquelch ==
  FlowSpec => [](EverySampleCounted /\ FskSamplesCounted /\ PackageIsWhole /\ FskWidthsAreReal)
  BY FlowInvariant, PTL DEF FlowIInv, IInv

(* No package joins pulses from both sides of a flush or a reset
   (flush_sdr_flow, reset_sdr_flow). *)
THEOREM PackagesOfOneSegment == FlowSpec => []PackageOfOneSegment
  BY FlowInvariant, PTL DEF FlowIInv
=============================================================================
