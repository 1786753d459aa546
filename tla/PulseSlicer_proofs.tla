--------------------------- MODULE PulseSlicer_proofs ---------------------------
(***************************************************************************)
(* Proofs about PulseSlicer, for every set of devices, every noise, every  *)
(* number of rows and of bits in a row.                                    *)
(*                                                                         *)
(* 1. What recursive functions need: induction on the naturals and on a    *)
(*    rank, and that a definition by falling rank has a solution.          *)
(* 2. Each operation on the bit buffer keeps its rows apart (Apart).       *)
(* 3. Each slicer, whatever widths it sees, keeps its buffer so (Good);    *)
(*    hence the invariant IInv.                                            *)
(* 4. The line codes and the search, for every row: by induction from the  *)
(*    end of the row, or by the rank of the search's cursors.              *)
(* 5. What the buffer holds of a message's rows (Says), what an operation  *)
(*    on it adds, and what Contents() and Filled() make of it.             *)
(* 6. For each coding: what a pulse and a gap of the sender, each a little *)
(*    off, add to what the slicer has told (XSend), that the silence hands *)
(*    it over (XFinish), and that a silence clears it whatever was before  *)
(*    (XSilence).                                                          *)
(* 7. The slicer follows the sender: the invariant Follows.                *)
(***************************************************************************)
EXTENDS PulseSlicer, WellFoundedInduction, SequenceTheorems, TLAPS

(* A set of naturals has a least element, for < is well-founded on them. *)
LEMMA Least ==
  ASSUME NEW T, T \subseteq Nat, T # {}
  PROVE  \E x \in T : \A y \in T : x <= y
  <1> DEFINE R == OpToRel(<, Nat)
  <1>1. IsWellFoundedOn(R, Nat)
    BY NatLessThanWellFounded
  <1>2. \A x, y \in Nat : y < x => <<y, x>> \in R
    BY DEF OpToRel
  <1> HIDE DEF R
  <1>3. PICK x \in T : \A y \in T : <<y, x>> \notin R
    BY <1>1, WFMin
  <1>4. ASSUME NEW y \in T PROVE x <= y
    <2>1. x \in Nat /\ y \in Nat /\ ~(y < x)
      BY <1>2, <1>3
    <2> QED
      BY <2>1
  <1> QED
    BY <1>4

LEMMA Induction ==
  ASSUME NEW S, 0 \in S, \A n \in Nat : n \in S => n + 1 \in S
  PROVE  Nat \subseteq S
  <1> DEFINE T == Nat \ S
  <1> SUFFICES ASSUME T # {} PROVE FALSE
    OBVIOUS
  <1>1. T \subseteq Nat
    OBVIOUS
  <1> HIDE DEF T
  <1>2. PICK x \in T : \A y \in T : x <= y
    BY <1>1, Least
  <1>3. x \in Nat /\ x # 0 /\ x - 1 \in Nat /\ ~(x <= x - 1)
    BY <1>2 DEF T
  <1>4. x - 1 \in S
    BY <1>2, <1>3 DEF T
  <1> QED
    BY <1>2, <1>3, <1>4 DEF T

(* A recursive definition has a solution if each of its values depends on
   values of lower rank only: H[<<x, f>>] is what it says of f[x]. *)
Ranked(D, V, N, rank, H) ==
  /\ V # {} /\ N \in Nat /\ rank \in [D -> 0 .. N] /\ H \in [D \X [D -> V] -> V]
  /\ \A x \in D : \A f, g \in [D -> V] :
       (\A y \in D : rank[y] < rank[x] => f[y] = g[y]) => H[<<x, f>>] = H[<<x, g>>]

LEMMA Recursion ==
  ASSUME NEW D, NEW V, NEW N, NEW rank, NEW H, Ranked(D, V, N, rank, H)
  PROVE  \E f \in [D -> V] : \A x \in D : f[x] = H[<<x, f>>]
  <1> USE DEF Ranked
  <1> DEFINE Upto(f, n) == \A x \in D : rank[x] < n => f[x] = H[<<x, f>>]
             S == {n \in Nat : \E f \in [D -> V] : Upto(f, n)}
  <1>1. 0 \in S
    <2>1. PICK v \in V : TRUE
      OBVIOUS
    <2>2. [x \in D |-> v] \in [D -> V] /\ Upto([x \in D |-> v], 0)
      OBVIOUS
    <2> QED
      BY <2>2
  <1>2. ASSUME NEW n \in Nat, n \in S PROVE n + 1 \in S
    <2>1. PICK f \in [D -> V] : Upto(f, n)
      BY <1>2
    <2> DEFINE g == [x \in D |-> IF rank[x] = n THEN H[<<x, f>>] ELSE f[x]]
    <2>2. g \in [D -> V]
      OBVIOUS
    <2>3. Upto(g, n + 1)
      <3> SUFFICES ASSUME NEW x \in D, rank[x] < n + 1 PROVE g[x] = H[<<x, g>>]
        OBVIOUS
      <3>1. g[x] = H[<<x, f>>]
        BY <2>1
      <3>2. \A y \in D : rank[y] < rank[x] => f[y] = g[y]
        OBVIOUS
      <3> HIDE DEF g
      <3> QED
        BY <2>2, <3>1, <3>2
    <2> HIDE DEF g, Upto
    <2> QED
      BY <2>2, <2>3
  <1> HIDE DEF S
  <1>3. Nat \subseteq S
    BY <1>1, <1>2, Induction
  <1>4. PICK f \in [D -> V] : Upto(f, N + 1)
    <2>1. N + 1 \in S
      BY <1>3
    <2> QED
      BY <2>1 DEF S
  <1>5. \A x \in D : rank[x] < N + 1
    OBVIOUS
  <1> QED
    BY <1>4, <1>5

(* A set that holds each element all lower ones of which it holds, holds all. *)
LEMMA RankInduction ==
  ASSUME NEW D, NEW N \in Nat, NEW rank \in [D -> 0 .. N], NEW P,
         \A x \in D : (\A y \in D : rank[y] < rank[x] => y \in P) => x \in P
  PROVE  D \subseteq P
  <1> DEFINE S == {n \in Nat : \A x \in D : rank[x] < n => x \in P}
  <1>1. 0 \in S
    OBVIOUS
  <1>2. ASSUME NEW n \in Nat, n \in S PROVE n + 1 \in S
    <2> SUFFICES ASSUME NEW x \in D, rank[x] < n + 1 PROVE x \in P
      OBVIOUS
    <2>1. \A y \in D : rank[y] < rank[x] => y \in P
      <3> SUFFICES ASSUME NEW y \in D, rank[y] < rank[x] PROVE y \in P
        OBVIOUS
      <3>1. rank[y] < n
        OBVIOUS
      <3> QED
        BY <1>2, <3>1
    <2> QED
      BY <2>1
  <1> HIDE DEF S
  <1>3. Nat \subseteq S
    BY <1>1, <1>2, Induction
  <1>4. N + 1 \in S /\ \A x \in D : rank[x] < N + 1
    BY <1>3
  <1> QED
    BY <1>4 DEF S

-----------------------------------------------------------------------------
(* The rows of the bit buffer, as far as they are in use, lie one after the
   other in memory: what RowsAreApart says, and that the present row begins
   behind all others and not behind the free ones.  A buffer without rows is
   clear. *)
Apart(b) ==
  /\ b \in BitBuffers
  /\ b.num <= b.free
  /\ b.num = 0 => b = Clear
  /\ \A r \in Row : b.len[r] > 0 => r < b.num /\ r * RowBits + b.len[r] <= b.free * RowBits
  /\ \A q, r \in Row : q < r /\ (b.len[r] > 0 \/ r = b.num - 1) => q * RowBits + b.len[q] <= r * RowBits

LEMMA Mono ==
  ASSUME NEW w \in Nat, NEW a \in Nat, NEW b \in Nat, a <= b
  PROVE  a * w \in Nat /\ b * w \in Nat /\ a * w <= b * w
  OBVIOUS

LEMMA Remainder ==
  ASSUME NEW w \in Nat \ {0}, NEW n \in Nat, NEW a \in Nat, NEW c \in Nat, a * w + n = c * w
  PROVE  n % w = 0
  <1>1. a <= c
    <2> SUFFICES ASSUME c + 1 <= a PROVE FALSE
      OBVIOUS
    <2>1. (c + 1) * w <= a * w /\ (c + 1) * w = c * w + w /\ c * w \in Nat /\ a * w \in Nat
      BY Mono
    <2> QED
      BY <2>1
  <1> DEFINE k == c - a
  <1>2. k \in Nat /\ k * w = n
    BY <1>1
  <1> HIDE DEF k
  <1>3. (k * w) % w = 0
    BY <1>2
  <1> QED
    BY <1>2, <1>3

LEMMA Sizes ==
  /\ Rows \in Nat /\ Rows >= 1 /\ RowBits \in Nat /\ RowBits >= 1
  /\ \A r : r \in Row <=> r \in Nat /\ r < Rows
  BY BufferAssumption DEF Row

LEMMA Areas ==
  /\ \A a, b \in Nat : a <= b => a * RowBits \in Nat /\ b * RowBits \in Nat /\ a * RowBits <= b * RowBits
  /\ \A a \in Nat : (a + 1) * RowBits = a * RowBits + RowBits /\ a * RowBits \in Nat
  <1>1. \A a, b \in Nat : a <= b => a * RowBits \in Nat /\ b * RowBits \in Nat /\ a * RowBits <= b * RowBits
    BY Sizes, Mono
  <1>2. \A a \in Nat : (a + 1) * RowBits = a * RowBits + RowBits /\ a * RowBits \in Nat
    BY Sizes
  <1> QED
    BY <1>1, <1>2

LEMMA Buffer ==
  ASSUME NEW b \in BitBuffers
  PROVE  /\ b.num \in 0 .. Rows /\ b.free \in 0 .. Rows /\ b.len \in [Row -> 0 .. Rows * RowBits]
         /\ b.syncs \in [Row -> Nat] /\ b.bb \in [Memory -> Bit]
         /\ b.num \in Nat /\ b.free \in Nat /\ b.free <= Rows /\ b.num <= Rows
         /\ \A r \in Row : b.len[r] \in Nat /\ b.len[r] <= Rows * RowBits
  BY Sizes DEF BitBuffers

LEMMA ClearApart == Apart(Clear)
  <1>1. Rows * RowBits \in Nat
    BY Sizes, Areas
  <1>2. Clear \in BitBuffers
    BY <1>1, Sizes DEF Clear, BitBuffers, Bit
  <1> QED
    BY <1>2, Sizes DEF Apart, Clear

LEMMA StartedApart ==
  ASSUME NEW b, Apart(b)
  PROVE  Apart(Started(b)) /\ Started(b).num > 0
  <1>1. CASE b.num # 0
    BY <1>1, Buffer DEF Apart, Started
  <1>2. CASE b.num = 0
    <2> DEFINE u == Started(b)
    <2>1. u = [b EXCEPT !.num = 1, !.free = 1]
      BY <1>2 DEF Started
    <2>2. u \in BitBuffers /\ u.num = 1 /\ u.free = 1 /\ u.len = b.len
      <3>1. b \in BitBuffers /\ 1 \in 0 .. Rows
        BY Sizes DEF Apart
      <3> QED
        BY <2>1, <3>1 DEF BitBuffers
    <2>3. \A r \in Row : ~(b.len[r] > 0)
      BY <1>2, Sizes DEF Apart
    <2> HIDE DEF u
    <2>4. Apart(u)
      BY <2>2, <2>3, Sizes DEF Apart
    <2> QED
      BY <2>2, <2>4 DEF u
  <1> QED
    BY <1>1, <1>2

LEMMA AddBitApart ==
  ASSUME NEW b, Apart(b), NEW bit
  PROVE  Apart(AddBit(b, bit))
  <1> DEFINE u == Started(b)
             r == u.num - 1
             n == u.len[r]
             spill == n > 0 /\ n % RowBits = 0
             t == AddBit(b, bit)
  <1>1. Apart(u) /\ u \in BitBuffers /\ u.num > 0
    BY StartedApart DEF Apart
  <1> HIDE DEF u
  <1>2. /\ u.num \in Nat /\ u.free \in Nat /\ u.free <= Rows /\ u.num <= u.free /\ r \in Row /\ r \in Nat
        /\ r < u.free /\ n \in Nat
    BY <1>1, Buffer, Sizes DEF Apart
  <1>3. CASE spill /\ u.free = Rows
    BY <1>1, <1>3 DEF AddBit, u
  <1>4. CASE ~(spill /\ u.free = Rows)
    <2> DEFINE free == IF spill THEN u.free + 1 ELSE u.free
    <2>1. t = [u EXCEPT !.free = free, !.len[r] = n + 1, !.bb[r * RowBits + n] = IF bit = 1 THEN 1 ELSE @]
      BY <1>4 DEF AddBit, u
    <2>2. free \in Nat /\ free <= Rows /\ u.free <= free
      <3> HIDE DEF spill
      <3> QED
        BY <1>2, <1>4, Sizes
    <2>3. r * RowBits + n + 1 <= free * RowBits
      <3>1. n > 0 => r * RowBits + n <= u.free * RowBits
        BY <1>1, <1>2 DEF Apart
      <3>2. CASE n = 0
        <4>1. (r + 1) * RowBits <= free * RowBits /\ (r + 1) * RowBits = r * RowBits + RowBits
          BY <1>2, <2>2, Sizes, Areas
        <4> HIDE DEF free, r, n
        <4> QED
          BY <1>2, <2>2, <3>2, <4>1, Sizes
      <3>3. CASE spill
        <4>1. free * RowBits = u.free * RowBits + RowBits
          BY <1>2, <3>3, Areas
        <4> HIDE DEF free, r, n
        <4> QED
          BY <1>2, <2>2, <3>1, <3>3, <4>1, Sizes
      <3>4. CASE n > 0 /\ n % RowBits # 0
        <4>1. r * RowBits + n # u.free * RowBits
          <5> SUFFICES ASSUME r * RowBits + n = u.free * RowBits PROVE n % RowBits = 0
            BY <3>4
          <5>1. RowBits \in Nat \ {0} /\ n \in Nat /\ r \in Nat /\ u.free \in Nat
            BY <1>2, Sizes
          <5> HIDE DEF n, r
          <5> QED
            BY <5>1, Remainder
        <4>2. u.free = free
          BY <3>4
        <4> HIDE DEF free, r, n
        <4> QED
          BY <1>2, <2>2, <3>1, <3>4, <4>1, <4>2, Sizes
      <3> QED
        BY <1>2, <3>2, <3>3, <3>4
    <2>4. free * RowBits <= Rows * RowBits /\ u.free * RowBits <= free * RowBits /\ Rows * RowBits \in Nat
          /\ r * RowBits \in Nat /\ free * RowBits \in Nat
      BY <1>2, <2>2, Sizes, Areas
    <2>5. r * RowBits + n \in Memory /\ n + 1 \in 0 .. Rows * RowBits
      BY <1>2, <2>3, <2>4, Sizes DEF Memory
    <2> HIDE DEF free, n
    <2>6. /\ t \in BitBuffers /\ t.num = u.num /\ t.free = free /\ t.len[r] = n + 1
          /\ \A q \in Row : q # r => t.len[q] = u.len[q]
      <3>1. /\ [u.len EXCEPT ![r] = n + 1] \in [Row -> 0 .. Rows * RowBits]
            /\ [u.bb EXCEPT ![r * RowBits + n] = IF bit = 1 THEN 1 ELSE @] \in [Memory -> Bit]
        BY <1>1, <1>2, <2>5 DEF BitBuffers, Bit
      <3>2. t = [u EXCEPT !.free = free, !.len = [u.len EXCEPT ![r] = n + 1],
                          !.bb = [u.bb EXCEPT ![r * RowBits + n] = IF bit = 1 THEN 1 ELSE @]]
        BY <2>1
      <3> HIDE DEF r, t
      <3>3. free \in 0 .. Rows
        BY <2>2, Sizes
      <3>4. t \in BitBuffers
        BY <1>1, <3>1, <3>2, <3>3 DEF BitBuffers
      <3> QED
        BY <1>1, <1>2, <3>2, <3>4 DEF BitBuffers
    <2> HIDE DEF t
    <2>7. \A q \in Row : t.len[q] > 0 => q < t.num /\ q * RowBits + t.len[q] <= t.free * RowBits
      <3> SUFFICES ASSUME NEW q \in Row, t.len[q] > 0
                   PROVE  q < t.num /\ q * RowBits + t.len[q] <= t.free * RowBits
        OBVIOUS
      <3>1. CASE q = r
        <4>1. r * RowBits \in Nat /\ r < u.num
          BY <1>2, Areas
        <4> HIDE DEF r
        <4> QED
          BY <1>2, <2>3, <2>6, <3>1, <4>1
      <3>2. CASE q # r
        <4>1. u.len[q] > 0 /\ q < u.num /\ q * RowBits + u.len[q] <= u.free * RowBits
          BY <1>1, <2>6, <3>2 DEF Apart
        <4>2. q * RowBits \in Nat /\ u.len[q] \in Nat /\ u.free * RowBits \in Nat
          BY <1>1, <1>2, Buffer, Sizes, Areas
        <4> QED
          BY <2>4, <2>6, <3>2, <4>1, <4>2
      <3> QED
        BY <3>1, <3>2
    <2>8. \A p, q \in Row : p < q /\ (t.len[q] > 0 \/ q = t.num - 1) => p * RowBits + t.len[p] <= q * RowBits
      <3> SUFFICES ASSUME NEW p \in Row, NEW q \in Row, p < q, t.len[q] > 0 \/ q = t.num - 1
                   PROVE  p * RowBits + t.len[p] <= q * RowBits
        OBVIOUS
      <3>1. q <= r
        BY <1>2, <2>6, <2>7, Sizes
      <3>2. u.len[q] > 0 \/ q = u.num - 1
        BY <2>6, <3>1
      <3>3. p # r
        BY <1>2, <3>1, Sizes
      <3> QED
        BY <1>1, <2>6, <3>2, <3>3 DEF Apart
    <2> QED
      BY <1>1, <1>2, <2>2, <2>6, <2>7, <2>8 DEF Apart, t
  <1> QED
    BY <1>3, <1>4

(* n times the same bit, the last one as any other. *)
LEMMA AddRunApart ==
  ASSUME NEW b, Apart(b), NEW bit, NEW n \in Int
  PROVE  Apart(AddRun(b, bit, n)) /\ (n > 0 => \E c : Apart(c) /\ AddRun(b, bit, n) = AddBit(c, bit))
  <1>1. CASE ~(n > 0)
    BY <1>1 DEF AddRun
  <1>2. CASE n > 0
    <2> DEFINE D == 0 .. n
               V == {c \in BitBuffers : Apart(c)}
               Is(f) == f = [k \in D |-> IF k = 0 THEN b ELSE AddBit(f[k - 1], bit)]
               H == [x \in D \X [D -> V] |-> IF x[1] = 0 THEN b ELSE AddBit(x[2][x[1] - 1], bit)]
               rank == [k \in D |-> k]
    <2>1. b \in V /\ \A c \in V : AddBit(c, bit) \in V
      BY AddBitApart DEF Apart
    <2>2. H \in [D \X [D -> V] -> V]
      BY <2>1
    <2>3. \A k \in D : \A f, g \in [D -> V] :
            (\A y \in D : rank[y] < rank[k] => f[y] = g[y]) => H[<<k, f>>] = H[<<k, g>>]
      OBVIOUS
    <2>4. n \in Nat /\ rank \in [D -> 0 .. n] /\ V # {}
      BY <1>2, <2>1
    <2>5. \E f \in [D -> V] : \A k \in D : f[k] = H[<<k, f>>]
      <3>1. Ranked(D, V, n, rank, H)
        BY <2>2, <2>3, <2>4 DEF Ranked
      <3> HIDE DEF D, V, H, rank
      <3> QED
        BY <3>1, Recursion
    <2>6. PICK f \in [D -> V] : \A k \in D : f[k] = H[<<k, f>>]
      BY <2>5
    <2>7. Is(f)
      BY <2>6
    <2> DEFINE g == CHOOSE c : Is(c)
    <2>8. Is(g)
      BY <2>7
    <2>9. AddRun(b, bit, n) = g[n]
      BY <1>2 DEF AddRun
    <2> HIDE DEF g
    <2> DEFINE S == {k \in Nat : k <= n => Apart(g[k])}
    <2>10. 0 \in S
      BY <2>4, <2>8
    <2>11. ASSUME NEW k \in Nat, k \in S PROVE k + 1 \in S
      <3> SUFFICES ASSUME k + 1 <= n PROVE Apart(g[k + 1])
        OBVIOUS
      <3>1. g[k + 1] = AddBit(g[k], bit)
        <4>1. k + 1 \in D /\ (k + 1) - 1 = k /\ k + 1 # 0
          OBVIOUS
        <4> QED
          BY <2>8, <4>1
      <3> QED
        BY <2>11, <3>1, AddBitApart
    <2> HIDE DEF S
    <2>12. Nat \subseteq S
      BY <2>10, <2>11, Induction
    <2>13. n - 1 \in Nat /\ n - 1 <= n /\ g[n] = AddBit(g[n - 1], bit)
      <3>1. n \in D /\ n # 0 /\ n - 1 \in Nat
        BY <1>2, <2>4
      <3> QED
        BY <2>8, <3>1
    <2>14. Apart(g[n - 1]) /\ Apart(g[n])
      BY <2>4, <2>12, <2>13 DEF S
    <2> QED
      BY <2>9, <2>13, <2>14
  <1> QED
    BY <1>1, <1>2

LEMMA AddRowApart ==
  ASSUME NEW b, Apart(b)
  PROVE  Apart(AddRow(b)) /\ AddRow(b).num > 0
  <1> DEFINE u == Started(b)
             t == AddRow(b)
  <1>1. Apart(u) /\ u \in BitBuffers /\ u.num > 0
    BY StartedApart DEF Apart
  <1> HIDE DEF u
  <1>2. /\ u.num \in Nat /\ u.free \in Nat /\ u.free <= Rows /\ u.num <= u.free /\ u.num - 1 \in Row
        /\ \A r \in Row : u.len[r] \in Nat /\ r * RowBits \in Nat
    BY <1>1, Buffer, Sizes, Areas DEF Apart
  <1>3. CASE u.free < Rows
    <2>1. t = [u EXCEPT !.free = @ + 1, !.num = u.free + 1]
      BY <1>3 DEF AddRow, u
    <2>2. t \in BitBuffers /\ t.num = u.free + 1 /\ t.free = u.free + 1 /\ t.len = u.len
      <3>1. u.free + 1 \in 0 .. Rows
        BY <1>2, <1>3, Sizes
      <3> QED
        BY <1>1, <2>1, <3>1 DEF BitBuffers
    <2> HIDE DEF t
    <2>3. t.free * RowBits >= u.free * RowBits /\ t.free * RowBits \in Nat /\ u.free * RowBits \in Nat
      BY <1>2, <2>2, Areas
    <2>4. \A r \in Row : t.len[r] > 0 => r < t.num /\ r * RowBits + t.len[r] <= t.free * RowBits
      BY <1>1, <1>2, <2>2, <2>3, Sizes DEF Apart
    <2>5. \A q, r \in Row : q < r /\ (t.len[r] > 0 \/ r = t.num - 1) => q * RowBits + t.len[q] <= r * RowBits
      <3> SUFFICES ASSUME NEW q \in Row, NEW r \in Row, q < r, t.len[r] > 0 \/ r = t.num - 1
                   PROVE  q * RowBits + u.len[q] <= r * RowBits
        BY <2>2
      <3>1. CASE u.len[r] > 0
        BY <1>1, <3>1 DEF Apart
      <3>2. CASE r = u.free /\ u.len[q] > 0
        BY <1>1, <3>2 DEF Apart
      <3>3. CASE u.len[q] = 0
        <4>1. q * RowBits <= r * RowBits /\ q * RowBits \in Nat
          BY Areas, Sizes
        <4> QED
          BY <3>3, <4>1
      <3> QED
        BY <1>2, <2>2, <3>1, <3>2, <3>3
    <2> QED
      BY <1>2, <2>2, <2>4, <2>5 DEF Apart, t
  <1>4. CASE ~(u.free < Rows)
    <2>1. t = [u EXCEPT !.len[u.num - 1] = 0]
      BY <1>4 DEF AddRow, u
    <2>2. /\ t \in BitBuffers /\ t.num = u.num /\ t.free = u.free
          /\ \A r \in Row : t.len[r] = u.len[r] \/ t.len[r] = 0
      <3>1. [u.len EXCEPT ![u.num - 1] = 0] \in [Row -> 0 .. Rows * RowBits]
        BY <1>1, <1>2, Sizes, Areas DEF BitBuffers
      <3> QED
        BY <1>1, <1>2, <2>1, <3>1 DEF BitBuffers
    <2> HIDE DEF t
    <2>3. \A q, r \in Row : q < r => q * RowBits <= r * RowBits
      BY Sizes, Areas
    <2> QED
      BY <1>1, <1>2, <2>2, <2>3 DEF Apart, t
  <1> QED
    BY <1>3, <1>4

LEMMA AddSyncApart ==
  ASSUME NEW b, Apart(b)
  PROVE  Apart(AddSync(b))
  <1> DEFINE u == Started(b)
             t == IF u.len[u.num - 1] > 0 THEN AddRow(u) ELSE u
  <1>1. Apart(t) /\ t \in BitBuffers /\ t.num > 0
    BY StartedApart, AddRowApart DEF Apart
  <1>2. AddSync(b) = [t EXCEPT !.syncs[t.num - 1] = @ + 1]
    BY DEF AddSync
  <1> HIDE DEF t
  <1>3. t.num - 1 \in Row
    BY <1>1, Buffer, Sizes
  <1>4. /\ AddSync(b) \in BitBuffers /\ AddSync(b).num = t.num /\ AddSync(b).free = t.free
        /\ AddSync(b).len = t.len
    BY <1>1, <1>2, <1>3 DEF BitBuffers
  <1> QED
    BY <1>1, <1>4 DEF Apart

-----------------------------------------------------------------------------
(* The slicers: whatever widths they see, they leave the buffer in order. *)

Slicers == [bits : BitBuffers, since : Int, half : {0, 1}, phase : 0 .. 3, seen : Nat, out : Seq(BitBuffers)]
Good(t) == t \in Slicers /\ Apart(t.bits)

LEMMA BitsGood ==
  ASSUME NEW t, Good(t), NEW b, Apart(b)
  PROVE  Good([t EXCEPT !.bits = b])
  BY DEF Good, Slicers, Apart

LEMMA AddGood ==
  ASSUME NEW t, Good(t), NEW bit
  PROVE  Good(Add(t, bit))
  <1>1. Apart(AddBit(t.bits, bit))
    BY AddBitApart DEF Good
  <1> QED
    BY <1>1, BitsGood DEF Add, Good, Slicers

LEMMA NewRowGood ==
  ASSUME NEW t, Good(t)
  PROVE  Good(NewRow(t))
  <1>1. Apart(AddRow(t.bits))
    BY AddRowApart DEF Good
  <1> QED
    BY <1>1, BitsGood DEF NewRow, Good, Slicers

LEMMA SyncGood ==
  ASSUME NEW t, Good(t)
  PROVE  Good([t EXCEPT !.bits = AddSync(@)])
  <1>1. Apart(AddSync(t.bits))
    BY AddSyncApart DEF Good
  <1> QED
    BY <1>1, BitsGood DEF Good, Slicers

LEMMA RunGood ==
  ASSUME NEW t, Good(t), NEW bit, NEW n \in Int
  PROVE  Good([t EXCEPT !.bits = AddRun(@, bit, n)])
  <1>1. Apart(AddRun(t.bits, bit, n))
    BY AddRunApart DEF Good
  <1> QED
    BY <1>1, BitsGood DEF Good, Slicers

LEMMA AccountGood ==
  ASSUME NEW t, Good(t)
  PROVE  Good(Account(t))
  <1>1. Append(t.out, t.bits) \in Seq(BitBuffers)
    BY DEF Good, Slicers
  <1> QED
    BY <1>1, ClearApart DEF Account, Good, Slicers, Apart

(* What is not in the buffer. *)
LEMMA SinceGood ==
  ASSUME NEW t, Good(t)
  PROVE  Good([t EXCEPT !.since = 0]) /\ \A x \in Int : Good([t EXCEPT !.since = x])
  BY DEF Good, Slicers

LEMMA HalfGood ==
  ASSUME NEW t, Good(t)
  PROVE  Good([t EXCEPT !.half = 0]) /\ Good([t EXCEPT !.half = 1])
  BY DEF Good, Slicers

LEMMA SeenGood ==
  ASSUME NEW t, Good(t), NEW x \in Nat
  PROVE  Good([t EXCEPT !.seen = x])
  BY DEF Good, Slicers

LEMMA OutGood ==
  ASSUME NEW t, Good(t), NEW x \in Seq(BitBuffers)
  PROVE  Good([t EXCEPT !.out = x])
  BY DEF Good, Slicers

LEMMA PhaseGood ==
  ASSUME NEW t, Good(t)
  PROVE  /\ Good([t EXCEPT !.phase = 0]) /\ Good([t EXCEPT !.phase = 1])
         /\ Good([t EXCEPT !.phase = 2]) /\ Good([t EXCEPT !.phase = 3])
  BY DEF Good, Slicers

LEMMA DeviceWidths ==
  ASSUME NEW d \in Devices
  PROVE  /\ d.short \in Nat /\ d.long \in Nat /\ d.reset \in Nat /\ d.gap \in Nat /\ d.sync \in Nat
         /\ d.tol \in Nat /\ d.fit \in Nat /\ d.clock \in Nat /\ d.short > 0 /\ d.coding \in Codings
         /\ d.coding \in {"pcm", "rzi"} => d.long > 0 /\ d.fit > 0
  BY SlicerAssumption

LEMMA PpmGood ==
  ASSUME NEW d \in Devices, NEW t, Good(t), NEW p \in Int, NEW g \in Int, NEW last
  PROVE  Good(Ppm(d, t, p, g, last))
  BY AddGood, NewRowGood, SyncGood, AccountGood DEF Ppm

LEMMA PwmGood ==
  ASSUME NEW d \in Devices, NEW t, Good(t), NEW p \in Int, NEW g \in Int, NEW last
  PROVE  Good(Pwm(d, t, p, g, last))
  BY AddGood, NewRowGood, SyncGood, AccountGood DEF Pwm

LEMMA EdgeGood ==
  ASSUME NEW d, NEW t, Good(t), NEW w \in Int, NEW bit
  PROVE  Good(Edge(d, t, w, bit))
  <1>1. t.since + w \in Int /\ t.since \in Int
    BY DEF Good, Slicers
  <1>2. Good([Add(t, bit) EXCEPT !.since = 0])
    BY AddGood, SinceGood
  <1>3. Good([t EXCEPT !.since = @ + w])
    BY <1>1, SinceGood DEF Good, Slicers
  <1> QED
    BY <1>2, <1>3 DEF Edge

LEMMA PeriodsType ==
  ASSUME NEW x \in Int, NEW w \in Nat, w > 0
  PROVE  Periods(x, w) \in Int
  <1>1. 2 * x + w \in Int /\ 2 * w \in Nat \ {0}
    OBVIOUS
  <1> QED
    BY <1>1 DEF Periods

LEMMA PcmGood ==
  ASSUME NEW d \in Devices, d.coding = "pcm", NEW t, Good(t), NEW p \in Int, NEW g \in Int, NEW last
  PROVE  Good(Pcm(d, t, p, g, last))
  <1> DEFINE highs == Periods(p, IF d.short = d.long THEN d.fit ELSE d.short)
             lows == Lesser(Periods(g + d.short - d.long, d.fit), MaxZeros(d))
             b == AddRun(AddRun(t.bits, 1, highs), 0, lows)
             u == CASE d.short # d.long /\ Dist(p, d.short) > Tolerance(d) -> [t EXCEPT !.bits = Clear]
                    [] g > GapLimit(d) /\ g <= d.reset
                       /\ ~(d.short # d.long /\ Dist(p, d.short) > Tolerance(d)) -> [t EXCEPT !.bits = AddRow(b)]
                    [] OTHER -> [t EXCEPT !.bits = b]
  <1>1. highs \in Int
    BY PeriodsType, DeviceWidths
  <1>2. lows \in Int
    <2>1. g + d.short - d.long \in Int /\ d.fit \in Nat /\ d.fit > 0
      BY DeviceWidths
    <2>2. MaxZeros(d) \in Int
      BY DeviceWidths DEF MaxZeros, GapLimit
    <2> QED
      BY <2>1, <2>2, PeriodsType DEF Lesser
  <1> HIDE DEF highs, lows
  <1>3. Apart(b)
    BY <1>1, <1>2, AddRunApart DEF Good
  <1> HIDE DEF b
  <1>4. Good([t EXCEPT !.bits = Clear]) /\ Good([t EXCEPT !.bits = AddRow(b)]) /\ Good([t EXCEPT !.bits = b])
    BY <1>3, ClearApart, AddRowApart, BitsGood
  <1>5. Good(u)
    BY <1>4
  <1>6. Pcm(d, t, p, g, last) = IF (last = 1 \/ g > d.reset) /\ HasData(u) THEN Account(u) ELSE u
    BY DEF Pcm, highs, lows, b
  <1> HIDE DEF u
  <1> QED
    BY <1>5, <1>6, AccountGood

LEMMA ManchesterGood ==
  ASSUME NEW d \in Devices, NEW t, Good(t), NEW p \in Int, NEW g \in Int, NEW last
  PROVE  Good(Manchester(d, t, p, g, last))
  <1> DEFINE long == 2 * p > 3 * d.short /\ p <= 2 * d.short + d.tol
             u == IF OutOfClock(d, p) \/ OutOfClock(d, g)
                    THEN [Add(NewRow(IF long THEN Add(t, 1) ELSE t), 0) EXCEPT !.since = 0]
                    ELSE Edge(d, t, p, 1)
  <1>1. Good(u)
    <2>1. Good(IF long THEN Add(t, 1) ELSE t)
      BY AddGood
    <2>2. Good([Add(NewRow(IF long THEN Add(t, 1) ELSE t), 0) EXCEPT !.since = 0])
      <3> DEFINE v == IF long THEN Add(t, 1) ELSE t
      <3> HIDE DEF v
      <3>1. Good([Add(NewRow(v), 0) EXCEPT !.since = 0])
        BY <2>1, AddGood, NewRowGood, SinceGood DEF v
      <3> QED
        BY <3>1 DEF v
    <2> QED
      BY <2>2, EdgeGood
  <1>2. Manchester(d, t, p, g, last) =
          IF (last = 1 \/ g > d.reset) /\ HasRow(u) THEN [Add(Account(u), 0) EXCEPT !.since = 0] ELSE Edge(d, u, g, 0)
    BY DEF Manchester
  <1> HIDE DEF u
  <1>3. Good([Add(Account(u), 0) EXCEPT !.since = 0])
    BY <1>1, AddGood, AccountGood, SinceGood
  <1> QED
    BY <1>1, <1>2, <1>3, EdgeGood

LEMMA DmcGood ==
  ASSUME NEW d, NEW t, Good(t), NEW p, NEW g
  PROVE  Good(Dmc(d, t, p, g))
  <1>1. ASSUME NEW v, Good(v), NEW x PROVE Good(DmcFirst(d, v, x))
    <2>1. Good([Add(v, 1) EXCEPT !.phase = 1])
      BY <1>1, AddGood, PhaseGood
    <2> QED
      BY <1>1, <2>1, AddGood, AccountGood DEF DmcFirst
  <1>2. ASSUME NEW v, Good(v), NEW x PROVE Good(DmcSymbol(d, v, x))
    <2>1. Good([v EXCEPT !.phase = 0])
      BY <1>2, PhaseGood
    <2> QED
      BY <1>1, <2>1, NewRowGood DEF DmcSymbol
  <1> QED
    BY <1>2 DEF Dmc

LEMMA PiwmRawGood ==
  ASSUME NEW d \in Devices, NEW t, Good(t), NEW p \in Int, NEW g \in Int, NEW last
  PROVE  Good(PiwmRaw(d, t, p, g, last))
  <1>1. ASSUME NEW v, Good(v), NEW x \in Int, NEW level, NEW l PROVE Good(RawSymbol(d, v, x, level, l))
    <2> DEFINE w == Periods(x, d.short)
               u == CASE x > d.long -> NewRow(v)
                      [] x <= d.long /\ Dist(x, w * d.short) < d.tol -> [v EXCEPT !.bits = AddRun(@, level, w)]
                      [] x <= d.long /\ Dist(x, w * d.short) >= d.tol /\ x < d.reset /\ HasRowBits(v) -> NewRow(v)
                      [] OTHER -> v
    <2>1. w \in Int
      BY PeriodsType, DeviceWidths
    <2> HIDE DEF w
    <2>2. Good([v EXCEPT !.bits = AddRun(@, level, w)]) /\ Good(NewRow(v))
      BY <1>1, <2>1, RunGood, NewRowGood
    <2>3. Good(u)
      BY <1>1, <2>2
    <2>4. RawSymbol(d, v, x, level, l) = Ends(d, u, x, l)
      BY DEF RawSymbol, w
    <2> HIDE DEF u
    <2> QED
      BY <2>3, <2>4, AccountGood DEF Ends
  <1> QED
    BY <1>1 DEF PiwmRaw

LEMMA PiwmDcGood ==
  ASSUME NEW d, NEW t, Good(t), NEW p, NEW g, NEW last
  PROVE  Good(PiwmDc(d, t, p, g, last))
  <1>1. ASSUME NEW v, Good(v), NEW x, NEW l PROVE Good(DcSymbol(d, v, x, l))
    BY <1>1, AddGood, NewRowGood, AccountGood DEF DcSymbol, Ends
  <1> QED
    BY <1>1 DEF PiwmDc

LEMMA NrzsGood ==
  ASSUME NEW d \in Devices, NEW t, Good(t), NEW p \in Int, NEW g, NEW last
  PROVE  Good(Nrzs(d, t, p, g, last))
  <1> DEFINE n == IF p > d.short THEN p \div d.short ELSE 0
             u == IF p = d.short THEN t ELSE [t EXCEPT !.bits = AddBit(AddRun(@, 1, n), 0)]
  <1>1. n \in Int
    BY DeviceWidths
  <1>2. Nrzs(d, t, p, g, last) = IF last = 1 \/ g >= d.reset THEN Account(u) ELSE u
    BY DEF Nrzs
  <1> HIDE DEF n
  <1>3. Apart(AddBit(AddRun(t.bits, 1, n), 0))
    BY <1>1, AddRunApart, AddBitApart DEF Good
  <1>4. Good(u)
    BY <1>3, BitsGood DEF Good, Slicers
  <1> HIDE DEF u
  <1> QED
    BY <1>2, <1>4, AccountGood

LEMMA Osv1Good ==
  ASSUME NEW d \in Devices, NEW t, Good(t), NEW p \in Int, NEW g \in Int, NEW last
  PROVE  Good(Osv1(d, t, p, g, last))
  <1>1. ASSUME NEW v, Good(v), NEW bit PROVE Good(HalfBit(v, bit))
    BY <1>1, AddGood, HalfGood DEF HalfBit
  <1>2. ASSUME NEW v, Good(v), NEW w, NEW bit PROVE Good(HalfBits(d, v, w, bit))
    BY <1>1, <1>2 DEF HalfBits
  <1>3. \A v : Good(v) => /\ Good([v EXCEPT !.phase = 1]) /\ Good([v EXCEPT !.phase = 2])
                         /\ Good([v EXCEPT !.phase = 3])
    BY PhaseGood
  <1>4. Good(Osv1Preamble(d, t, p, g))
    <2>1. Lesser(t.seen, Preamble) + 1 \in Nat
      BY SlicerAssumption DEF Lesser, Good, Slicers
    <2>2. Good([t EXCEPT !.seen = Lesser(@, Preamble) + 1])
      BY <2>1, SeenGood DEF Good, Slicers
    <2> QED
      BY <1>3, <2>2 DEF Osv1Preamble
  <1>5. Good(Osv1Sync(d, t, p, g))
    BY <1>1, <1>3 DEF Osv1Sync
  <1>6. Good(Osv1Data(d, t, p, g, last))
    <2> DEFINE u == HalfBits(d, t, p, 1)
    <2>1. Good(u) /\ Good(Account(u)) /\ Good(HalfBits(d, u, g, 0))
      BY <1>2, AccountGood
    <2>2. Good([Account(u) EXCEPT !.phase = 3])
      BY <1>3, <2>1
    <2> QED
      BY <2>1, <2>2 DEF Osv1Data
  <1> QED
    BY <1>4, <1>5, <1>6 DEF Osv1

LEMMA RziGood ==
  ASSUME NEW d \in Devices, d.coding = "rzi", NEW t, Good(t), NEW p \in Int, NEW g, NEW last
  PROVE  Good(Rzi(d, t, p, g, last))
  <1> DEFINE high == IF t.phase = 0 THEN p ELSE p + d.short - d.long
             n == IF high < 0 THEN 0 ELSE (high + d.long \div 2) \div d.long
             u == [t EXCEPT !.phase = 1, !.bits = AddRun(@, 1, n)]
  <1>1. n \in Int
    <2>1. high \in Int /\ d.long \in Nat /\ d.long > 0
      BY DeviceWidths
    <2> HIDE DEF high
    <2>2. high + d.long \div 2 \in Int
      BY <2>1
    <2> QED
      BY <2>1, <2>2
  <1>2. Rzi(d, t, p, g, last) =
          CASE (last = 1 \/ g > d.reset) /\ u.bits.len[0] > 0 -> [Account(u) EXCEPT !.phase = 0]
            [] (last = 1 \/ g > d.reset) /\ u.bits.len[0] = 0 -> [u EXCEPT !.bits = Clear, !.phase = 0]
            [] OTHER -> Add(u, 0)
    BY DEF Rzi
  <1> HIDE DEF n
  <1>3. Apart(AddRun(t.bits, 1, n))
    BY <1>1, AddRunApart DEF Good
  <1>4. Good(u)
    <2> DEFINE v == [t EXCEPT !.phase = 1]
    <2>1. Good(v) /\ v.bits = t.bits
      BY PhaseGood DEF Good, Slicers
    <2>2. u = [v EXCEPT !.bits = AddRun(t.bits, 1, n)]
      OBVIOUS
    <2> HIDE DEF u, v
    <2> QED
      BY <1>3, <2>1, <2>2, BitsGood
  <1> HIDE DEF u
  <1>5. Good([Account(u) EXCEPT !.phase = 0]) /\ Good([u EXCEPT !.bits = Clear, !.phase = 0]) /\ Good(Add(u, 0))
    <2>1. Good([Account(u) EXCEPT !.phase = 0])
      BY <1>4, AccountGood, PhaseGood
    <2>2. Good([u EXCEPT !.bits = Clear, !.phase = 0])
      <3> DEFINE v == [u EXCEPT !.phase = 0]
      <3>1. Good(v)
        BY <1>4, PhaseGood
      <3>2. [u EXCEPT !.bits = Clear, !.phase = 0] = [v EXCEPT !.bits = Clear]
        OBVIOUS
      <3> HIDE DEF v
      <3> QED
        BY <3>1, <3>2, ClearApart, BitsGood
    <2> QED
      BY <1>4, <2>1, <2>2, AddGood
  <1> QED
    BY <1>2, <1>5

LEMMA SliceGood ==
  ASSUME NEW d \in Devices, NEW t, Good(t), NEW p \in Int, NEW g \in Int, NEW last
  PROVE  Good(Slice(d, t, p, g, last))
  BY DeviceWidths, PcmGood, PpmGood, PwmGood, ManchesterGood, DmcGood, PiwmRawGood, PiwmDcGood, NrzsGood,
     Osv1Good, RziGood DEF Slice, Codings

LEMMA FreshGood ==
  ASSUME NEW d \in Devices
  PROVE  Good(Fresh(d))
  <1>1. Apart(AddBit(Clear, 0)) /\ Apart(Clear)
    BY ClearApart, AddBitApart
  <1> QED
    BY <1>1 DEF Fresh, Good, Slicers, Apart

-----------------------------------------------------------------------------
(* Where the sender is, and the widths it sends. *)

LEMMA LevelWidths ==
  ASSUME NEW d \in Devices, d.coding \in {"manchester", "osv1", "dmc", "piwm_raw", "piwm_dc"}, NEW q, NEW level,
         NEW x \in Level(d, q, level)
  PROVE  x.w \in Int
  <1>1. CASE d.coding = "piwm_raw"
    <2>1. PICK w \in 1 .. d.long \div d.short : x = Sym(w * d.short, Bits(level, w), 0)
      BY <1>1 DEF Level
    <2>2. d.short \in Int /\ w \in Int
      BY DeviceWidths
    <2> QED
      BY <2>1, <2>2 DEF Sym
  <1>2. CASE d.coding # "piwm_raw"
    BY <1>2, DeviceWidths DEF Level, Sym
  <1> QED
    BY <1>1, <1>2

LEMMA PulseWidths ==
  ASSUME NEW d \in Devices, NEW q, d.coding = "rzi" => q \in {0, 1}, NEW x \in Pulse(d, q)
  PROVE  x.w \in Int /\ (d.coding = "rzi" => x.next = 1)
  <1>1. CASE d.coding = "pcm"
    BY <1>1, DeviceWidths DEF Pulse, Sym
  <1>2. CASE d.coding \in {"ppm", "pwm"}
    BY <1>2, DeviceWidths DEF Pulse, Sym
  <1>3. CASE d.coding = "nrzs"
    <2>1. PICK k \in 0 .. 2 : x = Sym(k * d.short + d.short \div 2, Append(Bits(1, k), 0), 0)
      BY <1>3 DEF Pulse
    <2>2. k * d.short \in Int /\ d.short \div 2 \in Int
      BY DeviceWidths
    <2> QED
      BY <1>3, <2>1, <2>2 DEF Sym
  <1>4. CASE d.coding = "rzi"
    BY <1>4, DeviceWidths DEF Pulse, Sym
  <1>5. CASE d.coding = "osv1" /\ q >= 2
    BY <1>5, DeviceWidths DEF Pulse, Sym
  <1>6. CASE d.coding \in {"manchester", "dmc", "piwm_raw", "piwm_dc"} \/ (d.coding = "osv1" /\ ~(q >= 2))
    <2>1. x \in Level(d, q, 1)
      BY <1>6 DEF Pulse
    <2> QED
      BY <1>6, <2>1, LevelWidths
  <1> QED
    BY <1>1, <1>2, <1>3, <1>4, <1>5, <1>6, DeviceWidths DEF Codings

LEMMA GapWidths ==
  ASSUME NEW d \in Devices, NEW q, NEW y \in Gap(d, q)
  PROVE  y.w \in Int /\ (d.coding = "rzi" => y.next = 1)
  <1>1. CASE d.coding = "pcm"
    <2>1. PICK k \in 0 .. 2 : y = Sym((d.clock - d.short) + k * d.clock, Bits(0, k), 0)
      BY <1>1 DEF Gap
    <2>2. d.clock - d.short \in Int /\ k * d.clock \in Int
      BY DeviceWidths
    <2> QED
      BY <1>1, <2>1, <2>2 DEF Sym
  <1>2. CASE d.coding \in {"ppm", "pwm", "nrzs", "rzi"}
    BY <1>2, DeviceWidths DEF Gap, Sym
  <1>3. CASE d.coding = "osv1" /\ q >= 2
    BY <1>3, DeviceWidths DEF Gap, Sym
  <1>4. CASE d.coding \in {"manchester", "dmc", "piwm_raw", "piwm_dc"} \/ (d.coding = "osv1" /\ ~(q >= 2))
    <2>1. y \in Level(d, q, 0)
      BY <1>4 DEF Gap
    <2> QED
      BY <1>4, <2>1, LevelWidths
  <1> QED
    BY <1>1, <1>2, <1>3, <1>4, DeviceWidths DEF Codings

LEMMA PauseWidths ==
  ASSUME NEW d \in Devices, NEW last
  PROVE  Pause(d).w \in Int /\ \A y \in Silences(d, last) : y.w \in Int
  BY DeviceWidths DEF Pause, Silence, Silences, Sym

-----------------------------------------------------------------------------
(* The buffer is in order at all times, and the sender where Pulse knows what
   it sends next. *)
IInv ==
  /\ device \in Devices
  /\ Good(s)
  /\ device.coding = "rzi" => place \in {0, 1}

LEMMA Initially == Init => IInv
  BY FreshGood DEF Init, IInv, First

LEMMA TakeGood ==
  ASSUME IInv, NEW p \in Int, NEW g \in Int, NEW last, Take(p, g, last)
  PROVE  device' = device /\ Good(s')
  <1> DEFINE u == [s EXCEPT !.out = <<>>]
             t == Slice(device, u, p, g, last)
             f == Fresh(device)
  <1>1. Good(u)
    <2>1. <<>> \in Seq(BitBuffers)
      OBVIOUS
    <2> QED
      BY <2>1, OutGood DEF IInv
  <1> HIDE DEF u
  <1>2. Good(t) /\ Good(f)
    BY <1>1, SliceGood, FreshGood DEF IInv
  <1>3. s' = IF last = 1 THEN [f EXCEPT !.out = t.out] ELSE t
    BY DEF Take, u
  <1> HIDE DEF t, f
  <1>4. Good([f EXCEPT !.out = t.out])
    BY <1>2, OutGood DEF Good, Slicers
  <1> QED
    BY <1>2, <1>3, <1>4 DEF Take

LEMMA OffWidths == ASSUME NEW w \in Int, NEW i \in Off PROVE w + i \in Int
  BY DEF Off

LEMMA Inductive == IInv /\ [Next]_vars => IInv'
  <1> SUFFICES ASSUME IInv, [Next]_vars PROVE IInv'
    OBVIOUS
  <1> USE DEF IInv
  <1>1. CASE Send
    <2>1. PICK x \in Pulse(device, place) : \E y \in Gap(device, x.next), i \in Off, j \in Off :
            Take(x.w + i, y.w + j, 0) /\ place' = y.next
      BY <1>1 DEF Send
    <2>2. PICK y \in Gap(device, x.next), i \in Off, j \in Off : Take(x.w + i, y.w + j, 0) /\ place' = y.next
      BY <2>1
    <2>3. x.w + i \in Int /\ y.w + j \in Int /\ (device.coding = "rzi" => y.next = 1)
      BY PulseWidths, GapWidths, OffWidths
    <2> QED
      BY <2>2, <2>3, TakeGood
  <1>2. CASE SendPause
    <2>1. PICK x \in Pulse(device, place), i \in Off : Take(x.w + i, Pause(device).w, 0)
      BY <1>2 DEF SendPause
    <2>2. x.w + i \in Int /\ Pause(device).w \in Int
      BY PulseWidths, PauseWidths, OffWidths
    <2> QED
      BY <1>2, <2>1, <2>2, TakeGood DEF SendPause
  <1>3. CASE SendSync
    <2>1. device.sync \in Int /\ device.short \in Int
      BY DeviceWidths
    <2>2. PICK i \in Off : Take(device.sync + i, device.short, 0) \/ Take(device.short, device.sync + i, 0)
      BY <1>3 DEF SendSync
    <2>3. device.sync + i \in Int
      BY <2>1, OffWidths
    <2> QED
      BY <1>3, <2>1, <2>2, <2>3, TakeGood DEF SendSync
  <1>4. ASSUME NEW last \in {0, 1}, Finish(last) PROVE IInv'
    <2>1. PICK x \in Pulse(device, place), y \in Silences(device, last), i \in Off : Take(x.w + i, y.w, last)
      BY <1>4 DEF Finish
    <2>2. x.w + i \in Int /\ y.w \in Int
      BY PulseWidths, PauseWidths, OffWidths
    <2> QED
      BY <1>4, <2>1, <2>2, TakeGood DEF Finish, NewMessage, First
  <1>5. ASSUME NEW last \in {0, 1}, Interfere(last) PROVE IInv'
    <2>1. PICK p \in Noise, g \in Noise : Take(p, g, last)
      BY <1>5 DEF Interfere
    <2>2. p \in Int /\ g \in Int
      BY SlicerAssumption
    <2>3. place' = First(device) \/ place' = 0
      BY <1>5 DEF Interfere, NewMessage
    <2> QED
      BY <2>1, <2>2, <2>3, TakeGood DEF First
  <1>6. CASE UNCHANGED vars
    BY <1>6 DEF vars
  <1> QED
    BY <1>1, <1>2, <1>3, <1>4, <1>5, <1>6 DEF Next

LEMMA Invariant == Spec => []IInv
  BY Initially, Inductive, PTL DEF Spec

(* The rows of the bit buffer never share memory and never leave it: not with
   any device, any widths and any numbers of rows and of bits in a row
   (bitbuffer.c's run-on into the next free row, its last row begun again). *)
THEOREM RowsStayApart == Spec => []RowsAreApart
  <1>1. IInv => RowsAreApart
    BY DEF IInv, Good, Apart, RowsAreApart
  <1> QED
    BY <1>1, Invariant, PTL

-----------------------------------------------------------------------------
(* The line codes, for every row. *)

LEMMA RowBitsOf ==
  ASSUME NEW b \in BitBuffers
  PROVE  BitsOf(b, 0) \in Seq(Bit)
  <1>1. b.len[0] \in Nat /\ b.len[0] <= Rows * RowBits /\ b.bb \in [Memory -> Bit]
    BY Sizes, Buffer
  <1>2. Rows * RowBits \in Nat /\ 0 * RowBits = 0
    BY Sizes, Areas
  <1>3. \A i \in 1 .. b.len[0] : 0 * RowBits + i - 1 \in Memory
    BY <1>1, <1>2 DEF Memory
  <1>4. \A i \in 1 .. b.len[0] : b.bb[0 * RowBits + i - 1] \in Bit
    BY <1>1, <1>3
  <1> QED
    BY <1>1, <1>4 DEF BitsOf

LEMMA InvertTwice ==
  ASSUME NEW row \in Seq(Bit)
  PROVE  Invert(Invert(row)) = row
  BY DEF Invert, Bit

(* A level that changes at the places F. *)
Changes(f, m, a, F) == f[0] = a /\ \A i \in 1 .. m : f[i] = IF i \in F THEN 1 - f[i - 1] ELSE f[i - 1]

LEMMA Levels ==
  ASSUME NEW m \in Nat, NEW a \in Bit, NEW F
  PROVE  /\ \E f \in [0 .. m -> Bit] : Changes(f, m, a, F)
         /\ \A f : Changes(f, m, a, F) => \A k \in 0 .. m : f[k] \in Bit
  <1>1. \E f \in [0 .. m -> Bit] : Changes(f, m, a, F)
    <2> DEFINE D == 0 .. m
               H == [x \in D \X [D -> Bit] |->
                      IF x[1] = 0 THEN a ELSE IF x[1] \in F THEN 1 - x[2][x[1] - 1] ELSE x[2][x[1] - 1]]
               rank == [k \in D |-> k]
    <2>1. H \in [D \X [D -> Bit] -> Bit]
      BY DEF Bit
    <2>2. \A k \in D : \A f, h \in [D -> Bit] :
            (\A y \in D : rank[y] < rank[k] => f[y] = h[y]) => H[<<k, f>>] = H[<<k, h>>]
      OBVIOUS
    <2>3. Bit # {} /\ m \in Nat /\ rank \in [D -> 0 .. m]
      BY DEF Bit
    <2>4. \E f \in [D -> Bit] : \A k \in D : f[k] = H[<<k, f>>]
      <3> HIDE DEF H, D, rank
      <3>1. Ranked(D, Bit, m, rank, H)
        BY <2>1, <2>2, <2>3 DEF Ranked
      <3> QED
        BY <3>1, Recursion
    <2>5. PICK f \in [D -> Bit] : \A k \in D : f[k] = H[<<k, f>>]
      BY <2>4
    <2>6. f[0] = a
      <3>1. 0 \in D
        OBVIOUS
      <3> QED
        BY <2>5, <3>1
    <2>7. ASSUME NEW i \in 1 .. m PROVE f[i] = IF i \in F THEN 1 - f[i - 1] ELSE f[i - 1]
      <3>1. i \in D /\ i # 0
        OBVIOUS
      <3> QED
        BY <2>5, <3>1
    <2> QED
      BY <2>6, <2>7 DEF Changes
  <1>2. ASSUME NEW f, Changes(f, m, a, F), NEW k \in 0 .. m PROVE f[k] \in Bit
    <2> DEFINE S == {i \in Nat : i <= m => f[i] \in Bit}
    <2>1. 0 \in S
      BY <1>2 DEF Changes
    <2>2. ASSUME NEW i \in Nat, i \in S PROVE i + 1 \in S
      <3> SUFFICES ASSUME i + 1 <= m PROVE f[i + 1] \in Bit
        OBVIOUS
      <3>1. i + 1 \in 1 .. m /\ (i + 1) - 1 = i
        OBVIOUS
      <3>2. f[i + 1] = IF i + 1 \in F THEN 1 - f[i] ELSE f[i]
        BY <1>2, <3>1 DEF Changes
      <3> QED
        BY <2>2, <3>2 DEF Bit
    <2> HIDE DEF S
    <2>3. Nat \subseteq S
      BY <2>1, <2>2, Induction
    <2> QED
      BY <2>3 DEF S
  <1> QED
    BY <1>1, <1>2

LEMMA ToggledIs ==
  ASSUME NEW row \in Seq(Bit), NEW bit \in Bit
  PROVE  /\ Toggled(row, bit) \in Seq(Bit) /\ Len(Toggled(row, bit)) = Len(row)
         /\ \A i \in 1 .. Len(row) :
              LET before == Before(Toggled(row, bit), i)
              IN before \in Bit /\ Toggled(row, bit)[i] = IF row[i] = bit THEN 1 - before ELSE before
  <1> DEFINE m == Len(row)
             Is(f) == f = [i \in 0 .. m |-> IF i = 0 THEN 0 ELSE IF row[i] = bit THEN 1 - f[i - 1] ELSE f[i - 1]]
             g == CHOOSE f : Is(f)
             c == [i \in DOMAIN row |-> g[i]]
             F == {i \in 1 .. m : row[i] = bit}
  <1>1. \E f \in [0 .. m -> Bit] : Changes(f, m, 0, F)
    <2>1. m \in Nat /\ 0 \in Bit
      BY DEF Bit
    <2> HIDE DEF m, F
    <2> QED
      BY <2>1, Levels
  <1>2. Is(g)
    <2>1. PICK f \in [0 .. m -> Bit] : Changes(f, m, 0, F)
      BY <1>1
    <2>2. Is(f)
      BY <2>1 DEF Changes
    <2> HIDE DEF Is
    <2> QED
      BY <2>2
  <1>3. Toggled(row, bit) = c
    BY DEF Toggled
  <1> HIDE DEF g
  <1>4. \A k \in 0 .. m : g[k] \in Bit
    <2>1. Changes(g, m, 0, F)
      BY <1>2 DEF Changes
    <2>2. m \in Nat /\ 0 \in Bit
      BY DEF Bit
    <2> HIDE DEF m, F
    <2> QED
      BY <2>1, <2>2, Levels
  <1>5. c \in Seq(Bit) /\ Len(c) = m
    BY <1>4
  <1>6. \A i \in 1 .. m : Before(c, i) = g[i - 1]
    BY <1>2 DEF Before
  <1>7. \A i \in 1 .. m : c[i] = IF row[i] = bit THEN 1 - g[i - 1] ELSE g[i - 1]
    BY <1>2
  <1> HIDE DEF c
  <1> QED
    BY <1>3, <1>4, <1>5, <1>6, <1>7

LEMMA NrzUndone ==
  ASSUME NEW row \in Seq(Bit)
  PROVE  NrzsDecode(Toggled(row, 0)) = row /\ NrzmDecode(Toggled(row, 1)) = row
  <1>1. NrzsDecode(Toggled(row, 0)) = row
    <2> DEFINE c == Toggled(row, 0)
    <2>1. /\ c \in Seq(Bit) /\ Len(c) = Len(row)
          /\ \A i \in 1 .. Len(row) :
               Before(c, i) \in Bit /\ c[i] = IF row[i] = 0 THEN 1 - Before(c, i) ELSE Before(c, i)
      BY ToggledIs DEF Bit
    <2> HIDE DEF c
    <2>2. \A i \in 1 .. Len(row) : (IF c[i] = Before(c, i) THEN 1 ELSE 0) = row[i]
      BY <2>1 DEF Bit
    <2>3. DOMAIN c = 1 .. Len(row)
      BY <2>1
    <2>4. NrzsDecode(c) = row
      BY <2>2, <2>3 DEF NrzsDecode
    <2> QED
      BY <2>4 DEF c
  <1>2. NrzmDecode(Toggled(row, 1)) = row
    <2> DEFINE c == Toggled(row, 1)
    <2>1. /\ c \in Seq(Bit) /\ Len(c) = Len(row)
          /\ \A i \in 1 .. Len(row) :
               Before(c, i) \in Bit /\ c[i] = IF row[i] = 1 THEN 1 - Before(c, i) ELSE Before(c, i)
      BY ToggledIs DEF Bit
    <2> HIDE DEF c
    <2>2. \A i \in 1 .. Len(row) : (IF c[i] = Before(c, i) THEN 0 ELSE 1) = row[i]
      BY <2>1 DEF Bit
    <2>3. DOMAIN c = 1 .. Len(row)
      BY <2>1
    <2>4. NrzmDecode(c) = row
      BY <2>2, <2>3 DEF NrzmDecode
    <2> QED
      BY <2>4 DEF c
  <1> QED
    BY <1>1, <1>2

(* A decoder goes from a bit to the one after next, until the end n. *)
Back(n, V, H) ==
  /\ n \in Nat /\ V # {} /\ H \in [(0 .. n + 1) \X [0 .. n + 1 -> V] -> V]
  /\ \A i \in 0 .. n + 1 : \A f, h \in [0 .. n + 1 -> V] :
       (i < n => f[i + 2] = h[i + 2]) => H[<<i, f>>] = H[<<i, h>>]

LEMMA Backwards ==
  ASSUME NEW n, NEW V, NEW H, Back(n, V, H)
  PROVE  \E f \in [0 .. n + 1 -> V] : \A i \in 0 .. n + 1 : f[i] = H[<<i, f>>]
  <1> USE DEF Back
  <1> DEFINE D == 0 .. n + 1
             rank == [i \in D |-> n + 1 - i]
  <1>1. ASSUME NEW i \in D, NEW f \in [D -> V], NEW h \in [D -> V],
               \A y \in D : rank[y] < rank[i] => f[y] = h[y]
        PROVE  H[<<i, f>>] = H[<<i, h>>]
    <2>1. i < n => i + 2 \in D /\ rank[i + 2] < rank[i]
      OBVIOUS
    <2>2. i < n => f[i + 2] = h[i + 2]
      BY <1>1, <2>1
    <2> QED
      BY <2>2
  <1>2. rank \in [D -> 0 .. n + 1] /\ n + 1 \in Nat
    OBVIOUS
  <1>3. \A i \in D : \A f, h \in [D -> V] :
          (\A y \in D : rank[y] < rank[i] => f[y] = h[y]) => H[<<i, f>>] = H[<<i, h>>]
    <2> HIDE DEF rank, D
    <2> QED
      BY <1>1
  <1>4. Ranked(D, V, n + 1, rank, H)
    <2> HIDE DEF rank
    <2> QED
      BY <1>2, <1>3 DEF Ranked
  <1>5. \E f \in [D -> V] : \A i \in D : f[i] = H[<<i, f>>]
    <2> HIDE DEF rank, D, Back
    <2> QED
      BY <1>4, Recursion
  <1> QED
    BY <1>5

LEMMA BackwardsType ==
  ASSUME NEW n \in Nat, NEW V, NEW f, \A i \in 0 .. n + 1 : (i < n => f[i + 2] \in V) => f[i] \in V
  PROVE  \A i \in 0 .. n + 1 : f[i] \in V
  <1> DEFINE D == 0 .. n + 1
             N == n + 1
             P == {i \in D : f[i] \in V}
             rank == [i \in D |-> n + 1 - i]
  <1>1. N \in Nat /\ rank \in [D -> 0 .. N]
    OBVIOUS
  <1>2. ASSUME NEW i \in D, \A y \in D : rank[y] < rank[i] => y \in P PROVE i \in P
    <2>1. i < n => i + 2 \in D /\ rank[i + 2] < rank[i]
      OBVIOUS
    <2>2. i < n => f[i + 2] \in V
      BY <1>2, <2>1
    <2> QED
      BY <2>2
  <1>3. D \subseteq P
    <2> HIDE DEF D, N, P, rank
    <2>1. \A i \in D : (\A y \in D : rank[y] < rank[i] => y \in P) => i \in P
      BY <1>2
    <2> QED
      BY <1>1, <2>1, RankInduction
  <1> QED
    BY <1>3

(* Two bits for each: a decoder's answer from cycle k + 1 on. *)
Answers == [pos : Nat, out : Seq(Bit)]

LEMMA RowTail ==
  ASSUME NEW row \in Seq(Bit), NEW k \in 0 .. Len(row) - 1
  PROVE  /\ SubSeq(row, k + 2, Len(row)) \in Seq(Bit)
         /\ SubSeq(row, k + 1, Len(row)) = <<row[k + 1]>> \o SubSeq(row, k + 2, Len(row))
  <1> DEFINE m == Len(row)
             a == SubSeq(row, k + 1, m)
             b == SubSeq(row, k + 2, m)
             c == <<row[k + 1]>> \o b
  <1>1. k + 1 \in 1 .. m /\ row[k + 1] \in Bit
    OBVIOUS
  <1>2. b \in Seq(Bit) /\ Len(b) = m - k - 1 /\ \A i \in 1 .. m - k - 1 : b[i] = row[k + 1 + i]
    OBVIOUS
  <1>3. a \in Seq(Bit) /\ Len(a) = m - k /\ \A i \in 1 .. m - k : a[i] = row[k + i]
    OBVIOUS
  <1> HIDE DEF b
  <1>4. c \in Seq(Bit) /\ Len(c) = m - k /\ \A i \in 1 .. m - k : c[i] = IF i = 1 THEN row[k + 1] ELSE b[i - 1]
    BY <1>1, <1>2
  <1>5. ASSUME NEW i \in 1 .. m - k PROVE c[i] = a[i]
    <2>1. i # 1 => i - 1 \in 1 .. m - k - 1 /\ k + 1 + (i - 1) = k + i
      OBVIOUS
    <2>2. i # 1 => b[i - 1] = row[k + 1 + (i - 1)]
      BY <1>2, <2>1
    <2>3. i = 1 => a[i] = row[k + 1]
      BY <1>3
    <2>4. a[i] = row[k + i]
      BY <1>3
    <2> HIDE DEF a, c
    <2> QED
      BY <1>4, <2>1, <2>2, <2>3, <2>4
  <1> HIDE DEF a, c
  <1>6. a = c
    BY <1>3, <1>4, <1>5
  <1> QED
    BY <1>2, <1>6 DEF a, b, c

LEMMA WholeRow ==
  ASSUME NEW row \in Seq(Bit)
  PROVE  SubSeq(row, 0 + 1, Len(row)) = row /\ SubSeq(row, Len(row) + 1, Len(row)) = <<>>
  OBVIOUS

LEMMA ManchesterIs ==
  ASSUME NEW row \in Seq(Bit)
  PROVE  LET c == ManchesterCoded(row)
         IN /\ Len(c) = 2 * Len(row) /\ c \in Seq(Bit)
            /\ \A k \in 0 .. Len(row) - 1 : At(c, 2 * k) = 1 - row[k + 1] /\ At(c, 2 * k + 1) = row[k + 1]
  <1> DEFINE c == ManchesterCoded(row)
             n == 2 * Len(row)
  <1>1. n \in Nat /\ DOMAIN c = 1 .. n
    BY DEF ManchesterCoded
  <1>2. \A i \in 1 .. n : c[i] \in Bit
    <2> SUFFICES ASSUME NEW i \in 1 .. n PROVE c[i] \in Bit
      OBVIOUS
    <2>1. CASE i % 2 = 0
      <3>1. i \div 2 \in 1 .. Len(row)
        BY <2>1
      <3> QED
        BY <2>1, <3>1 DEF ManchesterCoded
    <2>2. CASE i % 2 # 0
      <3>1. (i + 1) \div 2 \in 1 .. Len(row)
        BY <2>2
      <3>2. row[(i + 1) \div 2] \in Bit
        BY <3>1
      <3> QED
        BY <2>2, <3>2 DEF ManchesterCoded, Bit
    <2> QED
      BY <2>1, <2>2
  <1>3. c \in Seq(Bit) /\ Len(c) = n
    BY <1>1, <1>2 DEF ManchesterCoded
  <1>4. \A k \in 0 .. Len(row) - 1 : c[2 * k + 1] = 1 - row[k + 1] /\ c[2 * k + 2] = row[k + 1]
    <2> SUFFICES ASSUME NEW k \in 0 .. Len(row) - 1
                 PROVE  c[2 * k + 1] = 1 - row[k + 1] /\ c[2 * k + 2] = row[k + 1]
      OBVIOUS
    <2>1. 2 * k + 1 \in 1 .. n /\ 2 * k + 2 \in 1 .. n
      OBVIOUS
    <2>2. (2 * k + 1) % 2 # 0 /\ (2 * k + 2) % 2 = 0 /\ (2 * k + 1 + 1) \div 2 = k + 1 /\ (2 * k + 2) \div 2 = k + 1
      OBVIOUS
    <2> QED
      BY <2>1, <2>2 DEF ManchesterCoded
  <1>5. \A k \in 0 .. Len(row) - 1 : 2 * k < n /\ 2 * k + 1 < n
    OBVIOUS
  <1> HIDE DEF c
  <1>6. \A k \in 0 .. Len(row) - 1 : At(c, 2 * k) = c[2 * k + 1] /\ At(c, 2 * k + 1) = c[2 * k + 2]
    BY <1>3, <1>5 DEF At
  <1> QED
    BY <1>3, <1>4, <1>6 DEF c

LEMMA AtType == ASSUME NEW c \in Seq(Bit), NEW i \in Nat PROVE At(c, i) \in Bit
  <1>1. i < Len(c) => i + 1 \in 1 .. Len(c)
    OBVIOUS
  <1> QED
    BY <1>1 DEF At, Bit

LEMMA Prepend ==
  ASSUME NEW x \in Answers, NEW b \in Bit
  PROVE  /\ [x EXCEPT !.out = <<b>> \o @] \in Answers
         /\ [x EXCEPT !.out = <<b>> \o @] = [pos |-> x.pos, out |-> <<b>> \o x.out]
         /\ [x EXCEPT !.out = <<b>> \o @].out = <<b>> \o x.out
  <1> DEFINE o == <<b>> \o x.out
  <1>1. o \in Seq(Bit) /\ x.pos \in Nat
    BY DEF Answers
  <1> HIDE DEF o
  <1>2. [x EXCEPT !.out = o] = [pos |-> x.pos, out |-> o]
    BY DEF Answers
  <1> QED
    BY <1>1, <1>2 DEF Answers, o

LEMMA ManchesterUndone ==
  ASSUME NEW row \in Seq(Bit)
  PROVE  ManchesterDecode(ManchesterCoded(row), 0, 0) = [pos |-> 2 * Len(row), out |-> row]
  <1> DEFINE m == Len(row)
             n == 2 * m
             c == ManchesterCoded(row)
             l == Len(c)
             e == Limit(c, 0, 0)
             D == 0 .. l + 1
             Def(f, i) == CASE i >= e -> [pos |-> i, out |-> <<>>]
                            [] i < e /\ At(c, i) = At(c, i + 1) -> [pos |-> i + 2, out |-> <<>>]
                            [] OTHER -> [f[i + 2] EXCEPT !.out = <<At(c, i + 1)>> \o @]
             Is(f) == f = [i \in D |-> Def(f, i)]
             H == [x \in D \X [D -> Answers] |-> Def(x[2], x[1])]
             g == CHOOSE f : Is(f)
  <1>1. /\ l = n /\ c \in Seq(Bit) /\ n \in Nat
        /\ \A k \in 0 .. m - 1 : At(c, 2 * k) = 1 - row[k + 1] /\ At(c, 2 * k + 1) = row[k + 1]
    BY ManchesterIs
  <1>2. ManchesterDecode(c, 0, 0) = g[0]
    BY DEF ManchesterDecode
  <1>3. e = n
    BY <1>1 DEF Limit
  <1>4. m \in Nat /\ n = 2 * m
    BY <1>1
  <1> HIDE DEF c, l, e, n
  <1>5. ASSUME NEW f \in [D -> Answers], NEW i \in D PROVE Def(f, i) \in Answers
    <2>1. [pos |-> i, out |-> <<>>] \in Answers /\ [pos |-> i + 2, out |-> <<>>] \in Answers
      BY DEF Answers
    <2>2. ASSUME i < e PROVE [f[i + 2] EXCEPT !.out = <<At(c, i + 1)>> \o @] \in Answers
      <3>1. i + 2 \in D /\ i + 1 \in Nat
        BY <1>1, <1>3, <2>2
      <3>2. At(c, i + 1) \in Bit /\ f[i + 2] \in Answers
        BY <1>1, <3>1, AtType
      <3> QED
        BY <3>2, Prepend
    <2> QED
      BY <1>1, <1>3, <2>1, <2>2
  <1>6. \E f \in [D -> Answers] : \A i \in D : f[i] = H[<<i, f>>]
    <2>1. ASSUME NEW f \in [D -> Answers], NEW h \in [D -> Answers], NEW i \in D, i < l => f[i + 2] = h[i + 2]
          PROVE  Def(f, i) = Def(h, i)
      <3>1. i < e => f[i + 2] = h[i + 2]
        BY <1>1, <1>3, <2>1
      <3>2. i >= e \/ i < e
        BY <1>1, <1>3
      <3> QED
        BY <3>1, <3>2
    <2>2. Answers # {} /\ l \in Nat
      <3>1. [pos |-> 0, out |-> <<>>] \in Answers
        BY DEF Answers
      <3> QED
        BY <1>1, <3>1
    <2> HIDE DEF Def
    <2>3. H \in [D \X [D -> Answers] -> Answers]
      BY <1>5
    <2>4. \A i \in D : \A f, h \in [D -> Answers] : (i < l => f[i + 2] = h[i + 2]) => H[<<i, f>>] = H[<<i, h>>]
      BY <2>1
    <2> HIDE DEF H
    <2>5. Back(l, Answers, H)
      BY <2>2, <2>3, <2>4 DEF Back
    <2> QED
      BY <2>5, Backwards
  <1>7. \A i \in D : g[i] = Def(g, i)
    <2> HIDE DEF D, Def
    <2>1. \E f : Is(f)
      BY <1>6
    <2>2. Is(g)
      BY <2>1
    <2> QED
      BY <2>2
  <1>8. \A i \in 0 .. n : i \in D
    BY <1>1
  <1> HIDE DEF g, D, Def, Is, H, m
  <1> DEFINE Right(k) == \A j, i \in Nat : j + k = m /\ i = 2 * j =>
                           g[i] = [pos |-> n, out |-> SubSeq(row, j + 1, m)]
             S == {k \in Nat : Right(k)}
  <1>9. Right(0)
    <2> SUFFICES ASSUME NEW j \in Nat, NEW i \in Nat, j = m, i = n
                 PROVE  g[i] = [pos |-> n, out |-> SubSeq(row, j + 1, m)]
      BY <1>4
    <2>1. g[n] = Def(g, n) /\ n >= e /\ ~(n < e)
      BY <1>1, <1>3, <1>7, <1>8
    <2>2. Def(g, n) = [pos |-> n, out |-> <<>>]
      BY <2>1 DEF Def
    <2> QED
      BY <2>1, <2>2, WholeRow DEF m
  <1>10. ASSUME NEW k \in Nat, Right(k) PROVE Right(k + 1)
    <2> SUFFICES ASSUME NEW j \in Nat, NEW i \in Nat, j + k + 1 = m, i = 2 * j
                 PROVE  g[i] = [pos |-> n, out |-> SubSeq(row, j + 1, m)]
      OBVIOUS
    <2>1. j \in 0 .. m - 1 /\ i \in D /\ i < e /\ (j + 1) + k = m /\ i + 2 = 2 * (j + 1) /\ (j + 1) + 1 = j + 2
      BY <1>1, <1>3, <1>4, <1>8
    <2>2. g[i + 2] = [pos |-> n, out |-> SubSeq(row, j + 2, m)]
      <3>1. j + 1 \in Nat /\ i + 2 \in Nat
        OBVIOUS
      <3>2. g[i + 2] = [pos |-> n, out |-> SubSeq(row, (j + 1) + 1, m)]
        BY <1>10, <2>1, <3>1
      <3> QED
        BY <2>1, <3>2
    <2>3. At(c, i) # At(c, i + 1) /\ At(c, i + 1) = row[j + 1] /\ row[j + 1] \in Bit
      <3>1. row[j + 1] \in Bit
        BY <2>1 DEF m
      <3> QED
        BY <1>1, <2>1, <3>1 DEF Bit
    <2>4. g[i] = [g[i + 2] EXCEPT !.out = <<row[j + 1]>> \o @]
      <3>1. g[i] = Def(g, i)
        BY <1>7, <2>1
      <3>2. ~(i >= e) /\ ~(At(c, i) = At(c, i + 1))
        BY <1>1, <1>3, <2>1, <2>3
      <3> QED
        BY <2>3, <3>1, <3>2 DEF Def
    <2> DEFINE tail == SubSeq(row, j + 2, m)
    <2>5. tail \in Seq(Bit) /\ SubSeq(row, j + 1, m) = <<row[j + 1]>> \o tail
      <3>1. j \in 0 .. Len(row) - 1
        BY <2>1 DEF m
      <3>2. /\ SubSeq(row, j + 2, Len(row)) \in Seq(Bit)
            /\ SubSeq(row, j + 1, Len(row)) = <<row[j + 1]>> \o SubSeq(row, j + 2, Len(row))
        BY <3>1, RowTail
      <3> QED
        BY <3>2 DEF m
    <2> HIDE DEF tail
    <2>6. g[i + 2] \in Answers /\ g[i + 2].pos = n /\ g[i + 2].out = tail
      BY <1>1, <2>2, <2>5 DEF Answers, tail
    <2> QED
      BY <2>3, <2>4, <2>5, <2>6, Prepend
  <1> HIDE DEF Right
  <1>11. Right(m)
    <2>1. 0 \in S /\ \A k \in Nat : k \in S => k + 1 \in S
      BY <1>9, <1>10
    <2> HIDE DEF S
    <2>2. m \in S
      BY <1>4, <2>1, Induction
    <2> QED
      BY <2>2 DEF S
  <1>12. g[0] = [pos |-> n, out |-> row]
    <2>1. 0 + m = m /\ 0 = 2 * 0
      BY <1>4
    <2>2. g[0] = [pos |-> n, out |-> SubSeq(row, 0 + 1, m)]
      BY <1>11, <2>1 DEF Right
    <2> QED
      BY <2>2, WholeRow DEF m
  <1> QED
    BY <1>2, <1>12 DEF c, n, m

(* A cycle begins with a change of level, and a second one tells a 0. *)
LEMMA DifferentialIs ==
  ASSUME NEW row \in Seq(Bit), NEW level \in Bit
  PROVE  LET c == DifferentialCoded(row, level)
         IN /\ Len(c) = 2 * Len(row) /\ c \in Seq(Bit)
            /\ \A k, i \in Nat : k < Len(row) /\ i = 2 * k =>
                 /\ At(c, i + 1) = IF row[k + 1] = 0 THEN 1 - At(c, i) ELSE At(c, i)
                 /\ k + 1 < Len(row) => At(c, i + 2) = 1 - At(c, i + 1)
  <1> DEFINE m == Len(row)
             n == 2 * m
             Is(f) == f = [i \in 0 .. n |->
                            IF i = 0 THEN level
                            ELSE IF i % 2 = 1 \/ row[i \div 2] = 0 THEN 1 - f[i - 1] ELSE f[i - 1]]
             g == CHOOSE f : Is(f)
             c == [i \in 1 .. n |-> g[i]]
             F == {i \in 1 .. n : i % 2 = 1 \/ row[i \div 2] = 0}
  <1>1. n \in Nat
    OBVIOUS
  <1>2. \E f \in [0 .. n -> Bit] : Changes(f, n, level, F)
    <2> HIDE DEF n, F
    <2> QED
      BY <1>1, Levels
  <1>3. Is(g)
    <2>1. PICK f \in [0 .. n -> Bit] : Changes(f, n, level, F)
      BY <1>2
    <2>2. Is(f)
      <3> HIDE DEF n
      <3>1. f[0] = level /\ \A i \in 1 .. n : f[i] = IF i \in F THEN 1 - f[i - 1] ELSE f[i - 1]
        BY <2>1 DEF Changes
      <3>2. ASSUME NEW i \in 0 .. n, i # 0
            PROVE  f[i] = IF i % 2 = 1 \/ row[i \div 2] = 0 THEN 1 - f[i - 1] ELSE f[i - 1]
        <4>1. i \in 1 .. n
          BY <3>2, <1>1
        <4> QED
          BY <3>1, <4>1
      <3> QED
        BY <3>1, <3>2
    <2> HIDE DEF Is
    <2> QED
      BY <2>2
  <1>4. DifferentialCoded(row, level) = c
    BY DEF DifferentialCoded
  <1> HIDE DEF g
  <1>5. /\ g[0] = level
        /\ \A i \in 1 .. n : g[i] = IF i \in F THEN 1 - g[i - 1] ELSE g[i - 1]
    <2> HIDE DEF n
    <2>1. g[0] = level
      BY <1>1, <1>3
    <2>2. ASSUME NEW i \in 1 .. n PROVE g[i] = IF i \in F THEN 1 - g[i - 1] ELSE g[i - 1]
      <3>1. i \in 0 .. n /\ i # 0
        BY <1>1
      <3> QED
        BY <1>3, <3>1
    <2> QED
      BY <2>1, <2>2
  <1>6. \A i \in 0 .. n : g[i] \in Bit
    <2> HIDE DEF n, F
    <2>1. Changes(g, n, level, F)
      BY <1>5 DEF Changes
    <2> QED
      BY <1>1, <2>1, Levels
  <1>7. c \in Seq(Bit) /\ Len(c) = n
    <2> HIDE DEF n
    <2> QED
      BY <1>1, <1>6
  <1>8. \A i \in Nat : i < n => At(c, i) = g[i + 1]
    <2> HIDE DEF n
    <2> QED
      BY <1>1, <1>7 DEF At
  <1>9. ASSUME NEW k \in Nat, NEW i \in Nat, k < m, i = 2 * k
        PROVE  /\ g[i + 2] = IF row[k + 1] = 0 THEN 1 - g[i + 1] ELSE g[i + 1]
               /\ k + 1 < m => g[i + 3] = 1 - g[i + 2]
    <2>1. i + 2 \in 1 .. n /\ (i + 2) - 1 = i + 1 /\ (i + 2) % 2 = 0 /\ (i + 2) \div 2 = k + 1
      BY <1>9
    <2>2. i + 2 \in F <=> row[k + 1] = 0
      BY <2>1
    <2>3. k + 1 < m => i + 3 \in 1 .. n /\ (i + 3) - 1 = i + 2 /\ (i + 3) % 2 = 1
      BY <1>9
    <2>4. k + 1 < m => i + 3 \in F
      BY <2>3
    <2> HIDE DEF n, F
    <2>5. g[i + 2] = IF i + 2 \in F THEN 1 - g[i + 1] ELSE g[i + 1]
      BY <1>5, <2>1
    <2>6. k + 1 < m => g[i + 3] = 1 - g[i + 2]
      BY <1>5, <2>3, <2>4
    <2> QED
      BY <2>2, <2>5, <2>6
  <1> HIDE DEF c
  <1>10. ASSUME NEW k \in Nat, NEW i \in Nat, k < m, i = 2 * k
         PROVE  /\ At(c, i + 1) = IF row[k + 1] = 0 THEN 1 - At(c, i) ELSE At(c, i)
                /\ k + 1 < m => At(c, i + 2) = 1 - At(c, i + 1)
    <2>1. i < n /\ i + 1 < n /\ (k + 1 < m => i + 2 < n)
      BY <1>10
    <2> HIDE DEF n, F
    <2>2. /\ At(c, i) = g[i + 1] /\ At(c, i + 1) = g[(i + 1) + 1]
          /\ k + 1 < m => At(c, i + 2) = g[(i + 2) + 1]
      BY <1>8, <2>1
    <2>3. (i + 1) + 1 = i + 2 /\ (i + 2) + 1 = i + 3
      OBVIOUS
    <2> QED
      BY <1>9, <1>10, <2>2, <2>3
  <1> HIDE DEF F
  <1> QED
    BY <1>4, <1>7, <1>10

LEMMA DifferentialUndone ==
  ASSUME NEW row \in Seq(Bit), NEW level \in Bit, \E r \in DOMAIN row : row[r] = 1
  PROVE  DifferentialDecode(DifferentialCoded(row, level), 0, 0).out = row
  <1> DEFINE m == Len(row)
             n == 2 * m
             c == DifferentialCoded(row, level)
             l == Len(c)
             e == Limit(c, 0, 0)
             D == 0 .. l + 1
             Cycle(f, i, b2) ==
               CASE i >= e -> [pos |-> i, out |-> <<>>]
                 [] i < e /\ At(c, i) = b2 -> [pos |-> i + 1, out |-> <<>>]
                 [] OTHER -> [f[i + 2][At(c, i + 1)] EXCEPT
                                !.out = <<IF At(c, i) = At(c, i + 1) THEN 1 ELSE 0>> \o @]
             Cycles(f, i) == [b2 \in Bit |-> Cycle(f, i, b2)]
             IsC(f) == f = [i \in D |-> Cycles(f, i)]
             g == CHOOSE f : IsC(f)
             Sync(f, i) ==
               CASE i >= e -> [pos |-> i, out |-> <<>>]
                 [] i < e /\ At(c, i) = At(c, i + 1) -> g[i][1 - At(c, i)]
                 [] i < e /\ At(c, i) # At(c, i + 1) /\ At(c, i + 1) = At(c, i + 2) -> g[i + 1][At(c, i)]
                 [] OTHER -> [f[i + 2] EXCEPT !.out = <<0>> \o @]
             IsS(f) == f = [i \in D |-> Sync(f, i)]
             h == CHOOSE f : IsS(f)
             V == [Bit -> Answers]
             HC == [x \in D \X [D -> V] |-> Cycles(x[2], x[1])]
             HS == [x \in D \X [D -> Answers] |-> Sync(x[2], x[1])]
  <1>1. /\ l = n /\ c \in Seq(Bit) /\ n \in Nat
        /\ \A k, i \in Nat : k < m /\ i = 2 * k =>
             /\ At(c, i + 1) = IF row[k + 1] = 0 THEN 1 - At(c, i) ELSE At(c, i)
             /\ k + 1 < m => At(c, i + 2) = 1 - At(c, i + 1)
    BY DifferentialIs
  <1>2. DifferentialDecode(c, 0, 0) = h[0]
    BY DEF DifferentialDecode
  <1>3. e = n
    BY <1>1 DEF Limit
  <1>4. m \in Nat /\ n = 2 * m /\ \A i \in 0 .. n : i \in D
    BY <1>1
  <1>5. \A i \in Nat : At(c, i) \in Bit
    BY <1>1, AtType
  <1> HIDE DEF c, l, e, n
  <1>6. /\ Answers # {} /\ V # {} /\ l \in Nat
        /\ \A i \in Nat : [pos |-> i, out |-> <<>>] \in Answers
    <2>1. \A i \in Nat : [pos |-> i, out |-> <<>>] \in Answers
      BY DEF Answers
    <2>2. [b2 \in Bit |-> [pos |-> 0, out |-> <<>>]] \in V
      BY <2>1
    <2> QED
      BY <1>1, <2>1, <2>2
  <1>7. \A i \in D : i \in Nat /\ i + 1 \in Nat /\ (i >= e \/ i < e)
                 /\ (i < e => i + 1 \in D /\ i + 2 \in D /\ i < l)
    BY <1>1, <1>3
  <1>8. ASSUME NEW f, NEW i \in D, i < e => f[i + 2] \in V, NEW b2 \in Bit PROVE Cycle(f, i, b2) \in Answers
    <2> DEFINE bit == IF At(c, i) = At(c, i + 1) THEN 1 ELSE 0
    <2>1. bit \in Bit
      BY DEF Bit
    <2>2. i < e => f[i + 2][At(c, i + 1)] \in Answers
      BY <1>5, <1>7, <1>8
    <2> HIDE DEF bit
    <2>3. i < e => [f[i + 2][At(c, i + 1)] EXCEPT !.out = <<bit>> \o @] \in Answers
      BY <2>1, <2>2, Prepend
    <2> QED
      BY <1>6, <1>7, <2>3 DEF bit
  <1>9. \E f \in [D -> V] : \A i \in D : f[i] = HC[<<i, f>>]
    <2>1. ASSUME NEW f \in [D -> V], NEW i \in D PROVE Cycles(f, i) \in V
      <3>1. i < e => f[i + 2] \in V
        BY <1>7
      <3> HIDE DEF Cycle, V
      <3>2. \A b2 \in Bit : Cycle(f, i, b2) \in Answers
        BY <1>8, <3>1
      <3> QED
        BY <3>2 DEF V
    <2>2. ASSUME NEW f \in [D -> V], NEW k \in [D -> V], NEW i \in D, i < l => f[i + 2] = k[i + 2]
          PROVE  Cycles(f, i) = Cycles(k, i)
      <3>1. (i < e => f[i + 2] = k[i + 2]) /\ (i >= e \/ i < e)
        BY <1>7, <2>2
      <3>2. \A b2 \in Bit : Cycle(f, i, b2) = Cycle(k, i, b2)
        BY <3>1
      <3> HIDE DEF Cycle
      <3> QED
        BY <3>2
    <2> HIDE DEF Cycle, Cycles, V
    <2>3. HC \in [D \X [D -> V] -> V]
      BY <2>1
    <2>4. \A i \in D : \A f, k \in [D -> V] : (i < l => f[i + 2] = k[i + 2]) => HC[<<i, f>>] = HC[<<i, k>>]
      BY <2>2
    <2> HIDE DEF HC
    <2>5. Back(l, V, HC)
      BY <1>6, <2>3, <2>4 DEF Back
    <2> QED
      BY <2>5, Backwards
  <1>10. \A i \in D : g[i] = Cycles(g, i)
    <2> HIDE DEF D, Cycle, Cycles
    <2>1. \E f : IsC(f)
      BY <1>9
    <2>2. IsC(g)
      BY <2>1
    <2> QED
      BY <2>2
  <1> HIDE DEF g, V
  <1>11. \A i \in D : g[i] \in V
    <2>1. ASSUME NEW i \in D, i < l => g[i + 2] \in V PROVE g[i] \in V
      <3>1. i < e => g[i + 2] \in V
        BY <1>7, <2>1
      <3> HIDE DEF Cycle
      <3>2. \A b2 \in Bit : Cycle(g, i, b2) \in Answers
        BY <1>8, <3>1
      <3> QED
        BY <1>10, <3>2 DEF V
    <2> HIDE DEF Cycle, Cycles
    <2>2. \A i \in D : (i < l => g[i + 2] \in V) => g[i] \in V
      BY <2>1
    <2> QED
      BY <1>6, <2>2, BackwardsType
  <1>12. ASSUME NEW f, NEW i \in D, i < e => f[i + 2] \in Answers PROVE Sync(f, i) \in Answers
    <2>2. i < e => [f[i + 2] EXCEPT !.out = <<0>> \o @] \in Answers
      BY <1>12, Prepend DEF Bit
    <2>3. At(c, i) \in Bit /\ 1 - At(c, i) \in Bit
      BY <1>5, <1>7 DEF Bit
    <2>4. i < e => g[i][1 - At(c, i)] \in Answers /\ g[i + 1][At(c, i)] \in Answers
      BY <1>7, <1>11, <2>3 DEF V
    <2> QED
      BY <1>6, <1>7, <2>2, <2>4
  <1>13. \E f \in [D -> Answers] : \A i \in D : f[i] = HS[<<i, f>>]
    <2>1. ASSUME NEW f \in [D -> Answers], NEW k \in [D -> Answers], NEW i \in D, i < l => f[i + 2] = k[i + 2]
          PROVE  Sync(f, i) = Sync(k, i)
      <3>1. (i < e => f[i + 2] = k[i + 2]) /\ (i >= e \/ i < e)
        BY <1>7, <2>1
      <3> QED
        BY <3>1
    <2> HIDE DEF Sync
    <2>2. HS \in [D \X [D -> Answers] -> Answers]
      <3>1. ASSUME NEW f \in [D -> Answers], NEW i \in D PROVE Sync(f, i) \in Answers
        <4>1. i < e => f[i + 2] \in Answers
          BY <1>7
        <4> QED
          BY <1>12, <4>1
      <3> QED
        BY <3>1
    <2>3. \A i \in D : \A f, k \in [D -> Answers] : (i < l => f[i + 2] = k[i + 2]) => HS[<<i, f>>] = HS[<<i, k>>]
      BY <2>1
    <2> HIDE DEF HS
    <2>4. Back(l, Answers, HS)
      BY <1>6, <2>2, <2>3 DEF Back
    <2> QED
      BY <2>4, Backwards
  <1>14. \A i \in D : h[i] = Sync(h, i)
    <2> HIDE DEF D, Sync
    <2>1. \E f : IsS(f)
      BY <1>13
    <2>2. IsS(h)
      BY <2>1
    <2> QED
      BY <2>2
  <1> HIDE DEF h, D, HC, HS, IsC, IsS
  <1>15. \A i \in D : h[i] \in Answers
    <2> HIDE DEF Sync
    <2>1. ASSUME NEW i \in D, i < l => h[i + 2] \in Answers PROVE h[i] \in Answers
      <3>1. i < e => h[i + 2] \in Answers
        BY <1>7, <2>1
      <3> QED
        BY <1>12, <1>14, <3>1
    <2>2. \A i \in D : (i < l => h[i + 2] \in Answers) => h[i] \in Answers
      BY <2>1
    <2> QED
      BY <1>6, <2>2, BackwardsType DEF D
  <1> HIDE DEF m, Sync, Cycle, Cycles
  <1>16. ASSUME NEW j \in Nat, j < m PROVE row[j + 1] \in Bit /\ SubSeq(row, j + 2, m) \in Seq(Bit)
                                         /\ SubSeq(row, j + 1, m) = <<row[j + 1]>> \o SubSeq(row, j + 2, m)
    <2>1. j \in 0 .. Len(row) - 1 /\ row[j + 1] \in Bit
      BY <1>16 DEF m
    <2>2. /\ SubSeq(row, j + 2, Len(row)) \in Seq(Bit)
          /\ SubSeq(row, j + 1, Len(row)) = <<row[j + 1]>> \o SubSeq(row, j + 2, Len(row))
      BY <2>1, RowTail
    <2> QED
      BY <2>1, <2>2 DEF m
  <1> DEFINE CyclesRight(k) == \A j, i \in Nat : \A b \in Bit :
                                 j + k = m /\ i = 2 * j /\ (k > 0 => At(c, i) # b) =>
                                   g[i][b].out = SubSeq(row, j + 1, m)
             SyncRight(k) == \A j, i \in Nat :
                               j + k = m /\ i = 2 * j /\ (\E r \in 1 .. m : r > j /\ row[r] = 1) =>
                                 h[i].out = SubSeq(row, j + 1, m)
  <1>17. CyclesRight(0)
    <2> SUFFICES ASSUME NEW j \in Nat, NEW i \in Nat, NEW b \in Bit, j = m, i = n
                 PROVE  g[i][b].out = SubSeq(row, j + 1, m)
      BY <1>4
    <2>1. i >= e /\ ~(i < e) /\ i \in D
      BY <1>1, <1>3, <1>4
    <2>2. g[i][b] = Cycle(g, i, b)
      BY <1>10, <2>1 DEF Cycles
    <2>3. g[i][b] = [pos |-> i, out |-> <<>>]
      BY <2>1, <2>2 DEF Cycle
    <2> QED
      BY <2>3, WholeRow DEF m
  <1>18. ASSUME NEW k \in Nat, CyclesRight(k) PROVE CyclesRight(k + 1)
    <2> SUFFICES ASSUME NEW j \in Nat, NEW i \in Nat, NEW b \in Bit, j + k + 1 = m, i = 2 * j, At(c, i) # b
                 PROVE  g[i][b].out = SubSeq(row, j + 1, m)
      OBVIOUS
    <2> DEFINE bit == IF At(c, i) = At(c, i + 1) THEN 1 ELSE 0
               next == g[i + 2][At(c, i + 1)]
    <2>1. /\ j < m /\ i \in D /\ i < e /\ ~(i >= e) /\ i + 1 \in Nat /\ i + 2 \in Nat /\ i + 2 \in D /\ j + 1 \in Nat
          /\ (j + 1) + k = m /\ i + 2 = 2 * (j + 1) /\ (j + 1) + 1 = j + 2 /\ (k > 0 => j + 1 < m)
      BY <1>1, <1>3, <1>4
    <2>2. At(c, i + 1) \in Bit /\ At(c, i) \in Bit
      BY <1>5, <2>1
    <2>3. bit = row[j + 1] /\ bit \in Bit
      <3>1. row[j + 1] \in Bit
        BY <1>16, <2>1
      <3>2. At(c, i + 1) = IF row[j + 1] = 0 THEN 1 - At(c, i) ELSE At(c, i)
        BY <1>1, <2>1
      <3> QED
        BY <2>2, <3>1, <3>2 DEF Bit
    <2>4. k > 0 => At(c, i + 2) # At(c, i + 1)
      BY <1>1, <2>1, <2>2 DEF Bit
    <2>5. next.out = SubSeq(row, j + 2, m)
      <3>1. next.out = SubSeq(row, (j + 1) + 1, m)
        BY <1>18, <2>1, <2>2, <2>4
      <3> QED
        BY <2>1, <3>1
    <2>6. next \in Answers
      BY <1>11, <2>1, <2>2 DEF V
    <2>7. g[i][b] = [next EXCEPT !.out = <<bit>> \o @]
      <3>1. g[i][b] = Cycle(g, i, b)
        BY <1>10, <2>1 DEF Cycles
      <3> QED
        BY <2>1, <3>1 DEF Cycle
    <2> HIDE DEF bit, next
    <2>8. g[i][b].out = <<bit>> \o next.out
      BY <2>3, <2>6, <2>7, Prepend
    <2> QED
      BY <1>16, <2>1, <2>3, <2>5, <2>8
  <1>19. \A k \in Nat : CyclesRight(k)
    <2> DEFINE S == {k \in Nat : CyclesRight(k)}
    <2> HIDE DEF CyclesRight
    <2>1. 0 \in S /\ \A k \in Nat : k \in S => k + 1 \in S
      BY <1>17, <1>18
    <2> HIDE DEF S
    <2>2. Nat \subseteq S
      BY <2>1, Induction
    <2> QED
      BY <2>2 DEF S
  <1>20. SyncRight(0)
    BY <1>4
  <1>21. ASSUME NEW k \in Nat, SyncRight(k) PROVE SyncRight(k + 1)
    <2> SUFFICES ASSUME NEW j \in Nat, NEW i \in Nat, j + k + 1 = m, i = 2 * j,
                        NEW r \in 1 .. m, r > j, row[r] = 1
                 PROVE  h[i].out = SubSeq(row, j + 1, m)
      OBVIOUS
    <2>1. /\ j < m /\ i \in D /\ i < e /\ ~(i >= e) /\ i + 1 \in Nat /\ i + 2 \in Nat /\ i + 2 \in D /\ j + 1 \in Nat
          /\ (j + 1) + k = m /\ i + 2 = 2 * (j + 1) /\ (j + 1) + 1 = j + 2 /\ (k > 0 => j + 1 < m)
      BY <1>1, <1>3, <1>4
    <2>2. At(c, i + 1) \in Bit /\ At(c, i) \in Bit /\ 1 - At(c, i) \in Bit /\ 1 - At(c, i) # At(c, i)
      BY <1>5, <2>1 DEF Bit
    <2>3. h[i] = Sync(h, i)
      BY <1>14, <2>1
    <2>4. CASE row[j + 1] = 1
      <3>1. At(c, i) = At(c, i + 1)
        BY <1>1, <2>1, <2>4
      <3>2. h[i] = g[i][1 - At(c, i)]
        BY <2>1, <2>3, <3>1 DEF Sync
      <3>3. CyclesRight(k + 1) /\ k + 1 \in Nat /\ j + (k + 1) = m
        <4>1. k + 1 \in Nat /\ j + (k + 1) = m
          BY <1>4
        <4> HIDE DEF CyclesRight
        <4> QED
          BY <1>19, <4>1
      <3> QED
        BY <2>2, <3>2, <3>3
    <2>5. CASE row[j + 1] # 1
      <3>1. row[j + 1] = 0 /\ r > j + 1 /\ j + 1 < m
        <4>1. r # j + 1
          BY <2>5
        <4>2. row[j + 1] \in Bit
          BY <1>16, <2>1
        <4> QED
          BY <1>4, <2>1, <2>5, <4>1, <4>2 DEF Bit
      <3>2. At(c, i) # At(c, i + 1) /\ At(c, i + 1) # At(c, i + 2)
        BY <1>1, <2>1, <2>2, <3>1 DEF Bit
      <3>3. h[i] = [h[i + 2] EXCEPT !.out = <<0>> \o @]
        BY <2>1, <2>3, <3>2 DEF Sync
      <3>4. h[i + 2] \in Answers /\ 0 \in Bit
        BY <1>15, <2>1 DEF Bit
      <3>5. h[i + 2].out = SubSeq(row, j + 2, m)
        <4>1. h[i + 2].out = SubSeq(row, (j + 1) + 1, m)
          BY <1>21, <2>1, <3>1
        <4> QED
          BY <2>1, <4>1
      <3>6. h[i].out = <<0>> \o h[i + 2].out
        BY <3>3, <3>4, Prepend
      <3> QED
        BY <1>16, <2>1, <3>1, <3>5, <3>6
    <2> QED
      BY <2>4, <2>5
  <1>22. SyncRight(m)
    <2> DEFINE S == {k \in Nat : SyncRight(k)}
    <2> HIDE DEF SyncRight
    <2>1. 0 \in S /\ \A k \in Nat : k \in S => k + 1 \in S
      BY <1>20, <1>21
    <2> HIDE DEF S
    <2>2. m \in S
      BY <1>4, <2>1, Induction
    <2> QED
      BY <2>2 DEF S
  <1>23. h[0].out = row
    <2>1. 0 + m = m /\ 0 = 2 * 0 /\ \E r \in 1 .. m : r > 0 /\ row[r] = 1
      BY <1>4 DEF m
    <2>2. h[0].out = SubSeq(row, 0 + 1, m)
      BY <1>22, <2>1
    <2> QED
      BY <2>2, WholeRow DEF m
  <1> QED
    BY <1>2, <1>23 DEF c

-----------------------------------------------------------------------------
(* The search for a part of a row. *)

LEMMA SearchIs ==
  ASSUME NEW row \in Seq(Bit), NEW a \in 1 .. Len(row), NEW b \in a .. Len(row), NEW start \in 0 .. a - 1
  PROVE  LET part == SubSeq(row, a, b)
             Is(q) == \A i \in DOMAIN part : row[q + i] = part[i]
             c == Search(row, start, part)
         IN start <= c /\ c < a /\ Is(c) /\ \A q \in start .. c - 1 : ~Is(q)
  <1> DEFINE part == SubSeq(row, a, b)
             Is(q) == \A i \in DOMAIN part : row[q + i] = part[i]
             l == Len(row)
             n == Len(part)
             D == (start .. l) \X (0 .. n)
             Def(f, q, p) ==
               CASE q + p >= l \/ p = n -> l
                 [] q + p < l /\ p < n /\ At(row, q + p) = part[p + 1] -> IF p + 1 = n THEN q ELSE f[<<q, p + 1>>]
                 [] OTHER -> f[<<q + 1, 0>>]
             Solves(f) == f = [x \in D |-> Def(f, x[1], x[2])]
             g == CHOOSE f : Solves(f)
             H == [x \in D \X [D -> Nat] |-> Def(x[2], x[1][1], x[1][2])]
             w == n + 1
             N == l * w + n
             Rank(q, p) == (l - q) * w + (n - p)
             rank == [x \in D |-> Rank(x[1], x[2])]
  <1>1. /\ l \in Nat /\ a \in Nat /\ b \in Nat /\ start \in Nat /\ 1 <= a /\ a <= b /\ b <= l /\ start <= a - 1
        /\ n = b - a + 1 /\ n \in Nat /\ n >= 1 /\ w \in Nat /\ w = n + 1 /\ DOMAIN part = 1 .. n
        /\ \A i \in 1 .. n : part[i] = row[(a - 1) + i]
    OBVIOUS
  <1>2. Search(row, start, part) = g[<<start, 0>>]
    <2>1. ~(start >= Len(row))
      BY <1>1
    <2> HIDE DEF part
    <2> QED
      BY <2>1 DEF Search
  <1> HIDE DEF part, l, n, w
  (* The pairs go down in rank as the search goes on. *)
  <1>3. ASSUME NEW q \in start .. l, NEW p \in 0 .. n
        PROVE  /\ <<q, p>> \in D /\ rank[<<q, p>>] \in 0 .. N
               /\ p < n => <<q, p + 1>> \in D /\ rank[<<q, p + 1>>] < rank[<<q, p>>]
               /\ q < l => <<q + 1, 0>> \in D /\ rank[<<q + 1, 0>>] < rank[<<q, p>>]
    <2>1. q \in Nat /\ l - q \in Nat /\ n - p \in Nat /\ p \in Nat /\ l - q <= l
      BY <1>1
    <2>2. <<q, p>> \in D /\ (p < n => <<q, p + 1>> \in D) /\ (q < l => <<q + 1, 0>> \in D)
      BY <1>1
    <2>3. /\ rank[<<q, p>>] = Rank(q, p)
          /\ p < n => rank[<<q, p + 1>>] = Rank(q, p + 1)
          /\ q < l => rank[<<q + 1, 0>>] = Rank(q + 1, 0)
      <3> HIDE DEF D, Rank
      <3> QED
        BY <2>2
    <2>4. (l - q) * w \in Nat /\ (l - q) * w <= l * w /\ l * w \in Nat
      <3> DEFINE k == l - q
      <3>1. k \in Nat /\ k <= l /\ w \in Nat /\ l \in Nat
        BY <1>1, <2>1
      <3> HIDE DEF k
      <3>2. k * w \in Nat /\ l * w \in Nat /\ k * w <= l * w
        BY <3>1, Mono
      <3> QED
        BY <3>2 DEF k
    <2>5. q < l => (l - q) * w = (l - (q + 1)) * w + w /\ (l - (q + 1)) * w \in Nat
      <3> SUFFICES ASSUME q < l PROVE (l - q) * w = (l - (q + 1)) * w + w /\ (l - (q + 1)) * w \in Nat
        OBVIOUS
      <3> DEFINE k == l - (q + 1)
      <3>1. k \in Nat /\ l - q = k + 1
        BY <1>1, <2>1
      <3> HIDE DEF k
      <3>2. (k + 1) * w = k * w + w /\ k * w \in Nat
        BY <1>1, <3>1
      <3> QED
        BY <3>1, <3>2 DEF k
    <2> HIDE DEF D, rank
    <2> DEFINE u == (l - q) * w
               v == (l - (q + 1)) * w
               t == l * w
    <2>6. u \in Nat /\ u <= t /\ t \in Nat /\ (q < l => u = v + w /\ v \in Nat)
      BY <2>4, <2>5
    <2>7. rank[<<q, p>>] = u + (n - p) /\ (p < n => rank[<<q, p + 1>>] = u + (n - (p + 1)))
          /\ (q < l => rank[<<q + 1, 0>>] = v + (n - 0)) /\ N = t + n
      BY <2>1, <2>2, <2>3
    <2> HIDE DEF u, v, t, N, Rank
    <2> QED
      BY <1>1, <2>1, <2>2, <2>6, <2>7
  <1>4. \A x \in D : x[1] \in start .. l /\ x[2] \in 0 .. n /\ x = <<x[1], x[2]>>
    OBVIOUS
  <1>5. N \in Nat /\ rank \in [D -> 0 .. N]
    <2>1. l * w \in Nat
      BY <1>1
    <2>2. \A x \in D : rank[x] \in 0 .. N
      <3> HIDE DEF D, rank, N
      <3> QED
        BY <1>3, <1>4
    <2>3. N \in Nat
      BY <1>1, <2>1
    <2> HIDE DEF N, D
    <2> QED
      BY <2>2, <2>3
  <1> HIDE DEF D, rank, N, Rank
  <1>6. \E f \in [D -> Nat] : \A x \in D : f[x] = H[<<x, f>>]
    <2>1. ASSUME NEW x \in D
          PROVE  /\ x[1] + x[2] < l /\ x[2] < n =>
                      <<x[1], x[2] + 1>> \in D /\ rank[<<x[1], x[2] + 1>>] < rank[x]
                 /\ x[1] + x[2] < l => <<x[1] + 1, 0>> \in D /\ rank[<<x[1] + 1, 0>>] < rank[x]
      <3> DEFINE q == x[1]
                 p == x[2]
      <3>1. q \in start .. l /\ p \in 0 .. n /\ x = <<q, p>>
        BY <1>4
      <3> HIDE DEF q, p
      <3>2. q + p < l => q < l
        BY <1>1, <3>1
      <3>3. /\ q + p < l /\ p < n => <<q, p + 1>> \in D /\ rank[<<q, p + 1>>] < rank[x]
            /\ q + p < l => <<q + 1, 0>> \in D /\ rank[<<q + 1, 0>>] < rank[x]
        BY <1>3, <3>1, <3>2
      <3> QED
        BY <3>3 DEF q, p
    <2>2. ASSUME NEW x \in D
          PROVE  /\ x[1] \in Nat /\ x[2] \in Nat
                 /\ x[1] + x[2] < l \/ x[1] + x[2] >= l
                 /\ x[2] = n \/ x[2] < n
      BY <1>1, <1>4
    <2>3. ASSUME NEW f \in [D -> Nat], NEW x \in D PROVE Def(f, x[1], x[2]) \in Nat
      <3>1. x[1] + x[2] < l /\ x[2] < n => f[<<x[1], x[2] + 1>>] \in Nat
        BY <2>1
      <3>2. x[1] + x[2] < l => f[<<x[1] + 1, 0>>] \in Nat
        BY <2>1
      <3> QED
        BY <1>1, <2>2, <3>1, <3>2
    <2>4. ASSUME NEW f \in [D -> Nat], NEW h \in [D -> Nat], NEW x \in D,
                 \A y \in D : rank[y] < rank[x] => f[y] = h[y]
          PROVE  Def(f, x[1], x[2]) = Def(h, x[1], x[2])
      <3>1. x[1] + x[2] < l /\ x[2] < n => f[<<x[1], x[2] + 1>>] = h[<<x[1], x[2] + 1>>]
        BY <2>1, <2>4
      <3>2. x[1] + x[2] < l => f[<<x[1] + 1, 0>>] = h[<<x[1] + 1, 0>>]
        BY <2>1, <2>4
      <3> QED
        BY <1>1, <2>2, <3>1, <3>2
    <2> HIDE DEF Def
    <2>5. H \in [D \X [D -> Nat] -> Nat]
      BY <2>3
    <2>6. \A x \in D : \A f, h \in [D -> Nat] :
            (\A y \in D : rank[y] < rank[x] => f[y] = h[y]) => H[<<x, f>>] = H[<<x, h>>]
      BY <2>4
    <2> HIDE DEF H
    <2>7. Ranked(D, Nat, N, rank, H)
      BY <1>5, <2>5, <2>6 DEF Ranked
    <2> QED
      BY <2>7, Recursion
  <1>7. \A x \in D : g[x] = Def(g, x[1], x[2])
    <2> HIDE DEF Def
    <2>1. \E f : Solves(f)
      BY <1>6
    <2>2. Solves(g)
      BY <2>1
    <2> QED
      BY <2>2
  <1> HIDE DEF g, H, Solves
  (* The first match. *)
  <1>8. PICK c \in start .. a - 1 : Is(c) /\ \A q \in start .. a - 1 : Is(q) => c <= q
    <2> DEFINE T == {q \in start .. a - 1 : Is(q)}
    <2>1. a - 1 \in T
      BY <1>1
    <2>2. T \subseteq Nat
      BY <1>1
    <2> HIDE DEF T
    <2>3. PICK c \in T : \A q \in T : c <= q
      BY <2>1, <2>2, Least
    <2> QED
      BY <2>3 DEF T
  (* From where all before is known not to match, the search finds it. *)
  <1> DEFINE Begun(q, p) == q <= c /\ p < n /\ \A i \in 1 .. p : row[q + i] = part[i]
             P == {x \in D : Begun(x[1], x[2]) => g[x] = c}
  <1>9. ASSUME NEW q \in start .. l, NEW p \in 0 .. n,
               \A y \in D : rank[y] < rank[<<q, p>>] => y \in P, Begun(q, p)
        PROVE  g[<<q, p>>] = c
    <2>1. /\ q \in Nat /\ p \in Nat /\ q + p < l /\ ~(q + p >= l) /\ p # n /\ q < l /\ p < n /\ p + 1 \in 1 .. n
          /\ q \in start .. a - 1
      BY <1>1, <1>9
    <2>2. g[<<q, p>>] = Def(g, q, p)
      <3>1. <<q, p>> \in D
        BY <1>3
      <3> HIDE DEF Def
      <3> QED
        BY <1>7, <3>1
    <2>3. At(row, q + p) = row[q + p + 1] /\ q + p + 1 = q + (p + 1)
      BY <1>1, <2>1 DEF At, l
    <2>4. CASE row[q + (p + 1)] = part[p + 1] /\ p + 1 = n
      <3>1. Is(q)
        <4>1. ASSUME NEW i \in 1 .. n PROVE row[q + i] = part[i]
          <5>1. i \in 1 .. p \/ i = p + 1
            BY <1>1, <2>1, <2>4
          <5> QED
            BY <1>9, <2>4, <5>1
        <4> QED
          BY <1>1, <4>1
      <3>2. q = c
        BY <1>8, <1>9, <2>1, <3>1
      <3> QED
        BY <2>1, <2>2, <2>3, <2>4, <3>2
    <2>5. CASE row[q + (p + 1)] = part[p + 1] /\ p + 1 # n
      <3>1. Begun(q, p + 1)
        <4>1. ASSUME NEW i \in 1 .. p + 1 PROVE row[q + i] = part[i]
          <5>1. i \in 1 .. p \/ i = p + 1
            BY <2>1
          <5> QED
            BY <1>9, <2>5, <5>1
        <4> QED
          BY <1>1, <1>9, <2>1, <2>5, <4>1
      <3>2. <<q, p + 1>> \in P
        BY <1>3, <1>9, <2>1
      <3>3. g[<<q, p + 1>>] = c
        BY <3>1, <3>2
      <3> QED
        BY <2>1, <2>2, <2>3, <2>5, <3>3
    <2>6. CASE row[q + (p + 1)] # part[p + 1]
      <3>1. ~Is(q)
        BY <1>1, <2>1, <2>6
      <3>2. q # c
        BY <1>8, <3>1
      <3>3. Begun(q + 1, 0)
        BY <1>1, <1>8, <1>9, <2>1, <3>2
      <3>4. <<q + 1, 0>> \in P
        BY <1>3, <1>9, <2>1
      <3>5. g[<<q + 1, 0>>] = c
        BY <3>3, <3>4
      <3> QED
        BY <2>1, <2>2, <2>3, <2>6, <3>5
    <2> QED
      BY <2>4, <2>5, <2>6
  <1>10. D \subseteq P
    <2>1. ASSUME NEW x \in D, \A y \in D : rank[y] < rank[x] => y \in P PROVE x \in P
      <3> DEFINE q == x[1]
                 p == x[2]
      <3>1. q \in start .. l /\ p \in 0 .. n /\ x = <<q, p>>
        BY <1>4
      <3> HIDE DEF q, p, Begun, P
      <3>2. Begun(q, p) => g[x] = c
        BY <1>9, <2>1, <3>1
      <3> QED
        BY <3>2 DEF q, p, P
    <2> HIDE DEF P
    <2>2. \A x \in D : (\A y \in D : rank[y] < rank[x] => y \in P) => x \in P
      BY <2>1
    <2> QED
      BY <1>5, <2>2, RankInduction
  <1>11. g[<<start, 0>>] = c
    <2>1. <<start, 0>> \in D
      <3>1. start \in start .. l /\ 0 \in 0 .. n
        BY <1>1
      <3> QED
        BY <1>3, <3>1
    <2>2. Begun(start, 0)
      BY <1>1, <1>8
    <2>3. <<start, 0>> \in P
      BY <1>10, <2>1
    <2> HIDE DEF Begun
    <2> QED
      BY <2>2, <2>3
  <1>12. start <= c /\ c < a /\ Is(c) /\ \A q \in start .. c - 1 : ~Is(q)
    BY <1>1, <1>8
  <1> QED
    BY <1>2, <1>11, <1>12 DEF part

-----------------------------------------------------------------------------
(* Whatever a slicer collected, the decoders' helpers undo the line codes of
   it: bitbuffer_manchester_decode(), nrzs, nrzm and differential Manchester,
   for rows of every length. *)
THEOREM CodesUndone == Spec => []CodesAreUndone
  <1>1. IInv => CodesAreUndone
    <2> SUFFICES ASSUME IInv PROVE CodesAreUndone
      OBVIOUS
    <2> DEFINE row == BitsOf(s.bits, 0)
    <2>1. row \in Seq(Bit)
      BY RowBitsOf DEF IInv, Good, Apart
    <2> HIDE DEF row
    <2>2. ManchesterDecode(ManchesterCoded(row), 0, 0) = [pos |-> 2 * Len(row), out |-> row]
      BY <2>1, ManchesterUndone
    <2>3. NrzsDecode(Toggled(row, 0)) = row /\ NrzmDecode(Toggled(row, 1)) = row /\ Invert(Invert(row)) = row
      BY <2>1, NrzUndone, InvertTwice
    <2>4. ASSUME 1 \in {row[i] : i \in DOMAIN row}, NEW level \in Bit
          PROVE  DifferentialDecode(DifferentialCoded(row, level), 0, 0).out = row
      <3>1. \E r \in DOMAIN row : row[r] = 1
        BY <2>4
      <3> QED
        BY <2>1, <3>1, DifferentialUndone
    <2> QED
      BY <2>2, <2>3, <2>4 DEF CodesAreUndone, row
  <1> QED
    BY <1>1, Invariant, PTL

(* bitbuffer_search() finds the first place of any part of any row, though it
   goes on behind a near match (bitbuffer.c's restart at the next bit). *)
THEOREM FirstIsFound == Spec => []SearchFindsFirst
  <1>1. IInv => SearchFindsFirst
    <2> SUFFICES ASSUME IInv PROVE SearchFindsFirst
      OBVIOUS
    <2> DEFINE row == BitsOf(s.bits, 0)
    <2>1. row \in Seq(Bit)
      BY RowBitsOf DEF IInv, Good, Apart
    <2> HIDE DEF row
    <2>2. \A a \in 1 .. Len(row) : \A b \in a .. Len(row), start \in 0 .. a - 1 :
            LET part == SubSeq(row, a, b)
                Is(q) == \A i \in DOMAIN part : row[q + i] = part[i]
                c == Search(row, start, part)
            IN start <= c /\ c < a /\ Is(c) /\ \A q \in start .. c - 1 : ~Is(q)
      BY <2>1, SearchIs
    <2> QED
      BY <2>2 DEF SearchFindsFirst, row
  <1> QED
    BY <1>1, Invariant, PTL

-----------------------------------------------------------------------------
(* The rows of a message, and the slots of the buffer they take. *)

LEMMA Quotient ==
  ASSUME NEW n \in Nat, NEW w \in Nat \ {0}
  PROVE  n \div w \in Nat /\ n % w \in Nat /\ n % w < w /\ n = (n \div w) * w + (n % w)
  OBVIOUS

(* How many blocks of w there are in n, the last one perhaps not full. *)
Blocks(n, w, q) == q \in Nat /\ n <= q * w /\ q * w < n + w

LEMMA BlocksUnique ==
  ASSUME NEW n \in Nat, NEW w \in Nat \ {0}, NEW q, NEW r, Blocks(n, w, q), Blocks(n, w, r)
  PROVE  q = r
  <1>1. ASSUME NEW x \in Nat, NEW y \in Nat, x < y, Blocks(n, w, x), Blocks(n, w, y) PROVE FALSE
    <2>1. x + 1 <= y /\ (x + 1) * w <= y * w /\ (x + 1) * w = x * w + w /\ x * w \in Nat /\ y * w \in Nat
      BY <1>1, Mono
    <2> QED
      BY <1>1, <2>1 DEF Blocks
  <1> QED
    BY <1>1 DEF Blocks

LEMMA SlotsAre ==
  ASSUME NEW row \in Seq(Bit)
  PROVE  /\ SlotsOf(row) \in Nat /\ SlotsOf(row) >= 1 /\ Len(row) <= SlotsOf(row) * RowBits
         /\ row # <<>> => Blocks(Len(row), RowBits, SlotsOf(row))
  <1> DEFINE n == Len(row)
             q == (n + RowBits - 1) \div RowBits
  <1>1. n \in Nat /\ RowBits \in Nat \ {0} /\ (row = <<>> <=> n = 0)
    BY Sizes
  <1>2. CASE n = 0
    <2>1. SlotsOf(row) = 1
      BY <1>1, <1>2 DEF SlotsOf
    <2> QED
      BY <1>1, <1>2, <2>1
  <1>3. CASE n > 0
    <2>1. SlotsOf(row) = q
      BY <1>1, <1>3 DEF SlotsOf
    <2> HIDE DEF n
    <2>2. n + RowBits - 1 \in Nat
      BY <1>1, <1>3
    <2>3. PICK k \in Nat : k = n + RowBits - 1
      BY <2>2
    <2>4. k \div RowBits \in Nat /\ k % RowBits \in Nat /\ k % RowBits < RowBits
          /\ k = (k \div RowBits) * RowBits + (k % RowBits)
      BY <1>1, Quotient
    <2>5. q = k \div RowBits
      BY <2>3
    <2> HIDE DEF q
    <2>6. q * RowBits \in Nat /\ k = q * RowBits + (k % RowBits) /\ q \in Nat
      BY <1>1, <2>4, <2>5
    <2>7. n <= q * RowBits /\ q * RowBits < n + RowBits
      BY <1>1, <2>3, <2>4, <2>6
    <2>8. q >= 1
      <3> SUFFICES ASSUME q = 0 PROVE FALSE
        BY <2>6
      <3>1. q * RowBits = 0
        BY <1>1
      <3> QED
        BY <1>1, <1>3, <2>7, <3>1
    <2> QED
      BY <2>1, <2>6, <2>7, <2>8 DEF Blocks, n
  <1> QED
    BY <1>1, <1>2, <1>3

(* One more bit takes another row's space only if the last one is full. *)
LEMMA SlotsAdd ==
  ASSUME NEW row \in Seq(Bit), NEW bit \in Bit
  PROVE  SlotsOf(Append(row, bit)) =
           IF Len(row) > 0 /\ Len(row) % RowBits = 0 THEN SlotsOf(row) + 1 ELSE SlotsOf(row)
  <1> DEFINE n == Len(row)
             q == SlotsOf(row)
             long == Append(row, bit)
             r == SlotsOf(long)
  <1>1. n \in Nat /\ RowBits \in Nat \ {0} /\ (row = <<>> <=> n = 0) /\ long \in Seq(Bit) /\ Len(long) = n + 1
        /\ long # <<>>
    BY Sizes
  <1>2. q \in Nat /\ q >= 1 /\ (n > 0 => Blocks(n, RowBits, q))
    BY <1>1, SlotsAre
  <1>3. Blocks(n + 1, RowBits, r)
    BY <1>1, SlotsAre
  <1>4. q * RowBits \in Nat /\ (q + 1) * RowBits = q * RowBits + RowBits /\ (q + 1) * RowBits \in Nat
    <2> HIDE DEF q
    <2> QED
      BY <1>1, <1>2, Areas
  <1>5. CASE n = 0
    <2>1. q = 1 /\ 1 * RowBits = RowBits
      BY <1>1, <1>5, Sizes DEF SlotsOf
    <2>2. Blocks(n + 1, RowBits, 1)
      BY <1>1, <1>5, <2>1 DEF Blocks
    <2>3. n + 1 \in Nat
      BY <1>1
    <2> HIDE DEF n, q, r, long
    <2>4. r = 1
      BY <1>1, <1>3, <2>2, <2>3, BlocksUnique
    <2> QED
      BY <1>5, <2>1, <2>4 DEF n, q, r, long
  <1>6. CASE n > 0 /\ n % RowBits = 0
    <2> DEFINE m == n \div RowBits
    <2> HIDE DEF n, q, r, long
    <2>1. m \in Nat /\ m * RowBits = n
      <3>1. n = (n \div RowBits) * RowBits + (n % RowBits) /\ n \div RowBits \in Nat
        BY <1>1, Quotient
      <3> QED
        BY <1>1, <1>6, <3>1
    <2> HIDE DEF m
    <2>2. Blocks(n, RowBits, m)
      BY <1>1, <2>1 DEF Blocks
    <2>3. q = m
      BY <1>1, <1>2, <1>6, <2>2, BlocksUnique
    <2>4. Blocks(n + 1, RowBits, q + 1)
      BY <1>1, <1>2, <1>4, <2>1, <2>3 DEF Blocks
    <2>5. n + 1 \in Nat
      BY <1>1
    <2>6. r = q + 1
      BY <1>1, <1>3, <2>4, <2>5, BlocksUnique
    <2> QED
      BY <1>6, <2>6 DEF n, q, r, long
  <1>7. CASE n > 0 /\ n % RowBits # 0
    <2> HIDE DEF n, q, r, long
    <2>1. n # q * RowBits
      <3> SUFFICES ASSUME 0 * RowBits + n = q * RowBits PROVE FALSE
        BY <1>1
      <3>1. n % RowBits = 0
        BY <1>1, <1>2, Remainder
      <3> QED
        BY <1>7, <3>1
    <2>2. Blocks(n + 1, RowBits, q)
      BY <1>1, <1>2, <1>4, <1>7, <2>1 DEF Blocks
    <2>3. n + 1 \in Nat
      BY <1>1
    <2>4. r = q
      BY <1>1, <1>3, <2>2, <2>3, BlocksUnique
    <2> QED
      BY <1>7, <2>4 DEF n, q, r, long
  <1> QED
    BY <1>1, <1>5, <1>6, <1>7

-----------------------------------------------------------------------------
(* Where the rows of a message begin in the buffer. *)
Messages == {rows \in Seq(Seq(Bit)) : rows # <<>>}

LEMMA TakenIs ==
  ASSUME NEW rows \in Messages
  PROVE  /\ Taken(rows) \in [0 .. Len(rows) -> Nat] /\ Taken(rows)[0] = 0
         /\ \A i \in 1 .. Len(rows) : Taken(rows)[i] = Taken(rows)[i - 1] + SlotsOf(rows[i])
         /\ Len(rows) \in Nat /\ Len(rows) >= 1
  <1> DEFINE n == Len(rows)
             D == 0 .. n
             Is(f) == f = [r \in D |-> IF r = 0 THEN 0 ELSE f[r - 1] + SlotsOf(rows[r])]
             H == [x \in D \X [D -> Nat] |-> IF x[1] = 0 THEN 0 ELSE x[2][x[1] - 1] + SlotsOf(rows[x[1]])]
             rank == [k \in D |-> k]
             g == CHOOSE f : Is(f)
  <1>1. n \in Nat /\ n >= 1 /\ \A i \in 1 .. n : rows[i] \in Seq(Bit)
    BY DEF Messages
  <1>2. \A i \in 1 .. n : SlotsOf(rows[i]) \in Nat
    BY <1>1, SlotsAre
  <1>3. H \in [D \X [D -> Nat] -> Nat]
    <2>1. ASSUME NEW x \in D \X [D -> Nat], x[1] # 0
          PROVE  x[2][x[1] - 1] + SlotsOf(rows[x[1]]) \in Nat
      <3>1. x[1] \in 1 .. n /\ x[1] - 1 \in D /\ x[2] \in [D -> Nat]
        BY <1>1, <2>1
      <3>2. x[2][x[1] - 1] \in Nat
        BY <3>1
      <3>3. QED
        BY <1>2, <3>1, <3>2
    <2>2. QED
      BY <2>1
  <1>4. \A k \in D : \A f, h \in [D -> Nat] :
          (\A y \in D : rank[y] < rank[k] => f[y] = h[y]) => H[<<k, f>>] = H[<<k, h>>]
    <2> SUFFICES ASSUME NEW k \in D, NEW f \in [D -> Nat], NEW h \in [D -> Nat],
                        \A y \in D : rank[y] < rank[k] => f[y] = h[y]
                 PROVE  H[<<k, f>>] = H[<<k, h>>]
      OBVIOUS
    <2>1. k # 0 => k - 1 \in D /\ rank[k - 1] < rank[k]
      BY <1>1
    <2>2. k # 0 => f[k - 1] = h[k - 1]
      BY <2>1
    <2>3. H[<<k, f>>] = IF k = 0 THEN 0 ELSE f[k - 1] + SlotsOf(rows[k])
      OBVIOUS
    <2>4. H[<<k, h>>] = IF k = 0 THEN 0 ELSE h[k - 1] + SlotsOf(rows[k])
      OBVIOUS
    <2> HIDE DEF H, rank
    <2> QED
      BY <2>2, <2>3, <2>4
  <1>5. \E f \in [D -> Nat] : \A k \in D : f[k] = H[<<k, f>>]
    <2>1. rank \in [D -> 0 .. n]
      OBVIOUS
    <2> HIDE DEF D, H, rank, n
    <2>2. Ranked(D, Nat, n, rank, H)
      BY <1>1, <1>3, <1>4, <2>1 DEF Ranked
    <2> QED
      BY <2>2, Recursion
  <1>6. PICK f \in [D -> Nat] : \A k \in D : f[k] = H[<<k, f>>]
    BY <1>5
  <1>7. Is(f)
    BY <1>6
  <1>8. Is(g)
    <2> HIDE DEF Is
    <2> QED
      BY <1>7
  <1>9. Taken(rows) = g
    BY DEF Taken
  <1> HIDE DEF g
  <1> DEFINE S == {k \in Nat : k <= n => g[k] \in Nat}
  <1>10. 0 \in S
    BY <1>1, <1>8
  <1>11. \A i \in 1 .. n : g[i] = g[i - 1] + SlotsOf(rows[i])
    BY <1>1, <1>8
  <1>12. ASSUME NEW k \in Nat, k \in S PROVE k + 1 \in S
    <2> SUFFICES ASSUME k + 1 <= n PROVE g[k + 1] \in Nat
      OBVIOUS
    <2>1. k + 1 \in 1 .. n /\ (k + 1) - 1 = k
      BY <1>1
    <2>2. g[k + 1] = g[k] + SlotsOf(rows[k + 1])
      BY <1>11, <2>1
    <2> QED
      BY <1>1, <1>2, <1>12, <2>1, <2>2
  <1> HIDE DEF S
  <1>13. Nat \subseteq S
    BY <1>10, <1>12, Induction
  <1>14. g \in [D -> Nat] /\ g[0] = 0
    <2>1. \A k \in D : g[k] \in Nat
      BY <1>1, <1>13 DEF S
    <2> QED
      BY <1>1, <1>8, <2>1
  <1> QED
    BY <1>1, <1>9, <1>11, <1>14

(* Each row begins behind the one before. *)
LEMMA TakenRises ==
  ASSUME NEW rows \in Messages, NEW i \in 0 .. Len(rows), NEW j \in 0 .. Len(rows), i < j
  PROVE  Taken(rows)[i] < Taken(rows)[j]
  <1> DEFINE n == Len(rows)
             T == Taken(rows)
             S == {k \in Nat : i < k /\ k <= n => T[i] < T[k]}
  <1>1. /\ n \in Nat /\ T \in [0 .. n -> Nat]
        /\ \A k \in 1 .. n : T[k] = T[k - 1] + SlotsOf(rows[k]) /\ SlotsOf(rows[k]) \in Nat /\ SlotsOf(rows[k]) >= 1
    <2>1. \A k \in 1 .. n : rows[k] \in Seq(Bit)
      BY DEF Messages
    <2> QED
      BY <2>1, TakenIs, SlotsAre
  <1> HIDE DEF n, T
  <1>2. 0 \in S
    BY DEF n
  <1>3. ASSUME NEW k \in Nat, k \in S PROVE k + 1 \in S
    <2> SUFFICES ASSUME i < k + 1, k + 1 <= n PROVE T[i] < T[k + 1]
      OBVIOUS
    <2>1. k + 1 \in 1 .. n /\ (k + 1) - 1 = k /\ k \in 0 .. n /\ i \in 0 .. n
      BY <1>1 DEF n
    <2>2. T[k + 1] = T[k] + SlotsOf(rows[k + 1]) /\ SlotsOf(rows[k + 1]) >= 1 /\ SlotsOf(rows[k + 1]) \in Nat
      BY <1>1, <2>1
    <2>3. T[k] \in Nat /\ T[i] \in Nat
      BY <1>1, <2>1
    <2>4. i = k \/ T[i] < T[k]
      BY <1>3, <2>1
    <2> QED
      BY <2>2, <2>3, <2>4
  <1> HIDE DEF S
  <1>4. Nat \subseteq S
    BY <1>2, <1>3, Induction
  <1>5. j \in S /\ j <= n
    BY <1>4 DEF n
  <1> QED
    BY <1>5 DEF S, n, T

(* It depends on the rows before only. *)
LEMMA TakenSame ==
  ASSUME NEW rows \in Messages, NEW more \in Messages, NEW m \in Nat, m <= Len(rows), m <= Len(more),
         \A i \in 1 .. m : rows[i] = more[i]
  PROVE  \A k \in 0 .. m : Taken(more)[k] = Taken(rows)[k]
  <1> DEFINE T == Taken(rows)
             U == Taken(more)
             S == {k \in Nat : k <= m => U[k] = T[k]}
  <1>1. /\ T[0] = 0 /\ U[0] = 0 /\ Len(rows) \in Nat /\ Len(more) \in Nat
        /\ \A i \in 1 .. Len(rows) : T[i] = T[i - 1] + SlotsOf(rows[i])
        /\ \A i \in 1 .. Len(more) : U[i] = U[i - 1] + SlotsOf(more[i])
    BY TakenIs
  <1> HIDE DEF T, U
  <1>2. 0 \in S
    BY <1>1
  <1>3. ASSUME NEW k \in Nat, k \in S PROVE k + 1 \in S
    <2> SUFFICES ASSUME k + 1 <= m PROVE U[k + 1] = T[k + 1]
      OBVIOUS
    <2>1. k + 1 \in 1 .. m /\ k + 1 \in 1 .. Len(rows) /\ k + 1 \in 1 .. Len(more) /\ (k + 1) - 1 = k
      BY <1>1
    <2>2. U[k] = T[k]
      BY <1>3
    <2> QED
      BY <1>1, <2>1, <2>2
  <1> HIDE DEF S
  <1>4. Nat \subseteq S
    BY <1>2, <1>3, Induction
  <1> QED
    BY <1>4 DEF S, T, U

(* A message with more bits in its last row. *)
More(rows, bits) == [rows EXCEPT ![Len(rows)] = @ \o bits]
LastRow(rows) == rows[Len(rows)]

LEMMA MoreIs ==
  ASSUME NEW rows \in Messages, NEW x \in Seq(Bit)
  PROVE  /\ More(rows, x) \in Messages /\ Len(More(rows, x)) = Len(rows)
         /\ LastRow(More(rows, x)) = LastRow(rows) \o x /\ LastRow(rows) \in Seq(Bit)
         /\ \A i \in 1 .. Len(rows) : i # Len(rows) => More(rows, x)[i] = rows[i]
         /\ Len(rows) \in Nat /\ Len(rows) >= 1
  <1> DEFINE n == Len(rows)
  <1>1. n \in Nat /\ n >= 1 /\ n \in 1 .. n /\ rows \in Seq(Seq(Bit)) /\ rows[n] \in Seq(Bit)
    BY DEF Messages
  <1>2. rows[n] \o x \in Seq(Bit)
    BY <1>1
  <1>3. More(rows, x) = [rows EXCEPT ![n] = rows[n] \o x]
    BY DEF More
  <1>4. /\ More(rows, x) \in Seq(Seq(Bit)) /\ Len(More(rows, x)) = n
        /\ \A i \in 1 .. n : More(rows, x)[i] = IF i = n THEN rows[n] \o x ELSE rows[i]
    BY <1>1, <1>2, <1>3, ExceptSeq
  <1>5. More(rows, x) # <<>>
    BY <1>1, <1>4
  <1> QED
    BY <1>1, <1>4, <1>5 DEF Messages, LastRow

LEMMA BitsJoin ==
  ASSUME NEW x \in Seq(Bit), NEW y \in Seq(Bit), NEW z \in Seq(Bit)
  PROVE  (x \o y) \o z = x \o (y \o z)
  BY ONLY ConcatAssociative

LEMMA MoreMore ==
  ASSUME NEW rows \in Messages, NEW x \in Seq(Bit), NEW y \in Seq(Bit)
  PROVE  More(More(rows, x), y) = More(rows, x \o y)
  <1> DEFINE n == Len(rows)
  <1>1. n \in 1 .. n /\ rows \in Seq(Seq(Bit)) /\ rows[n] \in Seq(Bit)
    BY DEF Messages
  <1>2. More(rows, x) = [rows EXCEPT ![n] = rows[n] \o x] /\ Len(More(rows, x)) = n
    BY MoreIs DEF More
  <1>3. More(More(rows, x), y) = [rows EXCEPT ![n] = (rows[n] \o x) \o y]
    BY <1>1, <1>2 DEF More
  <1>4. (rows[n] \o x) \o y = rows[n] \o (x \o y)
    BY <1>1, BitsJoin
  <1> QED
    BY <1>3, <1>4 DEF More

LEMMA MoreNothing ==
  ASSUME NEW rows \in Messages
  PROVE  More(rows, <<>>) = rows
  <1>1. Len(rows) \in 1 .. Len(rows) /\ rows \in Seq(Seq(Bit)) /\ rows[Len(rows)] \in Seq(Bit)
    BY DEF Messages
  <1>2. rows[Len(rows)] \o <<>> = rows[Len(rows)]
    BY <1>1
  <1> QED
    BY <1>1, <1>2 DEF More

LEMMA RowIs ==
  ASSUME NEW rows \in Messages, NEW x \in Seq(Bit)
  PROVE  /\ Append(rows, x) \in Messages /\ Len(Append(rows, x)) = Len(rows) + 1 /\ LastRow(Append(rows, x)) = x
         /\ \A i \in 1 .. Len(rows) : Append(rows, x)[i] = rows[i]
  <1>1. rows \in Seq(Seq(Bit)) /\ Len(rows) \in Nat
    BY DEF Messages
  <1>2. /\ Append(rows, x) \in Seq(Seq(Bit)) /\ Len(Append(rows, x)) = Len(rows) + 1
        /\ \A i \in 1 .. Len(rows) : Append(rows, x)[i] = rows[i]
        /\ Append(rows, x)[Len(rows) + 1] = x
    BY <1>1, AppendProperties
  <1>3. Append(rows, x) # <<>>
    <2> SUFFICES ASSUME Append(rows, x) = <<>> PROVE FALSE
      OBVIOUS
    <2>1. Len(Append(rows, x)) = 0
      OBVIOUS
    <2> HIDE DEF More
    <2> QED
      BY <1>1, <1>2, <2>1
  <1> QED
    BY <1>2, <1>3 DEF Messages, LastRow

LEMMA MoreInRow ==
  ASSUME NEW rows \in Messages, NEW x \in Seq(Bit)
  PROVE  More(Append(rows, <<>>), x) = Append(rows, x)
  <1> DEFINE n == Len(rows)
             a == Append(rows, <<>>)
             b == Append(rows, x)
  <1>1. /\ a \in Messages /\ Len(a) = n + 1 /\ LastRow(a) = <<>> /\ \A i \in 1 .. n : a[i] = rows[i]
        /\ b \in Messages /\ Len(b) = n + 1 /\ LastRow(b) = x /\ \A i \in 1 .. n : b[i] = rows[i]
        /\ n \in Nat
    <2>1. <<>> \in Seq(Bit) /\ n \in Nat
      BY MoreIs
    <2> QED
      BY <2>1, RowIs
  <1> HIDE DEF a, b
  <1>2. /\ More(a, x) \in Messages /\ Len(More(a, x)) = n + 1 /\ LastRow(More(a, x)) = <<>> \o x
        /\ \A i \in 1 .. n + 1 : i # n + 1 => More(a, x)[i] = a[i]
    <2>1. /\ More(a, x) \in Messages /\ Len(More(a, x)) = Len(a) /\ LastRow(More(a, x)) = LastRow(a) \o x
          /\ \A i \in 1 .. Len(a) : i # Len(a) => More(a, x)[i] = a[i]
      BY <1>1, MoreIs
    <2> QED
      BY <1>1, <2>1
  <1>3. <<>> \o x = x
    BY ConcatEmptySeq
  <1>4. \A i \in 1 .. n + 1 : More(a, x)[i] = b[i]
    BY <1>1, <1>2, <1>3 DEF LastRow
  <1>5. More(a, x) \in Seq(Seq(Bit)) /\ b \in Seq(Seq(Bit))
    BY <1>1, <1>2 DEF Messages
  <1>6. More(a, x) = b
    BY <1>1, <1>2, <1>4, <1>5, SeqEqual
  <1> QED
    BY <1>6 DEF a, b

Room(rows) == Taken(rows)[Len(rows)] <= Rows

LEMMA TakenMore ==
  ASSUME NEW rows \in Messages, NEW x \in Seq(Bit)
  PROVE  LET n == Len(rows)
         IN /\ \A k \in 0 .. n - 1 : Taken(More(rows, x))[k] = Taken(rows)[k]
            /\ Taken(More(rows, x))[n] = Taken(rows)[n - 1] + SlotsOf(LastRow(rows) \o x)
            /\ Taken(rows)[n] = Taken(rows)[n - 1] + SlotsOf(LastRow(rows))
            /\ Taken(rows)[n - 1] \in Nat
  <1> DEFINE n == Len(rows)
             more == More(rows, x)
  <1>1. /\ more \in Messages /\ Len(more) = n /\ n \in Nat /\ n >= 1 /\ n - 1 \in Nat /\ n \in 1 .. n
        /\ n - 1 <= n /\ n - 1 \in 0 .. n /\ LastRow(more) = LastRow(rows) \o x
        /\ \A i \in 1 .. n - 1 : rows[i] = more[i]
    <2>1. /\ more \in Messages /\ Len(more) = n /\ LastRow(more) = LastRow(rows) \o x
          /\ \A i \in 1 .. n : i # n => more[i] = rows[i]
          /\ n \in Nat /\ n >= 1
      BY MoreIs
    <2> HIDE DEF more, n
    <2> QED
      BY <2>1
  <1> HIDE DEF more
  <1>2. \A k \in 0 .. n - 1 : Taken(more)[k] = Taken(rows)[k]
    BY <1>1, TakenSame
  <1>3. Taken(more)[n] = Taken(more)[n - 1] + SlotsOf(LastRow(more))
    BY <1>1, TakenIs DEF LastRow
  <1>4. Taken(rows)[n] = Taken(rows)[n - 1] + SlotsOf(LastRow(rows)) /\ Taken(rows)[n - 1] \in Nat
    BY <1>1, TakenIs DEF LastRow
  <1>5. Taken(more)[n - 1] = Taken(rows)[n - 1]
    BY <1>1, <1>2
  <1> QED
    BY <1>1, <1>2, <1>3, <1>4, <1>5 DEF more

LEMMA TakenRow ==
  ASSUME NEW rows \in Messages
  PROVE  LET n == Len(rows)
         IN /\ \A k \in 0 .. n : Taken(Append(rows, <<>>))[k] = Taken(rows)[k]
            /\ Taken(Append(rows, <<>>))[n + 1] = Taken(rows)[n] + 1 /\ Taken(rows)[n] \in Nat
  <1> DEFINE n == Len(rows)
             more == Append(rows, <<>>)
  <1>1. /\ more \in Messages /\ Len(more) = n + 1 /\ n \in Nat /\ n + 1 \in 1 .. n + 1 /\ n \in 0 .. n
        /\ LastRow(more) = <<>> /\ \A i \in 1 .. n : rows[i] = more[i]
    <2>1. <<>> \in Seq(Bit) /\ n \in Nat
      BY TakenIs
    <2>2. /\ more \in Messages /\ Len(more) = n + 1 /\ LastRow(more) = <<>>
          /\ \A i \in 1 .. n : more[i] = rows[i]
      BY <2>1, RowIs
    <2> HIDE DEF more, n
    <2> QED
      BY <2>1, <2>2
  <1> HIDE DEF more
  <1>2. \A k \in 0 .. n : Taken(more)[k] = Taken(rows)[k]
    BY <1>1, TakenSame
  <1>3. Taken(more)[n + 1] = Taken(more)[n] + SlotsOf(more[n + 1])
    BY <1>1, TakenIs
  <1>4. SlotsOf(more[n + 1]) = 1
    BY <1>1 DEF SlotsOf, LastRow
  <1>5. Taken(rows)[n] \in Nat
    BY <1>1, TakenIs
  <1> QED
    BY <1>1, <1>2, <1>3, <1>4, <1>5 DEF more

LEMMA SlotsGrow ==
  ASSUME NEW row \in Seq(Bit), NEW x \in Seq(Bit)
  PROVE  SlotsOf(row) <= SlotsOf(row \o x)
  <1> DEFINE n == Len(row)
             m == Len(row \o x)
             q == SlotsOf(row)
             r == SlotsOf(row \o x)
  <1>1. n \in Nat /\ m \in Nat /\ n <= m /\ row \o x \in Seq(Bit) /\ (row # <<>> => row \o x # <<>>)
    OBVIOUS
  <1>2. q \in Nat /\ r \in Nat /\ r >= 1
    BY <1>1, SlotsAre
  <1>3. CASE row = <<>>
    BY <1>2, <1>3 DEF SlotsOf
  <1>4. CASE row # <<>>
    <2>1. Blocks(n, RowBits, q) /\ Blocks(m, RowBits, r)
      BY <1>1, <1>4, SlotsAre
    <2> HIDE DEF n, m, q, r
    <2>2. ~(r + 1 <= q)
      <3> SUFFICES ASSUME r + 1 <= q PROVE FALSE
        OBVIOUS
      <3>1. (r + 1) * RowBits <= q * RowBits /\ (r + 1) * RowBits = r * RowBits + RowBits
            /\ r * RowBits \in Nat /\ q * RowBits \in Nat
        <4>1. r \in Nat /\ q \in Nat /\ r + 1 \in Nat
          BY <1>2 DEF q, r
        <4> QED
          BY <4>1, Areas
      <3> QED
        BY <1>1, <2>1, <3>1, Sizes DEF Blocks
    <2>3. q <= r
      BY <1>2, <2>2
    <2> QED
      BY <2>3 DEF q, r
  <1> QED
    BY <1>3, <1>4

(* What fits with more bits fits without them. *)
LEMMA RoomBefore ==
  ASSUME NEW rows \in Messages, NEW x \in Seq(Bit)
  PROVE  (Room(More(rows, x)) => Room(rows)) /\ (Fits(More(rows, x)) => Fits(rows))
  <1> DEFINE n == Len(rows)
             T == Taken(rows)
             U == Taken(More(rows, x))
             a == SlotsOf(LastRow(rows))
             b == SlotsOf(LastRow(rows) \o x)
  <1>1. Len(More(rows, x)) = n /\ LastRow(rows) \in Seq(Bit) /\ LastRow(rows) \o x \in Seq(Bit)
    BY MoreIs
  <1>2. T[n] = T[n - 1] + a /\ U[n] = T[n - 1] + b /\ T[n - 1] \in Nat
    BY TakenMore
  <1>3. a \in Nat /\ b \in Nat /\ a <= b
    BY <1>1, SlotsAre, SlotsGrow
  <1>4. T[n] <= U[n] /\ T[n] \in Nat /\ U[n] \in Nat
    <2> HIDE DEF a, b, T, U, n
    <2> QED
      BY <1>2, <1>3
  <1> HIDE DEF T, U, n
  <1> QED
    BY <1>1, <1>4, Sizes DEF Room, Fits, T, U, n

LEMMA RoomForRow ==
  ASSUME NEW rows \in Messages
  PROVE  /\ Fits(rows) => Room(rows)
         /\ Fits(rows) <=> Room(Append(rows, <<>>))
         /\ Fits(Append(rows, <<>>)) => Fits(rows)
  <1>1. Len(Append(rows, <<>>)) = Len(rows) + 1
    BY RowIs
  <1> QED
    BY <1>1, TakenRow, Sizes DEF Room, Fits

-----------------------------------------------------------------------------
(* A buffer holds a message: each of its rows stands where the ones before it
   end, what lies between is without bits, and memory behind them is clean. *)
Holds(t, rows) ==
  LET n == Len(rows)
      T == Taken(rows)
  IN /\ t.num = T[n - 1] + 1 /\ t.free = T[n] /\ T[n] <= Rows
     /\ \A i \in 1 .. n : /\ t.len[T[i - 1]] = Len(rows[i])
                          /\ \A j \in 1 .. Len(rows[i]) : t.bb[T[i - 1] * RowBits + j - 1] = rows[i][j]
     /\ \A r \in Row : (\A i \in 1 .. n : r # T[i - 1]) => t.len[r] = 0
     /\ \A k \in Memory : k >= T[n - 1] * RowBits + Len(rows[n]) => t.bb[k] = 0

Says(b, rows) == b \in BitBuffers /\ Holds(Started(b), rows)

LEMMA StartedIs ==
  ASSUME NEW b \in BitBuffers
  PROVE  /\ Started(b) \in BitBuffers /\ Started(b).num > 0 /\ Started(Started(b)) = Started(b)
         /\ b.num > 0 => Started(b) = b
         /\ Started(b).num \in Nat /\ Started(b).free \in Nat
  <1>1. CASE b.num # 0
    BY <1>1, Buffer DEF Started
  <1>2. CASE b.num = 0
    <2> DEFINE u == Started(b)
    <2>1. u = [b EXCEPT !.num = 1, !.free = 1]
      BY <1>2 DEF Started
    <2>2. u \in BitBuffers /\ u.num = 1 /\ u.free = 1
      <3>1. 1 \in 0 .. Rows
        BY Sizes
      <3> QED
        BY <2>1, <3>1 DEF BitBuffers
    <2> HIDE DEF u
    <2>3. Started(u) = u
      BY <2>2 DEF Started
    <2> QED
      BY <1>2, <2>2, <2>3 DEF u
  <1> QED
    BY <1>1, <1>2

(* A row ends where the next one begins, or before. *)
LEMMA RowEnds ==
  ASSUME NEW rows \in Messages, NEW i \in 1 .. Len(rows)
  PROVE  LET n == Len(rows)
             T == Taken(rows)
         IN /\ T[i - 1] \in Nat /\ T[i] \in Nat /\ T[n - 1] \in Nat /\ T[n] \in Nat
            /\ T[i - 1] < T[i] /\ T[i - 1] <= T[n - 1] /\ (i < n => T[i - 1] < T[n - 1]) /\ T[i - 1] < T[n]
            /\ T[i - 1] * RowBits \in Nat /\ T[n - 1] * RowBits \in Nat /\ T[n] * RowBits \in Nat
            /\ T[i - 1] * RowBits + Len(rows[i]) <= T[i] * RowBits
            /\ i < n => T[i - 1] * RowBits + Len(rows[i]) <= T[n - 1] * RowBits
            /\ Len(rows[i]) \in Nat /\ rows[i] \in Seq(Bit)
  <1> DEFINE n == Len(rows)
             T == Taken(rows)
             a == SlotsOf(rows[i])
  <1>1. /\ n \in Nat /\ n >= 1 /\ i - 1 \in 0 .. n /\ n - 1 \in 0 .. n /\ i \in 0 .. n /\ n \in 0 .. n
        /\ rows[i] \in Seq(Bit) /\ Len(rows[i]) \in Nat
        /\ T[i - 1] \in Nat /\ T[i] \in Nat /\ T[n - 1] \in Nat /\ T[n] \in Nat /\ T[i] = T[i - 1] + a
    <2>1. n \in Nat /\ n >= 1 /\ T \in [0 .. n -> Nat] /\ T[i] = T[i - 1] + a /\ i \in 1 .. n
      BY TakenIs
    <2>2. rows[i] \in Seq(Bit) /\ Len(rows[i]) \in Nat
      BY DEF Messages
    <2> HIDE DEF n, T, a
    <2>3. i - 1 \in 0 .. n /\ n - 1 \in 0 .. n /\ i \in 0 .. n /\ n \in 0 .. n
      BY <2>1
    <2> QED
      BY <2>1, <2>2, <2>3
  <1>2. a \in Nat /\ a >= 1 /\ Len(rows[i]) <= a * RowBits
    BY <1>1, SlotsAre
  <1>3. /\ i < n => T[i - 1] < T[n - 1]
        /\ T[i - 1] <= T[n - 1] /\ T[i - 1] < T[n] /\ (i < n => T[i] <= T[n - 1])
    BY <1>1, TakenRises
  <1> HIDE DEF n, T, a
  <1>4. /\ T[i - 1] * RowBits \in Nat /\ T[n - 1] * RowBits \in Nat /\ T[n] * RowBits \in Nat /\ T[i] * RowBits \in Nat
        /\ a * RowBits \in Nat
    BY <1>1, <1>2, Areas
  <1>5. T[i] * RowBits = T[i - 1] * RowBits + a * RowBits
    BY <1>1, <1>2, Sizes
  <1>6. i < n => T[i] * RowBits <= T[n - 1] * RowBits
    BY <1>1, <1>3, Areas
  <1>7. T[i - 1] < T[i]
    BY <1>1, <1>2
  <1>8. T[i - 1] * RowBits + Len(rows[i]) <= T[i] * RowBits
    BY <1>1, <1>2, <1>4, <1>5
  <1>9. i < n => T[i - 1] * RowBits + Len(rows[i]) <= T[n - 1] * RowBits
    BY <1>1, <1>4, <1>6, <1>8
  <1> QED
    BY <1>1, <1>3, <1>4, <1>7, <1>8, <1>9 DEF n, T

LEMMA AddBitSays ==
  ASSUME NEW rows \in Messages, NEW b, Says(b, rows), NEW bit \in Bit, Room(More(rows, <<bit>>))
  PROVE  Says(AddBit(b, bit), More(rows, <<bit>>)) /\ AddBit(b, bit).num > 0
  <1> DEFINE u == Started(b)
             n == Len(rows)
             T == Taken(rows)
             row == LastRow(rows)
             more == More(rows, <<bit>>)
             U == Taken(more)
             r == T[n - 1]
             m == Len(row)
             long == row \o <<bit>>
             pos == r * RowBits + m
             spill == m > 0 /\ m % RowBits = 0
             t == AddBit(b, bit)
  <1>1. u \in BitBuffers /\ Holds(u, rows)
    BY StartedIs DEF Says
  <1>2. /\ n \in Nat /\ n >= 1 /\ n \in 1 .. n /\ row = rows[n] /\ row \in Seq(Bit) /\ m \in Nat
        /\ more \in Messages /\ Len(more) = n /\ LastRow(more) = long
        /\ \A i \in 1 .. n : i # n => more[i] = rows[i]
    <2>1. <<bit>> \in Seq(Bit)
      OBVIOUS
    <2>2. /\ more \in Messages /\ Len(more) = n /\ LastRow(more) = long /\ row \in Seq(Bit)
          /\ n \in Nat /\ n >= 1 /\ \A i \in 1 .. n : i # n => more[i] = rows[i]
      BY <2>1, MoreIs
    <2>3. row = rows[n]
      BY DEF LastRow
    <2> HIDE DEF n, more, row, long
    <2> QED
      BY <2>2, <2>3
  <1>3. long = Append(row, bit) /\ long \in Seq(Bit) /\ Len(long) = m + 1
        /\ long[m + 1] = bit /\ \A j \in 1 .. m : long[j] = row[j]
    <2> HIDE DEF row
    <2> QED
      BY <1>2
  <1>4. /\ \A k \in 0 .. n - 1 : U[k] = T[k]
        /\ U[n] = r + SlotsOf(long) /\ T[n] = r + SlotsOf(row) /\ r \in Nat /\ U[n] <= Rows
    <2>1. <<bit>> \in Seq(Bit)
      OBVIOUS
    <2> HIDE DEF more
    <2>2. U[n] <= Rows
      BY <1>2 DEF Room, more
    <2> QED
      BY <2>1, <2>2, TakenMore DEF more
  <1>5. SlotsOf(long) = IF spill THEN SlotsOf(row) + 1 ELSE SlotsOf(row)
    <2> HIDE DEF row, long
    <2>1. SlotsOf(Append(row, bit)) = IF Len(row) > 0 /\ Len(row) % RowBits = 0 THEN SlotsOf(row) + 1 ELSE SlotsOf(row)
      BY <1>2, SlotsAdd
    <2> QED
      BY <1>3, <2>1
  <1>6. SlotsOf(row) \in Nat /\ SlotsOf(long) \in Nat /\ m + 1 <= SlotsOf(long) * RowBits
    <2> HIDE DEF row, long
    <2> QED
      BY <1>2, <1>3, SlotsAre
  <1> HIDE DEF u, more, row, long
  <1>7. /\ u.num = r + 1 /\ u.free = T[n] /\ T[n] <= Rows
        /\ \A i \in 1 .. n : /\ u.len[T[i - 1]] = Len(rows[i])
                             /\ \A j \in 1 .. Len(rows[i]) : u.bb[T[i - 1] * RowBits + j - 1] = rows[i][j]
        /\ \A q \in Row : (\A i \in 1 .. n : q # T[i - 1]) => u.len[q] = 0
        /\ \A k \in Memory : k >= pos => u.bb[k] = 0
    BY <1>1, <1>2 DEF Holds
  <1> HIDE DEF T, U
  <1>8. u.num - 1 = r /\ u.len[r] = m
    BY <1>2, <1>4, <1>7
  <1>9. ~(spill /\ u.free = Rows)
    BY <1>4, <1>5, <1>6, <1>7, Sizes
  <1>10. t = [u EXCEPT !.free = U[n], !.len = [u.len EXCEPT ![r] = m + 1],
                       !.bb = [u.bb EXCEPT ![pos] = IF bit = 1 THEN 1 ELSE @]]
    <2>1. t = [u EXCEPT !.free = IF spill THEN @ + 1 ELSE @, !.len[r] = m + 1,
                        !.bb[pos] = IF bit = 1 THEN 1 ELSE @]
      BY <1>8, <1>9 DEF AddBit, u
    <2>2. U[n] = IF spill THEN u.free + 1 ELSE u.free
      BY <1>4, <1>5, <1>6, <1>7
    <2> QED
      BY <2>1, <2>2
  <1>11. r * RowBits \in Nat /\ pos \in Nat /\ pos + 1 <= U[n] * RowBits /\ U[n] * RowBits \in Nat
    <2>1. r * RowBits \in Nat /\ SlotsOf(long) * RowBits \in Nat /\ (r + SlotsOf(long)) * RowBits \in Nat
      <3> HIDE DEF r
      <3>1. r + SlotsOf(long) \in Nat
        BY <1>4, <1>6
      <3> QED
        BY <1>4, <1>6, <3>1, Areas
    <2>2. (r + SlotsOf(long)) * RowBits = r * RowBits + SlotsOf(long) * RowBits
      BY <1>4, <1>6, Sizes
    <2> HIDE DEF r, m
    <2> QED
      BY <1>2, <1>4, <1>6, <2>1, <2>2
  <1>12. U[n] \in Nat /\ U[n] * RowBits <= Rows * RowBits /\ Rows * RowBits \in Nat /\ r \in Row
    <2>1. U[n] \in Nat
      BY <1>4, <1>6
    <2>2. SlotsOf(long) >= 1
      BY <1>3, SlotsAre
    <2>3. r < Rows
      BY <1>4, <1>6, <2>2, Sizes
    <2> QED
      BY <1>4, <2>1, <2>3, Sizes, Areas
  <1>13. pos \in Memory /\ m + 1 \in 0 .. Rows * RowBits
    <2> HIDE DEF r, m
    <2>1. pos \in Nat /\ pos <= Rows * RowBits - 1 /\ m + 1 <= Rows * RowBits
      BY <1>2, <1>11, <1>12
    <2> HIDE DEF pos
    <2> QED
      BY <1>2, <1>12, <2>1 DEF Memory
  <1>14. u.bb[pos] = 0 /\ (IF bit = 1 THEN 1 ELSE u.bb[pos]) = bit
    <2>1. pos >= pos
      BY <1>11
    <2>2. u.bb[pos] = 0
      BY <1>7, <1>13, <2>1
    <2> QED
      BY <2>2 DEF Bit
  <1> HIDE DEF pos, r, m
  <1>15. /\ t \in BitBuffers /\ t.num = u.num /\ t.free = U[n]
         /\ t.len = [u.len EXCEPT ![r] = m + 1] /\ t.bb = [u.bb EXCEPT ![pos] = bit]
    <2>1. [u.len EXCEPT ![r] = m + 1] \in [Row -> 0 .. Rows * RowBits] /\ [u.bb EXCEPT ![pos] = bit] \in [Memory -> Bit]
      BY <1>1, <1>13 DEF BitBuffers
    <2>2. t = [u EXCEPT !.free = U[n], !.len = [u.len EXCEPT ![r] = m + 1], !.bb = [u.bb EXCEPT ![pos] = bit]]
      BY <1>10, <1>14
    <2> HIDE DEF t
    <2>3. U[n] \in 0 .. Rows
      BY <1>4, <1>12
    <2>4. t \in BitBuffers
      BY <1>1, <2>1, <2>2, <2>3 DEF BitBuffers
    <2> QED
      BY <1>1, <2>2, <2>4 DEF BitBuffers
  <1> HIDE DEF t
  <1>16. u.len \in [Row -> 0 .. Rows * RowBits] /\ u.bb \in [Memory -> Bit]
    BY <1>1, Buffer
  <1>17. ASSUME NEW i \in 1 .. n
         PROVE  /\ t.len[U[i - 1]] = Len(more[i])
                /\ \A j \in 1 .. Len(more[i]) : t.bb[U[i - 1] * RowBits + j - 1] = more[i][j]
    <2>1. U[i - 1] = T[i - 1] /\ T[i - 1] \in Nat
      <3>1. i - 1 \in 0 .. n - 1
        BY <1>2
      <3>2. T[i - 1] \in Nat
        BY RowEnds DEF n, T
      <3> QED
        BY <1>4, <3>1, <3>2
    <2>2. CASE i = n
      <3>1. more[i] = long /\ U[i - 1] = r
        BY <1>2, <2>1, <2>2 DEF LastRow, r
      <3>2. t.len[r] = m + 1
        BY <1>12, <1>15, <1>16
      <3>3. ASSUME NEW j \in 1 .. m + 1 PROVE t.bb[r * RowBits + j - 1] = long[j]
        <4>1. CASE j = m + 1
          <5>1. r * RowBits + j - 1 = pos
            BY <1>2, <1>11, <4>1 DEF pos
          <5> QED
            BY <1>3, <1>13, <1>15, <1>16, <4>1, <5>1
        <4>2. CASE j # m + 1
          <5>1. j \in 1 .. m /\ r * RowBits + j - 1 # pos
            BY <1>2, <1>11, <4>2 DEF pos
          <5>2. u.bb[r * RowBits + j - 1] = row[j]
            BY <1>2, <1>7, <5>1 DEF r, m
          <5> QED
            BY <1>3, <1>15, <1>16, <5>1, <5>2
        <4> QED
          BY <4>1, <4>2
      <3> QED
        BY <1>3, <3>1, <3>2, <3>3
    <2>3. CASE i # n
      <3>1. /\ i < n /\ T[i - 1] < r /\ T[i - 1] * RowBits + Len(rows[i]) <= r * RowBits /\ T[i - 1] * RowBits \in Nat
            /\ Len(rows[i]) \in Nat
        <4>1. i < n
          BY <1>2, <2>3
        <4> QED
          BY <4>1, RowEnds DEF n, T, r
      <3>2. more[i] = rows[i] /\ t.len[T[i - 1]] = Len(rows[i])
        BY <1>2, <1>4, <1>7, <1>15, <1>16, <2>1, <2>3, <3>1
      <3>3. ASSUME NEW j \in 1 .. Len(rows[i]) PROVE t.bb[T[i - 1] * RowBits + j - 1] = rows[i][j]
        <4>1. T[i - 1] * RowBits + j - 1 # pos
          BY <1>2, <1>11, <3>1 DEF pos
        <4>2. u.bb[T[i - 1] * RowBits + j - 1] = rows[i][j]
          BY <1>7
        <4> QED
          BY <1>15, <1>16, <4>1, <4>2
      <3> QED
        BY <2>1, <3>2, <3>3
    <2> QED
      BY <2>2, <2>3
  <1>18. \A q \in Row : (\A i \in 1 .. n : q # U[i - 1]) => t.len[q] = 0
    <2> SUFFICES ASSUME NEW q \in Row, \A i \in 1 .. n : q # U[i - 1] PROVE t.len[q] = 0
      OBVIOUS
    <2>1. \A i \in 1 .. n : U[i - 1] = T[i - 1]
      BY <1>2, <1>4
    <2>2. q # r
      BY <1>2, <2>1 DEF r
    <2>3. u.len[q] = 0
      BY <1>7, <2>1
    <2> QED
      BY <1>15, <1>16, <2>2, <2>3
  <1>19. \A k \in Memory : k >= U[n - 1] * RowBits + Len(more[n]) => t.bb[k] = 0
    <2> SUFFICES ASSUME NEW k \in Memory, k >= U[n - 1] * RowBits + Len(more[n]) PROVE t.bb[k] = 0
      OBVIOUS
    <2>1. U[n - 1] = r /\ Len(more[n]) = m + 1
      <3>1. n - 1 \in 0 .. n - 1
        BY <1>2
      <3>2. more[n] = long
        BY <1>2 DEF LastRow
      <3> QED
        BY <1>3, <1>4, <3>1, <3>2 DEF r
    <2>2. k \in Nat /\ k > pos
      BY <1>2, <1>11, <1>12, <2>1 DEF pos, Memory
    <2>3. u.bb[k] = 0
      BY <1>7, <1>11, <2>2 DEF pos
    <2> QED
      BY <1>11, <1>15, <1>16, <2>2, <2>3
  <1>20. U[n - 1] = r
    BY <1>2, <1>4 DEF r
  <1>21. t.num = U[n - 1] + 1 /\ t.num > 0 /\ U[n] <= Rows
    BY <1>4, <1>7, <1>15, <1>20
  <1>22. Holds(t, more)
    BY <1>2, <1>15, <1>17, <1>18, <1>19, <1>21 DEF Holds, U
  <1>23. Started(t) = t
    BY <1>15, <1>21, StartedIs
  <1> QED
    BY <1>15, <1>21, <1>22, <1>23 DEF Says, t, more

LEMMA AddRowSays ==
  ASSUME NEW rows \in Messages, NEW b, Says(b, rows), Fits(rows)
  PROVE  Says(AddRow(b), Append(rows, <<>>)) /\ AddRow(b).num > 0
  <1> DEFINE u == Started(b)
             n == Len(rows)
             T == Taken(rows)
             more == Append(rows, <<>>)
             U == Taken(more)
             t == AddRow(b)
  <1>1. u \in BitBuffers /\ Holds(u, rows)
    BY StartedIs DEF Says
  <1>2. /\ n \in Nat /\ n >= 1 /\ n \in 1 .. n /\ more \in Messages /\ Len(more) = n + 1 /\ more[n + 1] = <<>>
        /\ \A i \in 1 .. n : more[i] = rows[i]
    <2>1. <<>> \in Seq(Bit)
      OBVIOUS
    <2>2. n \in Nat /\ n >= 1
      BY TakenIs
    <2>3. /\ more \in Messages /\ Len(more) = n + 1 /\ LastRow(more) = <<>>
          /\ \A i \in 1 .. n : more[i] = rows[i]
      BY <2>1, RowIs
    <2> HIDE DEF n, more
    <2> QED
      BY <2>2, <2>3 DEF LastRow
  <1>3. (\A k \in 0 .. n : U[k] = T[k]) /\ U[n + 1] = T[n] + 1 /\ T[n] \in Nat /\ T[n] < Rows
    <2> HIDE DEF more
    <2> QED
      BY TakenRow DEF more, Fits
  <1> HIDE DEF u, more
  <1>4. /\ u.num = T[n - 1] + 1 /\ u.free = T[n]
        /\ \A i \in 1 .. n : /\ u.len[T[i - 1]] = Len(rows[i])
                             /\ \A j \in 1 .. Len(rows[i]) : u.bb[T[i - 1] * RowBits + j - 1] = rows[i][j]
        /\ \A q \in Row : (\A i \in 1 .. n : q # T[i - 1]) => u.len[q] = 0
        /\ \A k \in Memory : k >= T[n - 1] * RowBits + Len(rows[n]) => u.bb[k] = 0
    BY <1>1 DEF Holds
  <1>5. \A i \in 1 .. n : T[i - 1] \in Nat /\ T[i - 1] < T[n]
    BY RowEnds
  <1>6. /\ T[n - 1] * RowBits + Len(rows[n]) <= T[n] * RowBits /\ T[n - 1] * RowBits \in Nat
        /\ T[n] * RowBits \in Nat /\ Len(rows[n]) \in Nat
    BY <1>2, RowEnds
  <1> HIDE DEF T, U, n
  <1>7. t = [u EXCEPT !.free = T[n] + 1, !.num = T[n] + 1]
    BY <1>3, <1>4 DEF AddRow, u
  <1>8. t \in BitBuffers /\ t.num = T[n] + 1 /\ t.free = T[n] + 1 /\ t.len = u.len /\ t.bb = u.bb
    <2>1. T[n] + 1 \in 0 .. Rows
      BY <1>3, Sizes
    <2> QED
      BY <1>1, <1>7, <2>1 DEF BitBuffers
  <1> HIDE DEF t
  <1>9. \A i \in 1 .. n : U[i - 1] = T[i - 1]
    BY <1>2, <1>3
  <1>10. U[(n + 1) - 1] = T[n] /\ T[n] \in Row
    BY <1>2, <1>3, Sizes
  <1>11. u.len[T[n]] = 0
    BY <1>4, <1>5, <1>10
  <1>12. ASSUME NEW i \in 1 .. n + 1
         PROVE  /\ t.len[U[i - 1]] = Len(more[i])
                /\ \A j \in 1 .. Len(more[i]) : t.bb[U[i - 1] * RowBits + j - 1] = more[i][j]
    <2>1. CASE i = n + 1
      BY <1>2, <1>8, <1>10, <1>11, <2>1
    <2>2. CASE i # n + 1
      <3>1. i \in 1 .. n
        BY <1>2, <2>2
      <3>2. more[i] = rows[i] /\ U[i - 1] = T[i - 1]
        BY <1>2, <1>9, <3>1
      <3>3. u.len[T[i - 1]] = Len(rows[i])
            /\ \A j \in 1 .. Len(rows[i]) : u.bb[T[i - 1] * RowBits + j - 1] = rows[i][j]
        BY <1>4, <3>1
      <3> QED
        BY <1>8, <3>2, <3>3
    <2> QED
      BY <2>1, <2>2
  <1>13. \A q \in Row : (\A i \in 1 .. n + 1 : q # U[i - 1]) => t.len[q] = 0
    <2> SUFFICES ASSUME NEW q \in Row, \A i \in 1 .. n + 1 : q # U[i - 1] PROVE t.len[q] = 0
      OBVIOUS
    <2>1. \A i \in 1 .. n : q # T[i - 1]
      <3> SUFFICES ASSUME NEW i \in 1 .. n PROVE q # T[i - 1]
        OBVIOUS
      <3>1. i \in 1 .. n + 1
        BY <1>2
      <3> QED
        BY <1>9, <3>1
    <2> QED
      BY <1>4, <1>8, <2>1
  <1>14. \A k \in Memory : k >= U[(n + 1) - 1] * RowBits + Len(more[n + 1]) => t.bb[k] = 0
    <2> SUFFICES ASSUME NEW k \in Memory, k >= U[(n + 1) - 1] * RowBits + Len(more[n + 1]) PROVE t.bb[k] = 0
      OBVIOUS
    <2>1. k \in Nat /\ k >= T[n] * RowBits
      BY <1>2, <1>6, <1>10, Sizes, Areas DEF Memory
    <2> QED
      BY <1>4, <1>6, <1>8, <2>1
  <1>15. t.num = U[(n + 1) - 1] + 1 /\ t.free = U[n + 1] /\ U[n + 1] <= Rows /\ t.num > 0
    BY <1>3, <1>8, <1>10, Sizes
  <1>16. Holds(t, more)
    BY <1>2, <1>12, <1>13, <1>14, <1>15 DEF Holds, U
  <1>17. Started(t) = t
    BY <1>8, <1>15, StartedIs
  <1> QED
    BY <1>8, <1>15, <1>16, <1>17 DEF Says, t, more

(* The present row has no bits exactly if the message's last row has none. *)
LEMMA LastSays ==
  ASSUME NEW rows \in Messages, NEW b, Says(b, rows)
  PROVE  /\ Started(b).len[Started(b).num - 1] = Len(LastRow(rows))
         /\ LastRow(rows) \in Seq(Bit) /\ Started(b).num - 1 \in Row
         /\ Len(rows) > 1 => Started(b).num > 1
         /\ Len(rows) = 1 => Started(b).len[0] = Len(rows[1]) /\ Started(b).num = 1
  <1> DEFINE n == Len(rows)
             T == Taken(rows)
             u == Started(b)
  <1>1. n \in Nat /\ n >= 1 /\ n \in 1 .. n /\ T[0] = 0 /\ 1 \in 1 .. n
    BY TakenIs
  <1>2. T[n - 1] \in Nat /\ T[n - 1] < T[n] /\ T[n] \in Nat /\ rows[n] \in Seq(Bit)
        /\ (n > 1 => T[0] < T[n - 1])
    <2>1. T[n - 1] \in Nat /\ T[n - 1] < T[n] /\ T[n] \in Nat /\ rows[n] \in Seq(Bit)
      BY <1>1, RowEnds
    <2>2. 1 < n => T[1 - 1] < T[n - 1]
      BY <1>1, RowEnds
    <2> QED
      BY <2>1, <2>2
  <1>3. u.num = T[n - 1] + 1 /\ T[n] <= Rows /\ \A i \in 1 .. n : u.len[T[i - 1]] = Len(rows[i])
    BY DEF Says, Holds
  <1> HIDE DEF u, T
  <1>4. u.num - 1 = T[n - 1] /\ u.num - 1 \in Row
    BY <1>2, <1>3, Sizes
  <1>5. u.len[u.num - 1] = Len(LastRow(rows))
    BY <1>1, <1>3, <1>4 DEF LastRow
  <1>6. n > 1 => u.num > 1
    BY <1>1, <1>2, <1>3
  <1>7. n = 1 => u.len[0] = Len(rows[1]) /\ u.num = 1
    <2> SUFFICES ASSUME n = 1 PROVE u.len[0] = Len(rows[1]) /\ u.num = 1
      OBVIOUS
    <2>1. T[1 - 1] = 0 /\ n - 1 = 0
      BY <1>1
    <2> QED
      BY <1>1, <1>3, <2>1
  <1> QED
    BY <1>2, <1>4, <1>5, <1>6, <1>7 DEF u, LastRow

LEMMA AddSyncSays ==
  ASSUME NEW rows \in Messages, NEW b, Says(b, rows),
         LastRow(rows) # <<>> => Fits(rows)
  PROVE  /\ Says(AddSync(b), IF LastRow(rows) = <<>> THEN rows ELSE Append(rows, <<>>))
         /\ AddSync(b).num > 0
  <1> DEFINE u == Started(b)
             t == IF u.len[u.num - 1] > 0 THEN AddRow(u) ELSE u
             more == IF LastRow(rows) = <<>> THEN rows ELSE Append(rows, <<>>)
             v == AddSync(b)
  <1>1. u \in BitBuffers /\ Holds(u, rows) /\ Started(u) = u /\ Says(u, rows) /\ u.num > 0
    BY StartedIs DEF Says
  <1>2. u.len[u.num - 1] = Len(LastRow(rows)) /\ LastRow(rows) \in Seq(Bit)
    BY LastSays
  <1>3. Says(t, more) /\ t.num > 0
    <2> HIDE DEF u
    <2>1. CASE LastRow(rows) = <<>>
      <3>1. ~(u.len[u.num - 1] > 0)
        BY <1>2, <2>1
      <3> QED
        BY <1>1, <2>1, <3>1
    <2>2. CASE LastRow(rows) # <<>>
      <3>1. u.len[u.num - 1] > 0
        BY <1>2, <2>2
      <3>2. Says(AddRow(u), Append(rows, <<>>)) /\ AddRow(u).num > 0
        BY <1>1, <2>2, AddRowSays
      <3> QED
        BY <2>2, <3>1, <3>2
    <2> QED
      BY <2>1, <2>2
  <1>4. v = [t EXCEPT !.syncs[t.num - 1] = @ + 1]
    BY DEF AddSync
  <1> HIDE DEF t, more
  <1>5. t \in BitBuffers /\ Started(t) = t /\ Holds(t, more)
    BY <1>3, StartedIs DEF Says
  <1>6. t.num - 1 \in Row
    BY <1>3, <1>5, Buffer, Sizes
  <1>7. v \in BitBuffers /\ v.num = t.num /\ v.free = t.free /\ v.len = t.len /\ v.bb = t.bb
    <2>1. [t.syncs EXCEPT ![t.num - 1] = @ + 1] \in [Row -> Nat]
      BY <1>5, <1>6, Buffer
    <2>2. v = [t EXCEPT !.syncs = [t.syncs EXCEPT ![t.num - 1] = @ + 1]]
      BY <1>4
    <2> HIDE DEF v
    <2> QED
      BY <1>5, <2>1, <2>2 DEF BitBuffers
  <1> HIDE DEF v
  <1>8. Holds(v, more)
    BY <1>5, <1>7 DEF Holds
  <1>9. Started(v) = v
    BY <1>3, <1>7, StartedIs
  <1> QED
    BY <1>3, <1>7, <1>8, <1>9 DEF Says, v, more

LEMMA ClearSays == Says(Clear, <<<<>>>>) /\ <<<<>>>> \in Messages /\ Room(<<<<>>>>)
  <1> DEFINE rows == <<<<>>>>
             u == Started(Clear)
             T == Taken(rows)
  <1>1. Clear \in BitBuffers
    BY ClearApart DEF Apart
  <1>2. rows \in Messages /\ Len(rows) = 1 /\ rows[1] = <<>>
    BY DEF Messages
  <1>3. u.num = 1 /\ u.free = 1 /\ u.len = [r \in Row |-> 0] /\ u.bb = [k \in Memory |-> 0]
    BY DEF Started, Clear
  <1> HIDE DEF rows, u
  <1>4. T[0] = 0 /\ T[1] = 1
    <2>1. T[0] = 0 /\ T[1] = T[1 - 1] + SlotsOf(rows[1])
      BY <1>2, TakenIs
    <2>2. SlotsOf(rows[1]) = 1
      BY <1>2 DEF SlotsOf
    <2> QED
      BY <2>1, <2>2
  <1> HIDE DEF T
  <1>5. 0 \in Row /\ 1 <= Rows
    BY Sizes
  <1>6. Holds(u, rows)
    BY <1>2, <1>3, <1>4, <1>5 DEF Holds, T
  <1>7. Room(rows)
    BY <1>2, <1>4, <1>5 DEF Room, T
  <1> QED
    BY <1>1, <1>2, <1>6, <1>7 DEF Says, u, rows

LEMMA BitsAre ==
  ASSUME NEW bit \in Bit, NEW n \in Nat
  PROVE  /\ Bits(bit, n) \in Seq(Bit) /\ Len(Bits(bit, n)) = n /\ Bits(bit, 0) = <<>>
         /\ \A k \in 0 .. n : Bits(bit, k) \o Bits(bit, n - k) = Bits(bit, n)
         /\ Bits(bit, n + 1) = Bits(bit, n) \o <<bit>> /\ Bits(bit, 1) = <<bit>>
  <1>1. \A k \in Nat : Bits(bit, k) \in Seq(Bit) /\ Len(Bits(bit, k)) = k /\ \A i \in 1 .. k : Bits(bit, k)[i] = bit
    BY DEF Bits
  <1>2. Bits(bit, 0) = <<>>
    BY <1>1
  <1>3. Bits(bit, 1) = <<bit>>
    <2> DEFINE x == Bits(bit, 1)
               y == <<bit>>
    <2>1. x \in Seq(Bit) /\ Len(x) = 1 /\ x[1] = bit
      <3>1. 1 \in Nat /\ 1 \in 1 .. 1
        OBVIOUS
      <3> QED
        BY <1>1, <3>1
    <2>2. y \in Seq(Bit) /\ Len(y) = 1 /\ y[1] = bit
      OBVIOUS
    <2> HIDE DEF x, y
    <2>3. \A i \in 1 .. Len(x) : x[i] = y[i]
      BY <2>1, <2>2
    <2>4. x = y
      BY <2>1, <2>2, <2>3, SeqEqual
    <2> QED
      BY <2>4 DEF x, y
  <1>4. ASSUME NEW k \in Nat, NEW m \in Nat PROVE Bits(bit, k) \o Bits(bit, m) = Bits(bit, k + m)
    <2> DEFINE x == Bits(bit, k)
               y == Bits(bit, m)
               z == Bits(bit, k + m)
    <2>1. /\ x \in Seq(Bit) /\ y \in Seq(Bit) /\ z \in Seq(Bit) /\ Len(x) = k /\ Len(y) = m /\ Len(z) = k + m
          /\ (\A i \in 1 .. k : x[i] = bit) /\ (\A i \in 1 .. m : y[i] = bit) /\ (\A i \in 1 .. k + m : z[i] = bit)
      BY <1>1
    <2> HIDE DEF x, y, z
    <2>2. x \o y \in Seq(Bit) /\ Len(x \o y) = k + m
      BY <2>1
    <2>3. \A i \in 1 .. k + m : (x \o y)[i] = z[i]
      BY <2>1
    <2>4. x \o y = z
      BY <2>1, <2>2, <2>3, SeqEqual
    <2> QED
      BY <2>4 DEF x, y, z
  <1>5. \A k \in 0 .. n : Bits(bit, k) \o Bits(bit, n - k) = Bits(bit, n)
    <2> SUFFICES ASSUME NEW k \in 0 .. n PROVE Bits(bit, k) \o Bits(bit, n - k) = Bits(bit, n)
      OBVIOUS
    <2>1. k \in Nat /\ n - k \in Nat /\ k + (n - k) = n
      OBVIOUS
    <2>2. Bits(bit, k) \o Bits(bit, n - k) = Bits(bit, k + (n - k))
      BY <1>4, <2>1
    <2> QED
      BY <2>1, <2>2
  <1>6. Bits(bit, n + 1) = Bits(bit, n) \o <<bit>>
    BY <1>3, <1>4
  <1> QED
    BY <1>1, <1>2, <1>3, <1>5, <1>6

LEMMA AddRunSays ==
  ASSUME NEW rows \in Messages, NEW b, Says(b, rows), NEW bit \in Bit, NEW n \in Nat, Room(More(rows, Bits(bit, n)))
  PROVE  /\ Says(AddRun(b, bit, n), More(rows, Bits(bit, n)))
         /\ n > 0 => AddRun(b, bit, n).num > 0
         /\ n = 0 => AddRun(b, bit, n) = b
  <1> DEFINE M(k) == More(rows, Bits(bit, k))
  <1>1. CASE n = 0
    <2>1. AddRun(b, bit, n) = b
      BY <1>1 DEF AddRun
    <2>2. M(0) = rows
      BY MoreNothing, BitsAre
    <2> QED
      BY <1>1, <2>1, <2>2
  <1>2. CASE n > 0
    <2> DEFINE D == 0 .. n
               Is(f) == f = [k \in D |-> IF k = 0 THEN b ELSE AddBit(f[k - 1], bit)]
    <2>1. ASSUME NEW k \in D PROVE M(k) \in Messages /\ Room(M(k)) /\ (k < n => M(k + 1) = More(M(k), <<bit>>))
      <3>1. /\ Bits(bit, k) \in Seq(Bit) /\ Bits(bit, n - k) \in Seq(Bit)
            /\ Bits(bit, k) \o Bits(bit, n - k) = Bits(bit, n)
            /\ Bits(bit, k + 1) = Bits(bit, k) \o <<bit>> /\ <<bit>> \in Seq(Bit)
        <4>1. k \in Nat /\ n - k \in Nat
          OBVIOUS
        <4> QED
          BY <4>1, BitsAre
      <3>2. M(k) \in Messages
        BY <3>1, MoreIs
      <3>3. M(n) = More(M(k), Bits(bit, n - k))
        BY <3>1, MoreMore
      <3>4. Room(M(k))
        BY <3>1, <3>2, <3>3, RoomBefore
      <3>5. M(k + 1) = More(M(k), <<bit>>)
        BY <3>1, MoreMore
      <3> QED
        BY <3>2, <3>4, <3>5
    <2>2. \E f : Is(f)
      <3> DEFINE H == [x \in D \X [D -> BitBuffers] |->
                        IF x[1] = 0 THEN b
                        ELSE IF AddBit(x[2][x[1] - 1], bit) \in BitBuffers THEN AddBit(x[2][x[1] - 1], bit) ELSE b]
                 rank == [k \in D |-> k]
      <3>1. b \in BitBuffers
        BY DEF Says
      <3>2. H \in [D \X [D -> BitBuffers] -> BitBuffers]
        BY <3>1
      <3>3. \A k \in D : \A f, g \in [D -> BitBuffers] :
              (\A y \in D : rank[y] < rank[k] => f[y] = g[y]) => H[<<k, f>>] = H[<<k, g>>]
        OBVIOUS
      <3>4. rank \in [D -> 0 .. n] /\ BitBuffers # {}
        BY <3>1
      <3>5. \E f \in [D -> BitBuffers] : \A k \in D : f[k] = H[<<k, f>>]
        <4> HIDE DEF D, H, rank
        <4>1. Ranked(D, BitBuffers, n, rank, H)
          BY <3>2, <3>3, <3>4 DEF Ranked
        <4> QED
          BY <4>1, Recursion
      <3>6. PICK f \in [D -> BitBuffers] : \A k \in D : f[k] = H[<<k, f>>]
        BY <3>5
      <3>7. f[0] = b
        <4>1. 0 \in D
          BY <1>2
        <4>2. H[<<0, f>>] = b
          BY <4>1
        <4> QED
          BY <3>6, <4>1, <4>2
      <3>8. \A k \in 1 .. n : f[k] = IF AddBit(f[k - 1], bit) \in BitBuffers THEN AddBit(f[k - 1], bit) ELSE b
        <4> SUFFICES ASSUME NEW k \in 1 .. n
                     PROVE  f[k] = IF AddBit(f[k - 1], bit) \in BitBuffers THEN AddBit(f[k - 1], bit) ELSE b
          OBVIOUS
        <4>1. k \in D /\ k # 0
          OBVIOUS
        <4> QED
          BY <3>6, <4>1
      <3> DEFINE S == {k \in Nat : k <= n => Says(f[k], M(k))}
      <3>9. 0 \in S
        <4>1. M(0) = rows
          BY MoreNothing, BitsAre
        <4> QED
          BY <3>7, <4>1
      <3> HIDE DEF M
      <3>10. ASSUME NEW k \in Nat, k \in S PROVE k + 1 \in S /\ (k + 1 <= n => f[k + 1] = AddBit(f[k], bit))
        <4> SUFFICES ASSUME k + 1 <= n PROVE Says(f[k + 1], M(k + 1)) /\ f[k + 1] = AddBit(f[k], bit)
          OBVIOUS
        <4>1. k \in D /\ k + 1 \in D /\ k + 1 \in 1 .. n /\ (k + 1) - 1 = k /\ k < n
          BY <1>2
        <4>2. M(k) \in Messages /\ Room(M(k + 1)) /\ M(k + 1) = More(M(k), <<bit>>) /\ Says(f[k], M(k))
          BY <2>1, <3>10, <4>1
        <4>3. Says(AddBit(f[k], bit), M(k + 1))
          BY <4>2, AddBitSays
        <4>4. AddBit(f[k], bit) \in BitBuffers
          BY <4>3 DEF Says
        <4> QED
          BY <3>8, <4>1, <4>3, <4>4
      <3> HIDE DEF S
      <3>11. Nat \subseteq S
        BY <3>9, <3>10, Induction
      <3>12. \A k \in D : f[k] = IF k = 0 THEN b ELSE AddBit(f[k - 1], bit)
        <4> SUFFICES ASSUME NEW k \in D, k # 0 PROVE f[k] = AddBit(f[k - 1], bit)
          BY <3>7
        <4>1. k - 1 \in Nat /\ (k - 1) + 1 = k /\ k <= n
          BY <1>2
        <4> QED
          BY <3>10, <3>11, <4>1
      <3>13. f = [k \in D |-> f[k]]
        BY <3>6
      <3>14. Is(f)
        BY <3>12, <3>13
      <3> QED
        BY <3>14
    <2> DEFINE g == CHOOSE c : Is(c)
    <2>3. Is(g)
      <3> HIDE DEF Is
      <3> QED
        BY <2>2
    <2>4. AddRun(b, bit, n) = g[n]
      BY <1>2 DEF AddRun
    <2> HIDE DEF g
    <2> DEFINE S == {k \in Nat : k <= n => Says(g[k], M(k)) /\ (k > 0 => g[k].num > 0)}
    <2>5. 0 \in S
      <3>1. M(0) = rows
        BY MoreNothing, BitsAre
      <3>2. g[0] = b
        BY <1>2, <2>3
      <3> QED
        BY <3>1, <3>2
    <2> HIDE DEF M
    <2>6. ASSUME NEW k \in Nat, k \in S PROVE k + 1 \in S
      <3> SUFFICES ASSUME k + 1 <= n PROVE Says(g[k + 1], M(k + 1)) /\ g[k + 1].num > 0
        OBVIOUS
      <3>1. k \in D /\ k + 1 \in D /\ (k + 1) - 1 = k /\ k + 1 # 0 /\ k < n
        BY <1>2
      <3>2. g[k + 1] = AddBit(g[k], bit)
        BY <2>3, <3>1
      <3>3. M(k) \in Messages /\ Room(M(k + 1)) /\ M(k + 1) = More(M(k), <<bit>>) /\ Says(g[k], M(k))
        BY <2>1, <2>6, <3>1
      <3> QED
        BY <3>2, <3>3, AddBitSays
    <2> HIDE DEF S
    <2>7. Nat \subseteq S
      BY <2>5, <2>6, Induction
    <2> QED
      BY <1>2, <2>4, <2>7 DEF S, M
  <1> QED
    BY <1>1, <1>2

-----------------------------------------------------------------------------
(* Filled() goes through the rows one by one. *)
LEMMA FilledIs ==
  ASSUME NEW rows \in Seq(Seq(Bit))
  PROVE  \E f \in [0 .. Len(rows) -> Seq(Seq(Bit))] :
           /\ f[0] = <<>> /\ Filled(rows) = f[Len(rows)]
           /\ \A r \in 1 .. Len(rows) : f[r] = IF rows[r] = <<>> THEN f[r - 1] ELSE Append(f[r - 1], rows[r])
  <1> DEFINE n == Len(rows)
             D == 0 .. n
             V == Seq(Seq(Bit))
             Is(f) == f = [r \in D |-> CASE r = 0 -> <<>>
                                         [] r > 0 /\ rows[r] = <<>> -> f[r - 1]
                                         [] OTHER -> Append(f[r - 1], rows[r])]
             H == [x \in D \X [D -> V] |->
                     IF x[1] = 0 THEN <<>>
                     ELSE IF rows[x[1]] = <<>> THEN x[2][x[1] - 1] ELSE Append(x[2][x[1] - 1], rows[x[1]])]
             rank == [k \in D |-> k]
             g == CHOOSE f : Is(f)
  <1>1. n \in Nat /\ \A i \in 1 .. n : rows[i] \in Seq(Bit)
    OBVIOUS
  <1>2. H \in [D \X [D -> V] -> V]
    <2> SUFFICES ASSUME NEW k \in D, NEW f \in [D -> V] PROVE H[<<k, f>>] \in V
      OBVIOUS
    <2>1. k # 0 => f[k - 1] \in V /\ rows[k] \in Seq(Bit)
      <3>1. k # 0 => k - 1 \in D /\ k \in 1 .. n
        BY <1>1
      <3> HIDE DEF D, V, n
      <3> QED
        BY <1>1, <3>1
    <2>2. H[<<k, f>>] = IF k = 0 THEN <<>> ELSE IF rows[k] = <<>> THEN f[k - 1] ELSE Append(f[k - 1], rows[k])
      OBVIOUS
    <2>3. <<>> \in V
      OBVIOUS
    <2>4. k # 0 => Append(f[k - 1], rows[k]) \in V
      BY <2>1
    <2> HIDE DEF H, V
    <2> QED
      BY <2>1, <2>2, <2>3, <2>4
  <1>3. \A k \in D : \A f, h \in [D -> V] :
          (\A y \in D : rank[y] < rank[k] => f[y] = h[y]) => H[<<k, f>>] = H[<<k, h>>]
    <2> SUFFICES ASSUME NEW k \in D, NEW f \in [D -> V], NEW h \in [D -> V],
                        \A y \in D : rank[y] < rank[k] => f[y] = h[y]
                 PROVE  H[<<k, f>>] = H[<<k, h>>]
      OBVIOUS
    <2>1. k # 0 => f[k - 1] = h[k - 1]
      <3>1. k # 0 => k - 1 \in D /\ rank[k - 1] < rank[k]
        BY <1>1
      <3> QED
        BY <3>1
    <2>2. \A e \in [D -> V] :
            H[<<k, e>>] = IF k = 0 THEN <<>> ELSE IF rows[k] = <<>> THEN e[k - 1] ELSE Append(e[k - 1], rows[k])
      OBVIOUS
    <2> HIDE DEF H, rank, V, D
    <2> QED
      BY <2>1, <2>2
  <1>4. \E f \in [D -> V] : \A k \in D : f[k] = H[<<k, f>>]
    <2>1. rank \in [D -> 0 .. n] /\ V # {}
      <3>1. <<>> \in V
        OBVIOUS
      <3> QED
        BY <3>1
    <2> HIDE DEF D, H, rank, n, V
    <2>2. Ranked(D, V, n, rank, H)
      BY <1>1, <1>2, <1>3, <2>1 DEF Ranked
    <2> QED
      BY <2>2, Recursion
  <1>5. PICK f \in [D -> V] : \A k \in D : f[k] = H[<<k, f>>]
    BY <1>4
  <1>6. \A k \in D : f[k] = CASE k = 0 -> <<>>
                              [] k > 0 /\ rows[k] = <<>> -> f[k - 1]
                              [] OTHER -> Append(f[k - 1], rows[k])
    <2> SUFFICES ASSUME NEW k \in D
                 PROVE  f[k] = CASE k = 0 -> <<>>
                                 [] k > 0 /\ rows[k] = <<>> -> f[k - 1]
                                 [] OTHER -> Append(f[k - 1], rows[k])
      OBVIOUS
    <2>1. f[k] = IF k = 0 THEN <<>> ELSE IF rows[k] = <<>> THEN f[k - 1] ELSE Append(f[k - 1], rows[k])
      BY <1>5
    <2>2. k = 0 \/ k > 0
      BY <1>1
    <2> HIDE DEF D, H, V
    <2> QED
      BY <2>1, <2>2
  <1>7. Is(f)
    <2>1. f = [k \in D |-> f[k]]
      BY <1>5
    <2> HIDE DEF D, H, V
    <2> QED
      BY <1>6, <2>1
  <1>8. Is(g)
    <2> HIDE DEF Is
    <2> QED
      BY <1>7
  <1>9. Filled(rows) = g[n]
    BY DEF Filled
  <1> HIDE DEF g
  <1>10. \A k \in D : g[k] = IF k = 0 THEN <<>> ELSE IF rows[k] = <<>> THEN g[k - 1] ELSE Append(g[k - 1], rows[k])
    <2> SUFFICES ASSUME NEW k \in D
                 PROVE  g[k] = IF k = 0 THEN <<>> ELSE IF rows[k] = <<>> THEN g[k - 1] ELSE Append(g[k - 1], rows[k])
      OBVIOUS
    <2>1. k = 0 \/ k > 0
      BY <1>1
    <2>2. g[k] = CASE k = 0 -> <<>> [] k > 0 /\ rows[k] = <<>> -> g[k - 1] [] OTHER -> Append(g[k - 1], rows[k])
      BY <1>8
    <2> QED
      BY <2>1, <2>2
  <1> DEFINE S == {k \in Nat : k <= n => g[k] \in V}
  <1>11. 0 \in S
    <2>1. g[0] = <<>>
      <3>1. 0 \in D
        BY <1>1
      <3> QED
        BY <1>10, <3>1
    <2>2. <<>> \in V
      OBVIOUS
    <2> QED
      BY <2>1, <2>2
  <1>12. ASSUME NEW k \in Nat, k \in S PROVE k + 1 \in S
    <2> SUFFICES ASSUME k + 1 <= n PROVE g[k + 1] \in V
      OBVIOUS
    <2>1. k + 1 \in D /\ k + 1 # 0 /\ (k + 1) - 1 = k /\ k + 1 \in 1 .. n /\ k <= n
      BY <1>1
    <2>2. g[k + 1] = IF rows[k + 1] = <<>> THEN g[k] ELSE Append(g[k], rows[k + 1])
      BY <1>10, <2>1
    <2>3. g[k] \in V /\ rows[k + 1] \in Seq(Bit)
      BY <1>1, <1>12, <2>1
    <2>4. Append(g[k], rows[k + 1]) \in V
      BY <2>3
    <2> QED
      BY <2>2, <2>3, <2>4
  <1> HIDE DEF S
  <1>13. Nat \subseteq S
    BY <1>11, <1>12, Induction
  <1>14. g = [k \in D |-> g[k]]
    BY <1>8
  <1>15. g \in [D -> V]
    <2>1. \A k \in D : g[k] \in V
      BY <1>1, <1>13 DEF S
    <2> HIDE DEF D, V
    <2> QED
      BY <1>14, <2>1
  <1>16. g[0] = <<>> /\ \A r \in 1 .. n : g[r] = IF rows[r] = <<>> THEN g[r - 1] ELSE Append(g[r - 1], rows[r])
    <2>1. 0 \in D /\ \A r \in 1 .. n : r \in D /\ r # 0
      BY <1>1
    <2> HIDE DEF D
    <2> QED
      BY <1>10, <2>1
  <1> QED
    BY <1>9, <1>15, <1>16

(* What is between the rows of the message has no bits and does not count. *)
LEMMA FilledSays ==
  ASSUME NEW rows \in Messages, NEW b, Says(b, rows), b.num > 0
  PROVE  Filled(Contents(b)) = Filled(rows)
  <1> DEFINE n == Len(rows)
             T == Taken(rows)
             C == Contents(b)
  <1>1. /\ b \in BitBuffers /\ Started(b) = b /\ Holds(b, rows)
        /\ b.len \in [Row -> 0 .. Rows * RowBits] /\ b.bb \in [Memory -> Bit] /\ b.num \in Nat /\ b.num <= Rows
    BY StartedIs, Buffer DEF Says
  <1>2. /\ b.num = T[n - 1] + 1
        /\ \A i \in 1 .. n : /\ b.len[T[i - 1]] = Len(rows[i])
                             /\ \A j \in 1 .. Len(rows[i]) : b.bb[T[i - 1] * RowBits + j - 1] = rows[i][j]
        /\ \A r \in Row : (\A i \in 1 .. n : r # T[i - 1]) => b.len[r] = 0
    BY <1>1 DEF Holds
  <1>3. n \in Nat /\ n >= 1 /\ T \in [0 .. n -> Nat] /\ T[0] = 0 /\ \A i \in 1 .. n : rows[i] \in Seq(Bit)
    BY TakenIs DEF Messages
  <1> HIDE DEF n, T, C
  <1>4. ASSUME NEW i \in 1 .. n PROVE BitsOf(b, T[i - 1]) = rows[i]
    <2> DEFINE x == BitsOf(b, T[i - 1])
               y == rows[i]
    <2>1. y \in Seq(Bit) /\ Len(y) \in Nat /\ b.len[T[i - 1]] = Len(y) /\ \A j \in 1 .. Len(y) : y[j] \in Bit
      BY <1>2, <1>3
    <2>2. x = [j \in 1 .. Len(y) |-> b.bb[T[i - 1] * RowBits + j - 1]]
      BY <2>1 DEF BitsOf
    <2>3. \A j \in 1 .. Len(y) : b.bb[T[i - 1] * RowBits + j - 1] = y[j]
      BY <1>2
    <2> HIDE DEF x, y
    <2>4. x = [j \in 1 .. Len(y) |-> y[j]]
      BY <2>2, <2>3
    <2>5. x \in Seq(Bit) /\ Len(x) = Len(y) /\ \A j \in 1 .. Len(x) : x[j] = y[j]
      BY <2>1, <2>4
    <2>6. x = y
      BY <2>1, <2>5, SeqEqual
    <2> QED
      BY <2>6 DEF x, y
  <1>5. ASSUME NEW r \in Row, \A i \in 1 .. n : r # T[i - 1] PROVE BitsOf(b, r) = <<>>
    <2>1. b.len[r] = 0
      BY <1>2, <1>5
    <2> QED
      BY <2>1 DEF BitsOf
  <1>6. C = [r \in 1 .. b.num |-> BitsOf(b, r - 1)] /\ C \in Seq(Seq(Bit)) /\ Len(C) = b.num
    <2>1. ASSUME NEW r \in 1 .. b.num PROVE BitsOf(b, r - 1) \in Seq(Bit)
      <3>1. r - 1 \in Row
        BY <1>1, Sizes
      <3>2. CASE \E i \in 1 .. n : r - 1 = T[i - 1]
        BY <1>3, <1>4, <3>2
      <3>3. CASE ~\E i \in 1 .. n : r - 1 = T[i - 1]
        <4>1. BitsOf(b, r - 1) = <<>>
          BY <1>5, <3>1, <3>3
        <4>2. <<>> \in Seq(Bit)
          OBVIOUS
        <4> QED
          BY <4>1, <4>2
      <3> QED
        BY <3>2, <3>3
    <2>2. C = [r \in 1 .. b.num |-> BitsOf(b, r - 1)]
      BY DEF Contents, C
    <2> QED
      BY <1>1, <2>1, <2>2
  <1>7. rows \in Seq(Seq(Bit))
    BY DEF Messages
  <1>8. PICK f \in [0 .. b.num -> Seq(Seq(Bit))] :
          /\ f[0] = <<>> /\ Filled(C) = f[b.num]
          /\ \A r \in 1 .. b.num : f[r] = IF C[r] = <<>> THEN f[r - 1] ELSE Append(f[r - 1], C[r])
    <2>1. C \in Seq(Seq(Bit))
      BY <1>6
    <2>2. PICK f \in [0 .. Len(C) -> Seq(Seq(Bit))] :
            /\ f[0] = <<>> /\ Filled(C) = f[Len(C)]
            /\ \A r \in 1 .. Len(C) : f[r] = IF C[r] = <<>> THEN f[r - 1] ELSE Append(f[r - 1], C[r])
      BY <2>1, FilledIs
    <2>3. Len(C) = b.num
      BY <1>6
    <2> QED
      BY <2>2, <2>3
  <1>9. PICK g \in [0 .. n -> Seq(Seq(Bit))] :
          /\ g[0] = <<>> /\ Filled(rows) = g[n]
          /\ \A i \in 1 .. n : g[i] = IF rows[i] = <<>> THEN g[i - 1] ELSE Append(g[i - 1], rows[i])
    BY <1>7, FilledIs DEF n
  <1> DEFINE S == {p \in Nat : p <= b.num => \A i \in 1 .. n : T[i - 1] < p /\ p <= T[i] => f[p] = g[i]}
  <1>10. \A i \in 1 .. n : T[i - 1] \in Nat /\ T[i] \in Nat /\ T[i - 1] < T[i]
    BY RowEnds DEF n, T
  <1>11. \A i, j \in 0 .. n : i < j => T[i] < T[j]
    BY TakenRises DEF n, T
  <1>12. 0 \in S
    BY <1>10
  <1>13. ASSUME NEW p \in Nat, p \in S PROVE p + 1 \in S
    <2> SUFFICES ASSUME p + 1 <= b.num, NEW i \in 1 .. n, T[i - 1] < p + 1, p + 1 <= T[i]
                 PROVE  f[p + 1] = g[i]
      OBVIOUS
    <2>1. /\ p + 1 \in 1 .. b.num /\ (p + 1) - 1 = p /\ p \in Row /\ p <= b.num /\ T[i - 1] \in Nat /\ T[i] \in Nat
      BY <1>1, <1>10, Sizes
    <2>2. f[p + 1] = IF C[p + 1] = <<>> THEN f[p] ELSE Append(f[p], C[p + 1])
      BY <1>8, <2>1
    <2>3. C[p + 1] = BitsOf(b, p)
      BY <1>6, <2>1
    <2>4. g[i] = IF rows[i] = <<>> THEN g[i - 1] ELSE Append(g[i - 1], rows[i])
      BY <1>9
    <2>5. CASE p = T[i - 1]
      <3>1. C[p + 1] = rows[i]
        BY <1>4, <2>3, <2>5
      <3>2. f[p] = g[i - 1]
        <4>1. CASE i = 1
          <5>1. T[i - 1] = 0 /\ i - 1 = 0
            BY <1>3, <4>1
          <5> QED
            BY <1>8, <1>9, <2>5, <5>1
        <4>2. CASE i # 1
          <5>1. i - 1 \in 1 .. n /\ (i - 1) - 1 \in 0 .. n /\ (i - 1) - 1 < i - 1 /\ i - 1 \in 0 .. n
            BY <1>3, <4>2
          <5>2. T[(i - 1) - 1] < p /\ p <= T[i - 1]
            BY <1>11, <2>1, <2>5, <5>1
          <5> QED
            BY <1>13, <2>1, <5>1, <5>2
        <4> QED
          BY <4>1, <4>2
      <3> QED
        BY <2>2, <2>4, <3>1, <3>2
    <2>6. CASE p # T[i - 1]
      <3>1. T[i - 1] < p /\ p < T[i]
        BY <2>1, <2>6
      <3>2. ASSUME NEW j \in 1 .. n PROVE p # T[j - 1]
        <4>1. CASE j <= i
          <5>1. j - 1 \in 0 .. n /\ i - 1 \in 0 .. n /\ (j - 1 = i - 1 \/ j - 1 < i - 1)
            BY <1>3, <4>1
          <5>2. T[j - 1] <= T[i - 1]
            BY <1>10, <1>11, <2>1, <5>1
          <5> QED
            BY <1>10, <2>1, <3>1, <5>2
        <4>2. CASE ~(j <= i)
          <5>1. j - 1 \in 0 .. n /\ i \in 0 .. n /\ (j - 1 = i \/ i < j - 1)
            BY <1>3, <4>2
          <5>2. T[i] <= T[j - 1]
            BY <1>10, <1>11, <2>1, <5>1
          <5> QED
            BY <1>10, <2>1, <3>1, <5>2
        <4> QED
          BY <4>1, <4>2
      <3>3. C[p + 1] = <<>>
        BY <1>5, <2>1, <2>3, <3>2
      <3>4. f[p] = g[i]
        BY <1>13, <2>1, <3>1
      <3> QED
        BY <2>2, <3>3, <3>4
    <2> QED
      BY <2>5, <2>6
  <1> HIDE DEF S
  <1>14. Nat \subseteq S
    BY <1>12, <1>13, Induction
  <1>15. f[b.num] = g[n]
    <2>1. n \in 1 .. n /\ T[n - 1] \in Nat /\ T[n] \in Nat /\ T[n - 1] < T[n]
      BY <1>3, <1>10
    <2>2. T[n - 1] < b.num /\ b.num <= T[n]
      BY <1>2, <2>1
    <2> QED
      BY <1>1, <1>14, <2>1, <2>2 DEF S
  <1> QED
    BY <1>8, <1>9, <1>15 DEF C

-----------------------------------------------------------------------------
(* A slicer has told a message: its buffer says it. *)
Told(t, rows) == Good(t) /\ rows \in Messages /\ Says(t.bits, rows)
Same(t, u) == u.since = t.since /\ u.half = t.half /\ u.phase = t.phase /\ u.seen = t.seen /\ u.out = t.out

LEMMA TellBits ==
  ASSUME NEW t, Good(t), NEW b, Apart(b), NEW rows \in Messages, Says(b, rows)
  PROVE  /\ Told([t EXCEPT !.bits = b], rows) /\ Same(t, [t EXCEPT !.bits = b])
         /\ [t EXCEPT !.bits = b].bits = b
  <1>1. [t EXCEPT !.bits = b].bits = b /\ Same(t, [t EXCEPT !.bits = b])
    BY DEF Good, Slicers, Same
  <1>2. Good([t EXCEPT !.bits = b])
    BY BitsGood
  <1> QED
    BY <1>1, <1>2 DEF Told

LEMMA TellAdd ==
  ASSUME NEW rows, NEW t, Told(t, rows), NEW bit \in Bit, Room(More(rows, <<bit>>))
  PROVE  Told(Add(t, bit), More(rows, <<bit>>)) /\ Same(t, Add(t, bit)) /\ HasRow(Add(t, bit))
  <1> DEFINE b == AddBit(t.bits, bit)
  <1>1. More(rows, <<bit>>) \in Messages
    <2>1. <<bit>> \in Seq(Bit)
      OBVIOUS
    <2> QED
      BY <2>1, MoreIs DEF Told
  <1>2. Says(b, More(rows, <<bit>>)) /\ b.num > 0 /\ Apart(b)
    BY AddBitSays, AddBitApart DEF Told, Good
  <1>3. Add(t, bit) = [t EXCEPT !.bits = b]
    BY DEF Add
  <1> HIDE DEF b
  <1> QED
    BY <1>1, <1>2, <1>3, TellBits DEF HasRow, Told

LEMMA TellRun ==
  ASSUME NEW rows, NEW t, Told(t, rows), NEW bit \in Bit, NEW n \in Nat, Room(More(rows, Bits(bit, n)))
  PROVE  LET u == [t EXCEPT !.bits = AddRun(@, bit, n)]
         IN Told(u, More(rows, Bits(bit, n))) /\ Same(t, u) /\ u.bits = AddRun(t.bits, bit, n)
  <1> DEFINE b == AddRun(t.bits, bit, n)
  <1>1. More(rows, Bits(bit, n)) \in Messages
    BY BitsAre, MoreIs DEF Told
  <1>2. Says(b, More(rows, Bits(bit, n))) /\ Apart(b)
    BY AddRunSays, AddRunApart DEF Told, Good
  <1>3. [t EXCEPT !.bits = AddRun(@, bit, n)] = [t EXCEPT !.bits = b]
    OBVIOUS
  <1> HIDE DEF b
  <1>4. LET u == [t EXCEPT !.bits = b] IN Told(u, More(rows, Bits(bit, n))) /\ Same(t, u) /\ u.bits = b
    BY <1>1, <1>2, TellBits DEF Told
  <1> QED
    BY <1>3, <1>4 DEF b

LEMMA TellRow ==
  ASSUME NEW rows, NEW t, Told(t, rows), Fits(rows)
  PROVE  Told(NewRow(t), Append(rows, <<>>)) /\ Same(t, NewRow(t)) /\ HasRow(NewRow(t))
  <1> DEFINE b == AddRow(t.bits)
  <1>1. Append(rows, <<>>) \in Messages
    <2>1. <<>> \in Seq(Bit)
      OBVIOUS
    <2> QED
      BY <2>1, RowIs DEF Told
  <1>2. Says(b, Append(rows, <<>>)) /\ b.num > 0 /\ Apart(b)
    BY AddRowSays, AddRowApart DEF Told, Good
  <1>3. NewRow(t) = [t EXCEPT !.bits = b]
    BY DEF NewRow
  <1> HIDE DEF b
  <1> QED
    BY <1>1, <1>2, <1>3, TellBits DEF HasRow, Told

LEMMA TellSync ==
  ASSUME NEW rows, NEW t, Told(t, rows), LastRow(rows) # <<>> => Fits(rows)
  PROVE  LET u == [t EXCEPT !.bits = AddSync(@)]
             more == IF LastRow(rows) = <<>> THEN rows ELSE Append(rows, <<>>)
         IN Told(u, more) /\ Same(t, u) /\ HasRow(u)
  <1> DEFINE b == AddSync(t.bits)
             more == IF LastRow(rows) = <<>> THEN rows ELSE Append(rows, <<>>)
             u == [t EXCEPT !.bits = b]
  <1>1. more \in Messages
    <2>1. <<>> \in Seq(Bit)
      OBVIOUS
    <2> QED
      BY <2>1, RowIs DEF Told
  <1>2. Says(b, more) /\ b.num > 0 /\ Apart(b)
    BY AddSyncSays, AddSyncApart DEF Told, Good
  <1>3. [t EXCEPT !.bits = AddSync(@)] = u
    OBVIOUS
  <1> HIDE DEF b, more
  <1>4. Told(u, more) /\ Same(t, u) /\ HasRow(u)
    BY <1>1, <1>2, TellBits DEF HasRow, Told
  <1> HIDE DEF u
  <1> QED
    BY <1>3, <1>4 DEF more

(* What is there to hand over. *)
LEMMA TellData ==
  ASSUME NEW rows, NEW t, Told(t, rows), NEW r \in DOMAIN rows, rows[r] # <<>>
  PROVE  /\ HasData(t) /\ HasRow(t) /\ t.bits.num \in Nat
         /\ Len(rows) = 1 => t.bits.len[0] = Len(rows[1]) /\ t.bits.len[0] > 0
  <1> DEFINE n == Len(rows)
             b == t.bits
             u == Started(b)
  <1>1. b \in BitBuffers /\ Apart(b) /\ rows \in Messages /\ Says(b, rows)
    BY DEF Told, Good, Apart
  <1>2. n \in Nat /\ n >= 1 /\ DOMAIN rows = 1 .. n
    BY <1>1, TakenIs DEF Messages
  <1>3. b.num \in Nat /\ b.len[0] \in Nat /\ 0 \in Row /\ u.len = b.len /\ (b.num = 0 => u.num = 1) /\ (b.num > 0 => u = b)
    <2>1. b.num \in Nat /\ b.len[0] \in Nat /\ 0 \in Row
      BY <1>1, Buffer, Sizes
    <2>2. u.len = b.len /\ (b.num = 0 => u.num = 1) /\ (b.num > 0 => u = b)
      BY <1>1 DEF Started, BitBuffers
    <2> QED
      BY <2>1, <2>2
  <1>4. n > 1 => u.num > 1
    BY <1>1, LastSays
  <1>5. n = 1 => u.len[0] = Len(rows[1])
    BY <1>1, LastSays
  <1>6. \A k \in 1 .. n : rows[k] \in Seq(Bit)
    BY <1>1 DEF Messages
  <1>7. n = 1 => b.len[0] > 0
    <2> SUFFICES ASSUME n = 1 PROVE b.len[0] > 0
      OBVIOUS
    <2>1. r = 1 /\ 1 \in 1 .. n
      BY <1>2
    <2>2. Len(rows[1]) # 0 /\ Len(rows[1]) \in Nat
      BY <1>6, <2>1
    <2> QED
      BY <1>3, <1>5, <2>2
  <1>8. b.len[0] > 0 => b.num > 0
    BY <1>1, <1>3 DEF Apart
  <1> HIDE DEF u, b, n
  <1>9. b.num > 0 /\ (b.len[0] > 0 \/ b.num > 1)
    BY <1>2, <1>3, <1>4, <1>7, <1>8
  <1> QED
    BY <1>3, <1>5, <1>7, <1>9 DEF HasData, HasRow, b, n

(* Handing it over. *)
LEMMA TellAccount ==
  ASSUME NEW rows, NEW t, Told(t, rows), HasRow(t), t.out = <<>>
  PROVE  /\ Account(t).out = <<t.bits>> /\ Filled(Contents(t.bits)) = Filled(rows)
         /\ Told(Account(t), <<<<>>>>) /\ Account(t).since = t.since /\ Account(t).half = t.half
         /\ Account(t).phase = t.phase /\ Account(t).seen = t.seen /\ Account(t).bits = Clear
  <1>1. Filled(Contents(t.bits)) = Filled(rows)
    BY FilledSays DEF Told, HasRow
  <1>2. Account(t).out = <<t.bits>>
    BY DEF Account, Told, Good, Slicers
  <1>3. Good(Account(t)) /\ Account(t).bits = Clear
    BY AccountGood DEF Told, Good, Slicers, Account
  <1>4. Account(t).since = t.since /\ Account(t).half = t.half /\ Account(t).phase = t.phase /\ Account(t).seen = t.seen
    BY DEF Account, Told, Good, Slicers
  <1> QED
    BY <1>1, <1>2, <1>3, <1>4, ClearSays DEF Told

LEMMA TellClear ==
  ASSUME NEW t, Good(t), t.bits = Clear
  PROVE  Told(t, <<<<>>>>)
  BY ClearSays DEF Told

(* The fields beside the buffer do not matter to what it says. *)
LEMMA TellSince ==
  ASSUME NEW rows, NEW t, Told(t, rows), NEW x \in Int, NEW u, u = [t EXCEPT !.since = x]
  PROVE  Told(u, rows) /\ u.since = x /\ u.out = t.out /\ u.bits = t.bits
  BY DEF Told, Good, Slicers

LEMMA TellHalf ==
  ASSUME NEW rows, NEW t, Told(t, rows), NEW x \in {0, 1}, NEW u, u = [t EXCEPT !.half = x]
  PROVE  Told(u, rows) /\ u.half = x /\ u.phase = t.phase /\ u.seen = t.seen /\ u.out = t.out
  BY DEF Told, Good, Slicers

LEMMA TellPhase ==
  ASSUME NEW rows, NEW t, Told(t, rows), NEW x \in 0 .. 3, NEW u, u = [t EXCEPT !.phase = x]
  PROVE  /\ Told(u, rows) /\ u.phase = x /\ u.half = t.half /\ u.seen = t.seen /\ u.out = t.out /\ u.bits = t.bits
  BY DEF Told, Good, Slicers

LEMMA TellSeen ==
  ASSUME NEW rows, NEW t, Told(t, rows), NEW x \in Nat, NEW u, u = [t EXCEPT !.seen = x]
  PROVE  Told(u, rows) /\ u.seen = x /\ u.half = t.half /\ u.phase = t.phase /\ u.out = t.out
  BY DEF Told, Good, Slicers

-----------------------------------------------------------------------------
(* Widths a little off, and messages with a little more to them. *)

LEMMA Halves ==
  ASSUME NEW n \in Nat
  PROVE  n \div 2 \in Nat /\ 2 * (n \div 2) <= n /\ n <= 2 * (n \div 2) + 1
  OBVIOUS

LEMMA OffIs == \A i \in Off : i \in Int /\ -1 <= i /\ i <= 1
  BY DEF Off

(* A message with nothing more to it, and one with a bit or a row more. *)
LEMMA Further ==
  ASSUME NEW rows \in Messages
  PROVE  /\ More(rows, <<>>) = rows /\ <<>> \in Seq(Bit) /\ <<0>> \in Seq(Bit) /\ <<1>> \in Seq(Bit)
         /\ \A x \in Seq(Bit) : x \o <<>> = x /\ <<>> \o x = x
         /\ \A x \in Seq(Bit) : Fits(More(rows, x)) => Room(More(rows, x)) /\ Fits(rows) /\ Room(rows)
         /\ \A x, y \in Seq(Bit) : x \o y \in Seq(Bit) /\ More(rows, x \o y) = More(More(rows, x), y)
                                   /\ More(rows, x) \in Messages
                                   /\ (Fits(More(rows, x \o y)) => Fits(More(rows, x)) /\ Room(More(rows, x)))
  <1>1. \A x \in Seq(Bit) : x \o <<>> = x /\ <<>> \o x = x
    BY ONLY EmptySeq, ConcatEmptySeq
  <1>2. \A x \in Seq(Bit) : Fits(More(rows, x)) => Room(More(rows, x)) /\ Fits(rows) /\ Room(rows)
    BY MoreIs, RoomBefore, RoomForRow
  <1>3. \A x, y \in Seq(Bit) : x \o y \in Seq(Bit) /\ More(rows, x \o y) = More(More(rows, x), y)
                               /\ More(rows, x) \in Messages
    BY MoreIs, MoreMore
  <1>4. \A x, y \in Seq(Bit) : Fits(More(rows, x \o y)) => Fits(More(rows, x)) /\ Room(More(rows, x))
    BY <1>3, RoomBefore, RoomForRow
  <1>5. More(rows, <<>>) = rows
    BY MoreNothing
  <1>6. <<>> \in Seq(Bit) /\ <<0>> \in Seq(Bit) /\ <<1>> \in Seq(Bit)
    BY DEF Bit
  <1> QED
    BY <1>1, <1>2, <1>3, <1>4, <1>5, <1>6

-----------------------------------------------------------------------------
(* PPM *)

LEMMA PpmGaps ==
  ASSUME NEW d \in Devices, d.coding = "ppm", Decodable(d), NEW j \in Off
  PROVE  LET w == PpmWindows(d)
         IN /\ Within(d.short + j, w.zero) /\ d.short + j < d.reset
            /\ ~Within(d.long + j, w.zero) /\ Within(d.long + j, w.one) /\ d.long + j < d.reset
            /\ d.sync > 0 => /\ ~Within(d.sync + j, w.zero) /\ ~Within(d.sync + j, w.one)
                             /\ Within(d.sync + j, w.sync) /\ d.sync + j < d.reset
            /\ \A g \in Int : g >= d.reset \/ (d.gap > 0 /\ g >= d.reset - 1) =>
                 ~Within(g, w.zero) /\ ~Within(g, w.one) /\ ~Within(g, w.sync)
  <1> DEFINE m == Between(d.short, d.long)
             a == d.short
             b == d.long
             c == d.sync
             r == d.reset
             h == d.tol
             l == GapLimit(d)
  <1>1. /\ a \in Nat /\ b \in Nat /\ c \in Nat /\ r \in Nat /\ h \in Nat /\ d.gap \in Nat
        /\ j \in Int /\ -1 <= j /\ j <= 1
    BY DeviceWidths, OffIs
  <1>2. h # 1 /\ d.gap + 1 < r /\ (h = 0 => 1 < a /\ a < b /\ c = 0 /\ b + 1 < l)
        /\ Distinct(d, a, b) /\ (c > 0 => Distinct(d, c, a) /\ Distinct(d, c, b))
        /\ a + h < r /\ b + h < r /\ c + h < r
    BY DEF Decodable
  <1>3. m \in Nat /\ 2 * m <= a + b /\ a + b <= 2 * m + 1
    <2>1. a + b \in Nat
      BY <1>1
    <2> QED
      BY <2>1, Halves DEF Between
  <1>4. CASE h > 0
    <2>1. PpmWindows(d) = [zero |-> <<a - h, a + h>>, one |-> <<b - h, b + h>>,
                           sync |-> IF c > 0 THEN <<c - h, c + h>> ELSE <<0, 0>>]
      BY <1>4 DEF PpmWindows, Precise
    <2>2. Dist(a, b) > h /\ (c > 0 => Dist(c, a) > h /\ Dist(c, b) > h)
      BY <1>2, <1>4 DEF Distinct
    <2> HIDE DEF a, b, c, r, h
    <2>3. /\ a + j > a - h /\ a + j < a + h /\ a + j < r
          /\ ~(b + j > a - h /\ b + j < a + h) /\ b + j > b - h /\ b + j < b + h /\ b + j < r
          /\ c > 0 => /\ ~(c + j > a - h /\ c + j < a + h) /\ ~(c + j > b - h /\ c + j < b + h)
                      /\ c + j > c - h /\ c + j < c + h /\ c + j < r
      BY <1>1, <1>2, <1>4, <2>2 DEF Dist
    <2>4. ASSUME NEW g \in Int, g >= r \/ (d.gap > 0 /\ g >= r - 1) PROVE ~(g < a + h) /\ ~(g < b + h) /\ ~(g < c + h)
      BY <1>1, <1>2, <2>4
    <2>5. ASSUME NEW g \in Int, g >= r \/ (d.gap > 0 /\ g >= r - 1) PROVE ~(g > 0 /\ g < 0)
      BY <2>5
    <2> QED
      BY <2>1, <2>3, <2>4, <2>5 DEF Within, a, b, c, r
  <1>5. CASE h = 0
    <2>1. PpmWindows(d) = [zero |-> <<0, m + 1>>, one |-> <<m, l>>, sync |-> <<0, 0>>]
      BY <1>5 DEF PpmWindows
    <2>2. l \in Nat /\ l <= r /\ (l = d.gap \/ l = r)
      BY <1>1, <1>2 DEF GapLimit
    <2> HIDE DEF a, b, c, r, h, l, m
    <2>3. /\ a + j > 0 /\ a + j < m + 1 /\ a + j < r
          /\ ~(b + j < m + 1) /\ b + j > m /\ b + j < l /\ b + j < r /\ c = 0
      <3>1. b >= a + 4
        BY <1>1, <1>2, <1>5 DEF Distinct, Dist, a, b, h
      <3> QED
        BY <1>1, <1>2, <1>3, <1>5, <2>2, <3>1
    <2>4. ASSUME NEW g \in Int, g >= r \/ (d.gap > 0 /\ g >= r - 1) PROVE ~(g < m + 1) /\ ~(g < l) /\ ~(g > 0 /\ g < 0)
      <3>1. m <= b /\ m + 1 < l
        BY <1>1, <1>2, <1>3, <1>5, <2>2
      <3>2. ~(g < l)
        BY <1>1, <1>2, <2>2, <2>4 DEF GapLimit, l
      <3> QED
        BY <1>1, <1>3, <2>2, <2>4, <3>1, <3>2
    <2> QED
      BY <1>1, <2>1, <2>3, <2>4 DEF Within, a, b, c, r
  <1> QED
    BY <1>1, <1>4, <1>5

LEMMA PpmSend ==
  ASSUME NEW d \in Devices, d.coding = "ppm", Decodable(d), NEW rows, NEW t, Told(t, rows),
         NEW q, NEW x \in Pulse(d, q), NEW y \in Gap(d, x.next), NEW i \in Off, NEW j \in Off,
         Fits(More(rows, x.says \o y.says))
  PROVE  /\ Told(Ppm(d, t, x.w + i, y.w + j, 0), More(rows, x.says \o y.says))
         /\ x.says \o y.says \in Seq(Bit)
  <1> DEFINE w == PpmWindows(d)
  <1>1. x.says = <<>> /\ rows \in Messages /\ d.short \in Int /\ d.long \in Int /\ d.reset \in Int
    BY DeviceWidths DEF Pulse, Sym, Told
  <1>2. PICK bit \in Bit : y = Sym(IF bit = 0 THEN d.short ELSE d.long, <<bit>>, 0)
    BY DEF Gap, Bit
  <1>3. y.says = <<bit>> /\ y.w = IF bit = 0 THEN d.short ELSE d.long
    BY <1>2 DEF Sym
  <1>4. <<bit>> \in Seq(Bit)
    OBVIOUS
  <1>5. x.says \o y.says = <<bit>>
    BY <1>1, <1>3, <1>4, Further
  <1>6. Told(Add(t, bit), More(rows, <<bit>>))
    BY <1>1, <1>4, <1>5, Further, TellAdd
  <1>7. Within(y.w + j, w.zero) \/ (~Within(y.w + j, w.zero) /\ Within(y.w + j, w.one))
    BY <1>3, PpmGaps
  <1>8. (Within(y.w + j, w.zero) <=> bit = 0) /\ y.w + j < d.reset /\ y.w + j \in Int
    BY <1>1, <1>3, PpmGaps, OffIs DEF Bit
  <1>9. ~(y.w + j >= d.reset)
    BY <1>1, <1>8
  <1>10. Ppm(d, t, x.w + i, y.w + j, 0) = Add(t, bit)
    <2> HIDE DEF w
    <2> QED
      BY <1>7, <1>8, <1>9 DEF Ppm, w, Bit
  <1> QED
    BY <1>4, <1>5, <1>6, <1>10

LEMMA PpmPause ==
  ASSUME NEW d \in Devices, d.coding = "ppm", Decodable(d), NEW rows, NEW t, Told(t, rows),
         NEW q, NEW x \in Pulse(d, q), NEW i \in Off, d.gap > 0, Fits(rows)
  PROVE  /\ Told(Ppm(d, t, x.w + i, d.reset - 1, 0), Append(rows, <<>>)) /\ x.says = <<>>
  <1> DEFINE w == PpmWindows(d)
             g == d.reset - 1
  <1>1. x.says = <<>> /\ d.reset \in Int
    BY DeviceWidths DEF Pulse, Sym
  <1>2. ~Within(g, w.zero) /\ ~Within(g, w.one) /\ ~Within(g, w.sync)
    <2>1. 0 \in Off /\ g \in Int /\ g >= d.reset - 1
      BY <1>1 DEF Off
    <2> QED
      BY <2>1, PpmGaps
  <1>3. g < d.reset /\ ~(g >= d.reset)
    BY <1>1
  <1>4. Ppm(d, t, x.w + i, g, 0) = NewRow(t)
    <2> HIDE DEF w, g
    <2> QED
      BY <1>2, <1>3 DEF Ppm, w
  <1> QED
    BY <1>1, <1>4, TellRow

LEMMA PpmSync ==
  ASSUME NEW d \in Devices, d.coding = "ppm", Decodable(d), NEW rows, NEW t, Told(t, rows),
         NEW i \in Off, d.sync > 0, NEW p, LastRow(rows) # <<>> => Fits(rows)
  PROVE  Told(Ppm(d, t, p, d.sync + i, 0), IF LastRow(rows) = <<>> THEN rows ELSE Append(rows, <<>>))
  <1> DEFINE w == PpmWindows(d)
             g == d.sync + i
  <1>1. ~Within(g, w.zero) /\ ~Within(g, w.one) /\ Within(g, w.sync) /\ g < d.reset
    BY PpmGaps
  <1>2. ~(g >= d.reset)
    BY <1>1, DeviceWidths, OffIs
  <1>3. Ppm(d, t, p, g, 0) = [t EXCEPT !.bits = AddSync(@)]
    <2> HIDE DEF w, g
    <2> QED
      BY <1>1, <1>2 DEF Ppm, w
  <1> QED
    BY <1>3, TellSync

LEMMA PpmEnd ==
  ASSUME NEW d \in Devices, d.coding = "ppm", Decodable(d), NEW t, NEW p, NEW g \in Int, g >= d.reset, NEW last
  PROVE  Ppm(d, t, p, g, last) = IF HasData(t) THEN Account(t) ELSE t
  <1> DEFINE w == PpmWindows(d)
  <1>1. ~Within(g, w.zero) /\ ~Within(g, w.one) /\ ~Within(g, w.sync)
    <2>1. 0 \in Off
      BY DEF Off
    <2> QED
      BY <2>1, PpmGaps
  <1>2. ~(g < d.reset)
    BY DeviceWidths
  <1> HIDE DEF w
  <1> QED
    BY <1>1, <1>2 DEF Ppm, w

(* What a silence leaves: nothing, if a buffer of one row is not full. *)
LEMMA PpmSilence ==
  ASSUME NEW d \in Devices, d.coding = "ppm", Decodable(d), NEW t, Good(t), NEW p \in Int, NEW g \in Int, g >= d.reset,
         t.bits.num <= 1 => Says(t.bits, <<BitsOf(t.bits, 0)>>), NEW last
  PROVE  Told(Ppm(d, t, p, g, last), <<<<>>>>)
  <1>1. CASE HasData(t)
    <2>1. Good(Account(t)) /\ Account(t).bits = Clear
      BY AccountGood DEF Account, Good, Slicers
    <2> QED
      BY <1>1, <2>1, PpmEnd, TellClear
  <1>2. CASE ~HasData(t)
    <2>1. t.bits.num <= 1 /\ t.bits.len[0] = 0
      <3>1. t.bits.num \in Nat /\ t.bits.len[0] \in Nat
        BY Buffer, Sizes DEF Good, Slicers
      <3> QED
        BY <1>2, <3>1 DEF HasData
    <2>2. BitsOf(t.bits, 0) = <<>>
      BY <2>1 DEF BitsOf
    <2>3. Says(t.bits, <<<<>>>>)
      BY <2>1, <2>2
    <2> QED
      BY <1>2, <2>3, PpmEnd, ClearSays DEF Told
  <1> QED
    BY <1>1, <1>2

-----------------------------------------------------------------------------
(* PWM *)

LEMMA PwmPulses ==
  ASSUME NEW d \in Devices, d.coding = "pwm", Decodable(d), NEW i \in Off, NEW far \in Int
  PROVE  LET w == PwmWindows(d, far)
         IN /\ Within(d.short + i, w.one)
            /\ d.long + i < far => ~Within(d.long + i, w.one) /\ Within(d.long + i, w.zero)
            /\ d.sync > 0 /\ d.sync + i < far =>
                 ~Within(d.sync + i, w.one) /\ ~Within(d.sync + i, w.zero) /\ Within(d.sync + i, w.sync)
  <1> DEFINE s0 == d.short
             l == d.long
             c == d.sync
             h == d.tol
             a == Between(s0, l)
             x == Between(c, s0)
             y == Between(c, l)
             w == PwmWindows(d, far)
  <1>1. s0 \in Nat /\ l \in Nat /\ c \in Nat /\ h \in Nat /\ i \in Int /\ -1 <= i /\ i <= 1
    BY DeviceWidths, OffIs
  <1>2. /\ h # 1 /\ c # 1 /\ (h = 0 => 1 < s0 /\ s0 < l)
        /\ Distinct(d, s0, l) /\ (c > 0 => Distinct(d, c, s0) /\ Distinct(d, c, l))
    BY DEF Decodable
  <1>3. CASE h > 0
    <2>1. w = [one |-> <<s0 - h, s0 + h>>, zero |-> <<l - h, l + h>>,
               sync |-> IF c > 0 THEN <<c - h, c + h>> ELSE <<0, 0>>]
      BY <1>3 DEF PwmWindows, Precise
    <2>2. Dist(s0, l) > h /\ (c > 0 => Dist(c, s0) > h /\ Dist(c, l) > h)
      BY <1>2, <1>3 DEF Distinct
    <2> HIDE DEF s0, l, c, h, w
    <2>3. /\ s0 + i > s0 - h /\ s0 + i < s0 + h
          /\ ~(l + i > s0 - h /\ l + i < s0 + h) /\ l + i > l - h /\ l + i < l + h
          /\ c > 0 => /\ ~(c + i > s0 - h /\ c + i < s0 + h) /\ ~(c + i > l - h /\ c + i < l + h)
                      /\ c + i > c - h /\ c + i < c + h
      BY <1>1, <1>2, <1>3, <2>2 DEF Dist
    <2> QED
      BY <2>1, <2>3 DEF Within, s0, l, c, w
  <1>4. CASE h = 0
    <2>1. /\ a \in Nat /\ 2 * a <= s0 + l /\ s0 + l <= 2 * a + 1
          /\ x \in Nat /\ 2 * x <= c + s0 /\ c + s0 <= 2 * x + 1
          /\ y \in Nat /\ 2 * y <= c + l /\ c + l <= 2 * y + 1
      <3>1. s0 + l \in Nat /\ c + s0 \in Nat /\ c + l \in Nat
        BY <1>1
      <3> HIDE DEF s0, l, c
      <3> QED
        BY <3>1, Halves DEF Between
    <2>2. Dist(s0, l) > 3 /\ (c > 0 => Dist(c, s0) > 3 /\ Dist(c, l) > 3)
      BY <1>2, <1>4 DEF Distinct
    <2>3. l >= s0 + 4 /\ (c > 0 => (c >= s0 + 4 \/ s0 >= c + 4) /\ (c >= l + 4 \/ l >= c + 4))
      <3> HIDE DEF s0, l, c
      <3> QED
        BY <1>1, <1>2, <1>4, <2>2 DEF Dist
    <2>4. CASE c = 0
      <3>1. w = [one |-> <<0, a + 1>>, zero |-> <<a, far>>, sync |-> <<0, 0>>]
        <4>1. ~(c > 0) /\ ~(c >= s0) /\ ~(h > 0)
          BY <1>1, <1>2, <1>4, <2>4
        <4> QED
          BY <1>4, <2>4, <4>1 DEF PwmWindows
      <3> HIDE DEF s0, l, c, h, w, a, x, y
      <3>2. s0 + i > 0 /\ s0 + i < a + 1 /\ ~(l + i < a + 1) /\ l + i > a
        BY <1>1, <1>2, <1>4, <2>1, <2>3
      <3>3. ~(c > 0)
        BY <2>4
      <3> QED
        BY <3>1, <3>2, <3>3 DEF Within, s0, l, c, w
    <2>5. CASE c > 0 /\ c < s0
      <3>1. w = [sync |-> <<0, x + 1>>, one |-> <<x, a + 1>>, zero |-> <<a, far>>]
        <4>1. ~(c = 0) /\ ~(c >= s0) /\ ~(h > 0)
          BY <1>1, <1>4, <2>5
        <4> QED
          BY <1>4, <2>5, <4>1 DEF PwmWindows
      <3> HIDE DEF s0, l, c, h, w, a, x, y
      <3>2. /\ s0 + i > x /\ s0 + i < a + 1 /\ ~(l + i < a + 1) /\ l + i > a
            /\ ~(c + i > x) /\ ~(c + i > a) /\ c + i > 0 /\ c + i < x + 1
        BY <1>1, <1>2, <1>4, <2>1, <2>3, <2>5
      <3> QED
        BY <3>1, <3>2 DEF Within, s0, l, c, w
    <2>6. CASE c > 0 /\ ~(c < s0) /\ c < l
      <3>1. w = [one |-> <<0, x + 1>>, sync |-> <<x, y + 1>>, zero |-> <<y, far>>]
        <4>1. ~(c = 0) /\ c >= s0
          BY <1>1, <2>6
        <4> QED
          BY <1>4, <2>6, <4>1 DEF PwmWindows
      <3> HIDE DEF s0, l, c, h, w, a, x, y
      <3>2. /\ s0 + i > 0 /\ s0 + i < x + 1 /\ ~(l + i < x + 1) /\ l + i > y
            /\ ~(c + i < x + 1) /\ ~(c + i > y) /\ c + i > x /\ c + i < y + 1
        BY <1>1, <1>2, <1>4, <2>1, <2>3, <2>6
      <3> QED
        BY <3>1, <3>2 DEF Within, s0, l, c, w
    <2>7. CASE c > 0 /\ ~(c < s0) /\ ~(c < l)
      <3>1. w = [one |-> <<0, a + 1>>, zero |-> <<a, y + 1>>, sync |-> <<y, far>>]
        <4>1. ~(c = 0)
          BY <1>1, <2>7
        <4> QED
          BY <1>4, <2>7, <4>1 DEF PwmWindows
      <3> HIDE DEF s0, l, c, h, w, a, x, y
      <3>2. /\ s0 + i > 0 /\ s0 + i < a + 1 /\ ~(l + i < a + 1) /\ l + i > a /\ l + i < y + 1
            /\ ~(c + i < a + 1) /\ ~(c + i < y + 1) /\ c + i > y
        BY <1>1, <1>2, <1>4, <2>1, <2>3, <2>7
      <3> QED
        BY <3>1, <3>2 DEF Within, s0, l, c, w
    <2> QED
      BY <1>1, <2>4, <2>5, <2>6, <2>7
  <1> QED
    BY <1>1, <1>3, <1>4

(* A pulse of a bit, whatever gap follows. *)
PwmBit(d, t, bit, g, last) ==
  LET u == Add(t, bit)
  IN CASE last = 1 \/ g > d.reset -> Account(u)
       [] ~(last = 1 \/ g > d.reset) /\ d.gap > 0 /\ g > d.gap -> NewRow(u)
       [] OTHER -> u

LEMMA PwmBits ==
  ASSUME NEW d \in Devices, d.coding = "pwm", NEW q, NEW x \in Pulse(d, q)
  PROVE  \E bit \in Bit : x.says = <<bit>> /\ x.w = (IF bit = 1 THEN d.short ELSE d.long)
  <1>1. x = Sym(d.short, <<1>>, 0) \/ x = Sym(d.long, <<0>>, 0)
    BY DEF Pulse
  <1> QED
    BY <1>1 DEF Sym, Bit

LEMMA PwmPulse ==
  ASSUME NEW d \in Devices, d.coding = "pwm", Decodable(d), NEW rows, NEW t, Told(t, rows),
         NEW bit \in Bit, NEW i \in Off, NEW p, p = (IF bit = 1 THEN d.short ELSE d.long) + i,
         NEW g \in Nat, NEW last, Room(More(rows, <<bit>>))
  PROVE  /\ Told(Add(t, bit), More(rows, <<bit>>)) /\ Same(t, Add(t, bit)) /\ HasRow(Add(t, bit))
         /\ Pwm(d, t, p, g, last) = PwmBit(d, t, bit, g, last)
  <1>1. d.short \in Int /\ d.long \in Int /\ d.reset \in Nat /\ rows \in Messages
    BY DeviceWidths DEF Told
  <1>3. p \in Int
    BY <1>1, OffIs
  <1> DEFINE far == Far(d, p, g)
             w == PwmWindows(d, far)
             u == Add(t, bit)
  <1>4. far \in Int /\ p < far
    <2>1. d.reset > 0
      BY <1>1, DeviceWidths DEF Decodable
    <2> QED
      BY <1>1, <1>3, <2>1 DEF Far
  <1>5. Within(p, w.one) \/ (~Within(p, w.one) /\ Within(p, w.zero))
    BY <1>3, <1>4, PwmPulses
  <1>6. Within(p, w.one) <=> bit = 1
    BY <1>3, <1>4, PwmPulses DEF Bit
  <1>7. Told(u, More(rows, <<bit>>)) /\ Same(t, u) /\ HasRow(u)
    BY TellAdd
  <1>8. HasRowBits(u)
    <2> DEFINE more == More(rows, <<bit>>)
    <2>1. <<bit>> \in Seq(Bit)
      OBVIOUS
    <2>2. LastRow(more) = LastRow(rows) \o <<bit>> /\ LastRow(rows) \in Seq(Bit)
      BY <1>1, <2>1, MoreIs
    <2>3. Len(LastRow(more)) > 0
      BY <2>1, <2>2
    <2> HIDE DEF u, more
    <2>4. u.bits \in BitBuffers /\ u.bits.num > 0 /\ more \in Messages /\ Says(u.bits, more)
      BY <1>7 DEF Told, HasRow, Says, more
    <2>5. Started(u.bits) = u.bits
      BY <2>4, StartedIs
    <2>6. u.bits.len[u.bits.num - 1] = Len(LastRow(more))
      BY <2>4, <2>5, LastSays
    <2> QED
      BY <1>7, <2>3, <2>6 DEF HasRowBits
  <1>9. Pwm(d, t, p, g, last) = PwmBit(d, t, bit, g, last)
    <2> DEFINE v == CASE Within(p, w.one) -> Add(t, 1)
                      [] ~Within(p, w.one) /\ Within(p, w.zero) -> Add(t, 0)
                      [] ~Within(p, w.one) /\ ~Within(p, w.zero) /\ Within(p, w.sync) -> [t EXCEPT !.bits = AddSync(@)]
                      [] ~Within(p, w.one) /\ ~Within(p, w.zero) /\ ~Within(p, w.sync) /\ p > w.one[1] -> NewRow(t)
                      [] OTHER -> t
    <2>1. v = u
      <3> HIDE DEF w
      <3> QED
        BY <1>5, <1>6 DEF Bit
    <2>2. Pwm(d, t, p, g, last) =
            CASE (last = 1 \/ g > d.reset) /\ HasRow(v) -> Account(v)
              [] ~((last = 1 \/ g > d.reset) /\ HasRow(v)) /\ d.gap > 0 /\ g > d.gap /\ HasRowBits(v) -> NewRow(v)
              [] OTHER -> v
      BY DEF Pwm
    <2> HIDE DEF v, w, u
    <2>3. Pwm(d, t, p, g, last) =
            CASE last = 1 \/ g > d.reset -> Account(u)
              [] ~(last = 1 \/ g > d.reset) /\ d.gap > 0 /\ g > d.gap -> NewRow(u)
              [] OTHER -> u
      BY <1>7, <1>8, <2>1, <2>2
    <2> QED
      BY <2>3 DEF PwmBit, u
  <1> QED
    BY <1>7, <1>9

LEMMA OneBit == <<>> \in Seq(Bit) /\ \A bit \in Bit : <<bit>> \in Seq(Bit)
  OBVIOUS

LEMMA SilencesAre ==
  ASSUME NEW d \in Devices, NEW last, NEW y \in Silences(d, last)
  PROVE  /\ y.w \in Nat
         /\ \/ y.w = d.reset + 1 /\ y.says = IF d.coding = "pcm" THEN Bits(0, MaxZeros(d)) ELSE <<>>
            \/ last = 1 /\ y.w = 0 /\ y.says = <<>> /\ d.coding \in {"pcm", "pwm", "manchester"}
         /\ last = 1 \/ y.w > d.reset
  <1>1. d.reset \in Nat
    BY DeviceWidths
  <1>2. CASE y = Silence(d)
    <2>1. y.w = d.reset + 1 /\ y.says = IF d.coding = "pcm" THEN Bits(0, MaxZeros(d)) ELSE <<>>
      BY <1>2 DEF Silence, Pause, Sym
    <2> QED
      BY <1>1, <2>1
  <1>3. CASE y # Silence(d)
    <2>1. last = 1 /\ d.coding \in {"pcm", "pwm", "manchester"} /\ y = Sym(0, <<>>, 0)
      BY <1>3 DEF Silences
    <2> QED
      BY <2>1 DEF Sym
  <1> QED
    BY <1>2, <1>3

(* The decoder has got the message. *)
SomeBits(rows) == \E r \in DOMAIN rows : rows[r] # <<>>
Handed(u, rows) == \E b : u.out = <<b>> /\ Filled(Contents(b)) = Filled(rows)

LEMMA PwmSend ==
  ASSUME NEW d \in Devices, d.coding = "pwm", Decodable(d), NEW rows, NEW t, Told(t, rows),
         NEW q, NEW x \in Pulse(d, q), NEW y \in Gap(d, x.next), NEW i \in Off, NEW j \in Off,
         Fits(More(rows, x.says \o y.says))
  PROVE  /\ Told(Pwm(d, t, x.w + i, y.w + j, 0), More(rows, x.says \o y.says))
         /\ x.says \o y.says \in Seq(Bit)
  <1>0. PICK bit \in Bit : x.says = <<bit>> /\ x.w = (IF bit = 1 THEN d.short ELSE d.long)
    BY PwmBits
  <1>1. y.says = <<>> /\ y.w = d.short /\ rows \in Messages
    BY DEF Gap, Sym, Told
  <1>2. x.says \in Seq(Bit)
    <2>1. x.says \in {<<0>>, <<1>>}
      BY DEF Pulse, Sym
    <2> QED
      BY <2>1, OneBit DEF Bit
  <1>3. x.says \o y.says = x.says /\ Room(More(rows, x.says))
    <2>1. x.says \o y.says = x.says
      BY <1>1, <1>2, Further
    <2> QED
      BY <1>1, <1>2, <2>1, Further
  <1> DEFINE g == y.w + j
  <1>4. g \in Nat /\ ~(g > d.reset) /\ ~(d.gap > 0 /\ g > d.gap)
    <2>1. /\ d.short \in Nat /\ d.short > 0 /\ d.gap \in Nat /\ d.reset \in Nat /\ d.gap + 1 < d.reset
          /\ d.short < GapLimit(d) /\ j \in Int /\ -1 <= j /\ j <= 1
      BY DeviceWidths, OffIs DEF Decodable
    <2>2. GapLimit(d) = IF d.gap > 0 THEN d.gap ELSE d.reset
      BY DEF GapLimit
    <2> QED
      BY <1>1, <2>1, <2>2
  <1> HIDE DEF g
  <1>5. /\ Told(Add(t, bit), More(rows, <<bit>>))
        /\ Pwm(d, t, x.w + i, g, 0) = PwmBit(d, t, bit, g, 0)
    BY <1>0, <1>3, <1>4, PwmPulse
  <1>6. PwmBit(d, t, bit, g, 0) = Add(t, bit)
    BY <1>4 DEF PwmBit
  <1> QED
    BY <1>0, <1>2, <1>3, <1>5, <1>6 DEF g

LEMMA PwmPause ==
  ASSUME NEW d \in Devices, d.coding = "pwm", Decodable(d), NEW rows, NEW t, Told(t, rows),
         NEW q, NEW x \in Pulse(d, q), NEW i \in Off, d.gap > 0, Fits(More(rows, x.says))
  PROVE  Told(Pwm(d, t, x.w + i, d.reset - 1, 0), Append(More(rows, x.says), <<>>))
  <1> DEFINE g == d.reset - 1
  <1>0. PICK bit \in Bit : x.says = <<bit>> /\ x.w = (IF bit = 1 THEN d.short ELSE d.long)
    BY PwmBits
  <1>1. g \in Nat /\ ~(g > d.reset) /\ d.gap > 0 /\ g > d.gap
    <2>1. d.gap \in Nat /\ d.reset \in Nat /\ d.gap + 1 < d.reset
      BY DeviceWidths DEF Decodable
    <2> QED
      BY <2>1
  <1> HIDE DEF g
  <1>2. x.says \in Seq(Bit) /\ rows \in Messages
    <2>1. x.says \in {<<0>>, <<1>>}
      BY DEF Pulse, Sym
    <2> QED
      BY <2>1, OneBit DEF Bit, Told
  <1>3. Room(More(rows, x.says))
    BY <1>2, Further
  <1>4. /\ Told(Add(t, bit), More(rows, <<bit>>))
        /\ Pwm(d, t, x.w + i, g, 0) = PwmBit(d, t, bit, g, 0)
    BY <1>0, <1>1, <1>3, PwmPulse
  <1>5. PwmBit(d, t, bit, g, 0) = NewRow(Add(t, bit))
    BY <1>1 DEF PwmBit
  <1>6. Told(NewRow(Add(t, bit)), Append(More(rows, <<bit>>), <<>>))
    BY <1>0, <1>4, TellRow
  <1> QED
    BY <1>0, <1>4, <1>5, <1>6 DEF g

LEMMA PwmSync ==
  ASSUME NEW d \in Devices, d.coding = "pwm", Decodable(d), NEW rows, NEW t, Told(t, rows),
         NEW i \in Off, d.sync > 0, LastRow(rows) # <<>> => Fits(rows)
  PROVE  Told(Pwm(d, t, d.sync + i, d.short, 0), IF LastRow(rows) = <<>> THEN rows ELSE Append(rows, <<>>))
  <1> DEFINE g == d.short
             p == d.sync + i
             far == Far(d, p, g)
             w == PwmWindows(d, far)
             u == [t EXCEPT !.bits = AddSync(@)]
  <1>1. /\ g \in Nat /\ g > 0 /\ d.gap \in Nat /\ d.reset \in Nat /\ d.gap + 1 < d.reset
        /\ g < GapLimit(d) /\ i \in Int /\ d.sync \in Nat
    BY DeviceWidths, OffIs DEF Decodable
  <1>2. ~(g > d.reset) /\ ~(d.gap > 0 /\ g > d.gap)
    <2>1. GapLimit(d) = IF d.gap > 0 THEN d.gap ELSE d.reset
      BY DEF GapLimit
    <2> QED
      BY <1>1, <2>1
  <1>3. p \in Int /\ far \in Int /\ p < far
    BY <1>1 DEF Far
  <1>4. ~Within(p, w.one) /\ ~Within(p, w.zero) /\ Within(p, w.sync)
    BY <1>3, PwmPulses
  <1>5. Told(u, IF LastRow(rows) = <<>> THEN rows ELSE Append(rows, <<>>))
    BY TellSync
  <1>6. Pwm(d, t, p, g, 0) = u
    <2> HIDE DEF w, p, g, far
    <2>1. PwmWindows(d, Far(d, p, g)) = w
      BY DEF w, far
    <2> QED
      BY <1>2, <1>4, <2>1 DEF Pwm
  <1> QED
    BY <1>5, <1>6

LEMMA PwmFinish ==
  ASSUME NEW d \in Devices, d.coding = "pwm", Decodable(d), NEW rows, NEW t, Told(t, rows), t.out = <<>>,
         NEW q, NEW x \in Pulse(d, q), NEW last, NEW y \in Silences(d, last), NEW i \in Off,
         Fits(More(rows, x.says \o y.says))
  PROVE  Handed(Pwm(d, t, x.w + i, y.w, last), More(rows, x.says \o y.says))
  <1>0. PICK bit \in Bit : x.says = <<bit>> /\ x.w = (IF bit = 1 THEN d.short ELSE d.long)
    BY PwmBits
  <1>1. y.says = <<>> /\ y.w \in Nat /\ rows \in Messages /\ (last = 1 \/ y.w > d.reset)
    BY SilencesAre DEF Told
  <1>2. x.says \in Seq(Bit)
    <2>1. x.says \in {<<0>>, <<1>>}
      BY DEF Pulse, Sym
    <2> QED
      BY <2>1, OneBit DEF Bit
  <1>3. x.says \o y.says = x.says /\ Room(More(rows, x.says))
    <2>1. x.says \o y.says = x.says
      BY <1>1, <1>2, Further
    <2> QED
      BY <1>1, <1>2, <2>1, Further
  <1>4. /\ Told(Add(t, bit), More(rows, <<bit>>)) /\ Same(t, Add(t, bit)) /\ HasRow(Add(t, bit))
        /\ Pwm(d, t, x.w + i, y.w, last) = PwmBit(d, t, bit, y.w, last)
    BY <1>0, <1>1, <1>3, PwmPulse
  <1>5. PwmBit(d, t, bit, y.w, last) = Account(Add(t, bit))
    BY <1>1 DEF PwmBit
  <1>6. Add(t, bit).out = <<>>
    BY <1>4 DEF Same
  <1>7. /\ Account(Add(t, bit)).out = <<Add(t, bit).bits>>
        /\ Filled(Contents(Add(t, bit).bits)) = Filled(More(rows, <<bit>>))
    BY <1>4, <1>6, TellAccount
  <1> QED
    BY <1>0, <1>3, <1>4, <1>5, <1>7 DEF Handed

(* Without rows, there is nothing in the buffer. *)
LEMMA Rowless ==
  ASSUME NEW t, Good(t), ~HasRow(t)
  PROVE  t.bits = Clear
  <1>1. t.bits.num \in Nat /\ ~(t.bits.num > 0)
    BY Buffer DEF Good, Slicers, HasRow
  <1>2. t.bits.num = 0
    BY <1>1
  <1> QED
    BY <1>2 DEF Good, Apart

LEMMA AccountClear ==
  ASSUME NEW t, Good(t)
  PROVE  Good(Account(t)) /\ Account(t).bits = Clear /\ Told(Account(t), <<<<>>>>)
         /\ Account(t).phase = t.phase /\ Account(t).half = t.half /\ Account(t).since = t.since
  <1>1. Good(Account(t)) /\ Account(t).bits = Clear
    BY AccountGood DEF Account, Good, Slicers
  <1>2. Account(t).phase = t.phase /\ Account(t).half = t.half /\ Account(t).since = t.since
    BY DEF Account, Good, Slicers
  <1> QED
    BY <1>1, <1>2, TellClear

LEMMA PwmSilence ==
  ASSUME NEW d \in Devices, d.coding = "pwm", NEW t, Good(t), NEW p \in Int, NEW g \in Int, g > d.reset, NEW last
  PROVE  Told(Pwm(d, t, p, g, last), <<<<>>>>)
  <1> DEFINE w == PwmWindows(d, Far(d, p, g))
             u == CASE Within(p, w.one) -> Add(t, 1)
                    [] ~Within(p, w.one) /\ Within(p, w.zero) -> Add(t, 0)
                    [] ~Within(p, w.one) /\ ~Within(p, w.zero) /\ Within(p, w.sync) -> [t EXCEPT !.bits = AddSync(@)]
                    [] ~Within(p, w.one) /\ ~Within(p, w.zero) /\ ~Within(p, w.sync) /\ p > w.one[1] -> NewRow(t)
                    [] OTHER -> t
  <1>1. Good(u)
    BY AddGood, NewRowGood, SyncGood
  <1>2. Pwm(d, t, p, g, last) =
          CASE (last = 1 \/ g > d.reset) /\ HasRow(u) -> Account(u)
            [] ~((last = 1 \/ g > d.reset) /\ HasRow(u)) /\ d.gap > 0 /\ g > d.gap /\ HasRowBits(u) -> NewRow(u)
            [] OTHER -> u
    BY DEF Pwm
  <1> HIDE DEF u
  <1>3. CASE HasRow(u)
    <2>1. Pwm(d, t, p, g, last) = Account(u)
      BY <1>2, <1>3
    <2> QED
      BY <1>1, <2>1, AccountClear
  <1>4. CASE ~HasRow(u)
    <2>1. ~HasRowBits(u)
      BY <1>4 DEF HasRowBits
    <2>2. Pwm(d, t, p, g, last) = u
      BY <1>2, <1>4, <2>1
    <2> QED
      BY <1>1, <1>4, <2>2, Rowless, TellClear
  <1> QED
    BY <1>3, <1>4

-----------------------------------------------------------------------------
(* How many widths there are in what is about so many of them, and in what is
   at least so many. *)

LEMMA DivIs ==
  ASSUME NEW a \in Int, NEW w \in Nat \ {0}, NEW k \in Nat, k * w <= a, a < k * w + w
  PROVE  a \div w = k
  <1> DEFINE q == a \div w
  <1>1. k * w \in Nat /\ a \in Nat
    OBVIOUS
  <1>2. q \in Nat /\ q * w <= a /\ a < q * w + w /\ q * w \in Nat
    BY <1>1, Quotient
  <1> HIDE DEF q
  <1>3. CASE q < k
    <2>1. (q + 1) * w <= k * w /\ (q + 1) * w = q * w + w
      BY <1>2, <1>3, Mono
    <2> QED
      BY <1>1, <1>2, <2>1
  <1>4. CASE k < q
    <2>1. (k + 1) * w <= q * w /\ (k + 1) * w = k * w + w
      BY <1>2, <1>4, Mono
    <2> QED
      BY <1>1, <1>2, <2>1
  <1>5. q = k
    BY <1>2, <1>3, <1>4
  <1> QED
    BY <1>5 DEF q

LEMMA PeriodsAre ==
  ASSUME NEW x \in Int, NEW w \in Nat \ {0}, NEW k \in Nat, 2 * (k * w) <= 2 * x + w, 2 * x < 2 * (k * w) + w
  PROVE  Periods(x, w) = k
  <1>1. k * w \in Nat
    BY Mono
  <1>2. k * (2 * w) = 2 * (k * w) /\ 2 * w \in Nat \ {0} /\ 2 * x + w \in Int
    <2>1. 2 * w \in Nat \ {0}
      OBVIOUS
    <2> QED
      BY <2>1
  <1> DEFINE a == 2 * x + w
             v == 2 * w
  <1>3. k * v <= a /\ a < k * v + v /\ ~(a < 0)
    BY <1>1, <1>2
  <1>4. a \in Int /\ v \in Nat \ {0}
    BY <1>2
  <1> HIDE DEF a, v
  <1>5. a \div v = k
    BY <1>3, <1>4, DivIs
  <1> QED
    BY <1>3, <1>5 DEF Periods, a, v

LEMMA PeriodsAtLeast ==
  ASSUME NEW x \in Int, NEW w \in Nat \ {0}, NEW k \in Nat, k * w <= x
  PROVE  Periods(x, w) >= k /\ Periods(x, w) \in Nat
  <1> DEFINE a == 2 * x + w
             v == 2 * w
             q == a \div v
  <1>1. k * w \in Nat
    BY Mono
  <1>2. k * v = 2 * (k * w) /\ v \in Nat \ {0}
    <2>1. v \in Nat \ {0}
      OBVIOUS
    <2> QED
      BY <2>1
  <1>3. a \in Nat /\ k * v <= a /\ ~(a < 0) /\ k * v \in Nat
    BY <1>1, <1>2
  <1> HIDE DEF a, v
  <1>4. q \in Nat /\ q * v <= a /\ a < q * v + v /\ q * v \in Nat
    BY <1>2, <1>3, Quotient
  <1> HIDE DEF q
  <1>5. q >= k
    <2> SUFFICES ASSUME q + 1 <= k PROVE FALSE
      BY <1>4
    <2>1. (q + 1) * v <= k * v /\ (q + 1) * v = q * v + v
      BY <1>2, <1>4, Mono
    <2> QED
      BY <1>2, <1>3, <1>4, <2>1
  <1>6. Periods(x, w) = q
    BY <1>3 DEF Periods, q, a, v
  <1> QED
    BY <1>4, <1>5, <1>6

-----------------------------------------------------------------------------
(* PCM *)

PcmUnit(d) == IF d.short = d.long THEN d.fit ELSE d.short

LEMMA PcmDevice ==
  ASSUME NEW d \in Devices, d.coding = "pcm", Decodable(d)
  PROVE  /\ d.short \in Nat /\ d.long \in Nat /\ d.reset \in Nat /\ d.gap \in Nat /\ d.fit \in Nat \ {0} /\ d.clock \in Nat
         /\ 2 < d.short /\ d.short <= d.long /\ d.gap + 1 < d.reset
         /\ d.short < d.long => Tolerance(d) > 0
         /\ Tolerance(d) \in Nat
         /\ 2 * (Dist(d.clock, d.long) + 2 * Dist(d.clock, d.fit) + 1) < d.fit
         /\ MaxZeros(d) \in Nat /\ MaxZeros(d) >= 1 /\ GapLimit(d) \in Nat
         /\ d.short = d.long => 2 <= MaxZeros(d) /\ (d.clock - d.short) + 2 * d.clock < GapLimit(d)
         /\ d.short # d.long => (d.clock - d.short) + d.clock < GapLimit(d)
         /\ MaxZeros(d) * d.fit < d.reset + d.short - d.long
         /\ GapLimit(d) <= d.reset /\ (d.gap > 0 => GapLimit(d) = d.gap)
  <1>1. /\ d.short \in Nat /\ d.long \in Nat /\ d.reset \in Nat /\ d.gap \in Nat /\ d.fit \in Nat \ {0} /\ d.clock \in Nat
        /\ d.tol \in Nat
    BY DeviceWidths
  <1>2. GapLimit(d) \in Nat /\ GapLimit(d) <= d.reset /\ (d.gap > 0 => GapLimit(d) = d.gap)
    BY <1>1 DEF GapLimit, Decodable
  <1>3. MaxZeros(d) \in Nat
    <2>1. d.long \in Nat \ {0}
      BY DeviceWidths
    <2> QED
      BY <1>2, <2>1 DEF MaxZeros
  <1>4. Tolerance(d) \in Nat
    BY <1>1 DEF Tolerance
  <1> QED
    BY <1>1, <1>2, <1>3, <1>4 DEF Decodable

LEMMA PcmPulses ==
  ASSUME NEW d \in Devices, d.coding = "pcm", Decodable(d), NEW q, NEW x \in Pulse(d, q), NEW i \in Off
  PROVE  /\ x.w + i \in Int /\ ~(d.short # d.long /\ Dist(x.w + i, d.short) > Tolerance(d))
         /\ \E h \in 1 .. 2 : x.says = Bits(1, h) /\ Periods(x.w + i, PcmUnit(d)) = h
  <1> USE PcmDevice, OffIs
  <1>1. CASE d.short # d.long
    <2>1. x = Sym(d.short, <<1>>, 0)
      BY <1>1 DEF Pulse
    <2>2. x.w = d.short /\ x.says = Bits(1, 1)
      BY <2>1, BitsAre DEF Sym, Bit
    <2>3. Periods(d.short + i, d.short) = 1
      <3>1. d.short + i \in Int /\ d.short \in Nat \ {0} /\ 1 * d.short = d.short
        OBVIOUS
      <3> QED
        BY <3>1, PeriodsAre
    <2>4. ~(Dist(d.short + i, d.short) > Tolerance(d))
      <3>1. Tolerance(d) \in Nat /\ Tolerance(d) >= 1 /\ d.short \in Nat
        BY <1>1
      <3>2. Dist(d.short + i, d.short) <= 1 /\ Dist(d.short + i, d.short) \in Nat
        BY <3>1 DEF Dist
      <3> QED
        BY <3>1, <3>2
    <2> QED
      BY <1>1, <2>2, <2>3, <2>4 DEF PcmUnit
  <1>2. CASE d.short = d.long
    <2>1. PICK h \in 1 .. 2 : x = Sym(h * d.clock, Bits(1, h), 0)
      BY <1>2 DEF Pulse
    <2>2. x.w = h * d.clock /\ x.says = Bits(1, h)
      BY <2>1 DEF Sym
    <2>3. Periods(h * d.clock + i, d.fit) = h
      <3>1. 2 * (2 * Dist(d.clock, d.fit) + 1) < d.fit /\ Dist(d.clock, d.long) \in Nat
        BY DEF Dist
      <3>2. CASE h = 1
        <4>1. 1 * d.clock = d.clock /\ 1 * d.fit = d.fit
          OBVIOUS
        <4>2. d.clock + i \in Int /\ 2 * (1 * d.fit) <= 2 * (d.clock + i) + d.fit /\ 2 * (d.clock + i) < 2 * (1 * d.fit) + d.fit
          BY <3>1 DEF Dist
        <4> QED
          BY <3>2, <4>1, <4>2, PeriodsAre
      <3>3. CASE h = 2
        <4>1. 2 * d.clock + i \in Int /\ 2 * (2 * d.fit) <= 2 * (2 * d.clock + i) + d.fit
              /\ 2 * (2 * d.clock + i) < 2 * (2 * d.fit) + d.fit
          BY <3>1 DEF Dist
        <4> QED
          BY <3>3, <4>1, PeriodsAre
      <3> QED
        BY <3>2, <3>3
    <2>4. h * d.clock + i \in Int
      OBVIOUS
    <2> QED
      BY <1>2, <2>2, <2>3, <2>4 DEF PcmUnit
  <1> QED
    BY <1>1, <1>2

PcmLows(d, g) == Lesser(Periods(g + d.short - d.long, d.fit), MaxZeros(d))

LEMMA PcmGaps ==
  ASSUME NEW d \in Devices, d.coding = "pcm", Decodable(d), NEW q, NEW y \in Gap(d, q), NEW j \in Off
  PROVE  /\ y.w + j \in Int /\ ~(y.w + j > GapLimit(d)) /\ ~(y.w + j > d.reset)
         /\ \E k \in 0 .. 2 : y.says = Bits(0, k) /\ PcmLows(d, y.w + j) = k
  <1> USE PcmDevice, OffIs
  <1>1. PICK k \in IF d.short = d.long THEN 1 .. 2 ELSE 0 .. 1 :
          y = Sym((d.clock - d.short) + k * d.clock, Bits(0, k), 0)
    BY DEF Gap
  <1> DEFINE g == y.w + j
             e == g + d.short - d.long
  <1>2. /\ y.w = (d.clock - d.short) + k * d.clock /\ y.says = Bits(0, k) /\ k \in 0 .. 2 /\ k <= MaxZeros(d)
        /\ (d.short # d.long => k \in 0 .. 1)
    BY <1>1 DEF Sym
  <1>3. g \in Int /\ e \in Int /\ e = (d.clock - d.long) + k * d.clock + j
    BY <1>2
  <1>4. ~(g > GapLimit(d))
    <2>1. CASE d.short = d.long
      BY <1>2, <2>1
    <2>2. CASE d.short # d.long
      BY <1>2, <2>2
    <2> QED
      BY <2>1, <2>2
  <1>5. ~(g > d.reset)
    BY <1>3, <1>4
  <1>6. Periods(e, d.fit) = k
    <2>1. 2 * (Dist(d.clock, d.long) + 2 * Dist(d.clock, d.fit) + 1) < d.fit
      OBVIOUS
    <2>2. k = 0 \/ k = 1 \/ k = 2
      BY <1>2
    <2>3. 0 * d.clock = 0 /\ 0 * d.fit = 0 /\ 1 * d.clock = d.clock /\ 1 * d.fit = d.fit
      OBVIOUS
    <2> HIDE DEF e
    <2>4. CASE k = 0
      <3>1. 2 * (k * d.fit) <= 2 * e + d.fit /\ 2 * e < 2 * (k * d.fit) + d.fit
        BY <1>3, <2>1, <2>3, <2>4 DEF Dist
      <3> QED
        BY <1>3, <2>4, <3>1, PeriodsAre
    <2>5. CASE k = 1
      <3>1. 2 * (k * d.fit) <= 2 * e + d.fit /\ 2 * e < 2 * (k * d.fit) + d.fit
        BY <1>3, <2>1, <2>3, <2>5 DEF Dist
      <3> QED
        BY <1>3, <2>5, <3>1, PeriodsAre
    <2>6. CASE k = 2
      <3>1. 2 * (k * d.fit) <= 2 * e + d.fit /\ 2 * e < 2 * (k * d.fit) + d.fit
        BY <1>3, <2>1, <2>6 DEF Dist
      <3> QED
        BY <1>3, <2>6, <3>1, PeriodsAre
    <2> QED
      BY <2>2, <2>4, <2>5, <2>6
  <1>7. PcmLows(d, g) = k
    BY <1>2, <1>6 DEF PcmLows, Lesser
  <1> QED
    BY <1>2, <1>3, <1>4, <1>5, <1>7

LEMMA PcmSilences ==
  ASSUME NEW d \in Devices, d.coding = "pcm", Decodable(d)
  PROVE  /\ \A g \in Int : g >= d.reset - 1 => PcmLows(d, g) = MaxZeros(d)
         /\ PcmLows(d, 0) = 0
  <1> USE PcmDevice
  <1>1. ASSUME NEW g \in Int, g >= d.reset - 1 PROVE PcmLows(d, g) = MaxZeros(d)
    <2> DEFINE e == g + d.short - d.long
    <2>1. e \in Int /\ MaxZeros(d) * d.fit \in Nat /\ MaxZeros(d) * d.fit <= e
      <3>1. MaxZeros(d) * d.fit \in Nat
        BY Mono
      <3> QED
        BY <1>1, <3>1
    <2>2. Periods(e, d.fit) >= MaxZeros(d) /\ Periods(e, d.fit) \in Nat
      <3> HIDE DEF e
      <3> QED
        BY <2>1, PeriodsAtLeast
    <2> QED
      BY <2>2 DEF PcmLows, Lesser
  <1>2. PcmLows(d, 0) = 0
    <2> DEFINE e == 0 + d.short - d.long
    <2>1. e \in Int /\ e <= 0
      OBVIOUS
    <2>2. Periods(e, d.fit) = 0
      <3>1. CASE 2 * e + d.fit < 0
        BY <3>1 DEF Periods
      <3>2. CASE ~(2 * e + d.fit < 0)
        <4>1. 0 * d.fit = 0
          OBVIOUS
        <4>2. 2 * (0 * d.fit) <= 2 * e + d.fit /\ 2 * e < 2 * (0 * d.fit) + d.fit
          BY <2>1, <3>2, <4>1
        <4> HIDE DEF e
        <4> QED
          BY <2>1, <4>2, PeriodsAre
      <3> QED
        BY <3>1, <3>2
    <2> QED
      BY <2>2 DEF PcmLows, Lesser
  <1> QED
    BY <1>1, <1>2

PcmRun(d, t, p, g) == AddRun(AddRun(t.bits, 1, Periods(p, PcmUnit(d))), 0, PcmLows(d, g))
PcmRow(d, t, p, g) ==
  IF g > GapLimit(d) /\ g <= d.reset THEN [t EXCEPT !.bits = AddRow(PcmRun(d, t, p, g))]
  ELSE [t EXCEPT !.bits = PcmRun(d, t, p, g)]

LEMMA PcmIs ==
  ASSUME NEW d, NEW t, NEW p, NEW g, NEW last, ~(d.short # d.long /\ Dist(p, d.short) > Tolerance(d))
  PROVE  Pcm(d, t, p, g, last) =
           LET u == PcmRow(d, t, p, g) IN IF (last = 1 \/ g > d.reset) /\ HasData(u) THEN Account(u) ELSE u
  <1> DEFINE b == PcmRun(d, t, p, g)
             u == CASE d.short # d.long /\ Dist(p, d.short) > Tolerance(d) -> [t EXCEPT !.bits = Clear]
                    [] g > GapLimit(d) /\ g <= d.reset
                       /\ ~(d.short # d.long /\ Dist(p, d.short) > Tolerance(d)) -> [t EXCEPT !.bits = AddRow(b)]
                    [] OTHER -> [t EXCEPT !.bits = b]
  <1>1. Pcm(d, t, p, g, last) = IF (last = 1 \/ g > d.reset) /\ HasData(u) THEN Account(u) ELSE u
    BY DEF Pcm, PcmRun, PcmLows, PcmUnit
  <1> HIDE DEF b
  <1>2. u = IF g > GapLimit(d) /\ g <= d.reset THEN [t EXCEPT !.bits = AddRow(b)] ELSE [t EXCEPT !.bits = b]
    <2>1. CASE g > GapLimit(d) /\ g <= d.reset
      BY <2>1
    <2>2. CASE ~(g > GapLimit(d) /\ g <= d.reset)
      BY <2>2
    <2> QED
      BY <2>1, <2>2
  <1>3. u = PcmRow(d, t, p, g)
    BY <1>2 DEF PcmRow, b
  <1> HIDE DEF u
  <1> QED
    BY <1>1, <1>3

LEMMA PcmTold ==
  ASSUME NEW d \in Devices, d.coding = "pcm", NEW rows, NEW t, Told(t, rows), NEW p, NEW g,
         NEW h \in Nat, NEW k \in Nat, Periods(p, PcmUnit(d)) = h, PcmLows(d, g) = k,
         Room(More(rows, Bits(1, h) \o Bits(0, k)))
  PROVE  LET u == [t EXCEPT !.bits = PcmRun(d, t, p, g)]
         IN Told(u, More(rows, Bits(1, h) \o Bits(0, k))) /\ Same(t, u)
  <1> DEFINE v == [t EXCEPT !.bits = AddRun(@, 1, h)]
             w == [v EXCEPT !.bits = AddRun(@, 0, k)]
             u == [t EXCEPT !.bits = PcmRun(d, t, p, g)]
  <1>1. Bits(1, h) \in Seq(Bit) /\ Bits(0, k) \in Seq(Bit) /\ 0 \in Bit /\ 1 \in Bit /\ rows \in Messages
    BY BitsAre DEF Bit, Told
  <1>2. /\ More(rows, Bits(1, h) \o Bits(0, k)) = More(More(rows, Bits(1, h)), Bits(0, k))
        /\ More(rows, Bits(1, h)) \in Messages
    BY <1>1, Further
  <1>3. Room(More(rows, Bits(1, h)))
    BY <1>1, <1>2, RoomBefore
  <1>4. Told(v, More(rows, Bits(1, h))) /\ Same(t, v) /\ v.bits = AddRun(t.bits, 1, h)
    BY <1>1, <1>3, TellRun
  <1> HIDE DEF v
  <1>5. Told(w, More(More(rows, Bits(1, h)), Bits(0, k))) /\ Same(v, w) /\ w.bits = AddRun(v.bits, 0, k)
    BY <1>1, <1>2, <1>4, TellRun
  <1>6. u = w
    <2>1. u = [t EXCEPT !.bits = AddRun(AddRun(t.bits, 1, h), 0, k)]
      BY DEF PcmRun
    <2>2. v = [t EXCEPT !.bits = v.bits]
      BY <1>4 DEF v
    <2> DEFINE c == AddRun(v.bits, 0, k)
    <2>3. w = [v EXCEPT !.bits = c] /\ u = [t EXCEPT !.bits = c]
      BY <1>4, <2>1
    <2> HIDE DEF c, u, w
    <2> QED
      BY <2>2, <2>3
  <1> HIDE DEF u, w
  <1>7. Told(u, More(rows, Bits(1, h) \o Bits(0, k))) /\ Same(t, u)
    BY <1>2, <1>4, <1>5, <1>6 DEF Same
  <1> QED
    BY <1>7 DEF u

LEMMA PcmSend ==
  ASSUME NEW d \in Devices, d.coding = "pcm", Decodable(d), NEW rows, NEW t, Told(t, rows),
         NEW q, NEW x \in Pulse(d, q), NEW y \in Gap(d, x.next), NEW i \in Off, NEW j \in Off,
         Fits(More(rows, x.says \o y.says))
  PROVE  /\ Told(Pcm(d, t, x.w + i, y.w + j, 0), More(rows, x.says \o y.says))
         /\ x.says \o y.says \in Seq(Bit)
  <1> DEFINE p == x.w + i
             g == y.w + j
  <1>1. ~(d.short # d.long /\ Dist(p, d.short) > Tolerance(d))
    BY PcmPulses
  <1>2. PICK h \in 1 .. 2 : x.says = Bits(1, h) /\ Periods(p, PcmUnit(d)) = h
    BY PcmPulses
  <1>3. ~(g > GapLimit(d)) /\ ~(g > d.reset)
    BY PcmGaps
  <1>4. PICK k \in 0 .. 2 : y.says = Bits(0, k) /\ PcmLows(d, g) = k
    BY PcmGaps
  <1> HIDE DEF p, g
  <1>5. h \in Nat /\ k \in Nat /\ Bits(1, h) \in Seq(Bit) /\ Bits(0, k) \in Seq(Bit) /\ rows \in Messages
    <2>1. h \in Nat /\ k \in Nat /\ 0 \in Bit /\ 1 \in Bit
      BY DEF Bit
    <2> QED
      BY <2>1, BitsAre DEF Told
  <1>6. x.says \o y.says \in Seq(Bit) /\ Room(More(rows, Bits(1, h) \o Bits(0, k)))
    BY <1>2, <1>4, <1>5, Further
  <1>7. Told([t EXCEPT !.bits = PcmRun(d, t, p, g)], More(rows, Bits(1, h) \o Bits(0, k)))
    BY <1>2, <1>4, <1>5, <1>6, PcmTold
  <1>8. Pcm(d, t, p, g, 0) = [t EXCEPT !.bits = PcmRun(d, t, p, g)]
    <2>1. Pcm(d, t, p, g, 0) = PcmRow(d, t, p, g)
      BY <1>1, <1>3, PcmIs
    <2> QED
      BY <1>3, <2>1 DEF PcmRow
  <1> QED
    BY <1>2, <1>4, <1>6, <1>7, <1>8 DEF p, g

LEMMA PcmPause ==
  ASSUME NEW d \in Devices, d.coding = "pcm", Decodable(d), NEW rows, NEW t, Told(t, rows), d.gap > 0,
         NEW q, NEW x \in Pulse(d, q), NEW i \in Off, Fits(More(rows, x.says \o Bits(0, MaxZeros(d))))
  PROVE  /\ Told(Pcm(d, t, x.w + i, d.reset - 1, 0), Append(More(rows, x.says \o Bits(0, MaxZeros(d))), <<>>))
         /\ x.says \o Bits(0, MaxZeros(d)) \in Seq(Bit)
  <1> DEFINE p == x.w + i
             g == d.reset - 1
             k == MaxZeros(d)
  <1>1. ~(d.short # d.long /\ Dist(p, d.short) > Tolerance(d))
    BY PcmPulses
  <1>2. PICK h \in 1 .. 2 : x.says = Bits(1, h) /\ Periods(p, PcmUnit(d)) = h
    BY PcmPulses
  <1>3. g \in Int /\ g >= d.reset - 1 /\ g > GapLimit(d) /\ g <= d.reset /\ ~(g > d.reset)
    BY PcmDevice
  <1>4. PcmLows(d, g) = k
    BY <1>3, PcmSilences
  <1>5. h \in Nat /\ k \in Nat /\ Bits(1, h) \in Seq(Bit) /\ Bits(0, k) \in Seq(Bit) /\ rows \in Messages
    <2>1. h \in Nat /\ k \in Nat /\ 0 \in Bit /\ 1 \in Bit
      BY PcmDevice DEF Bit
    <2> QED
      BY <2>1, BitsAre DEF Told
  <1> DEFINE more == More(rows, Bits(1, h) \o Bits(0, k))
             u == [t EXCEPT !.bits = PcmRun(d, t, p, g)]
  <1>6. Bits(1, h) \o Bits(0, k) \in Seq(Bit) /\ Room(more) /\ Fits(more)
    BY <1>2, <1>5, Further
  <1> HIDE DEF p, g, k
  <1>7. Told(u, more)
    BY <1>2, <1>4, <1>5, <1>6, PcmTold
  <1>8. Told(NewRow(u), Append(more, <<>>))
    <2> HIDE DEF u, more
    <2> QED
      BY <1>6, <1>7, TellRow
  <1>9. NewRow(u) = [t EXCEPT !.bits = AddRow(PcmRun(d, t, p, g))]
    <2>1. u.bits = PcmRun(d, t, p, g)
      BY DEF Told, Good, Slicers
    <2> QED
      BY <2>1 DEF NewRow
  <1>10. Pcm(d, t, p, g, 0) = NewRow(u)
    <2>1. Pcm(d, t, p, g, 0) = PcmRow(d, t, p, g)
      BY <1>1, <1>3, PcmIs
    <2> QED
      BY <1>3, <1>9, <2>1 DEF PcmRow
  <1> QED
    BY <1>2, <1>6, <1>8, <1>10 DEF p, g, k

LEMMA PcmFinish ==
  ASSUME NEW d \in Devices, d.coding = "pcm", Decodable(d), NEW rows, NEW t, Told(t, rows), t.out = <<>>,
         NEW q, NEW x \in Pulse(d, q), NEW last, NEW y \in Silences(d, last), NEW i \in Off,
         NEW more, more = More(rows, x.says \o y.says), Fits(more), SomeBits(more)
  PROVE  Handed(Pcm(d, t, x.w + i, y.w, last), more)
  <1> PICK r \in DOMAIN more : more[r] # <<>>
    BY DEF SomeBits
  <1> DEFINE p == x.w + i
             g == y.w
  <1>1. ~(d.short # d.long /\ Dist(p, d.short) > Tolerance(d))
    BY PcmPulses
  <1>2. PICK h \in 1 .. 2 : x.says = Bits(1, h) /\ Periods(p, PcmUnit(d)) = h
    BY PcmPulses
  <1>3. /\ g \in Nat /\ (last = 1 \/ g > d.reset) /\ ~(g > GapLimit(d) /\ g <= d.reset)
        /\ PcmLows(d, g) \in Nat /\ y.says = Bits(0, PcmLows(d, g))
    <2>1. g \in Nat /\ (last = 1 \/ g > d.reset)
      BY SilencesAre
    <2>2. CASE g = d.reset + 1 /\ y.says = Bits(0, MaxZeros(d))
      <3>1. g \in Int /\ g >= d.reset - 1 /\ ~(g <= d.reset)
        BY <2>1, <2>2, PcmDevice
      <3>2. PcmLows(d, g) = MaxZeros(d)
        BY <3>1, PcmSilences
      <3> QED
        BY <2>1, <2>2, <3>1, <3>2, PcmDevice
    <2>3. CASE g = 0 /\ y.says = <<>>
      <3>1. ~(g > GapLimit(d)) /\ PcmLows(d, g) = 0
        BY <2>3, PcmDevice, PcmSilences
      <3>2. Bits(0, 0) = <<>>
        BY BitsAre DEF Bit
      <3> QED
        BY <2>1, <2>3, <3>1, <3>2
    <2> QED
      BY <2>2, <2>3, SilencesAre
  <1> DEFINE k == PcmLows(d, g)
             u == [t EXCEPT !.bits = PcmRun(d, t, p, g)]
  <1>4. h \in Nat /\ k \in Nat /\ Bits(1, h) \in Seq(Bit) /\ Bits(0, k) \in Seq(Bit) /\ rows \in Messages
    <2>1. h \in Nat /\ k \in Nat /\ 0 \in Bit /\ 1 \in Bit
      BY <1>3 DEF Bit
    <2> QED
      BY <2>1, BitsAre DEF Told
  <1> HIDE DEF p, g
  <1>5. more = More(rows, Bits(1, h) \o Bits(0, k)) /\ Room(more)
    <2>1. more = More(rows, Bits(1, h) \o Bits(0, k))
      BY <1>2, <1>3
    <2> QED
      BY <1>4, <2>1, Further
  <1>6. Told(u, more) /\ Same(t, u)
    BY <1>2, <1>4, <1>5, PcmTold
  <1>7. PcmRow(d, t, p, g) = u
    BY <1>3 DEF PcmRow
  <1>8. u.out = <<>>
    BY <1>6 DEF Same
  <1> HIDE DEF u
  <1>9. HasData(u) /\ HasRow(u)
    BY <1>6, TellData
  <1>10. Pcm(d, t, p, g, last) = Account(u)
    BY <1>1, <1>3, <1>7, <1>9, PcmIs
  <1>11. Handed(Account(u), more)
    BY <1>6, <1>8, <1>9, TellAccount DEF Handed
  <1> QED
    BY <1>10, <1>11 DEF p, g

(* A bit is always there at the end, be it the one before a full buffer. *)
LEMMA AddBitData ==
  ASSUME NEW b, Apart(b), NEW bit
  PROVE  AddBit(b, bit).num > 0 /\ AddBit(b, bit).len[AddBit(b, bit).num - 1] > 0
  <1> DEFINE u == Started(b)
             r == u.num - 1
             n == u.len[r]
             spill == n > 0 /\ n % RowBits = 0
             t == AddBit(b, bit)
  <1>1. Apart(u) /\ u \in BitBuffers /\ u.num > 0
    BY StartedApart DEF Apart
  <1> HIDE DEF u
  <1>2. u.num \in Nat /\ r \in Row /\ n \in Nat /\ u.len \in [Row -> 0 .. Rows * RowBits]
    BY <1>1, Buffer, Sizes
  <1>3. CASE spill /\ u.free = Rows
    BY <1>1, <1>2, <1>3 DEF AddBit, u
  <1>4. CASE ~(spill /\ u.free = Rows)
    <2>1. t = [u EXCEPT !.free = IF spill THEN u.free + 1 ELSE u.free, !.len[r] = n + 1,
                        !.bb[r * RowBits + n] = IF bit = 1 THEN 1 ELSE @]
      BY <1>4 DEF AddBit, u
    <2>2. t.num = u.num /\ t.len = [u.len EXCEPT ![r] = n + 1]
      BY <1>1, <2>1 DEF BitBuffers
    <2> HIDE DEF t, n
    <2> QED
      BY <1>1, <1>2, <2>2 DEF t
  <1> QED
    BY <1>3, <1>4

(* A silence is at least one 0 to PCM, so there is something to hand over,
   unless the pulse is not one of the device's. *)
LEMMA PcmSilence ==
  ASSUME NEW d \in Devices, d.coding = "pcm", Decodable(d), NEW t, Good(t), NEW p \in Int, NEW g \in Int, g > d.reset,
         NEW last
  PROVE  Told(Pcm(d, t, p, g, last), <<<<>>>>)
  <1>1. CASE d.short # d.long /\ Dist(p, d.short) > Tolerance(d)
    <2> DEFINE u == [t EXCEPT !.bits = Clear]
    <2>1. Good(u) /\ u.bits = Clear
      BY ClearApart, BitsGood DEF Good, Slicers
    <2>2. ~HasData(u)
      <3>1. u.bits.num = 0 /\ u.bits.len[0] = 0
        BY <2>1, Sizes DEF Clear
      <3> QED
        BY <3>1 DEF HasData
    <2>3. Pcm(d, t, p, g, last) = u
      BY <1>1, <2>2 DEF Pcm
    <2> QED
      BY <2>1, <2>3, TellClear
  <1>2. CASE ~(d.short # d.long /\ Dist(p, d.short) > Tolerance(d))
    <2> DEFINE k == PcmLows(d, g)
               h == Periods(p, PcmUnit(d))
               b == PcmRun(d, t, p, g)
               u == [t EXCEPT !.bits = b]
    <2>1. k \in Int /\ k > 0
      <3>1. g >= d.reset - 1
        BY PcmDevice
      <3> QED
        BY <3>1, PcmDevice, PcmSilences
    <2>2. h \in Int
      <3>1. PcmUnit(d) \in Nat /\ PcmUnit(d) > 0
        BY PcmDevice DEF PcmUnit
      <3> QED
        BY <3>1, PeriodsType
    <2> DEFINE a == AddRun(t.bits, 1, h)
    <2> HIDE DEF h, k
    <2>3. Apart(a)
      BY <2>2, AddRunApart DEF Good
    <2> HIDE DEF a
    <2>4. b = AddRun(a, 0, k)
      BY DEF PcmRun, a, h, k
    <2> HIDE DEF b
    <2>5. Apart(b) /\ \E c : Apart(c) /\ b = AddBit(c, 0)
      BY <2>1, <2>3, <2>4, AddRunApart
    <2>6. b.num > 0 /\ b.len[b.num - 1] > 0
      BY <2>5, AddBitData
    <2>7. Good(u) /\ u.bits = b
      BY <2>5, BitsGood DEF Good, Slicers
    <2>8. HasData(u)
      <3>1. b.num \in Nat
        BY <2>5, Buffer DEF Apart
      <3>2. b.len[0] > 0 \/ b.num > 1
        <4>1. CASE b.num = 1
          BY <2>6, <4>1
        <4>2. CASE b.num # 1
          BY <2>6, <3>1, <4>2
        <4> QED
          BY <4>1, <4>2
      <3> QED
        BY <2>7, <3>2 DEF HasData
    <2>9. PcmRow(d, t, p, g) = u
      <3>1. ~(g <= d.reset)
        BY PcmDevice
      <3> QED
        BY <3>1 DEF PcmRow, b
    <2>10. Pcm(d, t, p, g, last) = Account(u)
      <3> HIDE DEF u
      <3> QED
        BY <1>2, <2>8, <2>9, PcmIs
    <2> QED
      BY <2>7, <2>10, AccountClear
  <1> QED
    BY <1>1, <1>2

-----------------------------------------------------------------------------
(* The slicer is where the sender is: in the middle of a bit, in a preamble. *)
InStep(d, t, q) ==
  /\ d.coding = "manchester" => q \in {0, 1} /\ IF q = 0 THEN t.since = 0 ELSE t.since \in d.short - 1 .. d.short + 1
  /\ d.coding \in {"dmc", "rzi"} => q \in {0, 1} /\ t.phase = q
  /\ d.coding = "osv1" =>
       /\ q \in 0 .. OsvSync
       /\ CASE q \in {0, 1} -> t.phase = 2 /\ t.half = 1 - q
            [] q = OsvSync -> t.phase = 1 /\ t.half = 0
            [] OTHER -> t.phase = 0 /\ t.half = 0 /\ t.seen = q - 2

-----------------------------------------------------------------------------
(* Manchester coding *)

LEMMA HalfLevels ==
  ASSUME NEW d, d.coding \in {"manchester", "osv1"}, NEW q, NEW level \in Bit, NEW x \in Level(d, q, level)
  PROVE  /\ \/ q = 0 /\ x.w = d.short /\ x.says = <<>> /\ x.next = 1
            \/ q = 0 /\ x.w = 2 * d.short /\ x.says = <<level>> /\ x.next = 0
            \/ q # 0 /\ x.w = d.short /\ x.says = <<level>> /\ x.next = 0
         /\ x.says \in Seq(Bit)
  <1>1. x \in IF q = 0 THEN {Sym(d.short, <<>>, 1), Sym(2 * d.short, <<level>>, 0)} ELSE {Sym(d.short, <<level>>, 0)}
    BY DEF Level
  <1>2. \/ q = 0 /\ x.w = d.short /\ x.says = <<>> /\ x.next = 1
        \/ q = 0 /\ x.w = 2 * d.short /\ x.says = <<level>> /\ x.next = 0
        \/ q # 0 /\ x.w = d.short /\ x.says = <<level>> /\ x.next = 0
    <2>1. CASE x = Sym(d.short, <<>>, 1) /\ q = 0
      BY <2>1 DEF Sym
    <2>2. CASE x = Sym(2 * d.short, <<level>>, 0) /\ q = 0
      BY <2>2 DEF Sym
    <2>3. CASE x = Sym(d.short, <<level>>, 0) /\ q # 0
      BY <2>3 DEF Sym
    <2> QED
      BY <1>1, <2>1, <2>2, <2>3
  <1> QED
    BY <1>2, OneBit

LEMMA ManchesterDevice ==
  ASSUME NEW d \in Devices, d.coding = "manchester", Decodable(d)
  PROVE  d.short \in Nat /\ d.tol \in Nat /\ d.reset \in Nat /\ 4 < d.short /\ d.tol < d.short
         /\ 2 * d.short + d.tol < d.reset /\ d.tol # 1
  BY DeviceWidths DEF Decodable

LEMMA EdgeTold ==
  ASSUME NEW d \in Devices, d.coding = "manchester", Decodable(d), NEW rows, NEW t, Told(t, rows),
         NEW q, InStep(d, t, q), NEW level \in Bit, NEW x \in Level(d, q, level), NEW i \in Off,
         Room(More(rows, x.says))
  PROVE  LET u == Edge(d, t, x.w + i, level)
         IN /\ Told(u, More(rows, x.says)) /\ InStep(d, u, x.next) /\ u.out = t.out
            /\ ~OutOfClock(d, x.w + i) /\ ~(x.w + i > d.reset) /\ x.w + i \in Int
  <1> DEFINE w == x.w + i
             u == Edge(d, t, w, level)
             short == d.short
  <1>1. /\ short \in Nat /\ 4 < short /\ i \in Int /\ -1 <= i /\ i <= 1 /\ d.tol \in Nat /\ d.tol # 1 /\ d.reset \in Nat
        /\ 2 * short + d.tol < d.reset
    BY ManchesterDevice, OffIs
  <1>2. q \in {0, 1} /\ IF q = 0 THEN t.since = 0 ELSE t.since \in short - 1 .. short + 1
    BY DEF InStep
  <1>3. rows \in Messages /\ t.since \in Int
    BY DEF Told, Good, Slicers
  <1>4. ~OutOfClock(d, w) /\ ~(w > d.reset) /\ w \in Int
    <2>1. x.w \in {short, 2 * short}
      BY HalfLevels
    <2> QED
      BY <1>1, <2>1 DEF OutOfClock
  <1>5. CASE q = 0 /\ x.w = short /\ x.says = <<>> /\ x.next = 1
    <2>1. ~(2 * (w + t.since) > 3 * short)
      BY <1>1, <1>2, <1>5
    <2>2. u = [t EXCEPT !.since = @ + w]
      BY <2>1 DEF Edge
    <2>3. PICK z \in Int : z = t.since + w /\ z \in short - 1 .. short + 1
      BY <1>1, <1>2, <1>5
    <2>4. u = [t EXCEPT !.since = z]
      BY <2>2, <2>3
    <2> HIDE DEF u, w, short
    <2>5. Told(u, rows) /\ u.since = z /\ u.out = t.out
      BY <2>4, TellSince
    <2>6. InStep(d, u, x.next)
      BY <1>5, <2>3, <2>5 DEF InStep, short
    <2>7. More(rows, x.says) = rows
      BY <1>3, <1>5, Further
    <2> QED
      BY <1>4, <2>5, <2>6, <2>7 DEF u, w
  <1>6. CASE x.says = <<level>> /\ x.next = 0 /\ ((q = 0 /\ x.w = 2 * short) \/ (q # 0 /\ x.w = short))
    <2>1. 2 * (w + t.since) > 3 * short
      <3>1. CASE q = 0 /\ x.w = 2 * short
        BY <1>1, <1>2, <3>1
      <3>2. CASE q # 0 /\ x.w = short
        <4>1. t.since >= short - 1
          BY <1>1, <1>2, <3>2
        <4> QED
          BY <1>1, <1>3, <3>2, <4>1
      <3> QED
        BY <1>6, <3>1, <3>2
    <2>2. u = [Add(t, level) EXCEPT !.since = 0]
      BY <2>1 DEF Edge
    <2>3. PICK v : v = Add(t, level)
      OBVIOUS
    <2>4. Told(v, More(rows, <<level>>)) /\ v.out = t.out
      BY <1>6, <2>3, TellAdd DEF Same
    <2>5. u = [v EXCEPT !.since = 0] /\ 0 \in Int
      BY <2>2, <2>3
    <2> HIDE DEF u, w, short
    <2>6. Told(u, More(rows, <<level>>)) /\ u.since = 0 /\ u.out = t.out
      BY <2>4, <2>5, TellSince
    <2>7. InStep(d, u, x.next)
      BY <1>6, <2>6 DEF InStep
    <2> QED
      BY <1>4, <1>6, <2>6, <2>7 DEF u, w
  <1> QED
    BY <1>5, <1>6, HalfLevels

LEMMA ManchesterSend ==
  ASSUME NEW d \in Devices, d.coding = "manchester", Decodable(d), NEW rows, NEW t, Told(t, rows),
         NEW q, InStep(d, t, q), NEW x \in Pulse(d, q), NEW y \in Gap(d, x.next), NEW i \in Off, NEW j \in Off,
         Fits(More(rows, x.says \o y.says))
  PROVE  /\ Told(Manchester(d, t, x.w + i, y.w + j, 0), More(rows, x.says \o y.says))
         /\ InStep(d, Manchester(d, t, x.w + i, y.w + j, 0), y.next)
         /\ x.says \o y.says \in Seq(Bit)
  <1>1. x \in Level(d, q, 1) /\ y \in Level(d, x.next, 0) /\ 0 \in Bit /\ 1 \in Bit /\ rows \in Messages
    BY DEF Pulse, Gap, Bit, Told
  <1>2. x.says \in Seq(Bit) /\ y.says \in Seq(Bit)
    BY <1>1, HalfLevels
  <1>3. /\ x.says \o y.says \in Seq(Bit) /\ Room(More(rows, x.says)) /\ Room(More(More(rows, x.says), y.says))
        /\ More(rows, x.says \o y.says) = More(More(rows, x.says), y.says)
    BY <1>1, <1>2, Further
  <1> DEFINE p == x.w + i
             g == y.w + j
             u == Edge(d, t, p, 1)
             v == Edge(d, u, g, 0)
  <1>4. Told(u, More(rows, x.says)) /\ InStep(d, u, x.next) /\ ~OutOfClock(d, p)
    BY <1>1, <1>3, EdgeTold
  <1> HIDE DEF u
  <1>5. Told(v, More(More(rows, x.says), y.says)) /\ InStep(d, v, y.next) /\ ~OutOfClock(d, g) /\ ~(g > d.reset)
    BY <1>1, <1>3, <1>4, EdgeTold
  <1>6. Manchester(d, t, p, g, 0) = v
    <2> HIDE DEF p, g
    <2> QED
      BY <1>4, <1>5 DEF Manchester, u
  <1> QED
    BY <1>3, <1>5, <1>6

(* There is always a row, from the first 0 on. *)
LEMMA AddHasRow ==
  ASSUME NEW t, Good(t), NEW bit
  PROVE  Good(Add(t, bit)) /\ HasRow(Add(t, bit)) /\ Add(t, bit).out = t.out /\ Add(t, bit).bits = AddBit(t.bits, bit)
  <1>1. Add(t, bit).out = t.out /\ Add(t, bit).bits = AddBit(t.bits, bit)
    BY DEF Add, Good, Slicers
  <1>2. AddBit(t.bits, bit).num > 0
    BY AddBitData DEF Good
  <1> QED
    BY <1>1, <1>2, AddGood DEF HasRow

LEMMA EdgeHasRow ==
  ASSUME NEW d, NEW t, Good(t), HasRow(t), NEW w \in Int, NEW bit
  PROVE  Good(Edge(d, t, w, bit)) /\ HasRow(Edge(d, t, w, bit))
  <1> DEFINE v == Add(t, bit)
  <1>1. Good(v) /\ HasRow(v)
    BY AddHasRow
  <1> HIDE DEF v
  <1>2. HasRow([v EXCEPT !.since = 0])
    BY <1>1 DEF Good, Slicers, HasRow
  <1>3. HasRow([t EXCEPT !.since = @ + w])
    BY DEF Good, Slicers, HasRow
  <1> QED
    BY <1>2, <1>3, EdgeGood DEF Edge, v

(* The row of a next message begins with a 0. *)
Afresh(u) == [Add(Account(u), 0) EXCEPT !.since = 0]

LEMMA Begun ==
  ASSUME NEW d, d.coding = "manchester", NEW u, Good(u)
  PROVE  LET v == Afresh(u)
         IN Told(v, <<<<0>>>>) /\ InStep(d, v, 0) /\ HasRow(v) /\ v.out = Account(u).out /\ v.since = 0
  <1> DEFINE a == Account(u)
             b == Add(a, 0)
             v == [b EXCEPT !.since = 0]
             none == <<<<>>>>
  <1>1. Told(a, none) /\ Good(a)
    BY AccountClear
  <1> HIDE DEF a
  <1>2. 0 \in Bit /\ none \in Messages /\ Len(none) = 1 /\ none[1] = <<>> /\ <<0>> \in Seq(Bit)
    BY ClearSays DEF Bit
  <1>3. More(none, <<0>>) = <<<<0>>>>
    <2>1. <<>> \o <<0>> = <<0>>
      BY <1>2, Further
    <2>2. [<<<<>>>> EXCEPT ![1] = <<0>>] = <<<<0>>>>
      OBVIOUS
    <2> QED
      BY <1>2, <2>1, <2>2 DEF More
  <1>4. Room(<<<<0>>>>)
    <2>1. Taken(More(none, <<0>>))[1] = Taken(none)[1 - 1] + SlotsOf(LastRow(none) \o <<0>>)
      BY <1>2, TakenMore
    <2>2. LastRow(none) \o <<0>> = <<0>>
      BY <1>2, Further DEF LastRow
    <2>3. SlotsOf(<<0>>) = 1
      <3>1. RowBits \in Nat \ {0} /\ 1 * RowBits <= RowBits /\ RowBits < 1 * RowBits + RowBits
        BY Sizes
      <3>2. RowBits \div RowBits = 1
        BY <3>1, DivIs
      <3>3. Len(<<0>>) = 1 /\ <<0>> # <<>> /\ 1 + RowBits - 1 = RowBits
        BY <3>1
      <3> QED
        BY <3>2, <3>3 DEF SlotsOf
    <2>4. Taken(none)[1 - 1] = 0
      <3>1. 1 - 1 = 0
        OBVIOUS
      <3> QED
        BY <1>2, <3>1, TakenIs
    <2> HIDE DEF none
    <2>5. Taken(<<<<0>>>>)[1] = 0 + 1
      BY <1>3, <2>1, <2>2, <2>3, <2>4
    <2>6. Len(<<<<0>>>>) = 1 /\ 0 + 1 = 1
      OBVIOUS
    <2> QED
      BY <2>5, <2>6, Sizes DEF Room
  <1> HIDE DEF none
  <1>5. Told(b, <<<<0>>>>) /\ HasRow(b) /\ b.out = a.out
    BY <1>1, <1>2, <1>3, <1>4, TellAdd, AddHasRow
  <1> HIDE DEF b
  <1>6. Told(v, <<<<0>>>>) /\ v.since = 0 /\ v.out = b.out /\ v.bits = b.bits
    <2>1. 0 \in Int
      OBVIOUS
    <2> QED
      BY <1>5, <2>1, TellSince
  <1> HIDE DEF v
  <1>7. InStep(d, v, 0) /\ HasRow(v)
    BY <1>5, <1>6 DEF InStep, HasRow
  <1> QED
    BY <1>5, <1>6, <1>7 DEF v, b, a, Afresh

(* The 0 of a next row, when a width is out of the clock. *)
NextRow(v) == [Add(NewRow(v), 0) EXCEPT !.since = 0]
LongPulse(d, p) == 2 * p > 3 * d.short /\ p <= 2 * d.short + d.tol

Pulsed(d, t, p, g) ==
  IF OutOfClock(d, p) \/ OutOfClock(d, g) THEN NextRow(IF LongPulse(d, p) THEN Add(t, 1) ELSE t) ELSE Edge(d, t, p, 1)

LEMMA TurnGood ==
  ASSUME NEW d, NEW t, Good(t), HasRow(t), NEW p \in Int, NEW g
  PROVE  Good(Pulsed(d, t, p, g)) /\ HasRow(Pulsed(d, t, p, g))
  <1> DEFINE v == IF LongPulse(d, p) THEN Add(t, 1) ELSE t
  <1>1. Good(v)
    BY AddGood
  <1> HIDE DEF v
  <1>2. Good(NextRow(v)) /\ HasRow(NextRow(v))
    <2>1. Good(NewRow(v))
      BY <1>1, NewRowGood
    <2>2. Good(Add(NewRow(v), 0)) /\ HasRow(Add(NewRow(v), 0))
      BY <2>1, AddHasRow
    <2> DEFINE w == Add(NewRow(v), 0)
    <2> HIDE DEF w
    <2>3. Good(w) /\ HasRow(w) => Good([w EXCEPT !.since = 0]) /\ HasRow([w EXCEPT !.since = 0])
      BY SinceGood DEF Good, Slicers, HasRow
    <2> QED
      BY <2>2, <2>3 DEF w, NextRow
  <1> QED
    BY <1>2, EdgeHasRow DEF Pulsed, v

LEMMA ManchesterTurns ==
  ASSUME NEW d, NEW t, Good(t), HasRow(t), NEW p \in Int, NEW g, NEW last,
         NEW u, u = Pulsed(d, t, p, g)
  PROVE  Manchester(d, t, p, g, last) = IF last = 1 \/ g > d.reset THEN Afresh(u) ELSE Edge(d, u, g, 0)
  <1>1. Manchester(d, t, p, g, last) =
          LET v == Pulsed(d, t, p, g)
          IN IF (last = 1 \/ g > d.reset) /\ HasRow(v) THEN Afresh(v) ELSE Edge(d, v, g, 0)
    BY DEF Manchester, Pulsed, NextRow, LongPulse, Afresh
  <1>2. HasRow(u)
    BY TurnGood
  <1> QED
    BY <1>1, <1>2

LEMMA ManchesterKeepsRow ==
  ASSUME NEW d, d.coding = "manchester", NEW t, Good(t), HasRow(t), NEW p \in Int, NEW g \in Int, NEW last
  PROVE  HasRow(Manchester(d, t, p, g, last))
  <1> DEFINE u == Pulsed(d, t, p, g)
  <1>1. Good(u) /\ HasRow(u)
    BY TurnGood
  <1>2. Manchester(d, t, p, g, last) = IF last = 1 \/ g > d.reset THEN Afresh(u) ELSE Edge(d, u, g, 0)
    BY ManchesterTurns
  <1> HIDE DEF u
  <1>3. HasRow(Afresh(u))
    BY <1>1, Begun
  <1>4. HasRow(Edge(d, u, g, 0))
    BY <1>1, EdgeHasRow
  <1> QED
    BY <1>2, <1>3, <1>4

LEMMA ManchesterSilence ==
  ASSUME NEW d, d.coding = "manchester", NEW t, Good(t), HasRow(t), NEW p \in Int, NEW g \in Int,
         g > d.reset, NEW last
  PROVE  /\ Told(Manchester(d, t, p, g, last), <<<<0>>>>)
         /\ InStep(d, Manchester(d, t, p, g, last), 0)
  <1> DEFINE u == Pulsed(d, t, p, g)
  <1>1. Good(u) /\ HasRow(u)
    BY TurnGood
  <1>2. Manchester(d, t, p, g, last) = Afresh(u)
    BY ManchesterTurns
  <1> HIDE DEF u
  <1> QED
    BY <1>1, <1>2, Begun

-----------------------------------------------------------------------------
(* Nothing is left out of rows with bits. *)
LEMMA FilledRows ==
  ASSUME NEW x \in Seq(Bit), x # <<>>
  PROVE  Filled(<<x>>) = <<x>> /\ Filled(Append(<<x>>, <<0>>)) = Append(<<x>>, <<0>>)
  <1> DEFINE one == <<x>>
             two == Append(one, <<0>>)
  <1>1. one \in Seq(Seq(Bit)) /\ Len(one) = 1 /\ one[1] = x /\ one = Append(<<>>, x)
    OBVIOUS
  <1>2. two \in Seq(Seq(Bit)) /\ Len(two) = 2 /\ two[1] = x /\ two[2] = <<0>> /\ <<0>> # <<>>
    <2>1. <<0>> \in Seq(Bit) /\ <<0>> # <<>>
      BY DEF Bit
    <2> QED
      BY <1>1, <2>1, AppendProperties
  <1> HIDE DEF two
  <1>3. Filled(two) = Append(Append(<<>>, x), <<0>>)
    <2>1. PICK f \in [0 .. Len(two) -> Seq(Seq(Bit))] :
            /\ f[0] = <<>> /\ Filled(two) = f[Len(two)]
            /\ \A r \in 1 .. Len(two) : f[r] = IF two[r] = <<>> THEN f[r - 1] ELSE Append(f[r - 1], two[r])
      BY <1>2, FilledIs
    <2>2. 1 \in 1 .. Len(two) /\ 2 \in 1 .. Len(two) /\ 1 - 1 = 0 /\ 2 - 1 = 1
      BY <1>2
    <2>3. f[1] = Append(<<>>, x)
      BY <1>2, <2>1, <2>2
    <2>4. f[2] = Append(f[1], <<0>>)
      BY <1>2, <2>1, <2>2
    <2> QED
      BY <1>2, <2>1, <2>3, <2>4
  <1>4. Filled(one) = Append(<<>>, x)
    <2>1. PICK f \in [0 .. Len(one) -> Seq(Seq(Bit))] :
            /\ f[0] = <<>> /\ Filled(one) = f[Len(one)]
            /\ \A r \in 1 .. Len(one) : f[r] = IF one[r] = <<>> THEN f[r - 1] ELSE Append(f[r - 1], one[r])
      BY <1>1, FilledIs
    <2>2. 1 \in 1 .. Len(one) /\ 1 - 1 = 0
      BY <1>1
    <2> QED
      BY <1>1, <2>1, <2>2
  <1> QED
    BY <1>1, <1>3, <1>4 DEF two

LEMMA NextRowTold ==
  ASSUME NEW rows, NEW t, Told(t, rows), Fits(rows)
  PROVE  Told(NextRow(t), Append(rows, <<0>>)) /\ NextRow(t).out = t.out /\ HasRow(NextRow(t))
  <1> DEFINE v == NewRow(t)
             w == Add(v, 0)
  <1>1. Told(v, Append(rows, <<>>)) /\ v.out = t.out /\ rows \in Messages
    BY TellRow DEF Same, Told
  <1> HIDE DEF v
  <1>2. 0 \in Bit /\ <<0>> \in Seq(Bit) /\ <<>> \in Seq(Bit)
    BY Further, <1>1 DEF Bit
  <1>3. More(Append(rows, <<>>), <<0>>) = Append(rows, <<0>>) /\ Append(rows, <<>>) \in Messages
    BY <1>1, <1>2, MoreInRow, RowIs
  <1>4. Room(Append(rows, <<0>>))
    <2> DEFINE more == Append(rows, <<>>)
               n == Len(rows)
    <2>1. n \in Nat /\ Len(more) = n + 1 /\ LastRow(more) = <<>> /\ Len(Append(rows, <<0>>)) = n + 1
      BY <1>1, <1>2, RowIs, TakenIs
    <2>2. Taken(more)[n + 1] = Taken(rows)[n] + 1 /\ Taken(rows)[n] \in Nat
      BY <1>1, TakenRow
    <2>3. PICK m : m = n + 1
      OBVIOUS
    <2>9. more \in Messages /\ More(more, <<0>>) = Append(rows, <<0>>) /\ Len(more) = m
      BY <1>3, <2>1, <2>3
    <2> HIDE DEF more
    <2>10. /\ Taken(More(more, <<0>>))[m] = Taken(more)[m - 1] + SlotsOf(LastRow(more) \o <<0>>)
           /\ Taken(more)[m] = Taken(more)[m - 1] + SlotsOf(LastRow(more))
           /\ Taken(more)[m - 1] \in Nat
      BY <1>2, <2>9, TakenMore
    <2>4. SlotsOf(<<0>>) = 1 /\ SlotsOf(<<>>) = 1 /\ <<>> \o <<0>> = <<0>>
      <3>1. RowBits \in Nat \ {0} /\ 1 * RowBits <= RowBits /\ RowBits < 1 * RowBits + RowBits
        BY Sizes
      <3>2. RowBits \div RowBits = 1
        BY <3>1, DivIs
      <3>3. Len(<<0>>) = 1 /\ <<0>> # <<>> /\ 1 + RowBits - 1 = RowBits
        BY <3>1
      <3>4. <<>> \o <<0>> = <<0>>
        BY <1>1, <1>2, Further
      <3> QED
        BY <3>2, <3>3, <3>4 DEF SlotsOf
    <2>5. Taken(Append(rows, <<0>>))[n + 1] = Taken(rows)[n] + 1
      BY <2>1, <2>2, <2>3, <2>4, <2>9, <2>10
    <2>6. Taken(rows)[n] < Rows
      BY DEF Fits
    <2>7. Taken(rows)[n] + 1 <= Rows
      BY <2>2, <2>6, Sizes
    <2> DEFINE long == Append(rows, <<0>>)
    <2>8. Len(long) = n + 1 /\ Taken(long)[n + 1] <= Rows
      BY <2>1, <2>5, <2>7
    <2> HIDE DEF long
    <2> QED
      BY <2>8 DEF Room, long
  <1>5. Told(w, Append(rows, <<0>>)) /\ HasRow(w) /\ w.out = t.out
    <2>1. Room(More(Append(rows, <<>>), <<0>>))
      BY <1>3, <1>4
    <2>2. Told(w, More(Append(rows, <<>>), <<0>>)) /\ HasRow(w) /\ Same(v, w)
      BY <1>1, <1>2, <2>1, TellAdd
    <2> HIDE DEF w
    <2> QED
      BY <1>1, <1>3, <2>2 DEF Same
  <1> HIDE DEF w
  <1>6. NextRow(t) = [w EXCEPT !.since = 0] /\ 0 \in Int
    BY DEF NextRow, w, v
  <1> QED
    BY <1>5, <1>6, TellSince DEF HasRow

(* What the decoder got is the message as it reads it. *)
ReadAs(d, u, rows) == \E b : u.out = <<b>> /\ Reads(d, Filled(Contents(b)), Filled(rows))

LEMMA HandedRead ==
  ASSUME NEW d, NEW u, NEW rows, d.coding # "manchester", Handed(u, rows)
  PROVE  ReadAs(d, u, rows)
  BY DEF Handed, ReadAs, Reads

LEMMA BegunReads ==
  ASSUME NEW d, d.coding = "manchester", NEW u, NEW rows, Told(u, rows), HasRow(u), u.out = <<>>, NEW more,
         Reads(d, Filled(rows), Filled(more))
  PROVE  ReadAs(d, Afresh(u), more)
  <1>1. Account(u).out = <<u.bits>> /\ Filled(Contents(u.bits)) = Filled(rows)
    BY TellAccount
  <1>2. Afresh(u).out = <<u.bits>>
    BY <1>1, Begun DEF Told
  <1>3. Reads(d, Filled(Contents(u.bits)), Filled(more))
    BY <1>1
  <1> QED
    BY <1>2, <1>3 DEF ReadAs

LEMMA OneRow ==
  ASSUME NEW rows \in Messages, Len(rows) = 1, NEW x \in Seq(Bit), NEW more, more = More(rows, x)
  PROVE  rows[1] \in Seq(Bit) /\ rows = <<rows[1]>> /\ more = <<rows[1] \o x>>
  <1>1. rows \in Seq(Seq(Bit)) /\ rows[1] \in Seq(Bit) /\ rows = <<rows[1]>>
    BY DEF Messages
  <1>2. more = [rows EXCEPT ![1] = rows[1] \o x]
    BY DEF More
  <1>3. [<<rows[1]>> EXCEPT ![1] = rows[1] \o x] = <<rows[1] \o x>>
    OBVIOUS
  <1> QED
    BY <1>1, <1>2, <1>3

LEMMA ManchesterFinish ==
  ASSUME NEW d \in Devices, d.coding = "manchester", Decodable(d), NEW rows, NEW t, Told(t, rows), t.out = <<>>,
         Len(rows) = 1, rows[1] # <<>>, NEW q, InStep(d, t, q),
         NEW x \in Pulse(d, q), NEW last, NEW y \in Silences(d, last), NEW i \in Off,
         NEW more, more = More(rows, x.says \o y.says), Fits(more)
  PROVE  ReadAs(d, Manchester(d, t, x.w + i, y.w, last), more)
  <1> DEFINE p == x.w + i
             g == y.w
             u == Pulsed(d, t, p, g)
  <1>1. /\ d.short \in Nat /\ d.tol \in Nat /\ d.reset \in Nat /\ 4 < d.short /\ d.tol < d.short
        /\ 2 * d.short + d.tol < d.reset /\ d.tol # 1 /\ i \in Int /\ -1 <= i /\ i <= 1
    BY ManchesterDevice, OffIs
  <1>2. x \in Level(d, q, 1) /\ 1 \in Bit /\ rows \in Messages /\ Good(t)
    BY DEF Pulse, Bit, Told
  <1>3. x.says \in Seq(Bit) /\ \/ q = 0 /\ x.w = d.short /\ x.says = <<>>
                               \/ q = 0 /\ x.w = 2 * d.short /\ x.says = <<1>>
                               \/ q # 0 /\ x.w = d.short /\ x.says = <<1>>
    BY <1>2, HalfLevels
  <1>4. g \in Nat /\ y.says = <<>> /\ (last = 1 \/ g > d.reset) /\ g \in {0, d.reset + 1}
    BY SilencesAre
  <1>5. more = More(rows, x.says) /\ Room(more) /\ Fits(more) /\ Fits(rows) /\ more \in Messages
    <2>1. x.says \o y.says = x.says
      BY <1>2, <1>3, <1>4, Further
    <2> QED
      BY <1>2, <1>3, <2>1, Further, MoreIs
  <1>6. p \in Int
    BY <1>1, <1>3
  <1>7. HasRow(t)
    <2>1. 1 \in DOMAIN rows
      BY <1>2 DEF Messages
    <2> QED
      BY <2>1, TellData
  <1>8. Good(u) /\ HasRow(u)
    BY <1>2, <1>6, <1>7, TurnGood
  <1>9. Manchester(d, t, p, g, last) = Afresh(u)
    <2>1. Manchester(d, t, p, g, last) = IF last = 1 \/ g > d.reset THEN Afresh(u) ELSE Edge(d, u, g, 0)
      <3> HIDE DEF p, g
      <3> QED
        BY <1>2, <1>6, <1>7, ManchesterTurns
    <2> QED
      BY <1>4, <2>1
  <1>10. ASSUME NEW told, Told(u, told), u.out = <<>>, Reads(d, Filled(told), Filled(more)) PROVE ReadAs(d, Manchester(d, t, p, g, last), more)
    <2> HIDE DEF u
    <2> QED
      BY <1>8, <1>9, <1>10, BegunReads
  <1>11. OutOfClock(d, p) \/ OutOfClock(d, g) <=> d.tol > 0
    BY <1>1, <1>3, <1>4 DEF OutOfClock
  <1>12. CASE d.tol = 0
    <2>1. u = Edge(d, t, p, 1)
      BY <1>1, <1>11, <1>12 DEF Pulsed
    <2>2. Told(u, more) /\ u.out = <<>>
      BY <1>2, <1>5, <2>1, EdgeTold
    <2>3. Reads(d, Filled(more), Filled(more))
      BY <1>12 DEF Reads
    <2> QED
      BY <1>10, <2>2, <2>3
  <1>13. CASE d.tol > 0
    <2> DEFINE v == IF LongPulse(d, p) THEN Add(t, 1) ELSE t
    <2>1. u = NextRow(v)
      BY <1>11, <1>13 DEF Pulsed
    <2>2. LongPulse(d, p) <=> x.w = 2 * d.short
      BY <1>1, <1>3, <1>13 DEF LongPulse
    <2>3. CASE q = 0
      <3>1. Told(v, more) /\ v.out = <<>>
        <4>1. CASE x.w = 2 * d.short /\ x.says = <<1>>
          BY <1>2, <1>5, <2>2, <4>1, TellAdd DEF Same
        <4>2. CASE x.w = d.short /\ x.says = <<>>
          <5>1. v = t /\ more = rows
            BY <1>1, <1>2, <1>5, <2>2, <4>2, Further
          <5> QED
            BY <5>1
        <4> QED
          BY <1>3, <2>3, <4>1, <4>2
      <3> HIDE DEF v, u
      <3>2. Told(u, Append(more, <<0>>)) /\ u.out = <<>>
        BY <1>5, <2>1, <3>1, NextRowTold
      <3>3. Filled(more) = more /\ Filled(Append(more, <<0>>)) = Append(more, <<0>>)
        <4>1. more = <<rows[1] \o x.says>> /\ rows[1] \in Seq(Bit)
          BY <1>2, <1>3, <1>5, OneRow
        <4>2. rows[1] \o x.says \in Seq(Bit) /\ rows[1] \o x.says # <<>>
          BY <1>3, <4>1
        <4> QED
          BY <4>1, <4>2, FilledRows
      <3>4. Reads(d, Filled(Append(more, <<0>>)), Filled(more))
        BY <1>13, <3>3 DEF Reads
      <3> QED
        BY <1>10, <3>2, <3>4 DEF u
    <2>4. CASE q # 0
      <3>1. ~(x.w = 2 * d.short) /\ x.says = <<1>>
        BY <1>1, <1>3, <2>4
      <3>2. v = t
        BY <2>2, <3>1
      <3> HIDE DEF v, u
      <3>3. Told(u, Append(rows, <<0>>)) /\ u.out = <<>>
        BY <1>5, <2>1, <3>2, NextRowTold
      <3> DEFINE row == rows[1]
                 long == row \o <<1>>
      <3>4. row \in Seq(Bit) /\ row # <<>> /\ rows = <<row>> /\ more = <<long>>
        BY <1>2, <1>3, <1>5, <3>1, OneRow
      <3>5. long \in Seq(Bit) /\ long # <<>> /\ Len(long) - 1 = Len(row) /\ long[Len(long)] = 1
        <4>1. <<1>> \in Seq(Bit) /\ Len(<<1>>) = 1 /\ <<1>>[1] = 1
          BY <1>2
        <4> QED
          BY <3>4, <4>1
      <3>6. SubSeq(long, 1, Len(long) - 1) = row
        <4>1. SubSeq(long, 1, Len(row)) = row
          BY <1>2, <3>4
        <4> QED
          BY <3>5, <4>1
      <3>7. Filled(more) = more /\ Filled(Append(rows, <<0>>)) = Append(rows, <<0>>)
        BY <3>4, <3>5, FilledRows
      <3>8. Reads(d, Filled(Append(rows, <<0>>)), Filled(more))
        <4> HIDE DEF long, row
        <4>1. Len(more) = 1 /\ more[1] = long
          BY <3>4
        <4>2. [<<long>> EXCEPT ![1] = SubSeq(@, 1, Len(long) - 1)] = <<SubSeq(long, 1, Len(long) - 1)>>
          OBVIOUS
        <4>3. [more EXCEPT ![1] = SubSeq(@, 1, Len(long) - 1)] = rows
          BY <3>4, <3>6, <4>2
        <4> QED
          <5> DEFINE n == Len(more)
                     m == Len(more[n])
          <5>1. more[n][m] = 1 /\ [more EXCEPT ![n] = SubSeq(@, 1, m - 1)] = rows
            BY <3>5, <4>1, <4>3
          <5> QED
            BY <1>13, <3>7, <5>1 DEF Reads
      <3> QED
        BY <1>10, <3>3, <3>8 DEF u
    <2> QED
      BY <2>3, <2>4
  <1> QED
    BY <1>1, <1>12, <1>13

-----------------------------------------------------------------------------
(* What ends a message hands it over, and leaves nothing. *)
LEMMA EndHands ==
  ASSUME NEW t, NEW rows, Told(t, rows), t.out = <<>>, NEW r \in DOMAIN rows, rows[r] # <<>>
  PROVE  HasRow(t) /\ Handed(Account(t), rows)
  <1>1. HasRow(t)
    BY TellData
  <1> QED
    BY <1>1, TellAccount DEF Handed

LEMMA EndClears ==
  ASSUME NEW t, Good(t), NEW u, u = IF HasRow(t) THEN Account(t) ELSE t
  PROVE  Told(u, <<<<>>>>) /\ u.phase = t.phase
  <1>1. CASE HasRow(t)
    BY <1>1, AccountClear
  <1>2. CASE ~HasRow(t)
    BY <1>2, Rowless, TellClear
  <1> QED
    BY <1>1, <1>2

(* The short and the long width of DMC and of pulse interval and width coding. *)
LEMMA ShortAndLong ==
  ASSUME NEW d \in Devices, d.coding \in {"dmc", "piwm_dc"}, Decodable(d), NEW i \in Off
  PROVE  /\ Dist(d.short + i, d.short) < d.tol /\ Dist(d.short + i, d.short) <= d.tol
         /\ Dist(d.long + i, d.short) >= d.tol /\ Dist(d.long + i, d.long) < d.tol
         /\ ~(d.short + i > d.reset) /\ ~(d.long + i > d.reset) /\ d.tol \in Nat /\ d.reset \in Nat
         /\ ~(Dist(d.long + i, d.short) < d.tol) /\ ~(Dist(d.long + i, d.long) >= d.tol)
         /\ ~(Dist(d.short + i, d.short) >= d.tol) /\ ~(Dist(d.short + i, d.short) > d.tol)
         /\ \A x \in Int : x > d.reset =>
              /\ Dist(x, d.short) > d.tol /\ Dist(x, d.short) >= d.tol /\ Dist(x, d.long) >= d.tol
              /\ ~(x < d.reset) /\ x >= d.reset - d.tol /\ ~(x < d.reset - d.tol)
              /\ ~(Dist(x, d.short) < d.tol) /\ ~(Dist(x, d.long) < d.tol) /\ ~(Dist(x, d.short) <= d.tol)
  <1>1. /\ d.short \in Nat /\ d.long \in Nat /\ d.tol \in Nat /\ d.reset \in Nat /\ d.tol > 1
        /\ d.short + d.tol < d.reset /\ d.long + d.tol < d.reset /\ i \in Int /\ -1 <= i /\ i <= 1
        /\ Distinct(d, d.short, d.long)
    BY DeviceWidths, OffIs DEF Decodable
  <1>2. Dist(d.short, d.long) > d.tol
    BY <1>1 DEF Distinct
  <1>3. Dist(d.short + i, d.short) <= 1 /\ Dist(d.long + i, d.long) <= 1 /\ Dist(d.short + i, d.short) \in Int
        /\ Dist(d.long + i, d.long) \in Int
    BY <1>1 DEF Dist
  <1>4. Dist(d.long + i, d.short) >= d.tol /\ Dist(d.long + i, d.short) \in Int
    BY <1>1, <1>2 DEF Dist
  <1>5. ASSUME NEW x \in Int, x > d.reset
        PROVE  Dist(x, d.short) > d.tol /\ Dist(x, d.long) > d.tol /\ Dist(x, d.short) \in Int /\ Dist(x, d.long) \in Int
               /\ ~(x < d.reset) /\ x >= d.reset - d.tol
    BY <1>1, <1>5 DEF Dist
  <1>6. ~(d.short + i > d.reset) /\ ~(d.long + i > d.reset)
    BY <1>1
  <1>7. /\ Dist(d.short + i, d.short) < d.tol /\ Dist(d.short + i, d.short) <= d.tol
        /\ Dist(d.long + i, d.long) < d.tol /\ ~(Dist(d.long + i, d.short) < d.tol)
        /\ ~(Dist(d.long + i, d.long) >= d.tol)
        /\ ~(Dist(d.short + i, d.short) >= d.tol) /\ ~(Dist(d.short + i, d.short) > d.tol)
    <2> HIDE DEF Dist
    <2> QED
      BY <1>1, <1>3, <1>4
  <1>8. ASSUME NEW x \in Int, x > d.reset
        PROVE  /\ Dist(x, d.short) > d.tol /\ Dist(x, d.short) >= d.tol /\ Dist(x, d.long) >= d.tol
               /\ ~(x < d.reset) /\ x >= d.reset - d.tol /\ ~(x < d.reset - d.tol)
               /\ ~(Dist(x, d.short) < d.tol) /\ ~(Dist(x, d.long) < d.tol) /\ ~(Dist(x, d.short) <= d.tol)
    BY <1>1, <1>5, <1>8
  <1> QED
    BY <1>1, <1>4, <1>6, <1>7, <1>8

-----------------------------------------------------------------------------
(* Differential Manchester coding *)

LEMMA DmcLevels ==
  ASSUME NEW d, d.coding = "dmc", NEW q, NEW level, NEW x \in Level(d, q, level)
  PROVE  /\ \/ q = 0 /\ x.w = d.short /\ x.says = <<1>> /\ x.next = 1
            \/ q = 0 /\ x.w = d.long /\ x.says = <<0>> /\ x.next = 0
            \/ q # 0 /\ x.w = d.short /\ x.says = <<>> /\ x.next = 0
         /\ x.says \in Seq(Bit)
  <1>1. x \in IF q = 0 THEN {Sym(d.short, <<1>>, 1), Sym(d.long, <<0>>, 0)} ELSE {Sym(d.short, <<>>, 0)}
    BY DEF Level
  <1>2. \/ q = 0 /\ x.w = d.short /\ x.says = <<1>> /\ x.next = 1
        \/ q = 0 /\ x.w = d.long /\ x.says = <<0>> /\ x.next = 0
        \/ q # 0 /\ x.w = d.short /\ x.says = <<>> /\ x.next = 0
    <2>1. CASE x = Sym(d.short, <<1>>, 1) /\ q = 0
      BY <2>1 DEF Sym
    <2>2. CASE x = Sym(d.long, <<0>>, 0) /\ q = 0
      BY <2>2 DEF Sym
    <2>3. CASE x = Sym(d.short, <<>>, 0) /\ q # 0
      BY <2>3 DEF Sym
    <2> QED
      BY <1>1, <2>1, <2>2, <2>3
  <1>3. <<>> \in Seq(Bit) /\ <<0>> \in Seq(Bit) /\ <<1>> \in Seq(Bit)
    BY OneBit DEF Bit
  <1> QED
    BY <1>2, <1>3

LEMMA DmcTold ==
  ASSUME NEW d \in Devices, d.coding = "dmc", Decodable(d), NEW rows, NEW t, Told(t, rows),
         NEW q \in {0, 1}, t.phase = q, NEW level, NEW x \in Level(d, q, level), NEW i \in Off,
         Room(More(rows, x.says)), NEW u, u = DmcSymbol(d, t, x.w + i)
  PROVE  Told(u, More(rows, x.says)) /\ u.phase = x.next /\ u.out = t.out
  <1> DEFINE z == [t EXCEPT !.phase = 0]
             w == x.w + i
  <1>1. Told(z, rows) /\ z.phase = 0 /\ z.out = t.out /\ rows \in Messages
    BY TellPhase DEF Told
  <1>2. u = CASE t.phase = 1 /\ Dist(w, d.short) <= d.tol -> z
              [] t.phase = 1 /\ Dist(w, d.short) > d.tol /\ w < d.reset - d.tol -> IF HasRowBits(z) THEN NewRow(z) ELSE z
              [] OTHER -> DmcFirst(d, z, w)
    BY DEF DmcSymbol
  <1> HIDE DEF z
  <1>3. CASE q = 0 /\ x.w = d.short /\ x.says = <<1>> /\ x.next = 1
    <2>1. u = DmcFirst(d, z, w)
      BY <1>2, <1>3
    <2>2. Dist(w, d.short) < d.tol /\ ~(Dist(w, d.short) >= d.tol)
      BY <1>3, ShortAndLong
    <2> DEFINE v == Add(z, 1)
    <2>3. Told(v, More(rows, <<1>>)) /\ v.out = z.out
      BY <1>1, <1>3, TellAdd DEF Bit, Same
    <2>4. u = [v EXCEPT !.phase = 1]
      <3> HIDE DEF w
      <3> QED
        BY <2>1, <2>2 DEF DmcFirst
    <2> HIDE DEF v
    <2> QED
      BY <1>1, <1>3, <2>3, <2>4, TellPhase
  <1>4. CASE q = 0 /\ x.w = d.long /\ x.says = <<0>> /\ x.next = 0
    <2>1. u = DmcFirst(d, z, w)
      BY <1>2, <1>4
    <2>2. Dist(w, d.short) >= d.tol /\ Dist(w, d.long) < d.tol /\ ~(Dist(w, d.short) < d.tol)
          /\ ~(Dist(w, d.long) >= d.tol)
      BY <1>4, ShortAndLong
    <2>3. u = Add(z, 0)
      <3> HIDE DEF w
      <3> QED
        BY <2>1, <2>2 DEF DmcFirst
    <2>4. Told(u, More(rows, <<0>>)) /\ Same(z, u)
      BY <1>1, <1>4, <2>3, TellAdd DEF Bit
    <2> QED
      BY <1>1, <1>4, <2>4 DEF Same
  <1>5. CASE q # 0 /\ x.w = d.short /\ x.says = <<>> /\ x.next = 0
    <2>1. Dist(w, d.short) <= d.tol /\ ~(Dist(w, d.short) > d.tol)
      BY <1>5, ShortAndLong
    <2>2. u = z
      BY <1>2, <1>5, <2>1
    <2> QED
      BY <1>1, <1>5, <2>2, Further
  <1> QED
    BY <1>3, <1>4, <1>5, DmcLevels

LEMMA DmcSend ==
  ASSUME NEW d \in Devices, d.coding = "dmc", Decodable(d), NEW rows, NEW t, Told(t, rows),
         NEW q, InStep(d, t, q), NEW x \in Pulse(d, q), NEW y \in Gap(d, x.next), NEW i \in Off, NEW j \in Off,
         Fits(More(rows, x.says \o y.says))
  PROVE  /\ Told(Dmc(d, t, x.w + i, y.w + j), More(rows, x.says \o y.says))
         /\ InStep(d, Dmc(d, t, x.w + i, y.w + j), y.next)
         /\ x.says \o y.says \in Seq(Bit)
  <1>1. x \in Level(d, q, 1) /\ y \in Level(d, x.next, 0) /\ rows \in Messages /\ q \in {0, 1} /\ t.phase = q
    BY DEF Pulse, Gap, Told, InStep
  <1>2. x.says \in Seq(Bit) /\ y.says \in Seq(Bit) /\ x.next \in {0, 1} /\ y.next \in {0, 1}
    BY <1>1, DmcLevels
  <1>3. /\ x.says \o y.says \in Seq(Bit) /\ Room(More(rows, x.says)) /\ Room(More(More(rows, x.says), y.says))
        /\ More(rows, x.says \o y.says) = More(More(rows, x.says), y.says)
    BY <1>1, <1>2, Further
  <1> DEFINE u == DmcSymbol(d, t, x.w + i)
             v == DmcSymbol(d, u, y.w + j)
  <1>4. Told(u, More(rows, x.says)) /\ u.phase = x.next
    BY <1>1, <1>3, DmcTold
  <1> HIDE DEF u
  <1>5. Told(v, More(More(rows, x.says), y.says)) /\ v.phase = y.next
    BY <1>1, <1>2, <1>3, <1>4, DmcTold
  <1>6. Dmc(d, t, x.w + i, y.w + j) = v
    BY DEF Dmc, u
  <1> HIDE DEF v
  <1>7. InStep(d, v, y.next)
    BY <1>2, <1>5 DEF InStep
  <1> QED
    BY <1>3, <1>5, <1>6, <1>7

LEMMA DmcSymbolGood ==
  ASSUME NEW d, NEW t, Good(t), NEW x
  PROVE  Good(DmcSymbol(d, t, x))
  <1> DEFINE z == [t EXCEPT !.phase = 0]
  <1>1. Good(z)
    BY PhaseGood
  <1> HIDE DEF z
  <1>2. Good(DmcFirst(d, z, x))
    BY <1>1, AddGood, AccountGood, PhaseGood DEF DmcFirst
  <1> QED
    BY <1>1, <1>2, NewRowGood DEF DmcSymbol, z

LEMMA DmcEnd ==
  ASSUME NEW d \in Devices, d.coding = "dmc", Decodable(d), NEW t, Good(t), NEW x \in Int, x > d.reset,
         NEW z, z = [t EXCEPT !.phase = 0]
  PROVE  DmcSymbol(d, t, x) = (IF HasRow(z) THEN Account(z) ELSE z) /\ Good(z) /\ z.phase = 0
  <1>1. Good(z) /\ z.phase = 0
    BY PhaseGood DEF Good, Slicers
  <1>2. 0 \in Off
    BY DEF Off
  <1>3. /\ ~(Dist(x, d.short) < d.tol) /\ ~(Dist(x, d.long) < d.tol) /\ Dist(x, d.short) >= d.tol
        /\ Dist(x, d.long) >= d.tol /\ x >= d.reset - d.tol /\ ~(x < d.reset - d.tol) /\ ~(Dist(x, d.short) <= d.tol)
    BY <1>2, ShortAndLong
  <1>4. DmcSymbol(d, t, x) = DmcFirst(d, z, x)
    BY <1>3 DEF DmcSymbol
  <1>5. DmcFirst(d, z, x) = IF HasRow(z) THEN Account(z) ELSE z
    BY <1>3 DEF DmcFirst
  <1> QED
    BY <1>1, <1>4, <1>5

LEMMA DmcFinish ==
  ASSUME NEW d \in Devices, d.coding = "dmc", Decodable(d), NEW rows, NEW t, Told(t, rows), t.out = <<>>,
         NEW q, InStep(d, t, q), NEW x \in Pulse(d, q), NEW last, NEW y \in Silences(d, last), NEW i \in Off,
         NEW more, more = More(rows, x.says \o y.says), Fits(more), SomeBits(more)
  PROVE  Handed(Dmc(d, t, x.w + i, y.w), more)
  <1> PICK r \in DOMAIN more : more[r] # <<>>
    BY DEF SomeBits
  <1>1. x \in Level(d, q, 1) /\ rows \in Messages /\ q \in {0, 1} /\ t.phase = q
    BY DEF Pulse, Told, InStep
  <1>2. x.says \in Seq(Bit)
    BY <1>1, DmcLevels
  <1>3. y.says = <<>> /\ y.w \in Int /\ y.w > d.reset
    BY SilencesAre, DeviceWidths
  <1>4. more = More(rows, x.says) /\ Room(more)
    <2>1. x.says \o y.says = x.says
      BY <1>1, <1>2, <1>3, Further
    <2> QED
      BY <1>1, <1>2, <2>1, Further
  <1> DEFINE u == DmcSymbol(d, t, x.w + i)
             z == [u EXCEPT !.phase = 0]
  <1>5. Told(u, more) /\ u.out = <<>>
    BY <1>1, <1>4, DmcTold
  <1>6. Dmc(d, t, x.w + i, y.w) = DmcSymbol(d, u, y.w)
    BY DEF Dmc
  <1> HIDE DEF u
  <1>7. Told(z, more) /\ z.out = <<>>
    BY <1>5, TellPhase
  <1>8. DmcSymbol(d, u, y.w) = IF HasRow(z) THEN Account(z) ELSE z
    BY <1>3, <1>5, DmcEnd DEF Told
  <1> HIDE DEF z
  <1>9. HasRow(z) /\ Handed(Account(z), more)
    BY <1>7, EndHands
  <1> QED
    BY <1>6, <1>8, <1>9

LEMMA DmcSilence ==
  ASSUME NEW d \in Devices, d.coding = "dmc", Decodable(d), NEW t, Good(t), NEW p, NEW g \in Int, g > d.reset
  PROVE  Told(Dmc(d, t, p, g), <<<<>>>>) /\ InStep(d, Dmc(d, t, p, g), 0)
  <1> DEFINE u == DmcSymbol(d, t, p)
             z == [u EXCEPT !.phase = 0]
             v == IF HasRow(z) THEN Account(z) ELSE z
  <1>1. Good(u)
    BY DmcSymbolGood
  <1>2. Dmc(d, t, p, g) = DmcSymbol(d, u, g)
    BY DEF Dmc
  <1> HIDE DEF u
  <1>3. DmcSymbol(d, u, g) = v /\ Good(z) /\ z.phase = 0
    BY <1>1, DmcEnd
  <1> HIDE DEF z
  <1>4. Told(v, <<<<>>>>) /\ v.phase = 0
    BY <1>3, EndClears
  <1> HIDE DEF v
  <1>5. InStep(d, v, 0)
    BY <1>4 DEF InStep
  <1> QED
    BY <1>2, <1>3, <1>4, <1>5

-----------------------------------------------------------------------------
(* Pulse interval and width coding, differential *)

LEMMA DcLevels ==
  ASSUME NEW d, d.coding = "piwm_dc", NEW q, NEW level, NEW x \in Level(d, q, level)
  PROVE  /\ \/ x.w = d.short /\ x.says = <<1>>
            \/ x.w = d.long /\ x.says = <<0>>
         /\ x.says \in Seq(Bit)
  <1>1. x = Sym(d.short, <<1>>, 0) \/ x = Sym(d.long, <<0>>, 0)
    BY DEF Level
  <1>2. <<0>> \in Seq(Bit) /\ <<1>> \in Seq(Bit)
    BY OneBit DEF Bit
  <1>3. CASE x = Sym(d.short, <<1>>, 0)
    BY <1>2, <1>3 DEF Sym
  <1>4. CASE x = Sym(d.long, <<0>>, 0)
    BY <1>2, <1>4 DEF Sym
  <1> QED
    BY <1>1, <1>3, <1>4

LEMMA DcTold ==
  ASSUME NEW d \in Devices, d.coding = "piwm_dc", Decodable(d), NEW rows, NEW t, Told(t, rows),
         NEW q, NEW level, NEW x \in Level(d, q, level), NEW i \in Off,
         Room(More(rows, x.says)), NEW u, u = DcSymbol(d, t, x.w + i, 0)
  PROVE  Told(u, More(rows, x.says)) /\ u.out = t.out
  <1> DEFINE w == x.w + i
             v == CASE Dist(w, d.short) < d.tol -> Add(t, 1)
                    [] Dist(w, d.short) >= d.tol /\ Dist(w, d.long) < d.tol -> Add(t, 0)
                    [] Dist(w, d.short) >= d.tol /\ Dist(w, d.long) >= d.tol /\ w < d.reset /\ HasRowBits(t) -> NewRow(t)
                    [] OTHER -> t
  <1>1. ~(w > d.reset)
    BY ShortAndLong, DcLevels
  <1>2. u = v
    <2>1. u = Ends(d, v, w, 0)
      BY DEF DcSymbol
    <2> HIDE DEF v, w
    <2> QED
      BY <1>1, <2>1 DEF Ends
  <1>3. CASE x.w = d.short /\ x.says = <<1>>
    <2>1. Dist(w, d.short) < d.tol /\ ~(Dist(w, d.short) >= d.tol)
      BY <1>3, ShortAndLong
    <2>2. v = Add(t, 1)
      <3> HIDE DEF w
      <3> QED
        BY <2>1
    <2> HIDE DEF v, w
    <2> QED
      BY <1>2, <1>3, <2>2, TellAdd DEF Bit, Same
  <1>4. CASE x.w = d.long /\ x.says = <<0>>
    <2>1. Dist(w, d.short) >= d.tol /\ Dist(w, d.long) < d.tol /\ ~(Dist(w, d.short) < d.tol) /\ ~(Dist(w, d.long) >= d.tol)
      BY <1>4, ShortAndLong
    <2>2. v = Add(t, 0)
      <3> HIDE DEF w
      <3> QED
        BY <2>1
    <2> HIDE DEF v, w
    <2> QED
      BY <1>2, <1>4, <2>2, TellAdd DEF Bit, Same
  <1> QED
    BY <1>3, <1>4, DcLevels

LEMMA DcEnd ==
  ASSUME NEW d \in Devices, d.coding = "piwm_dc", Decodable(d), NEW t, NEW g \in Int, g > d.reset, NEW last
  PROVE  DcSymbol(d, t, g, last) = IF HasRow(t) THEN Account(t) ELSE t
  <1> DEFINE v == CASE Dist(g, d.short) < d.tol -> Add(t, 1)
                    [] Dist(g, d.short) >= d.tol /\ Dist(g, d.long) < d.tol -> Add(t, 0)
                    [] Dist(g, d.short) >= d.tol /\ Dist(g, d.long) >= d.tol /\ g < d.reset /\ HasRowBits(t) -> NewRow(t)
                    [] OTHER -> t
  <1>1. ~(Dist(g, d.short) < d.tol) /\ ~(Dist(g, d.long) < d.tol) /\ ~(g < d.reset)
    <2>1. 0 \in Off
      BY DEF Off
    <2> QED
      BY <2>1, ShortAndLong
  <1>2. v = t
    BY <1>1
  <1>3. DcSymbol(d, t, g, last) = Ends(d, v, g, last)
    BY DEF DcSymbol
  <1> HIDE DEF v
  <1> QED
    BY <1>2, <1>3 DEF Ends

LEMMA DcSend ==
  ASSUME NEW d \in Devices, d.coding = "piwm_dc", Decodable(d), NEW rows, NEW t, Told(t, rows),
         NEW q, NEW x \in Pulse(d, q), NEW y \in Gap(d, x.next), NEW i \in Off, NEW j \in Off,
         Fits(More(rows, x.says \o y.says))
  PROVE  /\ Told(PiwmDc(d, t, x.w + i, y.w + j, 0), More(rows, x.says \o y.says))
         /\ x.says \o y.says \in Seq(Bit)
  <1>1. x \in Level(d, q, 1) /\ y \in Level(d, x.next, 0) /\ rows \in Messages
    BY DEF Pulse, Gap, Told
  <1>2. x.says \in Seq(Bit) /\ y.says \in Seq(Bit)
    BY <1>1, DcLevels
  <1>3. /\ x.says \o y.says \in Seq(Bit) /\ Room(More(rows, x.says)) /\ Room(More(More(rows, x.says), y.says))
        /\ More(rows, x.says \o y.says) = More(More(rows, x.says), y.says)
    BY <1>1, <1>2, Further
  <1> DEFINE u == DcSymbol(d, t, x.w + i, 0)
             v == DcSymbol(d, u, y.w + j, 0)
  <1>4. Told(u, More(rows, x.says))
    BY <1>1, <1>3, DcTold
  <1> HIDE DEF u
  <1>5. Told(v, More(More(rows, x.says), y.says))
    BY <1>1, <1>3, <1>4, DcTold
  <1>6. PiwmDc(d, t, x.w + i, y.w + j, 0) = v
    BY DEF PiwmDc, u
  <1> QED
    BY <1>3, <1>5, <1>6

LEMMA DcFinish ==
  ASSUME NEW d \in Devices, d.coding = "piwm_dc", Decodable(d), NEW rows, NEW t, Told(t, rows), t.out = <<>>,
         NEW q, NEW x \in Pulse(d, q), NEW last, NEW y \in Silences(d, last), NEW i \in Off,
         NEW more, more = More(rows, x.says \o y.says), Fits(more), SomeBits(more)
  PROVE  Handed(PiwmDc(d, t, x.w + i, y.w, last), more)
  <1> PICK r \in DOMAIN more : more[r] # <<>>
    BY DEF SomeBits
  <1>1. x \in Level(d, q, 1) /\ rows \in Messages
    BY DEF Pulse, Told
  <1>2. x.says \in Seq(Bit)
    BY <1>1, DcLevels
  <1>3. y.says = <<>> /\ y.w \in Int /\ y.w > d.reset
    BY SilencesAre, DeviceWidths
  <1>4. more = More(rows, x.says) /\ Room(more)
    <2>1. x.says \o y.says = x.says
      BY <1>1, <1>2, <1>3, Further
    <2> QED
      BY <1>1, <1>2, <2>1, Further
  <1> DEFINE u == DcSymbol(d, t, x.w + i, 0)
  <1>5. Told(u, more) /\ u.out = <<>>
    BY <1>1, <1>4, DcTold
  <1>6. PiwmDc(d, t, x.w + i, y.w, last) = DcSymbol(d, u, y.w, last)
    BY DEF PiwmDc
  <1> HIDE DEF u
  <1>7. DcSymbol(d, u, y.w, last) = IF HasRow(u) THEN Account(u) ELSE u
    BY <1>3, DcEnd
  <1>8. HasRow(u) /\ Handed(Account(u), more)
    BY <1>5, EndHands
  <1> QED
    BY <1>6, <1>7, <1>8

LEMMA DcSilence ==
  ASSUME NEW d \in Devices, d.coding = "piwm_dc", Decodable(d), NEW t, Good(t), NEW p, NEW g \in Int, g > d.reset,
         NEW last
  PROVE  Told(PiwmDc(d, t, p, g, last), <<<<>>>>)
  <1> DEFINE u == DcSymbol(d, t, p, 0)
  <1>1. Good(u)
    BY AddGood, NewRowGood, AccountGood DEF DcSymbol, Ends
  <1>2. PiwmDc(d, t, p, g, last) = DcSymbol(d, u, g, last)
    BY DEF PiwmDc
  <1> HIDE DEF u
  <1>3. DcSymbol(d, u, g, last) = IF HasRow(u) THEN Account(u) ELSE u
    BY DcEnd
  <1> QED
    BY <1>1, <1>2, <1>3, EndClears

-----------------------------------------------------------------------------
(* Pulse interval and width coding, raw *)

LEMMA RawDevice ==
  ASSUME NEW d \in Devices, d.coding = "piwm_raw", Decodable(d)
  PROVE  /\ d.short \in Nat /\ d.long \in Nat /\ d.tol \in Nat /\ d.reset \in Nat /\ d.tol > 1 /\ 2 < d.short
         /\ (d.long \div d.short) * d.short < d.long /\ d.long <= d.reset /\ d.long \div d.short \in Nat
  <1>1. /\ d.short \in Nat /\ d.long \in Nat /\ d.tol \in Nat /\ d.reset \in Nat /\ d.tol > 1 /\ 2 < d.short
        /\ (d.long \div d.short) * d.short < d.long /\ d.long <= d.reset
    BY DeviceWidths DEF Decodable
  <1>2. d.short \in Nat \ {0}
    BY <1>1
  <1> QED
    BY <1>1, <1>2, Quotient

LEMMA RawLevels ==
  ASSUME NEW d \in Devices, d.coding = "piwm_raw", Decodable(d), NEW q, NEW level \in Bit, NEW x \in Level(d, q, level)
  PROVE  x.says \in Seq(Bit) /\ \E w \in 1 .. d.long \div d.short : x.w = w * d.short /\ x.says = Bits(level, w)
  <1>1. PICK w \in 1 .. d.long \div d.short : x = Sym(w * d.short, Bits(level, w), 0)
    BY DEF Level
  <1>2. w \in Nat
    BY RawDevice
  <1>3. x.w = w * d.short /\ x.says = Bits(level, w)
    BY <1>1 DEF Sym
  <1> QED
    BY <1>2, <1>3, BitsAre

LEMMA RawTold ==
  ASSUME NEW d \in Devices, d.coding = "piwm_raw", Decodable(d), NEW rows, NEW t, Told(t, rows),
         NEW q, NEW level \in Bit, NEW x \in Level(d, q, level), NEW i \in Off,
         Room(More(rows, x.says)), NEW u, u = RawSymbol(d, t, x.w + i, level, 0)
  PROVE  Told(u, More(rows, x.says)) /\ u.out = t.out
  <1>1. PICK k \in 1 .. d.long \div d.short : x.w = k * d.short /\ x.says = Bits(level, k)
    BY RawLevels
  <1>2. /\ k \in Nat /\ d.short \in Nat \ {0} /\ 2 < d.short /\ k * d.short \in Nat /\ k * d.short < d.long
        /\ i \in Int /\ -1 <= i /\ i <= 1 /\ d.tol \in Nat /\ d.tol > 1 /\ d.long \in Nat /\ d.long <= d.reset
        /\ d.reset \in Nat
    <2>1. k \in Nat /\ d.short \in Nat \ {0} /\ k <= d.long \div d.short
      BY RawDevice
    <2>2. k * d.short <= (d.long \div d.short) * d.short /\ k * d.short \in Nat
      BY <2>1, RawDevice, Mono
    <2>3. k * d.short < d.long
      BY <2>1, <2>2, RawDevice, Mono
    <2> QED
      BY <2>1, <2>2, <2>3, RawDevice, OffIs
  <1> DEFINE x0 == x.w + i
             w == Periods(x0, d.short)
             v == CASE x0 > d.long -> NewRow(t)
                    [] x0 <= d.long /\ Dist(x0, w * d.short) < d.tol -> [t EXCEPT !.bits = AddRun(@, level, w)]
                    [] x0 <= d.long /\ Dist(x0, w * d.short) >= d.tol /\ x0 < d.reset /\ HasRowBits(t) -> NewRow(t)
                    [] OTHER -> t
  <1>3. x0 \in Int /\ 2 * (k * d.short) <= 2 * x0 + d.short /\ 2 * x0 < 2 * (k * d.short) + d.short
        /\ x0 <= d.long /\ ~(x0 > d.long) /\ ~(x0 > d.reset)
    BY <1>1, <1>2
  <1>4. w = k
    <2> HIDE DEF x0
    <2> QED
      BY <1>2, <1>3, PeriodsAre
  <1>5. Dist(x0, w * d.short) < d.tol /\ ~(Dist(x0, w * d.short) >= d.tol)
    <2> DEFINE a == k * d.short
    <2>1. a \in Nat /\ x0 = a + i
      BY <1>1, <1>2
    <2> HIDE DEF a, x0
    <2>2. Dist(x0, a) <= 1 /\ Dist(x0, a) \in Int
      BY <1>2, <2>1 DEF Dist
    <2>3. Dist(x0, a) < d.tol /\ ~(Dist(x0, a) >= d.tol)
      BY <1>2, <2>2
    <2> QED
      BY <1>4, <2>3 DEF a, x0
  <1>6. u = Ends(d, v, x0, 0)
    BY DEF RawSymbol
  <1> HIDE DEF x0, w
  <1>7. v = [t EXCEPT !.bits = AddRun(@, level, w)]
    BY <1>3, <1>5
  <1> HIDE DEF v
  <1>8. u = v
    BY <1>3, <1>6 DEF Ends
  <1>9. Told(v, More(rows, Bits(level, k))) /\ Same(t, v)
    BY <1>1, <1>2, <1>4, <1>7, TellRun
  <1> QED
    BY <1>1, <1>8, <1>9 DEF Same

LEMMA RawSend ==
  ASSUME NEW d \in Devices, d.coding = "piwm_raw", Decodable(d), NEW rows, NEW t, Told(t, rows),
         NEW q, NEW x \in Pulse(d, q), NEW y \in Gap(d, x.next), NEW i \in Off, NEW j \in Off,
         Fits(More(rows, x.says \o y.says))
  PROVE  /\ Told(PiwmRaw(d, t, x.w + i, y.w + j, 0), More(rows, x.says \o y.says))
         /\ x.says \o y.says \in Seq(Bit)
  <1>1. x \in Level(d, q, 1) /\ y \in Level(d, x.next, 0) /\ rows \in Messages /\ 0 \in Bit /\ 1 \in Bit
    BY DEF Pulse, Gap, Told, Bit
  <1>2. x.says \in Seq(Bit) /\ y.says \in Seq(Bit)
    BY <1>1, RawLevels
  <1>3. /\ x.says \o y.says \in Seq(Bit) /\ Room(More(rows, x.says)) /\ Room(More(More(rows, x.says), y.says))
        /\ More(rows, x.says \o y.says) = More(More(rows, x.says), y.says)
    BY <1>1, <1>2, Further
  <1> DEFINE u == RawSymbol(d, t, x.w + i, 1, 0)
             v == RawSymbol(d, u, y.w + j, 0, 0)
  <1>4. Told(u, More(rows, x.says))
    BY <1>1, <1>3, RawTold
  <1> HIDE DEF u
  <1>5. Told(v, More(More(rows, x.says), y.says))
    BY <1>1, <1>3, <1>4, RawTold
  <1>6. PiwmRaw(d, t, x.w + i, y.w + j, 0) = v
    BY DEF PiwmRaw, u
  <1> QED
    BY <1>3, <1>5, <1>6

LEMMA RawEnd ==
  ASSUME NEW d \in Devices, d.coding = "piwm_raw", Decodable(d), NEW t, Good(t), NEW g \in Int, g > d.reset, NEW last
  PROVE  RawSymbol(d, t, g, 0, last) = Account(NewRow(t)) /\ HasRow(NewRow(t)) /\ Good(NewRow(t))
  <1> DEFINE w == Periods(g, d.short)
             v == CASE g > d.long -> NewRow(t)
                    [] g <= d.long /\ Dist(g, w * d.short) < d.tol -> [t EXCEPT !.bits = AddRun(@, 0, w)]
                    [] g <= d.long /\ Dist(g, w * d.short) >= d.tol /\ g < d.reset /\ HasRowBits(t) -> NewRow(t)
                    [] OTHER -> t
  <1>1. g > d.long /\ ~(g <= d.long)
    BY RawDevice
  <1>2. RawSymbol(d, t, g, 0, last) = Ends(d, v, g, last)
    BY DEF RawSymbol
  <1> HIDE DEF w
  <1>3. v = NewRow(t)
    BY <1>1
  <1>4. HasRow(NewRow(t)) /\ Good(NewRow(t))
    <2>1. AddRow(t.bits).num > 0
      BY AddRowApart DEF Good
    <2> QED
      BY <2>1, NewRowGood DEF NewRow, HasRow, Good, Slicers
  <1> HIDE DEF v
  <1> QED
    BY <1>2, <1>3, <1>4 DEF Ends

LEMMA EmptyRow ==
  ASSUME NEW rows \in Messages, Len(rows) = 1
  PROVE  Filled(Append(rows, <<>>)) = Filled(rows)
  <1> DEFINE two == Append(rows, <<>>)
  <1>1. rows \in Seq(Seq(Bit))
    BY DEF Messages
  <1>2. two \in Seq(Seq(Bit)) /\ Len(two) = 2 /\ two[1] = rows[1] /\ two[2] = <<>>
    <2>1. <<>> \in Seq(Bit) /\ 1 \in 1 .. Len(rows)
      OBVIOUS
    <2>2. two \in Messages /\ Len(two) = Len(rows) + 1 /\ LastRow(two) = <<>> /\ two[1] = rows[1]
      BY <2>1, RowIs
    <2> QED
      BY <2>2 DEF LastRow, Messages
  <1> HIDE DEF two
  <1>3. PICK f \in [0 .. Len(two) -> Seq(Seq(Bit))] :
          /\ f[0] = <<>> /\ Filled(two) = f[Len(two)]
          /\ \A r \in 1 .. Len(two) : f[r] = IF two[r] = <<>> THEN f[r - 1] ELSE Append(f[r - 1], two[r])
    BY <1>2, FilledIs
  <1>4. PICK h \in [0 .. Len(rows) -> Seq(Seq(Bit))] :
          /\ h[0] = <<>> /\ Filled(rows) = h[Len(rows)]
          /\ \A r \in 1 .. Len(rows) : h[r] = IF rows[r] = <<>> THEN h[r - 1] ELSE Append(h[r - 1], rows[r])
    BY <1>1, FilledIs
  <1>5. 1 \in 1 .. Len(two) /\ 2 \in 1 .. Len(two) /\ 1 \in 1 .. Len(rows) /\ 1 - 1 = 0 /\ 2 - 1 = 1
    BY <1>2
  <1>6. f[1] = h[1]
    <2>1. f[1] = IF rows[1] = <<>> THEN <<>> ELSE Append(<<>>, rows[1])
      BY <1>2, <1>3, <1>5
    <2>2. h[1] = IF rows[1] = <<>> THEN <<>> ELSE Append(<<>>, rows[1])
      BY <1>4, <1>5
    <2> QED
      BY <2>1, <2>2
  <1>7. f[2] = f[1]
    BY <1>2, <1>3, <1>5
  <1> QED
    BY <1>2, <1>3, <1>4, <1>6, <1>7 DEF two

LEMMA RawFinish ==
  ASSUME NEW d \in Devices, d.coding = "piwm_raw", Decodable(d), NEW rows, NEW t, Told(t, rows), t.out = <<>>,
         Len(rows) = 1, NEW q, NEW x \in Pulse(d, q), NEW last, NEW y \in Silences(d, last), NEW i \in Off,
         NEW more, more = More(rows, x.says \o y.says), Fits(more)
  PROVE  Handed(PiwmRaw(d, t, x.w + i, y.w, last), more)
  <1>1. x \in Level(d, q, 1) /\ rows \in Messages /\ 1 \in Bit
    BY DEF Pulse, Told, Bit
  <1>2. x.says \in Seq(Bit)
    BY <1>1, RawLevels
  <1>3. y.says = <<>> /\ y.w \in Int /\ y.w > d.reset
    BY SilencesAre, DeviceWidths
  <1>4. more = More(rows, x.says) /\ Room(more) /\ more \in Messages /\ Len(more) = 1
    <2>1. x.says \o y.says = x.says
      BY <1>1, <1>2, <1>3, Further
    <2> QED
      BY <1>1, <1>2, <2>1, Further, MoreIs
  <1> DEFINE u == RawSymbol(d, t, x.w + i, 1, 0)
             v == NewRow(u)
  <1>5. Told(u, more) /\ u.out = <<>>
    BY <1>1, <1>4, RawTold
  <1>6. PiwmRaw(d, t, x.w + i, y.w, last) = RawSymbol(d, u, y.w, 0, last)
    BY DEF PiwmRaw
  <1> HIDE DEF u
  <1>7. RawSymbol(d, u, y.w, 0, last) = Account(v)
    BY <1>3, <1>5, RawEnd DEF Told
  <1>8. Told(v, Append(more, <<>>)) /\ HasRow(v) /\ v.out = <<>>
    BY <1>5, TellRow DEF Same
  <1> HIDE DEF v
  <1>9. Account(v).out = <<v.bits>> /\ Filled(Contents(v.bits)) = Filled(Append(more, <<>>))
    BY <1>8, TellAccount
  <1>10. Handed(Account(v), more)
    BY <1>4, <1>9, EmptyRow DEF Handed
  <1> QED
    BY <1>6, <1>7, <1>10

LEMMA RawSilence ==
  ASSUME NEW d \in Devices, d.coding = "piwm_raw", Decodable(d), NEW t, Good(t), NEW p \in Int, NEW g \in Int,
         g > d.reset, NEW last
  PROVE  Told(PiwmRaw(d, t, p, g, last), <<<<>>>>)
  <1> DEFINE w == Periods(p, d.short)
             v == CASE p > d.long -> NewRow(t)
                    [] p <= d.long /\ Dist(p, w * d.short) < d.tol -> [t EXCEPT !.bits = AddRun(@, 1, w)]
                    [] p <= d.long /\ Dist(p, w * d.short) >= d.tol /\ p < d.reset /\ HasRowBits(t) -> NewRow(t)
                    [] OTHER -> t
             u == RawSymbol(d, t, p, 1, 0)
  <1>1. w \in Int
    BY PeriodsType, DeviceWidths
  <1>2. u = Ends(d, v, p, 0)
    BY DEF RawSymbol
  <1> HIDE DEF w
  <1>3. Good(v)
    BY <1>1, NewRowGood, RunGood
  <1> HIDE DEF v
  <1>4. Good(u)
    BY <1>2, <1>3, AccountGood DEF Ends
  <1>5. PiwmRaw(d, t, p, g, last) = RawSymbol(d, u, g, 0, last)
    BY DEF PiwmRaw
  <1> HIDE DEF u
  <1>6. RawSymbol(d, u, g, 0, last) = Account(NewRow(u)) /\ Good(NewRow(u))
    BY <1>4, RawEnd
  <1> QED
    BY <1>5, <1>6, AccountClear

-----------------------------------------------------------------------------
(* NRZ-space *)

LEMMA NrzsPulses ==
  ASSUME NEW d \in Devices, d.coding = "nrzs", Decodable(d), NEW q, NEW x \in Pulse(d, q), NEW i \in Off,
         NEW p, p = x.w + i
  PROVE  /\ p \in Int /\ p # d.short
         /\ \E k \in 0 .. 2 : x.says = Append(Bits(1, k), 0) /\ (IF p > d.short THEN p \div d.short ELSE 0) = k
  <1>1. PICK k \in 0 .. 2 : x = Sym(k * d.short + d.short \div 2, Append(Bits(1, k), 0), 0)
    BY DEF Pulse
  <1>2. x.w = k * d.short + d.short \div 2 /\ x.says = Append(Bits(1, k), 0)
    BY <1>1 DEF Sym
  <1>3. /\ d.short \in Nat /\ d.short \in Nat \ {0} /\ 3 < d.short /\ i \in Int /\ -1 <= i /\ i <= 1
        /\ d.short \div 2 \in Nat /\ 2 * (d.short \div 2) <= d.short /\ d.short <= 2 * (d.short \div 2) + 1
    BY DeviceWidths, OffIs, Halves DEF Decodable
  <1> DEFINE h == d.short \div 2
             a == d.short
  <1> HIDE DEF h, a
  <1>4. /\ a \in Nat /\ 3 < a /\ h \in Nat /\ 2 * h <= a /\ a <= 2 * h + 1 /\ p = k * a + h + i
    BY <1>2, <1>3 DEF h, a
  <1>5. CASE k = 0
    <2>1. p = h + i /\ p < a
      BY <1>3, <1>4, <1>5
    <2>2. p \in Int /\ p # d.short /\ ~(p > d.short)
      BY <1>3, <1>4, <2>1 DEF a
    <2> QED
      BY <1>2, <1>5, <2>2
  <1>6. CASE k # 0
    <2>1. k \in Nat /\ k * a \in Nat /\ a <= k * a
      <3>1. k = 1 \/ k = 2
        BY <1>6
      <3> QED
        BY <1>4, <3>1
    <2>2. p \in Int /\ k * a <= p /\ p < k * a + a /\ p > a
      BY <1>3, <1>4, <2>1
    <2>3. p \in Int /\ k * d.short <= p /\ p < k * d.short + d.short /\ p > d.short
      BY <2>2 DEF a
    <2>4. p \div d.short = k
      BY <1>3, <2>1, <2>3, DivIs
    <2>5. (IF p > d.short THEN p \div d.short ELSE 0) = k /\ p # d.short
      BY <1>3, <2>3, <2>4
    <2> QED
      BY <1>2, <2>3, <2>5
  <1> QED
    BY <1>5, <1>6

LEMMA NrzsBits ==
  ASSUME NEW k \in 0 .. 2
  PROVE  Bits(1, k) \in Seq(Bit) /\ Append(Bits(1, k), 0) = Bits(1, k) \o <<0>> /\ Append(Bits(1, k), 0) \in Seq(Bit)
  <1>1. k \in Nat /\ 0 \in Bit /\ 1 \in Bit
    BY DEF Bit
  <1>2. Bits(1, k) \in Seq(Bit)
    BY <1>1, BitsAre
  <1> QED
    BY <1>1, <1>2

(* What a pulse says, whatever the gap. *)
OnesIn(d, p, k) == p # d.short /\ (IF p > d.short THEN p \div d.short ELSE 0) = k
NrzsPulse(t, k) == Add([t EXCEPT !.bits = AddRun(@, 1, k)], 0)

LEMMA NrzsIs ==
  ASSUME NEW d \in Devices, NEW rows, NEW t, Told(t, rows), NEW p, NEW k, OnesIn(d, p, k), NEW g, NEW last
  PROVE  Nrzs(d, t, p, g, last) = IF last = 1 \/ g >= d.reset THEN Account(NrzsPulse(t, k)) ELSE NrzsPulse(t, k)
  <1> DEFINE u == NrzsPulse(t, k)
             v == [t EXCEPT !.bits = AddRun(@, 1, k)]
  <1>1. v.bits = AddRun(t.bits, 1, k)
    BY DEF Told, Good, Slicers
  <1>2. u = [v EXCEPT !.bits = AddBit(AddRun(t.bits, 1, k), 0)]
    BY <1>1 DEF NrzsPulse, Add
  <1>3. [t EXCEPT !.bits = AddBit(AddRun(@, 1, k), 0)] = u
    BY <1>2 DEF Told, Good, Slicers
  <1> QED
    BY <1>3 DEF Nrzs, OnesIn

LEMMA NrzsTold ==
  ASSUME NEW rows, NEW t, Told(t, rows), NEW k \in 0 .. 2, NEW says, says = Append(Bits(1, k), 0),
         Room(More(rows, says))
  PROVE  Told(NrzsPulse(t, k), More(rows, says)) /\ NrzsPulse(t, k).out = t.out /\ HasRow(NrzsPulse(t, k))
  <1>1. /\ k \in Nat /\ 0 \in Bit /\ 1 \in Bit /\ rows \in Messages
    BY DEF Bit, Told
  <1>2. Bits(1, k) \in Seq(Bit) /\ <<0>> \in Seq(Bit) /\ says = Bits(1, k) \o <<0>>
    BY <1>1, NrzsBits, OneBit
  <1> DEFINE x == Bits(1, k)
             y == <<0>>
             half == More(rows, x)
             v == [t EXCEPT !.bits = AddRun(@, 1, k)]
  <1>3. More(rows, says) = More(half, y) /\ half \in Messages
    <2>1. x \in Seq(Bit) /\ y \in Seq(Bit) /\ says = x \o y
      BY <1>2
    <2> HIDE DEF x, y
    <2>2. More(rows, x \o y) = More(More(rows, x), y) /\ More(rows, x) \in Messages
      BY <1>1, <2>1, Further
    <2> QED
      BY <2>1, <2>2
  <1>4. Room(More(half, y)) /\ Room(half)
    <2> HIDE DEF y, half
    <2> QED
      BY <1>2, <1>3, RoomBefore DEF y
  <1>5. Told(v, half) /\ v.out = t.out
    BY <1>1, <1>4, TellRun DEF Same
  <1> DEFINE u == NrzsPulse(t, k)
  <1>7. u = Add(v, 0)
    BY DEF NrzsPulse
  <1> HIDE DEF u, v, half, y, x
  <1>8. Told(u, More(half, <<0>>)) /\ u.out = t.out /\ HasRow(u)
    BY <1>1, <1>4, <1>5, <1>7, TellAdd DEF Same, y
  <1> QED
    BY <1>3, <1>8 DEF u, y

LEMMA NrzsSays ==
  ASSUME NEW d \in Devices, d.coding = "nrzs", Decodable(d), NEW rows \in Messages, NEW q, NEW x \in Pulse(d, q),
         NEW more, more = More(rows, x.says \o <<>>), Fits(more)
  PROVE  x.says \in Seq(Bit) /\ x.says \o <<>> = x.says /\ more = More(rows, x.says) /\ Room(more)
  <1>1. x.says \in Seq(Bit)
    <2>1. 0 \in Off
      BY DEF Off
    <2>2. PICK k \in 0 .. 2 : x.says = Append(Bits(1, k), 0)
      BY <2>1, NrzsPulses
    <2> QED
      BY <2>2, NrzsBits
  <1>2. x.says \o <<>> = x.says
    BY <1>1, Further
  <1> QED
    BY <1>1, <1>2, Further

LEMMA NrzsSend ==
  ASSUME NEW d \in Devices, d.coding = "nrzs", Decodable(d), NEW rows, NEW t, Told(t, rows),
         NEW q, NEW x \in Pulse(d, q), NEW y \in Gap(d, x.next), NEW i \in Off, NEW j \in Off,
         Fits(More(rows, x.says \o y.says))
  PROVE  /\ Told(Nrzs(d, t, x.w + i, y.w + j, 0), More(rows, x.says \o y.says))
         /\ x.says \o y.says \in Seq(Bit)
  <1>1. y.says = <<>> /\ y.w = d.short /\ rows \in Messages
    BY DEF Gap, Sym, Told
  <1>2. /\ x.says \in Seq(Bit) /\ x.says \o y.says = x.says
        /\ More(rows, x.says \o y.says) = More(rows, x.says) /\ Room(More(rows, x.says))
    BY <1>1, NrzsSays
  <1> DEFINE g == y.w + j
             p == x.w + i
  <1>4. ~(g >= d.reset)
    <2>1. d.short \in Nat /\ d.reset \in Nat /\ d.short + 1 < d.reset /\ j \in Int /\ j <= 1
      BY DeviceWidths, OffIs DEF Decodable
    <2> QED
      BY <1>1, <2>1
  <1>5. PICK k \in 0 .. 2 : x.says = Append(Bits(1, k), 0) /\ (IF p > d.short THEN p \div d.short ELSE 0) = k
    BY NrzsPulses
  <1>6. p # d.short
    BY NrzsPulses
  <1> HIDE DEF g, p
  <1> DEFINE u == NrzsPulse(t, k)
             says == x.says
  <1>3. /\ says = Append(Bits(1, k), 0) /\ Room(More(rows, says)) /\ OnesIn(d, p, k) /\ u = NrzsPulse(t, k)
    BY <1>2, <1>5, <1>6 DEF OnesIn
  <1> HIDE DEF says
  <1>10. Told(u, More(rows, says)) /\ u.out = t.out /\ HasRow(u)
    BY <1>3, NrzsTold
  <1>11. Nrzs(d, t, p, g, 0) = IF 0 = 1 \/ g >= d.reset THEN Account(u) ELSE u
    BY <1>3, NrzsIs
  <1> HIDE DEF u
  <1>7. /\ Told(u, More(rows, x.says))
        /\ Nrzs(d, t, p, g, 0) = IF 0 = 1 \/ g >= d.reset THEN Account(u) ELSE u
    BY <1>2, <1>10, <1>11 DEF says
  <1> HIDE DEF u
  <1>8. Nrzs(d, t, p, g, 0) = u
    BY <1>4, <1>7
  <1> QED
    BY <1>2, <1>7, <1>8 DEF g, p

LEMMA NrzsFinish ==
  ASSUME NEW d \in Devices, d.coding = "nrzs", Decodable(d), NEW rows, NEW t, Told(t, rows), t.out = <<>>,
         NEW q, NEW x \in Pulse(d, q), NEW last, NEW y \in Silences(d, last), NEW i \in Off,
         NEW more, more = More(rows, x.says \o y.says), Fits(more)
  PROVE  Handed(Nrzs(d, t, x.w + i, y.w, last), more)
  <1>1. y.says = <<>> /\ y.w \in Int /\ y.w >= d.reset /\ rows \in Messages
    BY SilencesAre, DeviceWidths DEF Told
  <1>2. more = More(rows, x.says) /\ Room(more)
    BY <1>1, NrzsSays
  <1> DEFINE p == x.w + i
             g == y.w
  <1>4. g >= d.reset
    BY <1>1
  <1>5. PICK k \in 0 .. 2 : x.says = Append(Bits(1, k), 0) /\ (IF p > d.short THEN p \div d.short ELSE 0) = k
    BY NrzsPulses
  <1>6. p # d.short
    BY NrzsPulses
  <1> HIDE DEF g, p
  <1> DEFINE u == NrzsPulse(t, k)
             says == x.says
  <1>3. /\ says = Append(Bits(1, k), 0) /\ Room(More(rows, says)) /\ OnesIn(d, p, k) /\ u = NrzsPulse(t, k)
    BY <1>2, <1>5, <1>6 DEF OnesIn
  <1> HIDE DEF says
  <1>10. Told(u, More(rows, says)) /\ u.out = t.out /\ HasRow(u)
    BY <1>3, NrzsTold
  <1>11. Nrzs(d, t, p, g, last) = IF last = 1 \/ g >= d.reset THEN Account(u) ELSE u
    BY <1>3, NrzsIs
  <1> HIDE DEF u
  <1>7. /\ Told(u, more) /\ u.out = t.out /\ HasRow(u)
        /\ Nrzs(d, t, p, g, last) = IF last = 1 \/ g >= d.reset THEN Account(u) ELSE u
    BY <1>2, <1>10, <1>11 DEF says
  <1> HIDE DEF u
  <1>8. Nrzs(d, t, p, g, last) = Account(u)
    BY <1>4, <1>7
  <1>9. Handed(Account(u), more)
    BY <1>7, TellAccount DEF Handed
  <1> QED
    BY <1>8, <1>9 DEF p, g

LEMMA NrzsSilence ==
  ASSUME NEW d \in Devices, NEW t, Good(t), NEW p \in Int, NEW g \in Int, g > d.reset, NEW last
  PROVE  Told(Nrzs(d, t, p, g, last), <<<<>>>>)
  <1> DEFINE n == IF p > d.short THEN p \div d.short ELSE 0
             u == IF p = d.short THEN t ELSE [t EXCEPT !.bits = AddBit(AddRun(@, 1, n), 0)]
  <1>1. n \in Int /\ g >= d.reset
    BY DeviceWidths
  <1>2. Nrzs(d, t, p, g, last) = IF last = 1 \/ g >= d.reset THEN Account(u) ELSE u
    BY DEF Nrzs
  <1> HIDE DEF n
  <1>3. Apart(AddBit(AddRun(t.bits, 1, n), 0))
    BY <1>1, AddRunApart, AddBitApart DEF Good
  <1>4. Good(u)
    BY <1>3, BitsGood DEF Good, Slicers
  <1> HIDE DEF u
  <1> QED
    BY <1>1, <1>2, <1>4, AccountClear

-----------------------------------------------------------------------------
(* Return-to-zero, inverted *)

LEMMA RziPulses ==
  ASSUME NEW d \in Devices, d.coding = "rzi", Decodable(d), NEW q \in {0, 1}, NEW x \in Pulse(d, q), NEW i \in Off,
         NEW high, high = IF q = 0 THEN x.w + i ELSE x.w + i + d.short - d.long
  PROVE  /\ x.next = 1
         /\ \E k \in 0 .. 2 : x.says = Bits(1, k) /\ (IF high < 0 THEN 0 ELSE (high + d.long \div 2) \div d.long) = k
  <1>1. /\ d.short \in Nat /\ d.long \in Nat /\ d.long \in Nat \ {0} /\ 2 < d.long /\ i \in Int /\ -1 <= i /\ i <= 1
        /\ d.long \div 2 \in Nat /\ 2 * (d.long \div 2) <= d.long /\ d.long <= 2 * (d.long \div 2) + 1
    BY DeviceWidths, OffIs, Halves DEF Decodable
  <1>2. PICK k \in 0 .. 2 : x.says = Bits(1, k) /\ x.next = 1
                            /\ x.w = IF q = 0 THEN k * d.long ELSE k * d.long + d.long - d.short
    <2>1. CASE q = 0
      <3>1. PICK k \in 1 .. 2 : x = Sym(k * d.long, Bits(1, k), 1)
        BY <2>1 DEF Pulse
      <3>2. k \in 0 .. 2 /\ x.says = Bits(1, k) /\ x.next = 1 /\ x.w = k * d.long
        BY <3>1 DEF Sym
      <3> QED
        BY <2>1, <3>2
    <2>2. CASE q = 1
      <3>1. PICK k \in 0 .. 2 : x = Sym(k * d.long + d.long - d.short, Bits(1, k), 1)
        BY <2>2 DEF Pulse
      <3>2. x.says = Bits(1, k) /\ x.next = 1 /\ x.w = k * d.long + d.long - d.short
        BY <3>1 DEF Sym
      <3> QED
        BY <2>2, <3>2
    <2> QED
      BY <2>1, <2>2
  <1> DEFINE h == d.long \div 2
             a == d.long
             m == k * a
  <1>3. m \in Nat /\ (k = 0 => m = 0) /\ (k # 0 => a <= m)
    <2>1. k = 0 \/ k = 1 \/ k = 2
      OBVIOUS
    <2> QED
      BY <1>1, <2>1
  <1>4. high = m + i
    BY <1>1, <1>2, <1>3
  <1>5. CASE high < 0
    <2>1. k = 0
      BY <1>1, <1>3, <1>4, <1>5
    <2> QED
      BY <1>2, <1>5, <2>1
  <1>6. CASE ~(high < 0)
    <2> HIDE DEF h, m
    <2>1. high + h \in Int /\ m <= high + h /\ high + h < m + a
      BY <1>1, <1>3, <1>4 DEF h
    <2>2. (high + h) \div a = k
      BY <1>1, <2>1, DivIs DEF m
    <2> QED
      BY <1>2, <1>6, <2>2 DEF h
  <1> QED
    BY <1>5, <1>6

(* What a pulse says, whatever the gap. *)
RziTurn(d, u, g, last) ==
  CASE (last = 1 \/ g > d.reset) /\ u.bits.len[0] > 0 -> [Account(u) EXCEPT !.phase = 0]
    [] (last = 1 \/ g > d.reset) /\ u.bits.len[0] = 0 -> [u EXCEPT !.bits = Clear, !.phase = 0]
    [] OTHER -> Add(u, 0)

RziPulse(d, t, p) ==
  LET high == IF t.phase = 0 THEN p ELSE p + d.short - d.long
  IN [t EXCEPT !.phase = 1, !.bits = AddRun(@, 1, IF high < 0 THEN 0 ELSE (high + d.long \div 2) \div d.long)]

LEMMA RziTold ==
  ASSUME NEW d \in Devices, d.coding = "rzi", Decodable(d), NEW rows, NEW t, Told(t, rows),
         NEW q \in {0, 1}, t.phase = q, NEW x \in Pulse(d, q), NEW i \in Off, Room(More(rows, x.says)),
         NEW u, u = RziPulse(d, t, x.w + i)
  PROVE  x.next = 1 /\ Told(u, More(rows, x.says)) /\ u.out = t.out /\ u.phase = 1
  <1> DEFINE p == x.w + i
             high == IF t.phase = 0 THEN p ELSE p + d.short - d.long
             n == IF high < 0 THEN 0 ELSE (high + d.long \div 2) \div d.long
             w == [t EXCEPT !.phase = 1, !.bits = AddRun(@, 1, n)]
             v == [t EXCEPT !.bits = AddRun(@, 1, n)]
  <1>1. x.next = 1 /\ \E k \in 0 .. 2 : x.says = Bits(1, k) /\ n = k
    BY RziPulses
  <1>2. u = w
    BY DEF RziPulse
  <1> HIDE DEF n, p
  <1>3. n \in Nat /\ 1 \in Bit /\ x.says = Bits(1, n)
    BY <1>1 DEF Bit
  <1>4. Told(v, More(rows, x.says)) /\ v.out = t.out
    BY <1>3, TellRun DEF Same
  <1>5. w = [v EXCEPT !.phase = 1]
    BY DEF Told, Good, Slicers
  <1> HIDE DEF w, v
  <1>6. Told(w, More(rows, x.says)) /\ w.out = t.out /\ w.phase = 1
    BY <1>4, <1>5, TellPhase
  <1> QED
    BY <1>1, <1>2, <1>6

LEMMA RziIs ==
  ASSUME NEW d, NEW t, NEW p, NEW g, NEW last, NEW u, u = RziPulse(d, t, p)
  PROVE  Rzi(d, t, p, g, last) = RziTurn(d, u, g, last)
  BY DEF Rzi, RziTurn, RziPulse

LEMMA RziBits ==
  ASSUME NEW d \in Devices, d.coding = "rzi", Decodable(d), NEW q \in {0, 1}, NEW x \in Pulse(d, q)
  PROVE  x.says \in Seq(Bit)
  <1>1. 0 \in Off /\ 1 \in Bit
    BY DEF Off, Bit
  <1>2. PICK k \in 0 .. 2 : x.says = Bits(1, k)
    BY <1>1, RziPulses
  <1>3. k \in Nat
    OBVIOUS
  <1> QED
    BY <1>1, <1>2, <1>3, BitsAre

LEMMA RziSend ==
  ASSUME NEW d \in Devices, d.coding = "rzi", Decodable(d), NEW rows, NEW t, Told(t, rows),
         NEW q, InStep(d, t, q), NEW x \in Pulse(d, q), NEW y \in Gap(d, x.next), NEW i \in Off, NEW j \in Off,
         Fits(More(rows, x.says \o y.says))
  PROVE  /\ Told(Rzi(d, t, x.w + i, y.w + j, 0), More(rows, x.says \o y.says))
         /\ InStep(d, Rzi(d, t, x.w + i, y.w + j, 0), y.next)
         /\ x.says \o y.says \in Seq(Bit)
  <1>1. q \in {0, 1} /\ t.phase = q /\ rows \in Messages /\ y.says = <<0>> /\ y.w = d.short /\ y.next = 1
    BY DEF InStep, Told, Gap, Sym
  <1>2. x.says \in Seq(Bit) /\ y.says \in Seq(Bit) /\ 0 \in Bit /\ rows \in Messages
    BY <1>1, RziBits, OneBit DEF Bit
  <1>3. /\ x.says \o y.says \in Seq(Bit) /\ Room(More(rows, x.says)) /\ Room(More(More(rows, x.says), y.says))
        /\ More(rows, x.says \o y.says) = More(More(rows, x.says), y.says)
    BY <1>2, Further
  <1> DEFINE p == x.w + i
             g == y.w + j
  <1>4. ~(g > d.reset)
    <2>1. d.short \in Nat /\ d.reset \in Nat /\ d.short < d.reset /\ j \in Int /\ j <= 1
      BY DeviceWidths, OffIs DEF Decodable
    <2> QED
      BY <1>1, <2>1
  <1> DEFINE u == RziPulse(d, t, p)
  <1>5. Told(u, More(rows, x.says)) /\ u.phase = 1
    BY <1>1, <1>3, RziTold
  <1>9. Rzi(d, t, p, g, 0) = RziTurn(d, u, g, 0)
    BY RziIs
  <1> HIDE DEF p, g, u
  <1>6. Rzi(d, t, p, g, 0) = Add(u, 0)
    BY <1>4, <1>9 DEF RziTurn
  <1> DEFINE v == Add(u, 0)
  <1>7. Told(v, More(More(rows, x.says), y.says)) /\ v.phase = 1
    BY <1>1, <1>2, <1>3, <1>5, TellAdd DEF Same
  <1> HIDE DEF v
  <1>8. InStep(d, v, y.next)
    BY <1>1, <1>7 DEF InStep
  <1> QED
    BY <1>3, <1>6, <1>7, <1>8 DEF p, g, v

LEMMA RziFinish ==
  ASSUME NEW d \in Devices, d.coding = "rzi", Decodable(d), NEW rows, NEW t, Told(t, rows), t.out = <<>>,
         Len(rows) = 1, NEW q, InStep(d, t, q), NEW x \in Pulse(d, q), NEW last, NEW y \in Silences(d, last), NEW i \in Off,
         NEW more, more = More(rows, x.says \o y.says), Fits(more), SomeBits(more)
  PROVE  Handed(Rzi(d, t, x.w + i, y.w, last), more)
  <1> PICK r \in DOMAIN more : more[r] # <<>>
    BY DEF SomeBits
  <1>1. q \in {0, 1} /\ t.phase = q /\ rows \in Messages
    BY DEF InStep, Told
  <1>2. y.says = <<>> /\ y.w \in Int /\ y.w > d.reset
    BY SilencesAre, DeviceWidths
  <1>3. x.says \in Seq(Bit)
    BY <1>1, RziBits
  <1>4. more = More(rows, x.says) /\ Room(more) /\ Len(more) = 1
    <2>1. x.says \o y.says = x.says
      BY <1>1, <1>2, <1>3, Further
    <2> QED
      BY <1>1, <1>3, <2>1, Further, MoreIs
  <1> DEFINE p == x.w + i
             g == y.w
  <1> DEFINE u == RziPulse(d, t, p)
  <1>5. Told(u, more) /\ u.out = t.out /\ u.phase = 1
    BY <1>1, <1>4, RziTold
  <1>11. Rzi(d, t, p, g, last) = RziTurn(d, u, g, last)
    BY RziIs
  <1> HIDE DEF p, g, u
  <1>6. u.bits.len[0] > 0 /\ HasRow(u)
    BY <1>4, <1>5, TellData
  <1>7. Rzi(d, t, p, g, last) = [Account(u) EXCEPT !.phase = 0]
    BY <1>2, <1>6, <1>11 DEF RziTurn, g
  <1> DEFINE v == Account(u)
  <1>8. Told(v, <<<<>>>>) /\ Handed(v, more)
    BY <1>5, <1>6, TellAccount DEF Handed
  <1> HIDE DEF v
  <1>9. [v EXCEPT !.phase = 0].out = v.out
    BY <1>8, TellPhase
  <1>10. Handed([v EXCEPT !.phase = 0], more)
    BY <1>8, <1>9 DEF Handed
  <1> QED
    BY <1>7, <1>10 DEF p, g, v

LEMMA RziSilence ==
  ASSUME NEW d \in Devices, d.coding = "rzi", NEW t, Good(t), NEW p \in Int, NEW g \in Int, g > d.reset, NEW last
  PROVE  Told(Rzi(d, t, p, g, last), <<<<>>>>) /\ InStep(d, Rzi(d, t, p, g, last), 0)
  <1> DEFINE high == IF t.phase = 0 THEN p ELSE p + d.short - d.long
             n == IF high < 0 THEN 0 ELSE (high + d.long \div 2) \div d.long
             u == [t EXCEPT !.phase = 1, !.bits = AddRun(@, 1, n)]
             v == [t EXCEPT !.bits = AddRun(@, 1, n)]
             w == Rzi(d, t, p, g, last)
  <1>1. n \in Int
    <2>1. d.long \in Nat \ {0} /\ d.short \in Nat /\ d.long \div 2 \in Nat
      BY DeviceWidths, Halves
    <2>2. high \in Int
      BY <2>1
    <2> HIDE DEF high
    <2>3. CASE high < 0
      BY <2>3
    <2>4. CASE ~(high < 0)
      <3>1. high + d.long \div 2 \in Nat
        BY <2>1, <2>2, <2>4
      <3> DEFINE m == high + d.long \div 2
      <3> HIDE DEF m
      <3>2. m \div d.long \in Nat
        BY <2>1, <3>1, Quotient DEF m
      <3> QED
        BY <2>4, <3>2 DEF m
    <2> QED
      BY <2>3, <2>4
  <1>2. w = RziTurn(d, u, g, last)
    BY DEF Rzi, RziTurn
  <1> HIDE DEF n, w
  <1>3. Good(v)
    BY <1>1, RunGood
  <1>4. u = [v EXCEPT !.phase = 1]
    BY DEF Good, Slicers
  <1> HIDE DEF v, u
  <1>5. Good(u)
    BY <1>3, <1>4, PhaseGood
  <1>6. CASE u.bits.len[0] > 0
    <2>1. w = [Account(u) EXCEPT !.phase = 0]
      BY <1>2, <1>6 DEF RziTurn
    <2>2. Told(Account(u), <<<<>>>>)
      BY <1>5, AccountClear
    <2>3. Told(w, <<<<>>>>) /\ w.phase = 0
      BY <2>1, <2>2, TellPhase
    <2> QED
      BY <2>3 DEF InStep, w
  <1>7. CASE ~(u.bits.len[0] > 0)
    <2>1. u.bits.len[0] = 0
      BY <1>5, <1>7, Buffer, Sizes DEF Good, Slicers
    <2>2. w = [u EXCEPT !.bits = Clear, !.phase = 0]
      BY <1>2, <1>7, <2>1 DEF RziTurn
    <2> DEFINE c == [u EXCEPT !.bits = Clear]
    <2>3. Good(c) /\ c.bits = Clear
      BY <1>5, ClearApart, BitsGood DEF Good, Slicers
    <2>4. w = [c EXCEPT !.phase = 0]
      BY <2>2 DEF Good, Slicers
    <2> HIDE DEF c
    <2>5. Told(c, <<<<>>>>)
      BY <2>3, TellClear
    <2>6. Told(w, <<<<>>>>) /\ w.phase = 0
      BY <2>4, <2>5, TellPhase
    <2> QED
      BY <2>6 DEF InStep, w
  <1> QED
    BY <1>6, <1>7

-----------------------------------------------------------------------------
(* Oregon Scientific v1 *)

LEMMA Osv1Device ==
  ASSUME NEW d \in Devices, d.coding = "osv1", Decodable(d)
  PROVE  /\ d.short \in Nat /\ d.reset \in Nat /\ 3 < d.short /\ 2 * d.short < d.reset
         /\ HalfMin(d) \in Nat /\ 2 * HalfMin(d) <= d.short
         /\ HalfMax(d) \in Nat /\ 2 * HalfMax(d) <= 3 * d.short /\ 3 * d.short <= 2 * HalfMax(d) + 1
         /\ Preamble \in Nat /\ 0 < Preamble /\ OsvSync = 2 + Preamble /\ OsvSync \in Nat
  <1>1. d.short \in Nat /\ d.reset \in Nat /\ 3 < d.short /\ 2 * d.short < d.reset /\ 0 < Preamble
    BY DeviceWidths DEF Decodable
  <1>2. Preamble \in Nat
    BY SlicerAssumption
  <1>3. d.short * 3 \in Nat /\ d.short * 3 = 3 * d.short
    BY <1>1
  <1> QED
    BY <1>1, <1>2, <1>3, Halves DEF HalfMin, HalfMax, OsvSync

LEMMA HalfBitTold ==
  ASSUME NEW rows, NEW t, Told(t, rows), NEW bit \in Bit
  PROVE  /\ t.half = 0 /\ Room(More(rows, <<bit>>)) =>
              Told(HalfBit(t, bit), More(rows, <<bit>>)) /\ HalfBit(t, bit).half = 1
         /\ t.half = 1 => Told(HalfBit(t, bit), rows) /\ HalfBit(t, bit).half = 0
         /\ (t.half = 0 /\ Room(More(rows, <<bit>>))) \/ t.half = 1 =>
              /\ HalfBit(t, bit).phase = t.phase /\ HalfBit(t, bit).seen = t.seen
              /\ HalfBit(t, bit).out = t.out
  <1>1. CASE t.half = 0 /\ Room(More(rows, <<bit>>))
    <2> DEFINE v == Add(t, bit)
    <2>1. Told(v, More(rows, <<bit>>)) /\ Same(t, v)
      BY <1>1, TellAdd
    <2>2. HalfBit(t, bit) = [v EXCEPT !.half = 1]
      BY <1>1 DEF HalfBit
    <2> HIDE DEF v
    <2> DEFINE u == HalfBit(t, bit)
    <2> HIDE DEF u
    <2>3. u = [v EXCEPT !.half = 1] /\ 1 \in {0, 1}
      BY <2>2 DEF u
    <2>4. Told(u, More(rows, <<bit>>)) /\ u.half = 1 /\ u.phase = v.phase /\ u.seen = v.seen /\ u.out = v.out
      BY <2>1, <2>3, TellHalf
    <2>5. u.phase = t.phase /\ u.seen = t.seen /\ u.out = t.out
      BY <2>1, <2>4 DEF Same
    <2> QED
      BY <1>1, <2>4, <2>5 DEF u
  <1>2. CASE t.half = 1
    <2> DEFINE u == HalfBit(t, bit)
    <2>1. u = [t EXCEPT !.half = 0] /\ 0 \in {0, 1}
      BY <1>2 DEF HalfBit
    <2> HIDE DEF u
    <2>2. Told(u, rows) /\ u.half = 0 /\ u.phase = t.phase /\ u.seen = t.seen /\ u.out = t.out
      BY <2>1, TellHalf
    <2> QED
      BY <1>2, <2>2 DEF u
  <1>3. CASE ~(t.half = 0 /\ Room(More(rows, <<bit>>))) /\ t.half # 1
    BY <1>3
  <1> QED
    BY <1>1, <1>2, <1>3

LEMMA HalvesTold ==
  ASSUME NEW d \in Devices, d.coding = "osv1", Decodable(d), NEW rows, NEW t, Told(t, rows),
         NEW q \in {0, 1}, t.half = 1 - q, NEW level \in Bit, NEW x \in Level(d, q, level), NEW i \in Off,
         Room(More(rows, x.says)), NEW u, u = HalfBits(d, t, x.w + i, level)
  PROVE  /\ Told(u, More(rows, x.says)) /\ u.half = 1 - x.next /\ x.next \in {0, 1}
         /\ u.phase = t.phase /\ u.out = t.out
  <1>1. /\ d.short \in Nat /\ 3 < d.short /\ HalfMax(d) \in Nat
        /\ 2 * HalfMax(d) <= 3 * d.short /\ 3 * d.short <= 2 * HalfMax(d) + 1
        /\ i \in Int /\ -1 <= i /\ i <= 1
    BY Osv1Device, OffIs
  <1>2. ~(d.short + i > HalfMax(d)) /\ 2 * d.short + i > HalfMax(d)
    BY <1>1
  <1>3. rows \in Messages /\ More(rows, <<>>) = rows
    BY Further DEF Told
  <1> DEFINE v == HalfBit(t, level)
  <1>4. CASE q = 0 /\ x.w = d.short /\ x.says = <<>> /\ x.next = 1
    <2>1. u = v /\ t.half = 1
      BY <1>2, <1>4 DEF HalfBits
    <2> HIDE DEF v
    <2>2. Told(v, rows) /\ v.half = 0 /\ v.phase = t.phase /\ v.out = t.out
      BY <2>1, HalfBitTold DEF v
    <2> QED
      BY <1>3, <1>4, <2>1, <2>2
  <1>5. CASE q = 0 /\ x.w = 2 * d.short /\ x.says = <<level>> /\ x.next = 0
    <2>1. u = HalfBit(v, level) /\ t.half = 1
      BY <1>2, <1>5 DEF HalfBits
    <2> HIDE DEF v
    <2>2. Told(v, rows) /\ v.half = 0 /\ v.phase = t.phase /\ v.out = t.out
      BY <2>1, HalfBitTold DEF v
    <2>3. Room(More(rows, <<level>>))
      BY <1>5
    <2>4. /\ Told(HalfBit(v, level), More(rows, <<level>>)) /\ HalfBit(v, level).half = 1
          /\ HalfBit(v, level).phase = v.phase /\ HalfBit(v, level).out = v.out
      BY <2>2, <2>3, HalfBitTold
    <2> QED
      BY <1>5, <2>1, <2>2, <2>4
  <1>6. CASE q # 0 /\ x.w = d.short /\ x.says = <<level>> /\ x.next = 0
    <2>1. u = v /\ t.half = 0 /\ Room(More(rows, <<level>>))
      BY <1>2, <1>6 DEF HalfBits
    <2> HIDE DEF v
    <2>2. Told(v, More(rows, <<level>>)) /\ v.half = 1 /\ v.phase = t.phase /\ v.out = t.out
      BY <2>1, HalfBitTold DEF v
    <2> QED
      BY <1>6, <2>1, <2>2
  <1> QED
    BY <1>4, <1>5, <1>6, HalfLevels

(* A pulse and a gap of the data. *)
LEMMA Osv1Bits ==
  ASSUME NEW d \in Devices, d.coding = "osv1", Decodable(d), NEW rows, NEW t, Told(t, rows),
         NEW q \in {0, 1}, InStep(d, t, q), NEW x \in Pulse(d, q), NEW y \in Gap(d, x.next), NEW i \in Off, NEW j \in Off,
         Fits(More(rows, x.says \o y.says))
  PROVE  /\ Told(Osv1(d, t, x.w + i, y.w + j, 0), More(rows, x.says \o y.says))
         /\ InStep(d, Osv1(d, t, x.w + i, y.w + j, 0), y.next)
         /\ x.says \o y.says \in Seq(Bit)
  <1>1. rows \in Messages /\ 0 \in Bit /\ 1 \in Bit /\ t.phase = 2 /\ t.half = 1 - q /\ ~(q >= 2)
    <2>1. OsvSync \in Nat /\ OsvSync > 2
      BY Osv1Device
    <2>2. q # OsvSync
      BY <2>1
    <2>3. t.phase = 2 /\ t.half = 1 - q
      BY <2>2 DEF InStep
    <2> QED
      BY <2>3 DEF Told, Bit
  <1>2. x \in Level(d, q, 1)
    BY <1>1 DEF Pulse
  <1>3. x.says \in Seq(Bit) /\ x.next \in {0, 1} /\ ~(x.next >= 2)
    BY <1>1, <1>2, HalfLevels
  <1>4. y \in Level(d, x.next, 0)
    BY <1>3 DEF Gap
  <1>5. /\ y.says \in Seq(Bit) /\ (y.w = d.short \/ y.w = 2 * d.short)
    BY <1>1, <1>4, HalfLevels
  <1>6. /\ x.says \o y.says \in Seq(Bit) /\ Room(More(rows, x.says)) /\ Room(More(More(rows, x.says), y.says))
        /\ More(rows, x.says \o y.says) = More(More(rows, x.says), y.says)
    BY <1>1, <1>3, <1>5, Further
  <1> DEFINE p == x.w + i
             g == y.w + j
             u == HalfBits(d, t, p, 1)
             v == HalfBits(d, u, g, 0)
  <1>7. ~(0 = 1 \/ g > d.reset)
    <2>1. d.short \in Nat /\ d.reset \in Nat /\ 2 * d.short < d.reset /\ j \in Int /\ j <= 1
      BY Osv1Device, OffIs
    <2>2. g \in Int /\ g <= d.reset
      BY <1>5, <2>1
    <2> HIDE DEF g
    <2> QED
      BY <2>1, <2>2
  <1>8. Osv1(d, t, p, g, 0) = v
    <2>1. Osv1(d, t, p, g, 0) = Osv1Data(d, t, p, g, 0)
      BY <1>1 DEF Osv1
    <2> HIDE DEF p, g
    <2> QED
      BY <1>7, <2>1 DEF Osv1Data
  <1>9. Told(u, More(rows, x.says)) /\ u.half = 1 - x.next /\ u.phase = 2
    BY <1>1, <1>2, <1>6, HalvesTold
  <1>10. /\ Told(v, More(More(rows, x.says), y.says)) /\ v.half = 1 - y.next /\ v.phase = 2 /\ y.next \in {0, 1}
    <2> HIDE DEF u
    <2> QED
      BY <1>1, <1>3, <1>4, <1>6, <1>9, HalvesTold
  <1> HIDE DEF u, v, p, g
  <1>11. InStep(d, v, y.next)
    <2>1. y.next \in 0 .. OsvSync /\ y.next # OsvSync
      BY <1>10, Osv1Device
    <2> QED
      BY <1>10, <2>1 DEF InStep
  <1> QED
    BY <1>6, <1>8, <1>10, <1>11 DEF p, g

(* A pulse and a gap of the preamble. *)
LEMMA Osv1Begins ==
  ASSUME NEW d \in Devices, d.coding = "osv1", Decodable(d), NEW rows, NEW t, Told(t, rows),
         NEW q \in 2 .. OsvSync - 1, InStep(d, t, q), NEW x \in Pulse(d, q), NEW y \in Gap(d, x.next),
         NEW i \in Off, NEW j \in Off
  PROVE  /\ Told(Osv1(d, t, x.w + i, y.w + j, 0), rows)
         /\ InStep(d, Osv1(d, t, x.w + i, y.w + j, 0), y.next)
         /\ x.says = <<>> /\ y.says = <<>>
  <1>1. /\ d.short \in Nat /\ 3 < d.short /\ HalfMin(d) \in Nat /\ HalfMax(d) \in Nat
        /\ 2 * HalfMin(d) <= d.short /\ 2 * HalfMax(d) <= 3 * d.short /\ 3 * d.short <= 2 * HalfMax(d) + 1
        /\ i \in Int /\ -1 <= i /\ i <= 1 /\ j \in Int /\ -1 <= j /\ j <= 1
        /\ Preamble \in Nat /\ 0 < Preamble /\ OsvSync = 2 + Preamble
    BY Osv1Device, OffIs
  <1>2. q \in Int /\ q >= 2 /\ q # OsvSync /\ q < OsvSync /\ q \notin {0, 1} /\ q + 1 \in 0 .. OsvSync
    BY <1>1
  <1>3. t.phase = 0 /\ t.half = 0 /\ t.seen = q - 2
    BY <1>2 DEF InStep
  <1>4. x = Sym(d.short, <<>>, q)
    BY <1>2 DEF Pulse
  <1>5. x.w = d.short /\ x.says = <<>> /\ x.next = q
    BY <1>4 DEF Sym
  <1>6. y = Sym(IF q + 1 = OsvSync THEN 2 * d.short ELSE d.short, <<>>, q + 1)
    BY <1>2, <1>5 DEF Gap
  <1>7. y.w = (IF q + 1 = OsvSync THEN 2 * d.short ELSE d.short) /\ y.says = <<>> /\ y.next = q + 1
    BY <1>6 DEF Sym
  <1> DEFINE p == x.w + i
             g == y.w + j
  <1>8. Osv1(d, t, p, g, 0) = Osv1Preamble(d, t, p, g)
    BY <1>3 DEF Osv1
  <1>9. p > HalfMin(d) /\ ~(p <= HalfMin(d)) /\ g > HalfMin(d) /\ ~(g <= HalfMin(d))
    BY <1>1, <1>5, <1>7
  <1>10. CASE q + 1 = OsvSync
    <2>1. ~(g <= HalfMax(d)) /\ t.seen + 1 = Preamble
      BY <1>1, <1>3, <1>7, <1>10
    <2> HIDE DEF p, g
    <2> DEFINE u == Osv1(d, t, p, g, 0)
    <2>2. u = [t EXCEPT !.phase = 1] /\ 1 \in 0 .. 3
      BY <1>8, <1>9, <2>1 DEF Osv1Preamble
    <2> HIDE DEF u
    <2>3. Told(u, rows) /\ u.phase = 1 /\ u.half = 0
      BY <1>3, <2>2, TellPhase
    <2>4. OsvSync \notin {0, 1}
      BY <1>1
    <2>5. InStep(d, u, OsvSync)
      BY <1>2, <1>10, <2>3, <2>4 DEF InStep
    <2> QED
      BY <1>5, <1>7, <1>10, <2>3, <2>5 DEF u, p, g
  <1>11. CASE q + 1 # OsvSync
    <2>1. g <= HalfMax(d) /\ Lesser(t.seen, Preamble) + 1 = q - 1
      BY <1>1, <1>2, <1>3, <1>7, <1>11 DEF Lesser
    <2> HIDE DEF p, g
    <2> DEFINE u == Osv1(d, t, p, g, 0)
    <2>2. u = [t EXCEPT !.seen = Lesser(@, Preamble) + 1]
      BY <1>8, <1>9, <2>1 DEF Osv1Preamble
    <2>3. u = [t EXCEPT !.seen = q - 1] /\ q - 1 \in Nat
      BY <1>2, <2>1, <2>2
    <2> HIDE DEF u
    <2>4. Told(u, rows) /\ u.seen = q - 1 /\ u.phase = 0 /\ u.half = 0
      BY <1>3, <2>3, TellSeen
    <2>5. q + 1 \notin {0, 1} /\ q - 1 = (q + 1) - 2
      BY <1>2
    <2>6. InStep(d, u, q + 1)
      BY <1>2, <1>11, <2>4, <2>5 DEF InStep
    <2> QED
      BY <1>5, <1>7, <2>4, <2>6 DEF u, p, g
  <1> QED
    BY <1>10, <1>11

(* The sync. *)
LEMMA Osv1Syncs ==
  ASSUME NEW d \in Devices, d.coding = "osv1", Decodable(d), NEW rows, NEW t, Told(t, rows),
         InStep(d, t, OsvSync), NEW x \in Pulse(d, OsvSync), NEW y \in Gap(d, x.next),
         NEW i \in Off, NEW j \in Off, Fits(More(rows, x.says \o y.says))
  PROVE  /\ Told(Osv1(d, t, x.w + i, y.w + j, 0), More(rows, x.says \o y.says))
         /\ InStep(d, Osv1(d, t, x.w + i, y.w + j, 0), y.next)
         /\ x.says \o y.says \in Seq(Bit)
  <1>1. /\ d.short \in Nat /\ 3 < d.short /\ HalfMax(d) \in Nat /\ 2 * HalfMax(d) <= 3 * d.short
        /\ i \in Int /\ -1 <= i /\ i <= 1 /\ j \in Int /\ -1 <= j /\ j <= 1
        /\ Preamble \in Nat /\ 0 < Preamble /\ OsvSync = 2 + Preamble
    BY Osv1Device, OffIs
  <1>2. OsvSync \notin {0, 1} /\ OsvSync >= 2 /\ 0 \in 0 .. OsvSync /\ 1 \in 0 .. OsvSync
    BY <1>1
  <1>3. t.phase = 1 /\ t.half = 0
    BY <1>2 DEF InStep
  <1>4. x = Sym(4 * d.short - 1, <<>>, OsvSync)
    BY <1>2 DEF Pulse
  <1>5. x.w = 4 * d.short - 1 /\ x.says = <<>> /\ x.next = OsvSync
    BY <1>4 DEF Sym
  <1>6. y \in {Sym(4 * d.short - 3, <<>>, 1), Sym(5 * d.short - 1, <<0>>, 0)}
    BY <1>2, <1>5 DEF Gap
  <1>7. rows \in Messages /\ 0 \in Bit
    BY DEF Told, Bit
  <1> DEFINE p == x.w + i
             g == y.w + j
             u == Osv1(d, t, p, g, 0)
  <1>8. u = Osv1Sync(d, t, p, g)
    BY <1>3 DEF Osv1
  <1>9. p >= 2 * HalfMax(d) /\ ~(p < 2 * HalfMax(d))
    BY <1>1, <1>5
  <1>10. CASE y = Sym(4 * d.short - 3, <<>>, 1)
    <2>1. y.w = 4 * d.short - 3 /\ y.says = <<>> /\ y.next = 1
      BY <1>10 DEF Sym
    <2>2. g >= 2 * HalfMax(d) /\ ~(g < 2 * HalfMax(d)) /\ ~(g > p)
      BY <1>1, <1>5, <2>1
    <2>3. x.says \o y.says = <<>> /\ x.says \o y.says \in Seq(Bit) /\ More(rows, x.says \o y.says) = rows
      BY <1>5, <1>7, <2>1, Further
    <2> HIDE DEF p, g
    <2>4. u = [t EXCEPT !.phase = 2] /\ 2 \in 0 .. 3
      BY <1>8, <1>9, <2>2 DEF Osv1Sync
    <2> HIDE DEF u
    <2>5. Told(u, rows) /\ u.phase = 2 /\ u.half = 0
      BY <1>3, <2>4, TellPhase
    <2>6. InStep(d, u, 1)
      BY <1>2, <2>5 DEF InStep
    <2> QED
      BY <2>1, <2>3, <2>5, <2>6 DEF p, g, u
  <1>11. CASE y = Sym(5 * d.short - 1, <<0>>, 0)
    <2>1. y.w = 5 * d.short - 1 /\ y.says = <<0>> /\ y.next = 0
      BY <1>11 DEF Sym
    <2>2. g >= 2 * HalfMax(d) /\ ~(g < 2 * HalfMax(d)) /\ g > p
      BY <1>1, <1>5, <2>1
    <2>3. x.says \o y.says = <<0>> /\ x.says \o y.says \in Seq(Bit)
      BY <1>5, <1>7, <2>1, Further
    <2>4. Room(More(rows, <<0>>))
      BY <1>7, <2>3, Further
    <2> DEFINE v == HalfBit(t, 0)
    <2>5. Told(v, More(rows, <<0>>)) /\ v.half = 1
      BY <1>3, <1>7, <2>4, HalfBitTold
    <2> HIDE DEF p, g, v
    <2>6. u = [v EXCEPT !.phase = 2] /\ 2 \in 0 .. 3
      BY <1>8, <1>9, <2>2 DEF Osv1Sync, v
    <2> HIDE DEF u
    <2>7. Told(u, More(rows, <<0>>)) /\ u.phase = 2 /\ u.half = 1
      BY <2>5, <2>6, TellPhase
    <2>8. InStep(d, u, 0)
      BY <1>2, <2>7 DEF InStep
    <2> QED
      BY <2>1, <2>3, <2>7, <2>8 DEF p, g, u
  <1> QED
    BY <1>6, <1>10, <1>11

LEMMA Osv1Send ==
  ASSUME NEW d \in Devices, d.coding = "osv1", Decodable(d), NEW rows, NEW t, Told(t, rows),
         NEW q, InStep(d, t, q), NEW x \in Pulse(d, q), NEW y \in Gap(d, x.next), NEW i \in Off, NEW j \in Off,
         Fits(More(rows, x.says \o y.says))
  PROVE  /\ Told(Osv1(d, t, x.w + i, y.w + j, 0), More(rows, x.says \o y.says))
         /\ InStep(d, Osv1(d, t, x.w + i, y.w + j, 0), y.next)
         /\ x.says \o y.says \in Seq(Bit)
  <1>1. q \in {0, 1} \/ q \in 2 .. OsvSync - 1 \/ q = OsvSync
    <2>1. q \in 0 .. OsvSync
      BY DEF InStep
    <2> QED
      BY <2>1, Osv1Device
  <1>2. CASE q \in {0, 1}
    BY <1>2, Osv1Bits
  <1>3. CASE q \in 2 .. OsvSync - 1
    <2>1. /\ Told(Osv1(d, t, x.w + i, y.w + j, 0), rows) /\ InStep(d, Osv1(d, t, x.w + i, y.w + j, 0), y.next)
          /\ x.says = <<>> /\ y.says = <<>>
      BY <1>3, Osv1Begins
    <2>2. x.says \o y.says = <<>> /\ x.says \o y.says \in Seq(Bit) /\ More(rows, x.says \o y.says) = rows
      BY <2>1, Further DEF Told
    <2> QED
      BY <2>1, <2>2
  <1>4. CASE q = OsvSync
    BY <1>4, Osv1Syncs
  <1> QED
    BY <1>1, <1>2, <1>3, <1>4

LEMMA Osv1Finish ==
  ASSUME NEW d \in Devices, d.coding = "osv1", Decodable(d), NEW rows, NEW t, Told(t, rows), t.out = <<>>,
         NEW q \in {0, 1}, InStep(d, t, q), NEW x \in Pulse(d, q), NEW last, NEW y \in Silences(d, last), NEW i \in Off,
         NEW more, more = More(rows, x.says \o y.says), Fits(more), SomeBits(more)
  PROVE  Handed(Osv1(d, t, x.w + i, y.w, last), more)
  <1> PICK r \in DOMAIN more : more[r] # <<>>
    BY DEF SomeBits
  <1>1. rows \in Messages /\ 1 \in Bit /\ t.phase = 2 /\ t.half = 1 - q /\ ~(q >= 2)
    <2>1. OsvSync \in Nat /\ OsvSync > 2
      BY Osv1Device
    <2>2. q # OsvSync
      BY <2>1
    <2>3. t.phase = 2 /\ t.half = 1 - q
      BY <2>2 DEF InStep
    <2> QED
      BY <2>3 DEF Told, Bit
  <1>2. x \in Level(d, q, 1)
    BY <1>1 DEF Pulse
  <1>3. x.says \in Seq(Bit)
    BY <1>1, <1>2, HalfLevels
  <1>4. y.says = <<>> /\ y.w \in Int /\ y.w > d.reset
    BY SilencesAre, DeviceWidths
  <1>5. more = More(rows, x.says) /\ Room(more)
    <2>1. x.says \o y.says = x.says
      BY <1>1, <1>3, <1>4, Further
    <2> QED
      BY <1>1, <1>3, <2>1, Further
  <1> DEFINE p == x.w + i
             g == y.w
             u == HalfBits(d, t, p, 1)
  <1>6. Told(u, more) /\ u.out = t.out
    BY <1>1, <1>2, <1>5, HalvesTold
  <1>7. Osv1(d, t, p, g, last) = Osv1Data(d, t, p, g, last)
    BY <1>1 DEF Osv1
  <1>8. HasRow(u) /\ Handed(Account(u), more) /\ Told(Account(u), <<<<>>>>)
    <2> HIDE DEF u
    <2> QED
      BY <1>6, EndHands, TellAccount
  <1> DEFINE v == Account(u)
  <1>9. Osv1(d, t, p, g, last) = [v EXCEPT !.phase = 3]
    BY <1>4, <1>7, <1>8 DEF Osv1Data
  <1> HIDE DEF v, u, p
  <1> DEFINE z == [v EXCEPT !.phase = 3]
  <1>10. z.out = v.out
    <2>1. z = [v EXCEPT !.phase = 3] /\ 3 \in 0 .. 3
      OBVIOUS
    <2> HIDE DEF z
    <2> QED
      BY <1>8, <2>1, TellPhase DEF v
  <1>11. Handed(z, more)
    BY <1>8, <1>10 DEF Handed, v
  <1> QED
    BY <1>9, <1>11 DEF p

-----------------------------------------------------------------------------
(* A slicer as it is called for a package. *)

LEMMA FreshTold ==
  ASSUME NEW d \in Devices, Decodable(d)
  PROVE  /\ Told(Fresh(d), Nothing(d)) /\ InStep(d, Fresh(d), First(d))
         /\ d.coding = "manchester" => HasRow(Fresh(d))
         /\ d.coding # "manchester" => Fresh(d).bits = Clear
  <1> DEFINE u == Fresh(d)
  <1>1. Good(u)
    BY FreshGood
  <1>2. /\ u.bits = (IF d.coding = "manchester" THEN AddBit(Clear, 0) ELSE Clear)
        /\ u.since = 0 /\ u.half = 0 /\ u.phase = 0 /\ u.seen = 0
    BY DEF Fresh
  <1> HIDE DEF u
  <1>3. Told(u, Nothing(d)) /\ (d.coding = "manchester" => HasRow(u))
    <2>1. CASE d.coding = "manchester"
      <3> DEFINE b == AddBit(Clear, 0)
      <3>1. 0 \in Bit /\ <<>> \o <<0>> = <<0>> /\ <<0>> \in Seq(Bit) /\ <<>> \in Seq(Bit)
        BY ClearSays, Further DEF Bit
      <3>2. More(<<<<>>>>, <<0>>) = <<<<0>>>>
        <4>1. <<<<>>>> \in Messages /\ Len(<<<<>>>>) = 1
          BY ClearSays
        <4>2. More(<<<<>>>>, <<0>>) = << <<<<>>>>[1] \o <<0>> >>
          BY <3>1, <4>1, OneRow
        <4> QED
          BY <3>1, <4>2
      <3>3. Room(<<<<0>>>>) /\ <<<<0>>>> \in Messages
        <4>1. <<<<0>>>> \in Messages
          BY <3>1, <3>2, ClearSays, MoreIs
        <4>2. Taken(<<<<0>>>>)[1] = Taken(<<<<0>>>>)[0] + SlotsOf(<<0>>) /\ Taken(<<<<0>>>>)[0] = 0
          BY <4>1, TakenIs
        <4>3. SlotsOf(<<0>>) = 1
          <5>1. SlotsOf(<<>>) = 1 /\ <<0>> = Append(<<>>, 0) /\ Len(<<>>) = 0
            BY DEF SlotsOf
          <5> DEFINE e == <<>>
          <5>2. e \in Seq(Bit) /\ SlotsOf(e) = 1 /\ <<0>> = Append(e, 0) /\ Len(e) = 0
            BY <3>1, <5>1
          <5> HIDE DEF e
          <5>3. ASSUME NEW bit \in Bit PROVE SlotsOf(Append(e, bit)) = SlotsOf(e)
            <6>1. e \in Seq(Bit)
              BY <5>2
            <6>2. SlotsOf(Append(e, bit)) =
                    IF Len(e) > 0 /\ Len(e) % RowBits = 0 THEN SlotsOf(e) + 1 ELSE SlotsOf(e)
              BY <6>1, SlotsAdd
            <6>3. ~(Len(e) > 0)
              BY <5>2
            <6> QED
              BY <6>2, <6>3
          <5>4. SlotsOf(Append(e, 0)) = SlotsOf(e)
            BY <3>1, <5>3
          <5> QED
            BY <5>2, <5>4
        <4> QED
          BY <4>1, <4>2, <4>3, BufferAssumption DEF Room
      <3>4. Says(b, <<<<0>>>>) /\ b.num > 0
        BY <3>1, <3>2, <3>3, ClearSays, AddBitSays
      <3> QED
        BY <1>1, <1>2, <2>1, <3>3, <3>4 DEF Told, Nothing, HasRow
    <2>2. CASE d.coding # "manchester"
      BY <1>1, <1>2, <2>2, TellClear DEF Nothing
    <2> QED
      BY <2>1, <2>2
  <1>4. InStep(d, u, First(d))
    <2>1. CASE d.coding = "osv1"
      <3>1. Preamble \in Nat /\ 0 < Preamble /\ OsvSync = 2 + Preamble
        BY <2>1, Osv1Device
      <3>2. 2 \in 0 .. OsvSync /\ 2 # OsvSync /\ 2 \notin {0, 1} /\ 2 - 2 = 0
        BY <3>1
      <3> QED
        BY <1>2, <2>1, <3>2 DEF InStep, First
    <2>2. CASE d.coding # "osv1"
      BY <1>2, <2>2 DEF InStep, First
    <2> QED
      BY <2>1, <2>2
  <1> QED
    BY <1>2, <1>3, <1>4 DEF u

-----------------------------------------------------------------------------
(* PPM drops a package without data and keeps what it collected, so that what
   it has must be a row that still is what noise or a sender said. *)

Whole(b, n) == b.num <= 1 => b.len[0] <= n /\ Says(b, <<BitsOf(b, 0)>>)

LEMMA RowItself ==
  ASSUME NEW row \in Seq(Bit), NEW b, Says(b, <<row>>)
  PROVE  /\ BitsOf(b, 0) = row /\ b.len[0] = Len(row) /\ <<row>> \in Messages /\ LastRow(<<row>>) = row
         /\ Taken(<<row>>)[1] = SlotsOf(row) /\ Len(<<row>>) = 1
  <1> DEFINE rows == <<row>>
             t == Started(b)
  <1>1. rows \in Messages /\ Len(rows) = 1 /\ rows[1] = row
    BY DEF Messages
  <1>2. Taken(rows)[0] = 0 /\ Taken(rows)[1] = Taken(rows)[0] + SlotsOf(row) /\ SlotsOf(row) \in Nat
    BY <1>1, TakenIs, SlotsAre
  <1>3. t.len[0] = Len(row) /\ \A j \in 1 .. Len(row) : t.bb[0 * RowBits + j - 1] = row[j]
    <2> HIDE DEF rows, t
    <2>1. \A i \in 1 .. 1 : /\ t.len[Taken(rows)[i - 1]] = Len(rows[i])
                            /\ \A j \in 1 .. Len(rows[i]) : t.bb[Taken(rows)[i - 1] * RowBits + j - 1] = rows[i][j]
      BY <1>1 DEF Says, Holds, t, rows
    <2> QED
      BY <1>1, <1>2, <2>1
  <1>4. b.len = t.len /\ b.bb = t.bb
    BY DEF Started, Says, BitBuffers
  <1>5. BitsOf(b, 0) = row
    <2>1. b.len[0] = Len(row) /\ Len(row) \in Nat
      BY <1>3, <1>4
    <2>2. BitsOf(b, 0) = [j \in 1 .. Len(row) |-> b.bb[0 * RowBits + j - 1]]
      BY <2>1 DEF BitsOf
    <2>3. \A j \in 1 .. Len(row) : b.bb[0 * RowBits + j - 1] = row[j]
      BY <1>3, <1>4
    <2>4. row = [j \in 1 .. Len(row) |-> row[j]]
      OBVIOUS
    <2> QED
      BY <2>2, <2>3, <2>4
  <1> QED
    BY <1>1, <1>2, <1>3, <1>4, <1>5 DEF LastRow

LEMMA ClearWhole == ASSUME NEW n \in Nat PROVE Whole(Clear, n)
  <1>1. Says(Clear, <<<<>>>>) /\ <<>> \in Seq(Bit) /\ Len(<<>>) = 0
    BY ClearSays, OneBit
  <1>2. BitsOf(Clear, 0) = <<>> /\ Clear.len[0] = 0
    BY <1>1, RowItself
  <1> QED
    BY <1>1, <1>2 DEF Whole

LEMMA WholeRoom ==
  ASSUME MaxPulses <= (Rows - 1) * RowBits, NEW row \in Seq(Bit), Len(row) < MaxPulses
  PROVE  /\ <<row>> \in Messages /\ Fits(<<row>>)
         /\ \A bit \in Bit : Room(More(<<row>>, <<bit>>)) /\ More(<<row>>, <<bit>>) = <<row \o <<bit>>>>
                             /\ row \o <<bit>> \in Seq(Bit) /\ Len(row \o <<bit>>) = Len(row) + 1
  <1>1. Rows \in Nat /\ RowBits \in Nat /\ RowBits > 0 /\ MaxPulses \in Nat /\ Rows - 1 \in Nat
    BY BufferAssumption, SlicerAssumption
  <1>2. ASSUME NEW z \in Seq(Bit), Len(z) <= MaxPulses
        PROVE  <<z>> \in Messages /\ Fits(<<z>>) /\ Room(<<z>>)
    <2>1. <<z>> \in Messages /\ Len(<<z>>) = 1 /\ <<z>>[1] = z
      BY DEF Messages
    <2>2. Taken(<<z>>)[1] = SlotsOf(z) /\ SlotsOf(z) \in Nat
      BY <2>1, TakenIs, SlotsAre
    <2>3. SlotsOf(z) < Rows
      <3>1. CASE z = <<>>
        <4>1. SlotsOf(z) = 1
          BY <3>1 DEF SlotsOf
        <4>2. 0 < Len(row) + 1 /\ Len(row) + 1 <= (Rows - 1) * RowBits
          BY <1>1
        <4>3. Rows - 1 # 0
          BY <1>1, <4>2
        <4> QED
          BY <1>1, <4>1, <4>3
      <3>2. CASE z # <<>>
        <4>1. SlotsOf(z) * RowBits < Len(z) + RowBits
          BY <3>2, SlotsAre DEF Blocks
        <4>2. SlotsOf(z) * RowBits < Rows * RowBits
          <5>1. (Rows - 1) * RowBits + RowBits = Rows * RowBits
            BY <1>1
          <5>2. (Rows - 1) * RowBits \in Nat /\ SlotsOf(z) * RowBits \in Nat /\ Rows * RowBits \in Nat
            BY <1>1, <2>2
          <5> QED
            BY <1>1, <1>2, <4>1, <5>1, <5>2
        <4> QED
          BY <1>1, <2>2, <4>2, Mono
      <3> QED
        BY <3>1, <3>2
    <2> QED
      BY <2>1, <2>2, <2>3, <1>1 DEF Fits, Room
  <1>3. ASSUME NEW bit \in Bit
        PROVE  /\ Room(More(<<row>>, <<bit>>)) /\ More(<<row>>, <<bit>>) = <<row \o <<bit>>>>
               /\ row \o <<bit>> \in Seq(Bit) /\ Len(row \o <<bit>>) = Len(row) + 1
    <2>1. <<bit>> \in Seq(Bit) /\ Len(<<bit>>) = 1
      BY OneBit
    <2>2. row \o <<bit>> \in Seq(Bit) /\ Len(row \o <<bit>>) = Len(row) + 1
      BY <2>1
    <2>3. <<row>> \in Messages /\ Len(<<row>>) = 1 /\ <<row>>[1] = row
      BY DEF Messages
    <2>4. More(<<row>>, <<bit>>) = <<row \o <<bit>>>>
      <3> DEFINE z == <<bit>>
                 rows == <<row>>
      <3>1. z \in Seq(Bit) /\ rows \in Messages /\ Len(rows) = 1 /\ rows[1] = row
        BY <2>1, <2>3
      <3> HIDE DEF z, rows
      <3>2. More(rows, z) = <<rows[1] \o z>>
        BY <3>1, OneRow
      <3> QED
        BY <3>1, <3>2 DEF z, rows
    <2>5. Room(<<row \o <<bit>>>>)
      <3> DEFINE z == row \o <<bit>>
      <3>1. z \in Seq(Bit) /\ Len(z) <= MaxPulses
        BY <1>1, <2>2
      <3> HIDE DEF z
      <3>2. Room(<<z>>)
        BY <1>2, <3>1
      <3> QED
        BY <3>2 DEF z
    <2> QED
      BY <2>2, <2>4, <2>5
  <1>4. Len(row) <= MaxPulses
    BY <1>1
  <1> QED
    BY <1>2, <1>3, <1>4

LEMMA WholeAdd ==
  ASSUME MaxPulses <= (Rows - 1) * RowBits, NEW n \in Nat, n < MaxPulses, NEW b, Apart(b), Whole(b, n), NEW bit \in Bit
  PROVE  Whole(AddBit(b, bit), n + 1)
  <1> DEFINE c == AddBit(b, bit)
             row == BitsOf(b, 0)
  <1>1. SUFFICES ASSUME c.num <= 1 PROVE c.len[0] <= n + 1 /\ Says(c, <<BitsOf(c, 0)>>)
    BY DEF Whole
  <1>2. b.num <= 1
    <2>1. c.num = Started(b).num /\ b.num \in Nat
      BY DEF AddBit, Apart, BitBuffers, Started
    <2>2. Started(b).num >= b.num
      BY <2>1 DEF Started, Apart, BitBuffers
    <2> QED
      BY <1>1, <2>1, <2>2 DEF Started, Apart, BitBuffers
  <1>3. b.len[0] <= n /\ Says(b, <<row>>)
    BY <1>2 DEF Whole
  <1>4. row \in Seq(Bit)
    BY Sizes, RowBitsOf DEF Apart
  <1> HIDE DEF row, c
  <1>5. b.len[0] = Len(row) /\ Len(row) < MaxPulses
    <2>1. b.len[0] = Len(row)
      BY <1>3, <1>4, RowItself
    <2>2. Len(row) \in Nat /\ MaxPulses \in Nat
      BY <1>4, SlicerAssumption
    <2> QED
      BY <1>3, <2>1, <2>2
  <1> DEFINE z == row \o <<bit>>
  <1>6. /\ <<row>> \in Messages /\ Room(More(<<row>>, <<bit>>)) /\ More(<<row>>, <<bit>>) = <<z>> /\ z \in Seq(Bit)
        /\ Len(z) = Len(row) + 1
    BY <1>4, <1>5, WholeRoom
  <1>7. Says(c, More(<<row>>, <<bit>>))
    BY <1>3, <1>6, AddBitSays DEF c
  <1> HIDE DEF z
  <1>8. Says(c, <<z>>)
    BY <1>6, <1>7
  <1>9. BitsOf(c, 0) = z /\ c.len[0] = Len(z)
    BY <1>6, <1>8, RowItself
  <1> QED
    BY <1>3, <1>4, <1>5, <1>6, <1>8, <1>9

LEMMA Begins ==
  ASSUME NEW rows \in Messages, Len(rows) = 1
  PROVE  Append(rows, <<>>) \in Messages /\ Len(Append(rows, <<>>)) > 1
  <1> DEFINE e == <<>>
  <1>1. e \in Seq(Bit)
    BY OneBit
  <1> HIDE DEF e
  <1>2. Append(rows, e) \in Messages /\ Len(Append(rows, e)) = Len(rows) + 1
    BY <1>1, RowIs
  <1>3. Len(Append(rows, e)) > 1
    BY <1>2
  <1> QED
    BY <1>2, <1>3 DEF e

LEMMA WholeRow1 ==
  ASSUME MaxPulses <= (Rows - 1) * RowBits, NEW n \in Nat, n < MaxPulses, NEW b, Apart(b), Whole(b, n)
  PROVE  Whole(AddRow(b), n + 1)
  <1> DEFINE c == AddRow(b)
             row == BitsOf(b, 0)
  <1>1. SUFFICES ASSUME c.num <= 1 PROVE FALSE
    BY DEF Whole
  <1>2. CASE b.num <= 1
    <2>1. b.len[0] <= n /\ Says(b, <<row>>)
      BY <1>2 DEF Whole
    <2>2. row \in Seq(Bit)
      BY Sizes, RowBitsOf DEF Apart
    <2> HIDE DEF row
    <2>3. b.len[0] = Len(row) /\ Len(row) < MaxPulses
      <3>1. b.len[0] = Len(row)
        BY <2>1, <2>2, RowItself
      <3>2. Len(row) \in Nat /\ MaxPulses \in Nat
        BY <2>2, SlicerAssumption
      <3> QED
        BY <2>1, <3>1, <3>2
    <2>4. <<row>> \in Messages /\ Fits(<<row>>) /\ Len(<<row>>) = 1
      BY <2>2, <2>3, WholeRoom
    <2> DEFINE rows == Append(<<row>>, <<>>)
    <2>5. Says(c, rows) /\ c.num > 0
      BY <2>1, <2>4, AddRowSays
    <2>6. rows \in Messages /\ Len(rows) > 1
      BY <2>4, Begins
    <2> HIDE DEF rows, c
    <2>7. Started(c).num > 1 /\ Started(c) = c
      BY <2>5, <2>6, LastSays, StartedIs DEF Says
    <2>8. c.num \in Nat
      BY <2>5 DEF Says, BitBuffers
    <2> QED
      BY <1>1, <2>7, <2>8
  <1>3. CASE ~(b.num <= 1)
    <2>1. b.num \in Nat /\ b.free \in Nat /\ b.num > 1 /\ Started(b) = b /\ b.num <= b.free
      BY <1>3 DEF Apart, BitBuffers, Started
    <2>2. c.num = b.free + 1 \/ c.num = b.num
      BY <2>1 DEF AddRow, Apart, BitBuffers
    <2> QED
      BY <1>1, <2>1, <2>2
  <1> QED
    BY <1>2, <1>3

LEMMA WholeSync ==
  ASSUME MaxPulses <= (Rows - 1) * RowBits, NEW n \in Nat, n < MaxPulses, NEW b, Apart(b), Whole(b, n)
  PROVE  Whole(AddSync(b), n + 1)
  <1> DEFINE c == AddSync(b)
             row == BitsOf(b, 0)
  <1>1. SUFFICES ASSUME c.num <= 1 PROVE c.len[0] <= n + 1 /\ Says(c, <<BitsOf(c, 0)>>)
    BY DEF Whole
  <1>2. CASE b.num <= 1
    <2>1. b.len[0] <= n /\ Says(b, <<row>>)
      BY <1>2 DEF Whole
    <2>2. row \in Seq(Bit)
      BY Sizes, RowBitsOf DEF Apart
    <2> HIDE DEF row
    <2>3. b.len[0] = Len(row) /\ Len(row) < MaxPulses /\ LastRow(<<row>>) = row
      <3>1. b.len[0] = Len(row) /\ LastRow(<<row>>) = row
        BY <2>1, <2>2, RowItself
      <3>2. Len(row) \in Nat /\ MaxPulses \in Nat
        BY <2>2, SlicerAssumption
      <3> QED
        BY <2>1, <3>1, <3>2
    <2>4. <<row>> \in Messages /\ Fits(<<row>>) /\ Len(<<row>>) = 1
      BY <2>2, <2>3, WholeRoom
    <2> DEFINE rows == IF LastRow(<<row>>) = <<>> THEN <<row>> ELSE Append(<<row>>, <<>>)
    <2>5. Says(c, rows) /\ c.num > 0
      BY <2>1, <2>4, AddSyncSays
    <2>6. CASE row = <<>>
      <3>1. Says(c, <<row>>)
        BY <2>3, <2>5, <2>6
      <3> HIDE DEF c
      <3>2. BitsOf(c, 0) = row /\ c.len[0] = Len(row)
        BY <2>2, <3>1, RowItself
      <3>3. Len(row) = 0
        BY <2>6
      <3> QED
        BY <3>1, <3>2, <3>3
    <2>7. CASE row # <<>>
      <3> DEFINE z == Append(<<row>>, <<>>)
      <3>1. rows = z
        BY <2>3, <2>7
      <3>2. z \in Messages /\ Len(z) > 1
        BY <2>4, Begins
      <3> HIDE DEF rows, c, z
      <3>3. Started(c).num > 1 /\ Started(c) = c
        BY <2>5, <3>1, <3>2, LastSays, StartedIs DEF Says
      <3>4. c.num \in Nat
        BY <2>5 DEF Says, BitBuffers
      <3> QED
        BY <1>1, <3>3, <3>4
    <2> QED
      BY <2>6, <2>7
  <1>3. CASE ~(b.num <= 1)
    <2>1. b.num \in Nat /\ b.free \in Nat /\ b.num > 1 /\ Started(b) = b /\ b.num <= b.free
      BY <1>3 DEF Apart, BitBuffers, Started
    <2>2. AddRow(b).num = b.free + 1 \/ AddRow(b).num = b.num
      BY <2>1 DEF AddRow, Apart, BitBuffers
    <2>3. c.num = AddRow(b).num \/ c.num = b.num
      BY <2>1 DEF AddSync
    <2> QED
      BY <1>1, <2>1, <2>2, <2>3
  <1> QED
    BY <1>2, <1>3

LEMMA PpmWhole ==
  ASSUME MaxPulses <= (Rows - 1) * RowBits, NEW n \in Nat, n < MaxPulses,
         NEW d, NEW t, Good(t), Whole(t.bits, n), NEW p, NEW g, NEW last
  PROVE  Whole(Ppm(d, t, p, g, last).bits, n + 1)
  <1> DEFINE b == t.bits
             w == PpmWindows(d)
             u == CASE Within(g, w.zero) -> Add(t, 0)
                    [] ~Within(g, w.zero) /\ Within(g, w.one) -> Add(t, 1)
                    [] ~Within(g, w.zero) /\ ~Within(g, w.one) /\ Within(g, w.sync) -> [t EXCEPT !.bits = AddSync(@)]
                    [] ~Within(g, w.zero) /\ ~Within(g, w.one) /\ ~Within(g, w.sync) /\ g < d.reset -> NewRow(t)
                    [] OTHER -> t
  <1>1. Ppm(d, t, p, g, last) = IF (last = 1 \/ g >= d.reset) /\ HasData(u) THEN Account(u) ELSE u
    BY DEF Ppm
  <1>2. Add(t, 0).bits = AddBit(b, 0) /\ Add(t, 1).bits = AddBit(b, 1)
        /\ [t EXCEPT !.bits = AddSync(@)].bits = AddSync(b) /\ NewRow(t).bits = AddRow(b)
    BY DEF Add, NewRow, Good, Slicers
  <1>7. u \in {Add(t, 0), Add(t, 1), [t EXCEPT !.bits = AddSync(@)], NewRow(t), t}
    <2> DEFINE A == Within(g, w.zero)
               B == Within(g, w.one)
               C == Within(g, w.sync)
    <2> HIDE DEF A, B, C
    <2>1. u = CASE A -> Add(t, 0)
                [] ~A /\ B -> Add(t, 1)
                [] ~A /\ ~B /\ C -> [t EXCEPT !.bits = AddSync(@)]
                [] ~A /\ ~B /\ ~C /\ g < d.reset -> NewRow(t)
                [] OTHER -> t
      BY DEF A, B, C
    <2> HIDE DEF u
    <2>2. CASE A
      BY <2>1, <2>2
    <2>3. CASE ~A /\ B
      BY <2>1, <2>3
    <2>4. CASE ~A /\ ~B /\ C
      BY <2>1, <2>4
    <2>5. CASE ~A /\ ~B /\ ~C /\ g < d.reset
      BY <2>1, <2>5
    <2>6. CASE ~A /\ ~B /\ ~C /\ ~(g < d.reset)
      BY <2>1, <2>6
    <2> QED
      BY <2>2, <2>3, <2>4, <2>5, <2>6
  <1>3. u.bits \in {AddBit(b, 0), AddBit(b, 1), AddSync(b), AddRow(b), b}
    <2> HIDE DEF u
    <2> QED
      BY <1>2, <1>7
  <1> HIDE DEF u
  <1>4. Whole(u.bits, n + 1)
    <2>1. Apart(b) /\ 0 \in Bit /\ 1 \in Bit /\ Whole(b, n)
      BY DEF Good, Bit
    <2> HIDE DEF b
    <2>2. Whole(AddBit(b, 0), n + 1) /\ Whole(AddBit(b, 1), n + 1)
      BY <2>1, WholeAdd
    <2>3. Whole(AddSync(b), n + 1) /\ Whole(AddRow(b), n + 1)
      BY <2>1, WholeSync, WholeRow1
    <2>4. Whole(b, n + 1)
      <3>1. 0 \in Row /\ (0 \in Row => b.len[0] \in Nat)
        BY <2>1, Sizes DEF Apart, BitBuffers
      <3> QED
        BY <2>1, <3>1 DEF Whole
    <2> QED
      BY <1>3, <2>2, <2>3, <2>4
  <1>5. Account(u).bits = Clear \/ ~((last = 1 \/ g >= d.reset) /\ HasData(u))
    <2>2. Good(u)
      BY <1>7, AddGood, SyncGood, NewRowGood
    <2> QED
      BY <2>2, AccountClear
  <1>6. Whole(Clear, n + 1)
    BY ClearWhole
  <1> QED
    BY <1>1, <1>4, <1>5, <1>6

-----------------------------------------------------------------------------
(* What the sender says, and where it goes. *)

PlaceOf(d, q) ==
  /\ d.coding \in {"dmc", "rzi", "manchester"} => q \in {0, 1}
  /\ d.coding = "osv1" => q \in 0 .. OsvSync

LEMMA PulseSays ==
  ASSUME NEW d \in Devices, Decodable(d), NEW q, PlaceOf(d, q), NEW x \in Pulse(d, q)
  PROVE  x.says \in Seq(Bit) /\ PlaceOf(d, x.next)
  <1>1. d.coding \in Codings /\ 0 \in Bit /\ 1 \in Bit /\ 0 \in Off
    BY DeviceWidths DEF Bit, Off
  <1>2. CASE d.coding = "pcm"
    <2>1. PICK h \in 1 .. 2 : x.says = Bits(1, h)
      BY <1>1, <1>2, PcmPulses
    <2>2. h \in Nat
      OBVIOUS
    <2> QED
      BY <1>1, <1>2, <2>1, <2>2, BitsAre DEF PlaceOf
  <1>3. CASE d.coding = "ppm"
    <2>1. x = Sym(d.short, <<>>, 0)
      BY <1>3 DEF Pulse
    <2> QED
      BY <1>3, <2>1, OneBit DEF PlaceOf, Sym
  <1>4. CASE d.coding = "pwm"
    <2>1. PICK bit \in Bit : x.says = <<bit>>
      BY <1>4, PwmBits
    <2> QED
      BY <1>4, <2>1, OneBit DEF PlaceOf
  <1>5. CASE d.coding = "manchester"
    <2>1. x \in Level(d, q, 1)
      BY <1>5 DEF Pulse
    <2> QED
      BY <1>1, <1>5, <2>1, HalfLevels DEF PlaceOf
  <1>6. CASE d.coding = "dmc"
    <2>1. x \in Level(d, q, 1)
      BY <1>6 DEF Pulse
    <2> QED
      BY <1>1, <1>6, <2>1, DmcLevels DEF PlaceOf
  <1>7. CASE d.coding = "piwm_raw"
    <2>1. x \in Level(d, q, 1)
      BY <1>7 DEF Pulse
    <2> QED
      BY <1>1, <1>7, <2>1, RawLevels DEF PlaceOf
  <1>8. CASE d.coding = "piwm_dc"
    <2>1. x \in Level(d, q, 1)
      BY <1>8 DEF Pulse
    <2> QED
      BY <1>1, <1>8, <2>1, DcLevels DEF PlaceOf
  <1>9. CASE d.coding = "nrzs"
    <2>1. PICK k \in 0 .. 2 : x.says = Append(Bits(1, k), 0)
      BY <1>1, <1>9, NrzsPulses
    <2> QED
      BY <1>9, <2>1, NrzsBits DEF PlaceOf
  <1>10. CASE d.coding = "rzi"
    <2>1. q \in {0, 1} /\ x.says \in Seq(Bit) /\ x.next = 1
      BY <1>1, <1>10, RziBits, PulseWidths DEF PlaceOf
    <2> QED
      BY <1>10, <2>1 DEF PlaceOf
  <1>11. CASE d.coding = "osv1"
    <2>1. q \in 0 .. OsvSync /\ OsvSync \in Nat /\ OsvSync > 2
      BY <1>11, Osv1Device DEF PlaceOf
    <2>2. CASE q >= 2
      <3>1. x = Sym(IF q = OsvSync THEN 4 * d.short - 1 ELSE d.short, <<>>, q)
        BY <1>11, <2>2 DEF Pulse
      <3>2. x.says = <<>> /\ x.next = q
        BY <3>1 DEF Sym
      <3> QED
        BY <1>11, <2>1, <2>2, <3>2, OneBit DEF PlaceOf
    <2>3. CASE ~(q >= 2)
      <3>1. x \in Level(d, q, 1)
        BY <1>11, <2>3 DEF Pulse
      <3>2. x.says \in Seq(Bit) /\ x.next \in {0, 1}
        BY <1>1, <1>11, <3>1, HalfLevels
      <3>3. x.next \in 0 .. OsvSync
        BY <2>1, <3>2
      <3> QED
        BY <1>11, <2>3, <3>2, <3>3 DEF PlaceOf
    <2> QED
      BY <2>2, <2>3
  <1> QED
    BY <1>1, <1>2, <1>3, <1>4, <1>5, <1>6, <1>7, <1>8, <1>9, <1>10, <1>11 DEF Codings

LEMMA GapSays ==
  ASSUME NEW d \in Devices, Decodable(d), NEW q, PlaceOf(d, q), NEW y \in Gap(d, q)
  PROVE  y.says \in Seq(Bit) /\ PlaceOf(d, y.next)
  <1>1. d.coding \in Codings /\ 0 \in Bit /\ 1 \in Bit /\ 0 \in Off
    BY DeviceWidths DEF Bit, Off
  <1>2. CASE d.coding = "pcm"
    <2>1. PICK k \in 0 .. 2 : y.says = Bits(0, k)
      BY <1>1, <1>2, PcmGaps
    <2>2. k \in Nat
      OBVIOUS
    <2> QED
      BY <1>1, <1>2, <2>1, <2>2, BitsAre DEF PlaceOf
  <1>3. CASE d.coding = "ppm"
    <2>1. y \in {Sym(d.short, <<0>>, 0), Sym(d.long, <<1>>, 0)}
      BY <1>3 DEF Gap
    <2>2. y.says = <<0>> \/ y.says = <<1>>
      BY <2>1 DEF Sym
    <2> QED
      BY <1>1, <1>3, <2>2, OneBit DEF PlaceOf
  <1>4. CASE d.coding \in {"pwm", "nrzs"}
    <2>1. y = Sym(d.short, <<>>, 0)
      BY <1>4 DEF Gap
    <2> QED
      BY <1>4, <2>1, OneBit DEF PlaceOf, Sym
  <1>5. CASE d.coding = "manchester"
    <2>1. y \in Level(d, q, 0)
      BY <1>5 DEF Gap
    <2> QED
      BY <1>1, <1>5, <2>1, HalfLevels DEF PlaceOf
  <1>6. CASE d.coding = "dmc"
    <2>1. y \in Level(d, q, 0)
      BY <1>6 DEF Gap
    <2> QED
      BY <1>1, <1>6, <2>1, DmcLevels DEF PlaceOf
  <1>7. CASE d.coding = "piwm_raw"
    <2>1. y \in Level(d, q, 0)
      BY <1>7 DEF Gap
    <2> QED
      BY <1>1, <1>7, <2>1, RawLevels DEF PlaceOf
  <1>8. CASE d.coding = "piwm_dc"
    <2>1. y \in Level(d, q, 0)
      BY <1>8 DEF Gap
    <2> QED
      BY <1>1, <1>8, <2>1, DcLevels DEF PlaceOf
  <1>10. CASE d.coding = "rzi"
    <2>1. y = Sym(d.short, <<0>>, 1)
      BY <1>10 DEF Gap
    <2> QED
      BY <1>1, <1>10, <2>1, OneBit DEF PlaceOf, Sym
  <1>11. CASE d.coding = "osv1"
    <2>1. q \in 0 .. OsvSync /\ OsvSync \in Nat /\ OsvSync > 2
      BY <1>11, Osv1Device DEF PlaceOf
    <2>2. CASE q >= 2 /\ q = OsvSync
      <3>1. y \in {Sym(4 * d.short - 3, <<>>, 1), Sym(5 * d.short - 1, <<0>>, 0)}
        BY <1>11, <2>2 DEF Gap
      <3>2. (y.says = <<>> \/ y.says = <<0>>) /\ y.next \in {0, 1}
        BY <3>1 DEF Sym
      <3>3. y.next \in 0 .. OsvSync /\ ~(y.next >= 2)
        BY <2>1, <3>2
      <3> QED
        BY <1>1, <1>11, <3>2, <3>3, OneBit DEF PlaceOf
    <2>3. CASE q >= 2 /\ q # OsvSync
      <3>1. y = Sym(IF q + 1 = OsvSync THEN 2 * d.short ELSE d.short, <<>>, q + 1)
        BY <1>11, <2>3 DEF Gap
      <3>2. y.says = <<>> /\ y.next = q + 1
        BY <3>1 DEF Sym
      <3>3. y.next \in 0 .. OsvSync
        BY <2>1, <2>3, <3>2
      <3> QED
        BY <1>11, <2>3, <3>2, <3>3, OneBit DEF PlaceOf
    <2>4. CASE ~(q >= 2)
      <3>1. y \in Level(d, q, 0)
        BY <1>11, <2>4 DEF Gap
      <3>2. y.says \in Seq(Bit) /\ y.next \in {0, 1}
        BY <1>1, <1>11, <3>1, HalfLevels
      <3>3. y.next \in 0 .. OsvSync /\ ~(y.next >= 2)
        BY <2>1, <3>2
      <3> QED
        BY <1>11, <3>2, <3>3 DEF PlaceOf
    <2> QED
      BY <2>2, <2>3, <2>4
  <1> QED
    BY <1>1, <1>2, <1>3, <1>4, <1>5, <1>6, <1>7, <1>8, <1>10, <1>11 DEF Codings

LEMMA PauseSays ==
  ASSUME NEW d \in Devices, Decodable(d)
  PROVE  /\ Pause(d).says = (IF d.coding = "pcm" THEN Bits(0, MaxZeros(d)) ELSE <<>>)
         /\ Pause(d).says \in Seq(Bit) /\ Pause(d).w = d.reset - 1
         /\ \A last : \A y \in Silences(d, last) : y.says \in Seq(Bit)
  <1>1. /\ Pause(d).says = (IF d.coding = "pcm" THEN Bits(0, MaxZeros(d)) ELSE <<>>)
        /\ Pause(d).w = d.reset - 1
    BY DEF Pause, Sym
  <1>2. 0 \in Bit /\ <<>> \in Seq(Bit)
    BY OneBit DEF Bit
  <1>3. d.coding = "pcm" => Bits(0, MaxZeros(d)) \in Seq(Bit)
    BY <1>2, PcmDevice, BitsAre
  <1>4. ASSUME NEW last, NEW y \in Silences(d, last)
        PROVE  y.says \in Seq(Bit)
    <2>1. y.says = (IF d.coding = "pcm" THEN Bits(0, MaxZeros(d)) ELSE <<>>) \/ y.says = <<>>
      BY SilencesAre
    <2> QED
      BY <1>2, <1>3, <2>1
  <1> QED
    BY <1>1, <1>2, <1>3, <1>4

-----------------------------------------------------------------------------
(* The slicer of a device, whatever its coding. *)

LEMMA SliceIs ==
  ASSUME NEW d, NEW t, NEW p, NEW g, NEW last
  PROVE  /\ d.coding = "pcm" => Slice(d, t, p, g, last) = Pcm(d, t, p, g, last)
         /\ d.coding = "ppm" => Slice(d, t, p, g, last) = Ppm(d, t, p, g, last)
         /\ d.coding = "pwm" => Slice(d, t, p, g, last) = Pwm(d, t, p, g, last)
         /\ d.coding = "manchester" => Slice(d, t, p, g, last) = Manchester(d, t, p, g, last)
         /\ d.coding = "dmc" => Slice(d, t, p, g, last) = Dmc(d, t, p, g)
         /\ d.coding = "piwm_raw" => Slice(d, t, p, g, last) = PiwmRaw(d, t, p, g, last)
         /\ d.coding = "piwm_dc" => Slice(d, t, p, g, last) = PiwmDc(d, t, p, g, last)
         /\ d.coding = "nrzs" => Slice(d, t, p, g, last) = Nrzs(d, t, p, g, last)
         /\ d.coding = "osv1" => Slice(d, t, p, g, last) = Osv1(d, t, p, g, last)
         /\ d.coding = "rzi" => Slice(d, t, p, g, last) = Rzi(d, t, p, g, last)
  <1>1. d.coding = "pcm" => Slice(d, t, p, g, last) = Pcm(d, t, p, g, last)
    BY DEF Slice
  <1>2. d.coding = "ppm" => Slice(d, t, p, g, last) = Ppm(d, t, p, g, last)
    BY DEF Slice
  <1>3. d.coding = "pwm" => Slice(d, t, p, g, last) = Pwm(d, t, p, g, last)
    BY DEF Slice
  <1>4. d.coding = "manchester" => Slice(d, t, p, g, last) = Manchester(d, t, p, g, last)
    BY DEF Slice
  <1>5. d.coding = "dmc" => Slice(d, t, p, g, last) = Dmc(d, t, p, g)
    BY DEF Slice
  <1>6. d.coding = "piwm_raw" => Slice(d, t, p, g, last) = PiwmRaw(d, t, p, g, last)
    BY DEF Slice
  <1>7. d.coding = "piwm_dc" => Slice(d, t, p, g, last) = PiwmDc(d, t, p, g, last)
    BY DEF Slice
  <1>8. d.coding = "nrzs" => Slice(d, t, p, g, last) = Nrzs(d, t, p, g, last)
    BY DEF Slice
  <1>9. d.coding = "osv1" => Slice(d, t, p, g, last) = Osv1(d, t, p, g, last)
    BY DEF Slice
  <1>10. d.coding = "rzi" => Slice(d, t, p, g, last) = Rzi(d, t, p, g, last)
    BY DEF Slice
  <1> QED
    BY <1>1, <1>2, <1>3, <1>4, <1>5, <1>6, <1>7, <1>8, <1>9, <1>10

LEMMA NoPlace ==
  ASSUME NEW d, d.coding \notin {"manchester", "dmc", "osv1", "rzi"}, NEW t, NEW q
  PROVE  InStep(d, t, q)
  BY DEF InStep

LEMMA SliceSend ==
  ASSUME NEW d \in Devices, Decodable(d), NEW rows, NEW t, Told(t, rows),
         NEW q, InStep(d, t, q), NEW x \in Pulse(d, q), NEW y \in Gap(d, x.next), NEW i \in Off, NEW j \in Off,
         Fits(More(rows, x.says \o y.says))
  PROVE  /\ Told(Slice(d, t, x.w + i, y.w + j, 0), More(rows, x.says \o y.says))
         /\ InStep(d, Slice(d, t, x.w + i, y.w + j, 0), y.next)
  <1> DEFINE u == Slice(d, t, x.w + i, y.w + j, 0)
  <1>0. d.coding \in Codings
    BY DeviceWidths
  <1>1. CASE d.coding = "pcm"
    <2>1. u = Pcm(d, t, x.w + i, y.w + j, 0)
      BY <1>1, SliceIs
    <2>2. Told(Pcm(d, t, x.w + i, y.w + j, 0), More(rows, x.says \o y.says))
      BY <1>1, PcmSend
    <2> HIDE DEF u
    <2> QED
      BY <1>1, <2>1, <2>2, NoPlace DEF u
  <1>2. CASE d.coding = "ppm"
    <2>1. u = Ppm(d, t, x.w + i, y.w + j, 0)
      BY <1>2, SliceIs
    <2>2. Told(Ppm(d, t, x.w + i, y.w + j, 0), More(rows, x.says \o y.says))
      BY <1>2, PpmSend
    <2> HIDE DEF u
    <2> QED
      BY <1>2, <2>1, <2>2, NoPlace DEF u
  <1>3. CASE d.coding = "pwm"
    <2>1. u = Pwm(d, t, x.w + i, y.w + j, 0)
      BY <1>3, SliceIs
    <2>2. Told(Pwm(d, t, x.w + i, y.w + j, 0), More(rows, x.says \o y.says))
      BY <1>3, PwmSend
    <2> HIDE DEF u
    <2> QED
      BY <1>3, <2>1, <2>2, NoPlace DEF u
  <1>4. CASE d.coding = "manchester"
    <2>1. u = Manchester(d, t, x.w + i, y.w + j, 0)
      BY <1>4, SliceIs
    <2>2. Told(Manchester(d, t, x.w + i, y.w + j, 0), More(rows, x.says \o y.says))
          /\ InStep(d, Manchester(d, t, x.w + i, y.w + j, 0), y.next)
      BY <1>4, ManchesterSend
    <2> HIDE DEF u
    <2> QED
      BY <1>4, <2>1, <2>2 DEF u
  <1>5. CASE d.coding = "dmc"
    <2>1. u = Dmc(d, t, x.w + i, y.w + j)
      BY <1>5, SliceIs
    <2>2. Told(Dmc(d, t, x.w + i, y.w + j), More(rows, x.says \o y.says))
          /\ InStep(d, Dmc(d, t, x.w + i, y.w + j), y.next)
      BY <1>5, DmcSend
    <2> HIDE DEF u
    <2> QED
      BY <1>5, <2>1, <2>2 DEF u
  <1>6. CASE d.coding = "piwm_raw"
    <2>1. u = PiwmRaw(d, t, x.w + i, y.w + j, 0)
      BY <1>6, SliceIs
    <2>2. Told(PiwmRaw(d, t, x.w + i, y.w + j, 0), More(rows, x.says \o y.says))
      BY <1>6, RawSend
    <2> HIDE DEF u
    <2> QED
      BY <1>6, <2>1, <2>2, NoPlace DEF u
  <1>7. CASE d.coding = "piwm_dc"
    <2>1. u = PiwmDc(d, t, x.w + i, y.w + j, 0)
      BY <1>7, SliceIs
    <2>2. Told(PiwmDc(d, t, x.w + i, y.w + j, 0), More(rows, x.says \o y.says))
      BY <1>7, DcSend
    <2> HIDE DEF u
    <2> QED
      BY <1>7, <2>1, <2>2, NoPlace DEF u
  <1>8. CASE d.coding = "nrzs"
    <2>1. u = Nrzs(d, t, x.w + i, y.w + j, 0)
      BY <1>8, SliceIs
    <2>2. Told(Nrzs(d, t, x.w + i, y.w + j, 0), More(rows, x.says \o y.says))
      BY <1>8, NrzsSend
    <2> HIDE DEF u
    <2> QED
      BY <1>8, <2>1, <2>2, NoPlace DEF u
  <1>9. CASE d.coding = "osv1"
    <2>1. u = Osv1(d, t, x.w + i, y.w + j, 0)
      BY <1>9, SliceIs
    <2>2. Told(Osv1(d, t, x.w + i, y.w + j, 0), More(rows, x.says \o y.says))
          /\ InStep(d, Osv1(d, t, x.w + i, y.w + j, 0), y.next)
      BY <1>9, Osv1Send
    <2> HIDE DEF u
    <2> QED
      BY <1>9, <2>1, <2>2 DEF u
  <1>10. CASE d.coding = "rzi"
    <2>1. u = Rzi(d, t, x.w + i, y.w + j, 0)
      BY <1>10, SliceIs
    <2>2. Told(Rzi(d, t, x.w + i, y.w + j, 0), More(rows, x.says \o y.says))
          /\ InStep(d, Rzi(d, t, x.w + i, y.w + j, 0), y.next)
      BY <1>10, RziSend
    <2> HIDE DEF u
    <2> QED
      BY <1>10, <2>1, <2>2 DEF u
  <1> QED
    BY <1>0, <1>1, <1>2, <1>3, <1>4, <1>5, <1>6, <1>7, <1>8, <1>9, <1>10 DEF Codings

LEMMA SlicePause ==
  ASSUME NEW d \in Devices, Decodable(d), d.coding \in {"pcm", "ppm", "pwm"}, d.gap > 0, NEW rows, NEW t, Told(t, rows),
         NEW q, PlaceOf(d, q), NEW x \in Pulse(d, q), NEW i \in Off, NEW says, says = x.says \o Pause(d).says,
         Fits(Append(More(rows, says), <<>>)), NEW u, u = Slice(d, t, x.w + i, Pause(d).w, 0)
  PROVE  Told(u, Append(More(rows, says), <<>>)) /\ InStep(d, u, q)
  <1>1. /\ rows \in Messages /\ x.says \in Seq(Bit) /\ Pause(d).w = d.reset - 1
        /\ Pause(d).says = (IF d.coding = "pcm" THEN Bits(0, MaxZeros(d)) ELSE <<>>) /\ Pause(d).says \in Seq(Bit)
    BY PulseSays, PauseSays DEF Told
  <1>2. says \in Seq(Bit) /\ x.says \o <<>> = x.says
    BY <1>1, Further
  <1>3. More(rows, says) \in Messages
    BY <1>1, <1>2, Further
  <1>4. Fits(More(rows, says))
    BY <1>3, RoomForRow
  <1>5. CASE d.coding = "pcm"
    <2>1. u = Pcm(d, t, x.w + i, d.reset - 1, 0) /\ says = x.says \o Bits(0, MaxZeros(d))
      BY <1>1, <1>5, SliceIs
    <2>2. Told(Pcm(d, t, x.w + i, d.reset - 1, 0), Append(More(rows, x.says \o Bits(0, MaxZeros(d))), <<>>))
      BY <1>4, <1>5, <2>1, PcmPause
    <2> QED
      BY <1>5, <2>1, <2>2, NoPlace
  <1>6. CASE d.coding = "ppm"
    <2>1. u = Ppm(d, t, x.w + i, d.reset - 1, 0) /\ says = x.says
      BY <1>1, <1>2, <1>6, SliceIs
    <2>2. Fits(rows)
      BY <1>1, <1>2, <1>4, Further
    <2>3. Told(Ppm(d, t, x.w + i, d.reset - 1, 0), Append(rows, <<>>)) /\ x.says = <<>>
      BY <1>6, <2>2, PpmPause
    <2>4. More(rows, says) = rows
      BY <1>1, <2>1, <2>3, Further
    <2> QED
      BY <1>6, <2>1, <2>3, <2>4, NoPlace
  <1>7. CASE d.coding = "pwm"
    <2>1. u = Pwm(d, t, x.w + i, d.reset - 1, 0) /\ says = x.says
      BY <1>1, <1>2, <1>7, SliceIs
    <2>2. Told(Pwm(d, t, x.w + i, d.reset - 1, 0), Append(More(rows, x.says), <<>>))
      BY <1>4, <1>7, <2>1, PwmPause
    <2> QED
      BY <1>7, <2>1, <2>2, NoPlace
  <1> QED
    BY <1>5, <1>6, <1>7

LEMMA SliceSync ==
  ASSUME NEW d \in Devices, Decodable(d), d.sync > 0, NEW rows, NEW t, Told(t, rows), NEW q,
         NEW i \in Off, NEW more, more = (IF LastRow(rows) = <<>> THEN rows ELSE Append(rows, <<>>)), Fits(more),
         NEW u, u = IF d.coding = "pwm" THEN Slice(d, t, d.sync + i, d.short, 0) ELSE Slice(d, t, d.short, d.sync + i, 0)
  PROVE  Told(u, more) /\ InStep(d, u, q)
  <1>1. d.coding = "ppm" \/ d.coding = "pwm"
    BY DEF Decodable
  <1>2. rows \in Messages
    BY DEF Told
  <1>3. LastRow(rows) # <<>> => Fits(rows)
    BY <1>2, RoomForRow
  <1>4. CASE d.coding = "pwm"
    <2>1. u = Pwm(d, t, d.sync + i, d.short, 0)
      BY <1>4, SliceIs
    <2>2. Told(Pwm(d, t, d.sync + i, d.short, 0), IF LastRow(rows) = <<>> THEN rows ELSE Append(rows, <<>>))
      BY <1>3, <1>4, PwmSync
    <2> QED
      BY <1>4, <2>1, <2>2, NoPlace
  <1>5. CASE d.coding = "ppm"
    <2>1. u = Ppm(d, t, d.short, d.sync + i, 0)
      BY <1>5, SliceIs
    <2>2. Told(Ppm(d, t, d.short, d.sync + i, 0), IF LastRow(rows) = <<>> THEN rows ELSE Append(rows, <<>>))
      BY <1>3, <1>5, PpmSync
    <2> QED
      BY <1>5, <2>1, <2>2, NoPlace
  <1> QED
    BY <1>1, <1>4, <1>5

(* The last pulse, and the silence after it. *)
LEMMA PpmFinish ==
  ASSUME NEW d \in Devices, d.coding = "ppm", Decodable(d), NEW rows, NEW t, Told(t, rows), t.out = <<>>,
         NEW q, NEW x \in Pulse(d, q), NEW last, NEW y \in Silences(d, last), NEW i \in Off,
         NEW more, more = More(rows, x.says \o y.says), SomeBits(more)
  PROVE  Handed(Ppm(d, t, x.w + i, y.w, last), more)
  <1> PICK r \in DOMAIN more : more[r] # <<>>
    BY DEF SomeBits
  <1>1. x = Sym(d.short, <<>>, 0) /\ rows \in Messages
    BY DEF Pulse, Told
  <1>2. x.says = <<>> /\ y.says = <<>> /\ y.w \in Int /\ y.w >= d.reset
    BY <1>1, SilencesAre, DeviceWidths DEF Sym
  <1>3. more = rows
    <2>1. <<>> \o <<>> = <<>> /\ More(rows, <<>>) = rows
      BY <1>1, Further
    <2> QED
      BY <1>2, <2>1
  <1>4. HasData(t) /\ HasRow(t)
    BY <1>3, TellData
  <1>5. Ppm(d, t, x.w + i, y.w, last) = Account(t)
    BY <1>2, <1>4, PpmEnd
  <1>6. Handed(Account(t), rows)
    BY <1>4, TellAccount DEF Handed
  <1> QED
    BY <1>3, <1>5, <1>6

LEMMA SliceFinish ==
  ASSUME NEW d \in Devices, Decodable(d), NEW rows, NEW t, Told(t, rows), t.out = <<>>,
         NEW q, InStep(d, t, q), d.coding = "osv1" => q \in {0, 1},
         d.coding \notin {"pcm", "ppm", "pwm"} => Len(rows) = 1,
         d.coding = "manchester" => rows[1] # <<>>,
         NEW x \in Pulse(d, q), NEW last, NEW y \in Silences(d, last), NEW i \in Off,
         NEW more, more = More(rows, x.says \o y.says), Fits(more), SomeBits(more)
  PROVE  ReadAs(d, Slice(d, t, x.w + i, y.w, last), more)
  <1> DEFINE u == Slice(d, t, x.w + i, y.w, last)
  <1>0. d.coding \in Codings
    BY DeviceWidths
  <1>1. CASE d.coding = "pcm"
    <2>1. u = Pcm(d, t, x.w + i, y.w, last)
      BY <1>1, SliceIs
    <2>2. Handed(Pcm(d, t, x.w + i, y.w, last), more)
      BY <1>1, PcmFinish
    <2> HIDE DEF u
    <2>3. Handed(u, more) /\ d.coding # "manchester"
      BY <1>1, <2>1, <2>2
    <2> QED
      BY <2>3, HandedRead DEF u
  <1>2. CASE d.coding = "ppm"
    <2>1. u = Ppm(d, t, x.w + i, y.w, last)
      BY <1>2, SliceIs
    <2>2. Handed(Ppm(d, t, x.w + i, y.w, last), more)
      BY <1>2, PpmFinish
    <2> HIDE DEF u
    <2>3. Handed(u, more) /\ d.coding # "manchester"
      BY <1>2, <2>1, <2>2
    <2> QED
      BY <2>3, HandedRead DEF u
  <1>3. CASE d.coding = "pwm"
    <2>1. u = Pwm(d, t, x.w + i, y.w, last)
      BY <1>3, SliceIs
    <2>2. Handed(Pwm(d, t, x.w + i, y.w, last), more)
      BY <1>3, PwmFinish
    <2> HIDE DEF u
    <2>3. Handed(u, more) /\ d.coding # "manchester"
      BY <1>3, <2>1, <2>2
    <2> QED
      BY <2>3, HandedRead DEF u
  <1>4. CASE d.coding = "manchester"
    <2>1. u = Manchester(d, t, x.w + i, y.w, last)
      BY <1>4, SliceIs
    <2>2. ReadAs(d, Manchester(d, t, x.w + i, y.w, last), more)
      BY <1>4, ManchesterFinish
    <2> QED
      BY <2>1, <2>2
  <1>5. CASE d.coding = "dmc"
    <2>1. u = Dmc(d, t, x.w + i, y.w)
      BY <1>5, SliceIs
    <2>2. Handed(Dmc(d, t, x.w + i, y.w), more)
      BY <1>5, DmcFinish
    <2> HIDE DEF u
    <2>3. Handed(u, more) /\ d.coding # "manchester"
      BY <1>5, <2>1, <2>2
    <2> QED
      BY <2>3, HandedRead DEF u
  <1>6. CASE d.coding = "piwm_raw"
    <2>1. u = PiwmRaw(d, t, x.w + i, y.w, last)
      BY <1>6, SliceIs
    <2>2. Handed(PiwmRaw(d, t, x.w + i, y.w, last), more)
      BY <1>6, RawFinish
    <2> HIDE DEF u
    <2>3. Handed(u, more) /\ d.coding # "manchester"
      BY <1>6, <2>1, <2>2
    <2> QED
      BY <2>3, HandedRead DEF u
  <1>7. CASE d.coding = "piwm_dc"
    <2>1. u = PiwmDc(d, t, x.w + i, y.w, last)
      BY <1>7, SliceIs
    <2>2. Handed(PiwmDc(d, t, x.w + i, y.w, last), more)
      BY <1>7, DcFinish
    <2> HIDE DEF u
    <2>3. Handed(u, more) /\ d.coding # "manchester"
      BY <1>7, <2>1, <2>2
    <2> QED
      BY <2>3, HandedRead DEF u
  <1>8. CASE d.coding = "nrzs"
    <2>1. u = Nrzs(d, t, x.w + i, y.w, last)
      BY <1>8, SliceIs
    <2>2. Handed(Nrzs(d, t, x.w + i, y.w, last), more)
      BY <1>8, NrzsFinish
    <2> HIDE DEF u
    <2>3. Handed(u, more) /\ d.coding # "manchester"
      BY <1>8, <2>1, <2>2
    <2> QED
      BY <2>3, HandedRead DEF u
  <1>9. CASE d.coding = "osv1"
    <2>1. u = Osv1(d, t, x.w + i, y.w, last)
      BY <1>9, SliceIs
    <2>2. Handed(Osv1(d, t, x.w + i, y.w, last), more)
      BY <1>9, Osv1Finish
    <2> HIDE DEF u
    <2>3. Handed(u, more) /\ d.coding # "manchester"
      BY <1>9, <2>1, <2>2
    <2> QED
      BY <2>3, HandedRead DEF u
  <1>10. CASE d.coding = "rzi"
    <2>1. u = Rzi(d, t, x.w + i, y.w, last)
      BY <1>10, SliceIs
    <2>2. Handed(Rzi(d, t, x.w + i, y.w, last), more)
      BY <1>10, RziFinish
    <2> HIDE DEF u
    <2>3. Handed(u, more) /\ d.coding # "manchester"
      BY <1>10, <2>1, <2>2
    <2> QED
      BY <2>3, HandedRead DEF u
  <1> QED
    BY <1>0, <1>1, <1>2, <1>3, <1>4, <1>5, <1>6, <1>7, <1>8, <1>9, <1>10 DEF Codings

LEMMA SliceSilence ==
  ASSUME NEW d \in Devices, Decodable(d), d.coding # "osv1", NEW t, Good(t),
         d.coding = "manchester" => HasRow(t), NEW n, d.coding = "ppm" => Whole(t.bits, n),
         NEW p \in Int, NEW g \in Int, g > d.reset, NEW last
  PROVE  /\ Told(Slice(d, t, p, g, last), Nothing(d)) /\ InStep(d, Slice(d, t, p, g, last), First(d))
  <1> DEFINE u == Slice(d, t, p, g, last)
  <1>0. d.coding \in Codings /\ First(d) = 0
    BY DeviceWidths DEF First
  <1>1. CASE d.coding = "pcm"
    <2>1. u = Pcm(d, t, p, g, last) /\ Nothing(d) = <<<<>>>>
      BY <1>1, SliceIs DEF Nothing
    <2>2. Told(Pcm(d, t, p, g, last), <<<<>>>>)
      BY <1>1, PcmSilence
    <2> HIDE DEF u
    <2> QED
      BY <1>0, <1>1, <2>1, <2>2, NoPlace DEF u
  <1>2. CASE d.coding = "ppm"
    <2>1. u = Ppm(d, t, p, g, last) /\ Nothing(d) = <<<<>>>>
      BY <1>2, SliceIs DEF Nothing
    <2>3. t.bits.num <= 1 => Says(t.bits, <<BitsOf(t.bits, 0)>>)
      BY <1>2 DEF Whole
    <2>4. g >= d.reset
      BY DeviceWidths
    <2>2. Told(Ppm(d, t, p, g, last), <<<<>>>>)
      BY <1>2, <2>3, <2>4, PpmSilence
    <2> HIDE DEF u
    <2> QED
      BY <1>0, <1>2, <2>1, <2>2, NoPlace DEF u
  <1>3. CASE d.coding = "pwm"
    <2>1. u = Pwm(d, t, p, g, last) /\ Nothing(d) = <<<<>>>>
      BY <1>3, SliceIs DEF Nothing
    <2>2. Told(Pwm(d, t, p, g, last), <<<<>>>>)
      BY <1>3, PwmSilence
    <2> HIDE DEF u
    <2> QED
      BY <1>0, <1>3, <2>1, <2>2, NoPlace DEF u
  <1>4. CASE d.coding = "manchester"
    <2>1. u = Manchester(d, t, p, g, last) /\ Nothing(d) = <<<<0>>>>
      BY <1>4, SliceIs DEF Nothing
    <2>2. Told(Manchester(d, t, p, g, last), <<<<0>>>>) /\ InStep(d, Manchester(d, t, p, g, last), 0)
      BY <1>4, ManchesterSilence
    <2> HIDE DEF u
    <2> QED
      BY <1>0, <1>4, <2>1, <2>2 DEF u
  <1>5. CASE d.coding = "dmc"
    <2>1. u = Dmc(d, t, p, g) /\ Nothing(d) = <<<<>>>>
      BY <1>5, SliceIs DEF Nothing
    <2>2. Told(Dmc(d, t, p, g), <<<<>>>>) /\ InStep(d, Dmc(d, t, p, g), 0)
      BY <1>5, DmcSilence
    <2> HIDE DEF u
    <2> QED
      BY <1>0, <1>5, <2>1, <2>2 DEF u
  <1>6. CASE d.coding = "piwm_raw"
    <2>1. u = PiwmRaw(d, t, p, g, last) /\ Nothing(d) = <<<<>>>>
      BY <1>6, SliceIs DEF Nothing
    <2>2. Told(PiwmRaw(d, t, p, g, last), <<<<>>>>)
      BY <1>6, RawSilence
    <2> HIDE DEF u
    <2> QED
      BY <1>0, <1>6, <2>1, <2>2, NoPlace DEF u
  <1>7. CASE d.coding = "piwm_dc"
    <2>1. u = PiwmDc(d, t, p, g, last) /\ Nothing(d) = <<<<>>>>
      BY <1>7, SliceIs DEF Nothing
    <2>2. Told(PiwmDc(d, t, p, g, last), <<<<>>>>)
      BY <1>7, DcSilence
    <2> HIDE DEF u
    <2> QED
      BY <1>0, <1>7, <2>1, <2>2, NoPlace DEF u
  <1>8. CASE d.coding = "nrzs"
    <2>1. u = Nrzs(d, t, p, g, last) /\ Nothing(d) = <<<<>>>>
      BY <1>8, SliceIs DEF Nothing
    <2>2. Told(Nrzs(d, t, p, g, last), <<<<>>>>)
      BY <1>8, NrzsSilence
    <2> HIDE DEF u
    <2> QED
      BY <1>0, <1>8, <2>1, <2>2, NoPlace DEF u
  <1>10. CASE d.coding = "rzi"
    <2>1. u = Rzi(d, t, p, g, last) /\ Nothing(d) = <<<<>>>>
      BY <1>10, SliceIs DEF Nothing
    <2>2. Told(Rzi(d, t, p, g, last), <<<<>>>>) /\ InStep(d, Rzi(d, t, p, g, last), 0)
      BY <1>10, RziSilence
    <2> HIDE DEF u
    <2> QED
      BY <1>0, <1>10, <2>1, <2>2 DEF u
  <1> QED
    BY <1>0, <1>1, <1>2, <1>3, <1>4, <1>5, <1>6, <1>7, <1>8, <1>10 DEF Codings

-----------------------------------------------------------------------------
(* The slicer follows the sender. *)

AllDecodable == \A d \in Devices : Decodable(d)
Ample == MaxPulses <= (Rows - 1) * RowBits

SenderAt(d, q, rows) ==
  /\ rows \in Messages /\ PlaceOf(d, q)
  /\ d.coding \notin {"pcm", "ppm", "pwm"} => Len(rows) = 1
  /\ d.coding = "manchester" => rows[1] # <<>>

Rest ==
  /\ device.coding = "manchester" => HasRow(s)
  /\ device.coding = "ppm" => Whole(s.bits, steps)

Following ==
  clean = 1 => /\ SenderAt(device, place, sent)
               /\ Fits(sent) => Says(s.bits, sent) /\ InStep(device, s, place)

Follows == IInv /\ steps \in Nat /\ Rest /\ Following /\ MessageIsDecoded

(* A turn of the slicer's loop. *)
LEMMA TakeIs ==
  ASSUME IInv, NEW p \in Int, NEW g \in Int, NEW last \in {0, 1}, Take(p, g, last),
         NEW z, z = [s EXCEPT !.out = <<>>], NEW u, u = Slice(device, z, p, g, last)
  PROVE  /\ device' = device /\ Good(z) /\ z.out = <<>> /\ z.bits = s.bits /\ Good(u)
         /\ \A q : InStep(device, s, q) => InStep(device, z, q)
         /\ s'.out = u.out /\ (last = 0 => s' = u)
         /\ last = 1 => s'.bits = Fresh(device).bits
                        /\ \A q : InStep(device, Fresh(device), q) => InStep(device, s', q)
  <1>1. Good(s) /\ device \in Devices
    BY DEF IInv
  <1>2. /\ Good(z) /\ z.out = <<>> /\ z.bits = s.bits
        /\ z.since = s.since /\ z.half = s.half /\ z.phase = s.phase /\ z.seen = s.seen
    <2>1. <<>> \in Seq(BitBuffers)
      OBVIOUS
    <2>2. Good(z)
      BY <1>1, <2>1, OutGood
    <2> QED
      BY <1>1, <2>2 DEF Good, Slicers
  <1>3. Good(u)
    BY <1>1, <1>2, SliceGood
  <1>4. device' = device /\ s' = IF last = 1 THEN [Fresh(device) EXCEPT !.out = u.out] ELSE u
    BY DEF Take
  <1>5. last = 1 => s'.out = u.out /\ s'.bits = Fresh(device).bits /\ s'.since = Fresh(device).since
                    /\ s'.half = Fresh(device).half /\ s'.phase = Fresh(device).phase /\ s'.seen = Fresh(device).seen
    BY <1>4 DEF Fresh
  <1>6. \A q : InStep(device, s, q) => InStep(device, z, q)
    BY <1>2 DEF InStep
  <1>7. last = 1 => \A q : InStep(device, Fresh(device), q) => InStep(device, s', q)
    <2> DEFINE v == s'
               f == Fresh(device)
    <2>1. last = 1 => v.since = f.since /\ v.half = f.half /\ v.phase = f.phase /\ v.seen = f.seen
      BY <1>5
    <2> HIDE DEF v, f
    <2>2. last = 1 => \A q : InStep(device, f, q) => InStep(device, v, q)
      BY <2>1 DEF InStep
    <2> QED
      BY <2>2 DEF v, f
  <1> QED
    BY <1>1, <1>2, <1>3, <1>4, <1>5, <1>6, <1>7

LEMMA RestKept ==
  ASSUME Ample, IInv, Rest, steps \in Nat, NEW p \in Int, NEW g \in Int, Take(p, g, 0),
         steps < MaxPulses, steps' = steps + 1
  PROVE  Rest'
  <1> DEFINE z == [s EXCEPT !.out = <<>>]
             u == Slice(device, z, p, g, 0)
  <1>1. device' = device /\ Good(z) /\ z.bits = s.bits /\ s' = u /\ device \in Devices
    BY TakeIs DEF IInv
  <1> HIDE DEF z
  <1>2. device.coding = "manchester" => HasRow(u)
    <2>1. device.coding = "manchester" => u = Manchester(device, z, p, g, 0)
      BY SliceIs
    <2>2. device.coding = "manchester" => HasRow(z)
      BY <1>1 DEF Rest, HasRow
    <2> HIDE DEF u
    <2> QED
      BY <1>1, <2>1, <2>2, ManchesterKeepsRow
  <1>3. device.coding = "ppm" => Whole(u.bits, steps + 1)
    <2>1. device.coding = "ppm" => u = Ppm(device, z, p, g, 0)
      BY SliceIs
    <2>2. device.coding = "ppm" => Whole(z.bits, steps)
      BY <1>1 DEF Rest
    <2> HIDE DEF u
    <2>3. device.coding = "ppm" => Whole(Ppm(device, z, p, g, 0).bits, steps + 1)
      BY <1>1, <2>2, PpmWhole DEF Ample
    <2> QED
      BY <2>1, <2>3
  <1> HIDE DEF u
  <1> QED
    BY <1>1, <1>2, <1>3 DEF Rest

LEMMA Beginning ==
  ASSUME AllDecodable, NEW d \in Devices
  PROVE  SenderAt(d, First(d), Nothing(d))
  <1>1. Told(Fresh(d), Nothing(d)) /\ Decodable(d)
    BY FreshTold DEF AllDecodable
  <1>2. Nothing(d) \in Messages
    BY <1>1 DEF Told
  <1>3. Len(Nothing(d)) = 1 /\ (d.coding = "manchester" => Nothing(d)[1] # <<>>)
    BY DEF Nothing
  <1>4. PlaceOf(d, First(d))
    <2>1. d.coding = "osv1" => 2 \in 0 .. OsvSync
      BY <1>1, Osv1Device
    <2> QED
      BY <2>1 DEF PlaceOf, First
  <1> QED
    BY <1>2, <1>3, <1>4 DEF SenderAt

LEMMA Ended ==
  ASSUME AllDecodable, IInv, Rest, NEW p \in Int, NEW g \in Int, NEW last \in {0, 1}, Take(p, g, last),
         last = 1 \/ g > device.reset, NewMessage(last)
  PROVE  Rest' /\ Following'
  <1> DEFINE z == [s EXCEPT !.out = <<>>]
             u == Slice(device, z, p, g, last)
             f == Fresh(device)
             v == s'
  <1>1. /\ device' = device /\ Good(z) /\ z.bits = s.bits /\ device \in Devices /\ Decodable(device)
        /\ last = 0 => v = u
        /\ last = 1 => v.bits = f.bits /\ \A q : InStep(device, f, q) => InStep(device, v, q)
    BY TakeIs DEF IInv, AllDecodable
  <1>2. /\ sent' = Nothing(device) /\ place' = First(device) /\ steps' = 0
        /\ clean' = IF last = 1 \/ device.coding # "osv1" THEN 1 ELSE 0
    BY DEF NewMessage
  <1>3. SenderAt(device, First(device), Nothing(device))
    BY <1>1, Beginning
  <1>4. CASE last = 1
    <2>1. /\ Told(f, Nothing(device)) /\ InStep(device, f, First(device))
          /\ device.coding = "manchester" => HasRow(f)
          /\ device.coding # "manchester" => f.bits = Clear
      BY <1>1, FreshTold
    <2> HIDE DEF f, u, z
    <2>2. Says(v.bits, Nothing(device)) /\ InStep(device, v, First(device))
      BY <1>1, <1>4, <2>1 DEF Told
    <2>3. device.coding = "manchester" => HasRow(v)
      BY <1>1, <1>4, <2>1 DEF HasRow
    <2>4. device.coding = "ppm" => Whole(v.bits, 0)
      BY <1>1, <1>4, <2>1, ClearWhole
    <2> QED
      BY <1>1, <1>2, <1>3, <2>2, <2>3, <2>4 DEF Rest, Following
  <1>5. CASE last = 0 /\ device.coding # "osv1"
    <2>1. device.coding = "manchester" => HasRow(z)
      BY <1>1 DEF Rest, HasRow
    <2>2. device.coding = "ppm" => Whole(z.bits, steps)
      BY <1>1 DEF Rest
    <2>3. g > device.reset
      BY <1>5
    <2> HIDE DEF z, f
    <2>4. Told(u, Nothing(device)) /\ InStep(device, u, First(device))
      BY <1>1, <1>5, <2>1, <2>2, <2>3, SliceSilence
    <2>5. device.coding = "manchester" => HasRow(u)
      <3>1. device.coding = "manchester" => u = Manchester(device, z, p, g, last)
        BY SliceIs
      <3> HIDE DEF u
      <3> QED
        BY <1>1, <2>1, <3>1, ManchesterKeepsRow
    <2> HIDE DEF u
    <2>6. device.coding = "ppm" => Whole(u.bits, 0)
      <3>1. device.coding = "ppm" => Says(u.bits, <<<<>>>>)
        BY <2>4 DEF Told, Nothing
      <3>2. <<>> \in Seq(Bit) /\ Len(<<>>) = 0
        BY OneBit
      <3>3. device.coding = "ppm" => BitsOf(u.bits, 0) = <<>> /\ u.bits.len[0] = 0
        BY <3>1, <3>2, RowItself
      <3> QED
        BY <3>1, <3>3 DEF Whole
    <2> QED
      BY <1>1, <1>2, <1>3, <1>5, <2>4, <2>5, <2>6 DEF Rest, Following, Told
  <1>6. CASE last = 0 /\ device.coding = "osv1"
    BY <1>1, <1>2, <1>6 DEF Rest, Following
  <1> QED
    BY <1>4, <1>5, <1>6

LEMMA SaidIs == ASSUME NEW says PROVE Said(says) = More(sent, says)
  BY DEF Said, More

LEMMA LongerAt ==
  ASSUME NEW d, NEW q, NEW rows, SenderAt(d, q, rows), NEW says \in Seq(Bit), NEW r, PlaceOf(d, r)
  PROVE  SenderAt(d, r, More(rows, says))
  <1>1. rows \in Messages
    BY DEF SenderAt
  <1>2. More(rows, says) \in Messages /\ Len(More(rows, says)) = Len(rows)
    BY <1>1, MoreIs
  <1>3. ASSUME d.coding = "manchester" PROVE More(rows, says)[1] # <<>>
    <2>1. Len(rows) = 1 /\ rows[1] # <<>>
      BY <1>3 DEF SenderAt
    <2>2. rows[1] \in Seq(Bit) /\ More(rows, says) = <<rows[1] \o says>>
      BY <1>1, <2>1, OneRow
    <2>3. Len(rows[1]) > 0 /\ Len(rows[1] \o says) = Len(rows[1]) + Len(says) /\ Len(says) >= 0
      BY <2>1, <2>2
    <2> DEFINE z == rows[1] \o says
    <2>4. Len(z) > 0 /\ More(rows, says) = <<z>>
      BY <2>2, <2>3
    <2> HIDE DEF z
    <2>5. z # <<>>
      BY <2>4
    <2> QED
      BY <2>4, <2>5
  <1> QED
    BY <1>2, <1>3 DEF SenderAt

-----------------------------------------------------------------------------
LEMMA SendFollows ==
  ASSUME AllDecodable, Ample, Follows, Send
  PROVE  steps' \in Nat /\ Rest' /\ Following' /\ MessageIsDecoded'
  <1>1. clean = 1 /\ steps < MaxPulses /\ due' = <<>> /\ steps' = steps + 1 /\ steps \in Nat /\ device \in Devices
    BY DEF Send, Follows, IInv
  <1>0. PICK x \in Pulse(device, place) : \E y \in Gap(device, x.next), i \in Off, j \in Off :
          /\ Take(x.w + i, y.w + j, 0)
          /\ sent' = Said(x.says \o y.says) /\ place' = y.next
    BY DEF Send
  <1>2. PICK y \in Gap(device, x.next), i \in Off, j \in Off :
          /\ Take(x.w + i, y.w + j, 0)
          /\ sent' = Said(x.says \o y.says) /\ place' = y.next
    BY <1>0
  <1> DEFINE p == x.w + i
             g == y.w + j
             z == [s EXCEPT !.out = <<>>]
             u == Slice(device, z, p, g, 0)
             says == x.says \o y.says
  <1>3. p \in Int /\ g \in Int /\ Take(p, g, 0) /\ IInv /\ Rest
    BY <1>1, <1>2, PulseWidths, GapWidths, OffWidths DEF Follows, IInv
  <1>4. Rest'
    <2> HIDE DEF p, g
    <2> QED
      BY <1>1, <1>3, RestKept
  <1>5. device' = device /\ Good(z) /\ z.bits = s.bits /\ s' = u /\ \A q : InStep(device, s, q) => InStep(device, z, q)
    <2> HIDE DEF p, g
    <2> QED
      BY <1>3, TakeIs
  <1>6. /\ SenderAt(device, place, sent) /\ (Fits(sent) => Says(s.bits, sent) /\ InStep(device, s, place))
        /\ sent \in Messages /\ PlaceOf(device, place) /\ Decodable(device)
    BY <1>1 DEF Follows, Following, SenderAt, AllDecodable
  <1>7. x.says \in Seq(Bit) /\ y.says \in Seq(Bit) /\ PlaceOf(device, x.next) /\ PlaceOf(device, y.next)
    <2>1. x.says \in Seq(Bit) /\ PlaceOf(device, x.next)
      BY <1>1, <1>6, PulseSays
    <2> QED
      BY <1>1, <1>6, <2>1, GapSays
  <1>8. says \in Seq(Bit) /\ sent' = More(sent, says)
    BY <1>2, <1>6, <1>7, Further, SaidIs
  <1>9. SenderAt(device, y.next, More(sent, says))
    <2> HIDE DEF says
    <2> QED
      BY <1>6, <1>7, <1>8, LongerAt
  <1>10. ASSUME Fits(More(sent, says))
         PROVE  Says(u.bits, More(sent, says)) /\ InStep(device, u, y.next)
    <2>1. Fits(sent)
      <3> HIDE DEF says
      <3> QED
        BY <1>6, <1>8, <1>10, Further
    <2>2. Told(z, sent) /\ InStep(device, z, place)
      BY <1>5, <1>6, <2>1 DEF Told
    <2> HIDE DEF z
    <2>3. Told(u, More(sent, says)) /\ InStep(device, u, y.next)
      BY <1>1, <1>6, <1>10, <2>2, SliceSend
    <2> QED
      BY <2>3 DEF Told
  <1> HIDE DEF u, z, p, g, says
  <1>11. Following'
    BY <1>2, <1>5, <1>8, <1>9, <1>10 DEF Following
  <1> QED
    BY <1>1, <1>4, <1>11 DEF MessageIsDecoded

LEMMA SendPauseFollows ==
  ASSUME AllDecodable, Ample, Follows, SendPause
  PROVE  steps' \in Nat /\ Rest' /\ Following' /\ MessageIsDecoded'
  <1>1. /\ clean = 1 /\ steps < MaxPulses /\ due' = <<>> /\ steps' = steps + 1 /\ steps \in Nat /\ device \in Devices
        /\ place' = place /\ clean' = clean /\ device.gap > 0 /\ device.coding \in {"pcm", "ppm", "pwm"}
    BY DEF SendPause, Follows, IInv
  <1>2. PICK x \in Pulse(device, place), i \in Off :
          /\ Take(x.w + i, Pause(device).w, 0)
          /\ sent' = Append(Said(x.says \o Pause(device).says), <<>>)
    BY DEF SendPause
  <1> DEFINE p == x.w + i
             g == Pause(device).w
             z == [s EXCEPT !.out = <<>>]
             u == Slice(device, z, p, g, 0)
             says == x.says \o Pause(device).says
             more == Append(More(sent, says), <<>>)
  <1>3. p \in Int /\ g \in Int /\ Take(p, g, 0) /\ IInv /\ Rest
    BY <1>1, <1>2, PulseWidths, PauseWidths, OffWidths DEF Follows, IInv
  <1>4. Rest'
    <2> HIDE DEF p, g
    <2> QED
      BY <1>1, <1>3, RestKept
  <1>5. device' = device /\ Good(z) /\ z.bits = s.bits /\ s' = u
    <2> HIDE DEF p, g
    <2> QED
      BY <1>3, TakeIs
  <1>6. /\ SenderAt(device, place, sent) /\ (Fits(sent) => Says(s.bits, sent) /\ InStep(device, s, place))
        /\ sent \in Messages /\ PlaceOf(device, place) /\ Decodable(device)
    BY <1>1 DEF Follows, Following, SenderAt, AllDecodable
  <1>7. x.says \in Seq(Bit) /\ Pause(device).says \in Seq(Bit)
    BY <1>1, <1>6, PulseSays, PauseSays
  <1>8. says \in Seq(Bit) /\ sent' = more
    BY <1>2, <1>6, <1>7, Further, SaidIs
  <1>9. SenderAt(device, place, more)
    <2> DEFINE rows == More(sent, says)
               e == <<>>
    <2>1. rows \in Messages /\ e \in Seq(Bit)
      <3> HIDE DEF says
      <3> QED
        BY <1>6, <1>8, MoreIs, OneBit
    <2> HIDE DEF rows, e
    <2>2. Append(rows, e) \in Messages
      BY <2>1, RowIs
    <2> QED
      BY <1>1, <1>6, <2>2 DEF SenderAt, rows, e
  <1>10. ASSUME Fits(more)
         PROVE  Says(u.bits, more) /\ InStep(device, u, place)
    <2>1. Fits(sent)
      <3>1. More(sent, says) \in Messages
        <4> HIDE DEF says
        <4> QED
          BY <1>6, <1>8, MoreIs
      <3>2. Fits(More(sent, says))
        BY <1>10, <3>1, RoomForRow
      <3> HIDE DEF says
      <3> QED
        BY <1>6, <1>8, <3>2, Further
    <2>2. Told(z, sent)
      BY <1>5, <1>6, <2>1 DEF Told
    <2> HIDE DEF z
    <2>3. Told(u, more) /\ InStep(device, u, place)
      BY <1>1, <1>6, <1>10, <2>2, SlicePause
    <2> QED
      BY <2>3 DEF Told
  <1> HIDE DEF u, z, p, g, says, more
  <1>11. Following'
    BY <1>1, <1>5, <1>8, <1>9, <1>10 DEF Following
  <1> QED
    BY <1>1, <1>4, <1>11 DEF MessageIsDecoded

LEMMA SendSyncFollows ==
  ASSUME AllDecodable, Ample, Follows, SendSync
  PROVE  steps' \in Nat /\ Rest' /\ Following' /\ MessageIsDecoded'
  <1>1. /\ clean = 1 /\ steps < MaxPulses /\ due' = <<>> /\ steps' = steps + 1 /\ steps \in Nat /\ device \in Devices
        /\ place' = place /\ clean' = clean /\ device.sync > 0
        /\ sent' = IF sent[Len(sent)] = <<>> THEN sent ELSE Append(sent, <<>>)
    BY DEF SendSync, Follows, IInv
  <1>2. PICK i \in Off : IF device.coding = "pwm" THEN Take(device.sync + i, device.short, 0)
                         ELSE Take(device.short, device.sync + i, 0)
    BY DEF SendSync
  <1> DEFINE p == IF device.coding = "pwm" THEN device.sync + i ELSE device.short
             g == IF device.coding = "pwm" THEN device.short ELSE device.sync + i
             z == [s EXCEPT !.out = <<>>]
             u == Slice(device, z, p, g, 0)
             more == IF LastRow(sent) = <<>> THEN sent ELSE Append(sent, <<>>)
  <1>3. p \in Int /\ g \in Int /\ Take(p, g, 0) /\ IInv /\ Rest
    BY <1>1, <1>2, DeviceWidths, OffIs DEF Follows
  <1>4. Rest'
    <2> HIDE DEF p, g
    <2> QED
      BY <1>1, <1>3, RestKept
  <1>5. device' = device /\ Good(z) /\ z.bits = s.bits /\ s' = u
    <2> HIDE DEF p, g
    <2> QED
      BY <1>3, TakeIs
  <1>6. /\ SenderAt(device, place, sent) /\ (Fits(sent) => Says(s.bits, sent) /\ InStep(device, s, place))
        /\ sent \in Messages /\ Decodable(device)
    BY <1>1 DEF Follows, Following, SenderAt, AllDecodable
  <1>8. sent' = more
    BY <1>1 DEF LastRow
  <1>9. SenderAt(device, place, more)
    <2> DEFINE e == <<>>
    <2>1. e \in Seq(Bit)
      BY OneBit
    <2> HIDE DEF e
    <2>2. Append(sent, e) \in Messages
      BY <1>6, <2>1, RowIs
    <2>3. more \in Messages
      BY <1>6, <2>2 DEF e
    <2>4. device.coding \in {"ppm", "pwm"}
      BY <1>1, <1>6 DEF Decodable
    <2> HIDE DEF more
    <2> QED
      BY <1>6, <2>3, <2>4 DEF SenderAt
  <1>10. ASSUME Fits(more)
         PROVE  Says(u.bits, more) /\ InStep(device, u, place)
    <2>1. Fits(sent)
      <3>1. CASE LastRow(sent) = <<>>
        BY <1>10, <3>1
      <3>2. CASE LastRow(sent) # <<>>
        <4>1. Fits(Append(sent, <<>>))
          BY <1>10, <3>2
        <4> QED
          BY <1>6, <4>1, RoomForRow
      <3> QED
        BY <3>1, <3>2
    <2>2. Told(z, sent)
      BY <1>5, <1>6, <2>1 DEF Told
    <2> HIDE DEF z, more
    <2>3. more = (IF LastRow(sent) = <<>> THEN sent ELSE Append(sent, <<>>))
      BY DEF more
    <2>4. u = IF device.coding = "pwm" THEN Slice(device, z, device.sync + i, device.short, 0)
              ELSE Slice(device, z, device.short, device.sync + i, 0)
      OBVIOUS
    <2> HIDE DEF u
    <2>5. Told(u, more) /\ InStep(device, u, place)
      BY <1>1, <1>6, <1>10, <2>2, <2>3, <2>4, SliceSync
    <2> QED
      BY <2>5 DEF Told
  <1> HIDE DEF u, z, p, g, more
  <1>11. Following'
    BY <1>1, <1>5, <1>8, <1>9, <1>10 DEF Following
  <1> QED
    BY <1>1, <1>4, <1>11 DEF MessageIsDecoded

LEMMA FinishFollows ==
  ASSUME AllDecodable, Ample, Follows, NEW last \in {0, 1}, Finish(last)
  PROVE  steps' \in Nat /\ Rest' /\ Following' /\ MessageIsDecoded'
  <1>1. /\ clean = 1 /\ place < 2 /\ NewMessage(last) /\ steps' = 0 /\ device \in Devices
        /\ IInv /\ Rest
    BY DEF Finish, NewMessage, Follows, IInv
  <1>2. PICK x \in Pulse(device, place), y \in Silences(device, last), i \in Off :
          /\ Take(x.w + i, y.w, last)
          /\ due' = <<Said(x.says \o y.says)>>
          /\ \E r \in DOMAIN due'[1] : due'[1][r] # <<>>
    BY DEF Finish
  <1> DEFINE p == x.w + i
             g == y.w
             z == [s EXCEPT !.out = <<>>]
             u == Slice(device, z, p, g, last)
             says == x.says \o y.says
             more == More(sent, says)
  <1>3. p \in Int /\ g \in Int /\ Take(p, g, last) /\ (last = 1 \/ g > device.reset)
    <2>1. g \in Int /\ (last = 1 \/ g > device.reset)
      BY <1>1, SilencesAre
    <2>2. p \in Int
      BY <1>1, PulseWidths, OffWidths DEF IInv
    <2> QED
      BY <1>2, <2>1, <2>2
  <1>4. Rest' /\ Following'
    <2> HIDE DEF p, g
    <2> QED
      BY <1>1, <1>3, Ended
  <1>5. /\ device' = device /\ Good(z) /\ z.out = <<>> /\ z.bits = s.bits /\ s'.out = u.out
        /\ \A q : InStep(device, s, q) => InStep(device, z, q)
    <2> HIDE DEF p, g
    <2> QED
      BY <1>1, <1>3, TakeIs
  <1>6. /\ SenderAt(device, place, sent) /\ (Fits(sent) => Says(s.bits, sent) /\ InStep(device, s, place))
        /\ sent \in Messages /\ PlaceOf(device, place) /\ Decodable(device)
    BY <1>1 DEF Follows, Following, SenderAt, AllDecodable
  <1>7. says \in Seq(Bit)
    <2>1. x.says \in Seq(Bit) /\ y.says \in Seq(Bit)
      BY <1>1, <1>6, PulseSays, PauseSays
    <2> QED
      BY <1>6, <2>1, Further
  <1>8. due' = <<more>> /\ SomeBits(more)
    BY <1>2, SaidIs DEF SomeBits
  <1>9. ASSUME Fits(more) PROVE ReadAs(device, u, more)
    <2>1. Fits(sent)
      <3> HIDE DEF says
      <3> QED
        BY <1>6, <1>7, <1>9, Further
    <2>2. Told(z, sent) /\ InStep(device, z, place)
      BY <1>5, <1>6, <2>1 DEF Told
    <2>3. device.coding = "osv1" => place \in {0, 1}
      <3>1. device.coding = "osv1" => place \in 0 .. OsvSync /\ OsvSync \in Nat
        BY <1>1, <1>6, Osv1Device DEF PlaceOf
      <3> QED
        BY <1>1, <3>1
    <2>4. /\ device.coding \notin {"pcm", "ppm", "pwm"} => Len(sent) = 1
          /\ device.coding = "manchester" => sent[1] # <<>>
      BY <1>6 DEF SenderAt
    <2>5. more = More(sent, x.says \o y.says)
      OBVIOUS
    <2> HIDE DEF z, more
    <2> QED
      BY <1>1, <1>5, <1>6, <1>8, <1>9, <2>2, <2>3, <2>4, <2>5, SliceFinish
  <1> HIDE DEF u, z, p, g, says, more
  <1>10. MessageIsDecoded'
    <2>1. ASSUME Fits(more)
          PROVE  Len(s'.out) = 1 /\ Reads(device, Filled(Contents(s'.out[1])), Filled(more))
      <3>1. PICK b : u.out = <<b>> /\ Reads(device, Filled(Contents(b)), Filled(more))
        BY <1>9, <2>1 DEF ReadAs
      <3> QED
        BY <1>5, <3>1
    <2>2. due'[1] = more
      BY <1>8
    <2> QED
      BY <1>5, <2>1, <2>2 DEF MessageIsDecoded
  <1> QED
    BY <1>1, <1>4, <1>10

LEMMA InterfereFollows ==
  ASSUME AllDecodable, Ample, Follows, NEW last \in {0, 1}, Interfere(last)
  PROVE  steps' \in Nat /\ Rest' /\ Following' /\ MessageIsDecoded'
  <1>1. due' = <<>> /\ device \in Devices /\ IInv /\ Rest /\ steps \in Nat
    BY DEF Interfere, Follows, IInv
  <1>2. PICK p \in Noise, g \in Noise :
          /\ Take(p, g, last)
          /\ IF last = 1 \/ g > device.reset THEN NewMessage(last)
             ELSE steps < MaxPulses /\ steps' = steps + 1 /\ clean' = 0 /\ sent' = <<>> /\ place' = 0
    BY DEF Interfere
  <1>3. p \in Int /\ g \in Int
    BY SlicerAssumption
  <1>4. CASE last = 1 \/ g > device.reset
    <2>1. NewMessage(last)
      BY <1>2, <1>4
    <2>2. Rest' /\ Following'
      BY <1>1, <1>2, <1>3, <1>4, <2>1, Ended
    <2>3. steps' = 0
      BY <2>1 DEF NewMessage
    <2> QED
      BY <1>1, <2>2, <2>3 DEF MessageIsDecoded
  <1>5. CASE ~(last = 1 \/ g > device.reset)
    <2>1. steps < MaxPulses /\ steps' = steps + 1 /\ clean' = 0 /\ last = 0 /\ Take(p, g, 0)
      BY <1>2, <1>5
    <2>2. Rest'
      BY <1>1, <1>3, <2>1, RestKept
    <2> QED
      BY <1>1, <2>1, <2>2 DEF MessageIsDecoded, Following
  <1> QED
    BY <1>4, <1>5

LEMMA FollowsFirst == ASSUME AllDecodable, Init PROVE Follows
  <1>1. /\ device \in Devices /\ s = Fresh(device) /\ place = First(device) /\ sent = Nothing(device)
        /\ due = <<>> /\ clean = 1 /\ steps = 0 /\ Decodable(device)
    BY DEF Init, AllDecodable
  <1>2. /\ Told(Fresh(device), Nothing(device)) /\ InStep(device, Fresh(device), First(device))
        /\ device.coding = "manchester" => HasRow(Fresh(device))
        /\ device.coding # "manchester" => Fresh(device).bits = Clear
    BY <1>1, FreshTold
  <1>3. SenderAt(device, First(device), Nothing(device))
    BY <1>1, Beginning
  <1>4. IInv
    BY Initially
  <1>5. Whole(Clear, 0)
    BY ClearWhole
  <1>6. Rest
    BY <1>1, <1>2, <1>5 DEF Rest
  <1>7. Following
    BY <1>1, <1>2, <1>3 DEF Following, Told
  <1> QED
    BY <1>1, <1>4, <1>6, <1>7 DEF Follows, MessageIsDecoded

LEMMA FollowsNext == ASSUME AllDecodable, Ample, Follows, [Next]_vars PROVE Follows'
  <1>1. IInv'
    BY Inductive DEF Follows
  <1>2. CASE Send
    BY <1>1, <1>2, SendFollows DEF Follows
  <1>3. CASE SendPause
    BY <1>1, <1>3, SendPauseFollows DEF Follows
  <1>4. CASE SendSync
    BY <1>1, <1>4, SendSyncFollows DEF Follows
  <1>5. ASSUME NEW last \in {0, 1}, Finish(last) PROVE Follows'
    BY <1>1, <1>5, FinishFollows DEF Follows
  <1>6. ASSUME NEW last \in {0, 1}, Interfere(last) PROVE Follows'
    BY <1>1, <1>6, InterfereFollows DEF Follows
  <1>7. CASE UNCHANGED vars
    <2>1. Rest' /\ Following' /\ MessageIsDecoded' /\ steps' \in Nat
      BY <1>7 DEF Follows, Rest, Following, MessageIsDecoded, HasRow, vars
    <2> QED
      BY <1>1, <2>1 DEF Follows
  <1> QED
    BY <1>2, <1>3, <1>4, <1>5, <1>6, <1>7 DEF Next

-----------------------------------------------------------------------------
(* Every message of the sender, of any length and any rows that the buffer
   holds, is handed to the decoder exactly once and exactly as it was sent,
   whatever the widths, the noise before it and the coding: no bits, rows or
   times stay from what was before (pulse_slicer.c:62).  The devices' widths
   must be apart, and a package short enough that it cannot fill the buffer. *)
THEOREM MessagesAreDecoded ==
  ASSUME \A d \in Devices : Decodable(d), MaxPulses <= (Rows - 1) * RowBits
  PROVE  Spec => []MessageIsDecoded
  <1>1. AllDecodable /\ Ample
    BY DEF AllDecodable, Ample
  <1>2. Init => Follows
    BY <1>1, FollowsFirst
  <1>3. Follows /\ [Next]_vars => Follows'
    BY <1>1, FollowsNext
  <1>4. Follows => MessageIsDecoded
    BY DEF Follows
  <1> QED
    BY <1>2, <1>3, <1>4, PTL DEF Spec

=============================================================================
