------------------------------- MODULE BitBuffer -------------------------------
(***************************************************************************)
(* The two-dimensional bit buffer of src/idf/rtl433_core/src/bitbuffer.c:  *)
(* rows of bits in one array; a long row runs on into the space of the     *)
(* rows after it.  Bits are kept one by one, the grouping into bytes is    *)
(* left out.                                                               *)
(*                                                                         *)
(* The limit of UINT16_MAX bits in a row is never reached: Rows * RowBits  *)
(* is less.                                                                *)
(***************************************************************************)
EXTENDS Naturals, Sequences

CONSTANTS
  Rows,    \* BITBUF_ROWS
  RowBits  \* BITBUF_COLS * 8

ASSUME BufferAssumption == {Rows, RowBits} \subseteq Nat \ {0}

Row == 0 .. Rows - 1
Bit == {0, 1}
Memory == 0 .. Rows * RowBits - 1

BitBuffers == [num : 0 .. Rows, free : 0 .. Rows, len : [Row -> 0 .. Rows * RowBits],
               syncs : [Row -> Nat], bb : [Memory -> Bit]]

(* bitbuffer_clear() *)
Clear == [num |-> 0, free |-> 0, len |-> [r \in Row |-> 0], syncs |-> [r \in Row |-> 0],
          bb |-> [k \in Memory |-> 0]]

BitsOf(b, r) == [i \in 1 .. b.len[r] |-> b.bb[r * RowBits + i - 1]]
Contents(b) == [r \in 1 .. b.num |-> BitsOf(b, r - 1)]

-----------------------------------------------------------------------------
(* Adding bits, rows and syncs.  The first row is added automatically. *)

Started(b) == IF b.num = 0 THEN [b EXCEPT !.num = 1, !.free = 1] ELSE b

(* A full row runs on into the next free one, if there is one.  The bit is
   or-ed to what is there. *)
SpillUncounted(b, bit) ==                                     \* a mutant
  LET s == Started(b)
      r == s.num - 1
      n == s.len[r]
  IN IF r * RowBits + n \notin Memory THEN s
     ELSE [s EXCEPT !.len[r] = n + 1, !.bb[r * RowBits + n] = IF bit = 1 THEN 1 ELSE @]
AddBit(b, bit) ==
  LET s == Started(b)
      r == s.num - 1
      n == s.len[r]
      spill == n > 0 /\ n % RowBits = 0
  IN IF spill /\ s.free = Rows THEN s
     ELSE [s EXCEPT !.free = IF spill THEN @ + 1 ELSE @, !.len[r] = n + 1,
                    !.bb[r * RowBits + n] = IF bit = 1 THEN 1 ELSE @]

AddRun(b, bit, n) ==
  LET f[k \in 0 .. n] == IF k = 0 THEN b ELSE AddBit(f[k - 1], bit) IN IF n > 0 THEN f[n] ELSE b

(* Without a free row the last one begins again; its bits stay in memory. *)
AddRow(b) ==
  LET s == Started(b)
  IN IF s.free < Rows THEN [s EXCEPT !.free = @ + 1, !.num = s.free + 1]
     ELSE [s EXCEPT !.len[s.num - 1] = 0]

AddSync(b) ==
  LET s == Started(b)
      t == IF s.len[s.num - 1] > 0 THEN AddRow(s) ELSE s
  IN [t EXCEPT !.syncs[t.num - 1] = @ + 1]

-----------------------------------------------------------------------------
(* What decoders do with a row s; places in it are counted from 0.  Past its
   end a row reads as 0. *)

At(s, i) == IF i < Len(s) THEN s[i + 1] ELSE 0
Before(s, i) == IF i = 1 THEN 0 ELSE s[i - 1]

Invert(s) == [i \in DOMAIN s |-> 1 - s[i]]
NrzsFromOne(s) ==                                             \* a mutant
  [i \in DOMAIN s |-> IF i > 1 /\ s[i] = Before(s, i) THEN 1 ELSE 0]
NrzsDecode(s) == [i \in DOMAIN s |-> IF s[i] = Before(s, i) THEN 1 ELSE 0]
NrzmDecode(s) == [i \in DOMAIN s |-> IF s[i] = Before(s, i) THEN 0 ELSE 1]

(* bitbuffer_search(): the first match of a pattern, or the end of the row.
   The cursors ipos and ppos are q + p and p. *)
SearchSkips(s, start, pattern) ==                             \* a mutant
  LET n == Len(pattern)
      try[x \in (start .. Len(s)) \X (0 .. n)] ==
        LET q == x[1]
            p == x[2]
        IN CASE q + p >= Len(s) \/ p = n -> Len(s)
             [] q + p < Len(s) /\ p < n /\ At(s, q + p) = pattern[p + 1]
                  -> IF p + 1 = n THEN q ELSE try[<<q, p + 1>>]
             [] OTHER -> try[<<q + p + 1, 0>>]
  IN IF start >= Len(s) THEN Len(s) ELSE try[<<start, 0>>]
Search(s, start, pattern) ==
  LET n == Len(pattern)
      try[x \in (start .. Len(s)) \X (0 .. n)] ==
        LET q == x[1]
            p == x[2]
        IN CASE q + p >= Len(s) \/ p = n -> Len(s)
             [] q + p < Len(s) /\ p < n /\ At(s, q + p) = pattern[p + 1]
                  -> IF p + 1 = n THEN q ELSE try[<<q, p + 1>>]
             [] OTHER -> try[<<q + 1, 0>>]
  IN IF start >= Len(s) THEN Len(s) ELSE try[<<start, 0>>]

Limit(s, start, max) == IF max > 0 /\ Len(s) > start + 2 * max THEN start + 2 * max ELSE Len(s)

(* bitbuffer_manchester_decode(): the bits, and the place where it ended. *)
ManchesterDecode(s, start, max) ==
  LET f[i \in start .. Len(s) + 1] ==
        CASE i >= Limit(s, start, max) -> [pos |-> i, out |-> <<>>]
          [] i < Limit(s, start, max) /\ At(s, i) = At(s, i + 1) -> [pos |-> i + 2, out |-> <<>>]
          [] OTHER -> [f[i + 2] EXCEPT !.out = <<At(s, i + 1)>> \o @]
  IN f[start]

(* bitbuffer_differential_manchester_decode(): zeros are only zeros once it
   is clear where a clock cycle begins. *)
DifferentialDecode(s, start, max) ==
  LET end == Limit(s, start, max)
      cycles[i \in start .. Len(s) + 1] == [b2 \in Bit |->
        CASE i >= end -> [pos |-> i, out |-> <<>>]
          [] i < end /\ At(s, i) = b2 -> [pos |-> i + 1, out |-> <<>>]        \* no clock edge
          [] OTHER -> [cycles[i + 2][At(s, i + 1)] EXCEPT
                         !.out = <<IF At(s, i) = At(s, i + 1) THEN 1 ELSE 0>> \o @]]
      sync[i \in start .. Len(s) + 1] ==
        CASE i >= end -> [pos |-> i, out |-> <<>>]
          [] i < end /\ At(s, i) = At(s, i + 1) -> cycles[i][1 - At(s, i)]
          [] i < end /\ At(s, i) # At(s, i + 1) /\ At(s, i + 1) = At(s, i + 2) -> cycles[i + 1][At(s, i)]
          [] OTHER -> [sync[i + 2] EXCEPT !.out = <<0>> \o @]
  IN sync[start]
=============================================================================
