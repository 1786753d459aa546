-------------------------------- MODULE Squelch --------------------------------
(***************************************************************************)
(* The squelch of push_sdr_flow (src/r_flow.c): the input is judged in     *)
(* pieces of 8 ms, silent pieces are skipped, and a look-behind of one     *)
(* piece keeps a burst that straddles a boundary in one part: the piece    *)
(* after an active one is always processed (the tail), and the one before  *)
(* it is replayed if it was skipped (the head).                            *)
(*                                                                         *)
(* A piece is its place in the input; of its samples only matters whether  *)
(* they are louder than the noise.  A flush (a hop, a change of settings)  *)
(* or a reset (a restart of the input) starts a new segment: what comes    *)
(* after it is not adjacent to what came before.                           *)
(***************************************************************************)
EXTENDS Naturals, Sequences

CONSTANTS
  MaxPieces,   \* bound: pieces pushed
  MaxSegments  \* bound: flushes and resets

ASSUME SquelchAssumption == MaxPieces \in Nat /\ MaxSegments \in Nat

VARIABLES
  prev,       \* squelch_prev_iq: the piece whose samples it holds
  prevLen,    \* squelch_prev_len # 0
  prevActive, \* squelch_prev_active
  prevDone,   \* squelch_prev_done
  active,     \* history: for each piece, 1 if it was louder than the noise
  segment,    \* history: for each piece, the segment it was pushed in
  current,    \* history: the present segment
  done        \* history: the pieces processed (demodulated), in order

squelch == <<prev, prevLen, prevActive, prevDone, active, segment, current, done>>

SquelchTypeOK ==
  /\ prev \in Nat /\ prevLen \in {0, 1} /\ prevActive \in {0, 1} /\ prevDone \in {0, 1}
  /\ active \in Seq({0, 1}) /\ segment \in Seq(Nat) /\ Len(segment) = Len(active)
  /\ current \in Nat /\ done \in Seq(1 .. Len(active))

SquelchInit ==
  /\ prev = 0 /\ prevLen = 0 /\ prevActive = 0 /\ prevDone = 0
  /\ active = <<>> /\ segment = <<>> /\ current = 0 /\ done = <<>>

(* The piece before is replayed: this one is active and it was skipped. *)
ReplayAlways(a) == a = 1 /\ prevLen = 1                 \* a mutant
Replay(a) == a = 1 /\ prevLen = 1 /\ prevDone = 0

(* This piece is processed: active itself, or the tail of an active one. *)
Process(a) == a = 1 \/ prevActive = 1

With(s, i, taken) == IF taken THEN Append(s, i) ELSE s

(* A piece of samples, a = 1 if it is louder than the noise.  Samples are
   copied to the look-behind only if they were skipped. *)
Push(a) ==
  LET i == Len(active) + 1
  IN /\ i <= MaxPieces
     /\ done' = With(With(done, prev, Replay(a)), i, Process(a))
     /\ prev' = IF Process(a) THEN prev ELSE i
     /\ prevLen' = 1 /\ prevActive' = a
     /\ prevDone' = IF Process(a) THEN 1 ELSE 0
     /\ active' = Append(active, a) /\ segment' = Append(segment, current)
     /\ UNCHANGED current

NewSegment ==
  /\ current < MaxSegments /\ current' = current + 1
  /\ UNCHANGED <<prev, active, segment, done>>

(* A flush that keeps the look-behind (a mutant). *)
FlushKeeps == NewSegment /\ UNCHANGED <<prevLen, prevActive, prevDone>>

(* flush_sdr_flow(), reset_sdr_flow(): no look-behind into the last segment. *)
Flush ==
  /\ NewSegment
  /\ prevLen' = 0 /\ prevActive' = 0 /\ prevDone' = 0

SquelchNext == (\E a \in {0, 1} : Push(a)) \/ Flush

SquelchSpec == SquelchInit /\ [][SquelchNext]_squelch

-----------------------------------------------------------------------------
(* Properties. *)

(* A piece that a burst may reach into: it, the one before or the one after
   it, in the same segment, is active. *)
Adjacent(i, j) == i + 1 = j /\ segment[i] = segment[j]
Wanted(i) ==
  \/ active[i] = 1
  \/ \E j \in DOMAIN active : active[j] = 1 /\ (Adjacent(i, j) \/ Adjacent(j, i))

(* Exactly the wanted pieces are processed: no burst loses its head or tail
   at a boundary, no silence is demodulated, and nothing is replayed or
   forced across a flush. *)
ExactlyWanted ==
  \A i \in DOMAIN active : (\E k \in DOMAIN done : done[k] = i) <=> Wanted(i)

(* Pieces reach the pulse detector in the order they were captured, and none
   of them twice, replays included: its state spans pieces. *)
InOrder == \A k, l \in DOMAIN done : k < l => done[k] < done[l]

(* What the look-behind knows of the last piece.  With it the two properties
   above are inductive. *)
LookBehind ==
  /\ \A i \in DOMAIN segment : segment[i] <= current
  /\ prevLen = 0 =>
       /\ prevActive = 0 /\ prevDone = 0
       /\ \A i \in DOMAIN segment : segment[i] < current
  /\ prevLen = 1 =>
       /\ Len(active) > 0
       /\ segment[Len(active)] = current /\ prevActive = active[Len(active)]
       /\ prevDone = 1 <=> \E k \in DOMAIN done : done[k] = Len(active)
       /\ prevDone = 0 => prev = Len(active)
=============================================================================
