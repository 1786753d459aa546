---------------------------- MODULE SquelchedDetect ----------------------------
(***************************************************************************)
(* push_sdr_flow with the squelch on (src/idf/rtl433_core/src/r_flow.c):   *)
(* the pulse detector sees only the pieces that Squelch processes, one     *)
(* after the other, as if they were adjacent.                              *)
(***************************************************************************)
EXTENDS PulseDetect, Squelch

CONSTANT Piece \* samples in a piece (8 ms)

(* A piece is a block of the detector. *)
ASSUME FlowAssumption == Piece \in 1 .. MaxBlock

VARIABLES
  wave, \* for each piece, its samples
  fed   \* how many of the processed pieces the detector was given

Waves == [0 .. Piece - 1 -> {"high", "low"}]
(* A piece is loud if its average is: all of it, or some of it. *)
Loudness(w) == {a \in {0, 1} : /\ a = 1 => \E k \in DOMAIN w : w[k] = "high"
                               /\ a = 0 => \E k \in DOMAIN w : w[k] = "low"}

InitFlow == Init /\ fpdm = "classic" /\ SquelchInit /\ wave = <<>> /\ fed = 0

(* A piece arrives when the ones before it are done with. *)
Arrive ==
  /\ left = 0 /\ fed = Len(done)
  /\ \E w \in Waves : wave' = Append(wave, w) /\ \E a \in Loudness(w) : Push(a)
  /\ last' = None /\ UNCHANGED <<fpdm, detector, eop, left, reread, pos, cut, fed>>

PieceStarts == fed < Len(done) /\ BlockOf(Piece) /\ fed' = fed + 1 /\ UNCHANGED <<wave, squelch>>

PieceSample == SampleOf(wave[done[fed]][Piece - left], "none") /\ UNCHANGED <<wave, fed, squelch>>

(* A flush finds the detector idle. *)
FlushIdle ==
  /\ left = 0 /\ ook = "IDLE"
  /\ last' = None /\ UNCHANGED <<fpdm, detector, eop, left, reread, pos, cut>>

(* Only the look-behind is reset (a mutant). *)
FlushLookBehind ==
  /\ fed = Len(done) /\ left = 0
  /\ last' = None /\ UNCHANGED <<fpdm, detector, eop, left, reread, pos, cut>>
  /\ Flush /\ UNCHANGED <<wave, fed>>

(* flush_sdr_flow: the detector's package, and the look-behind. *)
FlushFlow ==
  /\ fed = Len(done) /\ (FlushIdle \/ FlushDrops \/ FlushReturns)
  /\ Flush /\ UNCHANGED <<wave, fed>>

(* reset_sdr_flow, when the input restarts. *)
ResetFlow == fed = Len(done) /\ Reset /\ Flush /\ UNCHANGED <<wave, fed>>

NextFlow == Arrive \/ PieceStarts \/ PieceSample \/ FlushFlow \/ ResetFlow

FlowSpec == InitFlow /\ [][NextFlow]_<<vars, wave, fed, squelch>> /\ WF_vars(PieceSample)

(* The piece the n-th sample given to the detector is of. *)
InPiece(n) == done[(n \div Piece) + 1]

(* A package never joins pulses from both sides of a flush or a reset (two
   bands, or the input before and after a restart), whatever was skipped,
   replayed or still under way then. *)
PackageOfOneSegment ==
  last.type # "none" =>
    \A m, n \in last.ook.offset .. last.end - 1 : segment[InPiece(m)] = segment[InPiece(n)]
=============================================================================
