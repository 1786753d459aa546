------------------------------- MODULE MCBandHop -------------------------------
(* Band hopping with a rate of its own for each of two bands, or one of the
   rates for the last two of three. *)
EXTENDS BandHop
TwoRates == <<250, 1024>>
=============================================================================
