----------------------------- MODULE MCTuneLabels -----------------------------
(* The label protocol with its setters as model values. *)
EXTENDS TuneLabels
CONSTANTS main, control
=============================================================================
