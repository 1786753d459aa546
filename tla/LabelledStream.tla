---------------------------- MODULE LabelledStream ----------------------------
(***************************************************************************)
(* What the acquire side promises the decoders, whatever threads, driver   *)
(* buffers and generations it takes: a stream of blocks, each labelled     *)
(* with the settings current when it is handed over, and holding nothing   *)
(* captured before those settings were asked for.  Settings only move on   *)
(* to later requests, so no label ever follows a newer one.                *)
(*                                                                         *)
(* The promise is per setting: one that was set while the input started,   *)
(* or by two calls at once, is out of it until it is set again.            *)
(***************************************************************************)
EXTENDS Naturals, Sequences

Knobs  == {"freq", "rate"}
Tuning == [Knobs -> Nat]

VARIABLES
  current,  \* the settings a block handed over now is labelled with
  sure,     \* the settings the promise is given for
  out       \* the last block handed over

Init ==
  /\ current = [k \in Knobs |-> 0] /\ sure = Knobs
  /\ out = [label |-> current, samples |-> <<>>, sure |-> sure]

(* A change of one setting, or of all of them (the input is reopened).  Only
   a new request for a setting restores the promise for it. *)
Change ==
  /\ current' \in Tuning /\ sure' \in SUBSET Knobs
  /\ \A k \in sure' : current'[k] >= current[k]
  /\ \A k \in sure' \ sure : current'[k] > current[k]
  /\ UNCHANGED out

HandOver ==
  /\ out' = [label |-> current, samples |-> out'.samples, sure |-> sure]
  /\ out'.samples \in Seq(Tuning) \ {<<>>}
  /\ \A i \in DOMAIN out'.samples : \A k \in sure :
       out'.samples[i][k] >= current[k]
  /\ UNCHANGED <<current, sure>>

Next == Change \/ HandOver

Spec == Init /\ [][Next]_<<current, sure, out>>
=============================================================================
