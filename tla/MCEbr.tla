-------------------------------- MODULE MCEbr -------------------------------
(* Instances of Ebr for TLC; threads of one role are interchangeable. *)
EXTENDS Ebr, TLC

Symmetry == Permutations(Readers)
=============================================================================
