---------------------------- MODULE MCExperiments ----------------------------
(***************************************************************************)
(* Three examples twice each; runs come for the one in the middle, with    *)
(* both its repetition numbers and one that is too high.                   *)
(***************************************************************************)
EXTENDS Experiments, TLC

MCKeys == {<<2, 1>>, <<2, 2>>, <<2, 3>>}

Symmetry == Permutations(Clients)
=============================================================================
