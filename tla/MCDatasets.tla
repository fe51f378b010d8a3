----------------------------- MODULE MCDatasets -----------------------------
(***************************************************************************)
(* Two datasets, one split and one experiment; one request's session and   *)
(* the bulk inserter's, which take turns or interleave.                    *)
(***************************************************************************)
EXTENDS Datasets, TLC

MCUploads == [name: Names, create: BOOLEAN, split: Splits]

Symmetry == Permutations(Names)
=============================================================================
