--------------------------- MODULE MCPublishedRun ---------------------------
(***************************************************************************)
(* An instance of PublishedRun for TLC.                                    *)
(***************************************************************************)
EXTENDS PublishedRun, TLC

HashSymmetry == Permutations(Hashes)
=============================================================================
