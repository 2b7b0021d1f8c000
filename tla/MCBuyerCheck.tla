---------------------------- MODULE MCBuyerCheck ----------------------------
(***************************************************************************)
(* Instances of BuyerCheck (and VerifyChain) for TLC.                      *)
(***************************************************************************)
EXTENDS BuyerCheck, TLC

HashSymmetry == Permutations(Hashes)
=============================================================================
