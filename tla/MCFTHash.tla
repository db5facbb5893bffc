------------------------------ MODULE MCFTHash ------------------------------
(* FTHash for model checking, see MCFTHash.cfg.  Keys and values are       *)
(* interchangeable.                                                        *)
EXTENDS FTHash, TLC

Symmetry == Permutations(Keys) \cup Permutations(Vals)
=============================================================================
