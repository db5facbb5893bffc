----------------------------- MODULE MCReadBuf ------------------------------
(* ReadBuf for model checking: see MCReadBuf.cfg.                        *)
EXTENDS ReadBuf, TLC
Symmetric == Permutations(Handles)
=============================================================================
