------------------------------- MODULE MCLocks ------------------------------
(* Locks for model checking.  Names, file ids and lock addresses are       *)
(* interchangeable.                                                        *)
EXTENDS Locks, TLC

Symmetry == Permutations(Names) \cup Permutations(FileIds) \cup Permutations(LockIds)
=============================================================================
