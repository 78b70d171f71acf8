----------------------------- MODULE MCGenPool ------------------------------
(***************************************************************************)
(* Instances of GenPool for TLC.                                           *)
(***************************************************************************)
EXTENDS GenPool, TLC

Symmetry == Permutations(Chunk)
=============================================================================
