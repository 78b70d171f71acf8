------------------------------- MODULE MCRelay ------------------------------
(***************************************************************************)
(* Instances of Relay for TLC.                                             *)
(***************************************************************************)
EXTENDS Relay

MCMin == [n \in 0 .. 0 |-> 1]
MCMax == [n \in 0 .. 0 |-> 2]

Symmetry == Permutations(My) \cup Permutations(Client)
=============================================================================
