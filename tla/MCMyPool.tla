------------------------------ MODULE MCMyPool ------------------------------
(***************************************************************************)
(* Instances of MyPool for TLC.                                            *)
(***************************************************************************)
EXTENDS MyPool

MCMin == [n \in 0 .. 1 |-> 1]
MCMax == [n \in 0 .. 1 |-> 2]
MCMin2 == [n \in 0 .. 1 |-> 2]
MCMinOne == [n \in 0 .. 0 |-> 1]
MCMaxOne == [n \in 0 .. 0 |-> 3]
MCMaxTwo == [n \in 0 .. 0 |-> 2]

Symmetry == Permutations(My) \cup Permutations(Client)
=============================================================================
