----------------------------- MODULE MCConnPool ------------------------------
(***************************************************************************)
(* Instances of ConnPool for TLC.                                          *)
(***************************************************************************)
EXTENDS ConnPool

\* A long timeout beside short ones.
MCTimeout == [s \in Listed |-> IF s = "answering" THEN 2 ELSE 1]

=============================================================================
