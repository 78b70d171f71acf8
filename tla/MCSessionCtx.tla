---------------------------- MODULE MCSessionCtx -----------------------------
(***************************************************************************)
(* Instances of SessionCtx for TLC.                                        *)
(***************************************************************************)
EXTENDS SessionCtx, TLC

Symmetry == Permutations(My) \cup Permutations(Client)
            \cup Permutations(Db) \cup Permutations(Charset)
=============================================================================
