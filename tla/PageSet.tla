------------------------------ MODULE PageSet --------------------------------
(***************************************************************************)
(* What a memory pool promises to those who use it, without chunks, lists  *)
(* or counters: a page belongs to one holder from the time it is handed    *)
(* out to the time it is given back, and there are Capacity pages.         *)
(***************************************************************************)
EXTENDS Naturals, FiniteSets

CONSTANTS Mem, Capacity

VARIABLE holders  \* holders[x]: how many hold page x

Held == {x \in Mem : holders[x] > 0}

HeldInit == holders = [x \in Mem |-> 0]
HandOut(x) == /\ holders[x] = 0 /\ Cardinality(Held) < Capacity
              /\ holders' = [holders EXCEPT ![x] = 1]
GiveBack(x) == holders[x] = 1 /\ holders' = [holders EXCEPT ![x] = 0]
\* The pool is destroyed with whatever was handed out.
Discard == holders' = [x \in Mem |-> 0]

PageSetSpec ==
  HeldInit /\ [][Discard \/ \E x \in Mem : HandOut(x) \/ GiveBack(x)]_holders
=============================================================================
