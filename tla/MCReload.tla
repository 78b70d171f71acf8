------------------------------ MODULE MCReload -------------------------------
(***************************************************************************)
(* Instances of Reload for TLC.                                            *)
(***************************************************************************)
EXTENDS Reload

C == INSTANCE MyConf

Text(s) == [exists |-> TRUE, newline |-> TRUE, lines |-> s]
Missing == [exists |-> FALSE, newline |-> TRUE, lines |-> <<>>]
Wrong == Text(<<[type |-> "slave", words |-> 5, host |-> "a"]>>)

\* Each of two servers and none of them, two servers of which the second is on a
\* line without newline that is not read, and files that are refused: one with a
\* line that is no server, and none.
MCFile == {Text(<<C!Comment, C!Slave("a")>>), Text(<<C!Slave("b")>>), Text(<<>>),
           Text(<<C!Slave("a"), C!Slave("b")>>),
           [Text(<<C!Slave("c"), C!Slave("a")>>) EXCEPT !.newline = FALSE],
           Wrong, Missing}

\* conf/mysql.conf as it is in the repository: a master, and six words a line.
Shipped == Text(<<C!Comment, [type |-> "master", words |-> 6, host |-> "a"],
                  [type |-> "slave", words |-> 6, host |-> "b"]>>)
MCFileShipped == {Text(<<C!Slave("a")>>), Shipped}

MCMin == [n \in 0 .. NumNode - 1 |-> IF n = 0 THEN 2 ELSE 1]
MCMax == MCMin

Symmetry == Permutations(My) \cup Permutations(Client)
=============================================================================
