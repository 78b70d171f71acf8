------------------------------- MODULE MyConf --------------------------------
(***************************************************************************)
(* The list of servers the relay is configured with: what mysql_conf_parse *)
(* (my_conf.c) makes of a file.  A line is a record: its first word, the   *)
(* number of words sscanf converts, and the server it names.               *)
(***************************************************************************)
EXTENDS Integers, Lists

CONSTANT MaxSlave  \* 64, the length of my_conf_t.slave

Line == [type : STRING, words : Nat, host : STRING]
ConfFile == [exists : BOOLEAN, newline : BOOLEAN, lines : Seq(Line)]

Comment == [type |-> "#", words |-> 0, host |-> "none"]
Slave(h) == [type |-> "slave", words |-> 7, host |-> h]

TooMany(s) == Len(s) > MaxSlave

\* fgets meets the end of the file in a last line without newline, and the loop
\* ends (my_conf.c:104, 132) before that line is looked at.
LinesRead(file) == IF file.newline THEN file.lines
                   ELSE SubSeq(file.lines, 1, Len(file.lines) - 1)

\* Comments and blank lines.
IsComment(l) == l.type = "#"
IsSlave(l) == l.type = "slave" /\ l.words = 7
SlaveLines(file) ==
  Picked(LinesRead(file), {i \in DOMAIN LinesRead(file) : IsSlave(LinesRead(file)[i])})
Slaves(file) == [i \in DOMAIN SlaveLines(file) |-> SlaveLines(file)[i].host]

\* No server is on two lines.
NamesOnce(file) ==
  \A i, j \in DOMAIN file.lines :
    /\ IsSlave(file.lines[i]) /\ IsSlave(file.lines[j])
    /\ file.lines[i].host = file.lines[j].host
    => i = j

\* -1: no such file, a line that is no server, or too many of them.
mysql_conf_parse_res(file) ==
  IF \/ ~file.exists
     \/ \E i \in DOMAIN LinesRead(file) :
          ~IsComment(LinesRead(file)[i]) /\ ~IsSlave(LinesRead(file)[i])
     \/ TooMany(Slaves(file))
  THEN -1 ELSE 0

\* scount is set last: a file that fails leaves no servers.
mysql_conf_parse(file) ==
  IF mysql_conf_parse_res(file) < 0 THEN <<>> ELSE Slaves(file)
=============================================================================
