------------------------------- MODULE Reload --------------------------------
(***************************************************************************)
(* The list of servers changes while the relay runs: usr1_reload (work.c), *)
(* with my_slave_reg and my_unreg, on top of MyPool.  A server that leaves *)
(* the list is unregistered: its slot is closing, is cleaned up later, and *)
(* has role 0 then.  A server that joins it takes the first slot whose     *)
(* role is 0, which is initialised again.                                  *)
(*                                                                         *)
(* Here the nodes of MyPool are the slots of mypool->slave, registered for *)
(* one server after another; NumNode is MAX_SLAVE_NODE.  A page left on a  *)
(* list of a slot that is initialised again is on no list any more.  Its   *)
(* links still lead to the head of that list: what unlinking it does to    *)
(* the pages that are there by then is not modelled.                       *)
(***************************************************************************)
EXTENDS MyPool, Lists

CONSTANTS
  File,       \* contents the configuration file may have, see MyConf
  MaxSlave,   \* 64, servers a file may name
  MaxReload   \* bound: signals USR1

ASSUME ReloadAssumption == MaxReload \in Nat /\ MaxSlave \in Nat

VARIABLES
  file,       \* the file read last
  accepted,   \* the last one that was no error, history only
  cur,        \* myconf_cur, the servers in the order of the file
  todo,       \* servers still to be registered by the reload under way
  slave_num,  \* slots taken so far
  host,       \* host[n]: the server slot n was registered for, NULL if never
  missed,     \* servers whose registration has failed since they joined the list
  to,         \* to[m]: the server the socket of m is connected to
  reloads     \* signals so far (bounded by MaxReload)

confVars == <<file, accepted, cur, todo, slave_num, host, missed, reloads>>
reloadVars == <<vars, confVars, to>>

Conf == INSTANCE MyConf

\* No file names a server twice.
ASSUME FileAssumption ==
  /\ File \subseteq Conf!ConfFile /\ \A f \in File : Conf!NamesOnce(f)
  /\ \A f \in File : \A i \in DOMAIN f.lines : f.lines[i].host # NULL

Parsed(f) == Conf!mysql_conf_parse_res(f) = 0
NoFile == [exists |-> FALSE, newline |-> TRUE, lines |-> <<>>]

\* The pool and mysql_conf_parse of the file at boot.  A file that is refused is
\* logged, and the relay starts without a server; its servers are registered by
\* the same steps as those of a reload.
ReloadInit ==
  /\ my_pool_init /\ loop = NoLoop
  /\ file \in File
  /\ accepted = IF Parsed(file) THEN file ELSE NoFile
  /\ cur = Conf!mysql_conf_parse(file)
  /\ todo = cur
  /\ slave_num = 0
  /\ host = [n \in Node |-> NULL]
  /\ missed = {}
  /\ to = [m \in My |-> NULL]
  /\ reloads = 0

\* connect_nonblock(node->host, ...) when a socket is opened.
Peer == [m \in My |-> IF m \notin open' THEN NULL
                      ELSE IF m \in open THEN to[m]
                      ELSE host[node'[m]]]

-----------------------------------------------------------------------------
(* my_slave_reg.                                                           *)

FreeSlots == {n \in Node : role[n] = 0}
FirstFree(n) == n \in FreeSlots /\ \A o \in FreeSlots : n <= o

\* Variant with a bug: cur_connecting_cnt, which is never set, is reset with
\* the other counters.
NodeInitResets(n) == [cur_connecting_cnt EXCEPT ![n] = 0]

NodeInitConnecting(n) == cur_connecting_cnt

\* Variant with a bug: the slot keeps the mark of the server it had.
StillClosing(n) == closing

NoLongerClosing(n) == [closing EXCEPT ![n] = FALSE]

\* my_node_init: the lists, the flags and all counters but one.
my_node_init(n) ==
  /\ list' = [x \in Lists |-> IF x[1] = n THEN <<>> ELSE list[x]]
  /\ avail_count' = [avail_count EXCEPT ![n] = 0]
  /\ curall_connection' = [curall_connection EXCEPT ![n] = 0]
  /\ cur_connecting_cnt' = NodeInitConnecting(n)
  /\ closing' = NoLongerClosing(n)
  /\ UNCHANGED <<node, conn, cb, open, idle, indet, role, faults>>

Register(n) ==
  /\ loop = NoLoop /\ todo # <<>> /\ FirstFree(n)
  /\ my_node_init(n)
  /\ host' = [host EXCEPT ![n] = Head(todo)]
  /\ slave_num' = IF n = slave_num THEN slave_num + 1 ELSE slave_num
  /\ todo' = Tail(todo)
  /\ missed' = missed \ {Head(todo)}
  /\ loop' = [fn |-> "reg", node |-> n, cnt |-> 0]
  /\ UNCHANGED <<file, accepted, cur, to, reloads>>

\* No slot left: the server is not registered, and not tried again.
RegisterNoSlot ==
  /\ loop = NoLoop /\ todo # <<>> /\ FreeSlots = {}
  /\ todo' = Tail(todo)
  /\ missed' = missed \cup {Head(todo)}
  /\ UNCHANGED <<vars, file, accepted, cur, slave_num, host, to, reloads>>

\* One connection of _my_reg; none left; all of them started.
RegisterConnect(m) == RegConnect(m) /\ to' = Peer /\ UNCHANGED confVars
RegisterFail ==
  /\ RegFail
  /\ missed' = missed \cup {host[loop.node]}
  /\ UNCHANGED <<file, accepted, cur, todo, slave_num, host, reloads, to>>
Registered ==
  /\ loop.fn = "reg" /\ loop.cnt = MinConn[loop.node]
  /\ role' = [role EXCEPT ![loop.node] = 1]
  /\ loop' = NoLoop
  /\ UNCHANGED <<list, node, conn, cb, open, idle, avail_count, counters,
                 closing, faults, confVars, to>>

-----------------------------------------------------------------------------
(* usr1_reload.                                                            *)

Hosts(s) == ToSet(s)

\* Variant with a bug: the loop of my_unreg ends one slot early.
UnregisteredButLast(hs) ==
  [n \in Node |-> closing[n] \/ (host[n] \in hs /\ n < slave_num - 1)]

\* my_unreg for each of the servers: every slot of that name, cleaned or not.
Unregistered(hs) == [n \in Node |-> closing[n] \/ host[n] \in hs]

\* usr1_reload, up to the registrations.
Usr1Reload(f) ==
  LET new == Conf!mysql_conf_parse(f) IN
  /\ loop = NoLoop /\ todo = <<>> /\ reloads < MaxReload
  /\ reloads' = reloads + 1
  /\ file' = f
  /\ IF Parsed(f)
     THEN /\ closing' = Unregistered(Hosts(cur) \ Hosts(new))
          /\ todo' = Without(new, Hosts(cur))
          /\ cur' = new
          /\ accepted' = f
          /\ missed' = missed \cap Hosts(new)
     ELSE UNCHANGED <<closing, todo, cur, accepted, missed>>
  /\ UNCHANGED <<list, node, conn, cb, open, idle, avail_count, counters, role,
                 loop, faults, slave_num, host, to>>

\* The pool goes on between reloads; it looks at the slots below slave_num.
PoolStep ==
  /\ todo = <<>> /\ loop.fn # "reg"
  /\ Timers \/ Callbacks \/ Sessions \/ \E m \in My : Age(m)
  /\ \A m \in My : node'[m] \in {NULL} \cup 0 .. slave_num - 1
  /\ to' = Peer
  /\ UNCHANGED confVars

ReloadNext ==
  \/ \E n \in Node : Register(n)
  \/ \E m \in My : RegisterConnect(m)
  \/ RegisterNoSlot \/ RegisterFail \/ Registered
  \/ \E f \in File : Usr1Reload(f)
  \/ PoolStep

ReloadSpec == ReloadInit /\ [][ReloadNext]_reloadVars

-----------------------------------------------------------------------------
(* Properties.                                                             *)

\* The servers a file names, on lines that are not comments; a last line without
\* newline is not one (my_conf.c:104, 132).
Listed(f) ==
  {f.lines[i].host : i \in {j \in DOMAIN f.lines :
                              /\ ~Conf!IsComment(f.lines[j])
                              /\ f.newline \/ j # Len(f.lines)}}

\* Between reloads the relay serves the servers named by the last file it could
\* read, none if there was no such file, and no others, but for those it found
\* no slot or no page for (my_pool.c:383, 351) and does not try again: each has a
\* slot, and a slot that is not closing belongs to one of them, whatever slots
\* earlier lists left closing, cleaned or taken again, whatever files were refused
\* meanwhile, and whether the first one was.
Serves(n) == host[n] # NULL /\ ~closing[n]
Settled == todo = <<>> /\ loop.fn # "reg"
ListServed ==
  Settled => {host[n] : n \in {o \in Node : Serves(o) /\ role[o] = 1}}
               = Listed(accepted) \ missed

\* No two slots are for the same server, not even one whose registration failed
\* half way beside the one that is closing, or a client's connections would not
\* be the ones that are counted.
OneSlotEach ==
  Settled => \A n, o \in Node : Serves(n) /\ Serves(o)
               => host[n] \in Listed(accepted) /\ (host[n] = host[o] => n = o)

-----------------------------------------------------------------------------
(* What comments of the source say and the code does not keep.             *)

\* my_pool.h:44, 51: the available connections of a slot are connections to its
\* server.  A handshake that was under way when the slot was cleaned arrives
\* after the slot was taken again.
OfThisMachine ==
  \A m \in My, n \in Node : On(m, n, "avail") => to[m] = host[n]

\* conf/mysql.conf:1: the file the repository ships with is a list of servers,
\* role, address, port, user, password and number of connections: the servers a
\* file names are served once it has been read.
FileNames == {file.lines[i].host : i \in {j \in DOMAIN file.lines :
                                            ~Conf!IsComment(file.lines[j])}}
FileServed ==
  Settled => FileNames \subseteq {host[n] : n \in {o \in Node : Serves(o)}}
=============================================================================
