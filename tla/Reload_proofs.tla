---------------------------- MODULE Reload_proofs ----------------------------
(***************************************************************************)
(* Theorems about the list of servers that changes while the relay runs,   *)
(* for any number of slots and servers, any files and any reloads.         *)
(***************************************************************************)
EXTENDS Reload, MyPool_proofs

-----------------------------------------------------------------------------
(* What the configuration file gives.                                      *)

\* The servers of a file are names, each there once.
LEMMA ParseFacts ==
  ASSUME NEW f \in File
  PROVE  LET s == Conf!mysql_conf_parse(f) IN
         /\ s \in Seq(STRING) /\ IsInjective(s) /\ NULL \notin ToSet(s)
         /\ Parsed(f) => ToSet(s) = Listed(f)
         /\ ~Parsed(f) => s = <<>>
<1> DEFINE read == Conf!LinesRead(f)
           K == {i \in DOMAIN read : Conf!IsSlave(read[i])}
           p == Conf!SlaveLines(f)
           s == Conf!Slaves(f)
<1>1. /\ f.lines \in Seq(Conf!Line) /\ Conf!NamesOnce(f)
      /\ \A i \in DOMAIN f.lines : f.lines[i].host # NULL
  BY FileAssumption DEF Conf!ConfFile
<1>2. /\ read \in Seq(Conf!Line)
      /\ \A i \in DOMAIN read : i \in DOMAIN f.lines /\ read[i] = f.lines[i]
      /\ \A i : i \in DOMAIN read <=> i \in DOMAIN f.lines /\ (f.newline \/ i # Len(f.lines))
  <2>1. Len(f.lines) \in Nat /\ DOMAIN f.lines = 1 .. Len(f.lines)
    BY <1>1, LenProperties
  <2>2. CASE f.newline
    BY <1>1, <2>2 DEF Conf!LinesRead
  <2>3. CASE ~f.newline
    <3> DEFINE l == f.lines
               r == SubSeq(l, 1, Len(l) - 1)
    <3>1. read = r
      BY <2>3 DEF Conf!LinesRead
    <3> HIDE DEF l, read
    <3>2. /\ r \in Seq(Conf!Line) /\ Len(r) = IF Len(l) = 0 THEN 0 ELSE Len(l) - 1
          /\ \A i \in 1 .. Len(r) : r[i] = l[i]
      BY <1>1, <2>1 DEF l
    <3>3. DOMAIN r = 1 .. Len(r)
      BY <3>2, LenProperties
    <3>4. \A i : i \in 1 .. Len(r) <=> i \in 1 .. Len(l) /\ i # Len(l)
      <4>1. \A i \in Int : i \in 1 .. Len(r) <=> i \in 1 .. Len(l) /\ i # Len(l)
        BY <2>1, <3>2 DEF l
      <4> QED BY <4>1
    <3>5. read \in Seq(Conf!Line) /\ \A i \in DOMAIN read : read[i] = f.lines[i]
      BY <3>1, <3>2, <3>3 DEF l
    <3> HIDE DEF r
    <3>6. \A i : i \in DOMAIN read <=> i \in DOMAIN f.lines /\ i # Len(f.lines)
      BY <2>1, <3>1, <3>3, <3>4 DEF l
    <3> QED BY <2>3, <3>5, <3>6
  <2> QED BY <2>2, <2>3
<1> HIDE DEF read
<1>3. p = Conf!Picked(read, K)
  BY DEF Conf!SlaveLines, read
<1>4. PICK place : p \in Seq(Conf!Line) /\ Conf!Places(place, p, read, K)
  BY <1>2, <1>3, Conf!PickedFacts
<1> HIDE DEF p
<1>5. ASSUME NEW i \in DOMAIN p
      PROVE  /\ p[i].host \in STRING /\ p[i].host # NULL
             /\ \A j \in DOMAIN p : p[i].host = p[j].host => i = j
  <2>1. p[i] \in Conf!Line
    BY <1>4, LenProperties, ElementOfSeq
  <2>2. \A j \in DOMAIN p : place[j] \in K /\ p[j] = read[place[j]]
    BY <1>4 DEF Conf!Places
  <2>3. \A j \in DOMAIN p : /\ place[j] \in DOMAIN f.lines /\ p[j] = f.lines[place[j]]
                            /\ Conf!IsSlave(f.lines[place[j]])
    BY <1>2, <2>2
  <2>4. ASSUME NEW j \in DOMAIN p, p[i].host = p[j].host
        PROVE  i = j
    <3>1. place[i] = place[j]
      BY <1>1, <2>3, <2>4 DEF Conf!NamesOnce
    <3>2. place[i] \in Nat /\ i \in Nat /\ j \in Nat
      BY <1>2, <1>4, <2>2, LenProperties
    <3>3. ~(i < j) /\ ~(j < i)
      BY <1>4, <3>1, <3>2 DEF Conf!Places
    <3> QED BY <3>2, <3>3
  <2> QED BY <1>1, <2>1, <2>3, <2>4 DEF Conf!Line
<1>6. s \in Seq(STRING) /\ DOMAIN s = DOMAIN p /\ \A i \in DOMAIN p : s[i] = p[i].host
  <2>1. s = [i \in DOMAIN p |-> p[i].host]
    BY DEF Conf!Slaves, p
  <2>2. Len(p) \in Nat /\ DOMAIN p = 1 .. Len(p)
    BY <1>4, LenProperties
  <2> HIDE DEF s
  <2> QED BY <1>5, <2>1, <2>2
<1>7. s \in Seq(STRING) /\ IsInjective(s) /\ NULL \notin ToSet(s)
  BY <1>5, <1>6 DEF IsInjective, ToSet
<1>9. ASSUME Parsed(f) PROVE ToSet(s) = Listed(f)
  <2>1. \A i \in DOMAIN read : Conf!IsComment(read[i]) \/ i \in K
    BY <1>9 DEF Parsed, Conf!mysql_conf_parse_res, read
  <2>2. \A i \in K : ~Conf!IsComment(read[i])
    BY DEF Conf!IsSlave, Conf!IsComment
  <2>3. Listed(f) = {f.lines[i].host : i \in K}
    BY <1>2, <2>1, <2>2 DEF Listed
  <2>4. \A j \in DOMAIN p : place[j] \in K /\ s[j] = f.lines[place[j]].host
    BY <1>2, <1>4, <1>6 DEF Conf!Places
  <2>5. \A i \in K : \E j \in DOMAIN p : place[j] = i
    BY <1>4 DEF Conf!Places
  <2> HIDE DEF K, s
  <2> QED BY <1>6, <2>3, <2>4, <2>5 DEF ToSet
<1>8. <<>> \in Seq(STRING) /\ IsInjective(<<>>) /\ NULL \notin ToSet(<<>>)
  BY DEF IsInjective, ToSet
<1>10. Conf!mysql_conf_parse(f) = IF Parsed(f) THEN s ELSE <<>>
  BY DEF Conf!mysql_conf_parse, Conf!mysql_conf_parse_res, Parsed
<1> HIDE DEF s
<1> QED BY <1>7, <1>8, <1>9, <1>10

-----------------------------------------------------------------------------
(* The invariant.                                                          *)

ConfTypes ==
  /\ loop \in [fn : LoopName, node : Node, cnt : Nat]
  /\ closing \in [Node -> BOOLEAN] /\ role \in [Node -> {0, 1}]
  /\ host \in [Node -> STRING \cup {NULL}]
  /\ cur \in Seq(STRING) /\ NULL \notin Hosts(cur) /\ missed \subseteq Hosts(cur)
  /\ todo \in Seq(STRING) /\ IsInjective(todo)
  /\ Hosts(todo) \subseteq Hosts(cur) \ missed
  /\ Hosts(cur) = Listed(accepted)

Registering(n) == loop.fn = "reg" /\ loop.node = n

\* Who serves is on the list and no longer waits to be registered.
ServesNamed ==
  \A n \in Node : Serves(n) => host[n] \in Hosts(cur) \ Hosts(todo)

ServesOnce ==
  \A n, o \in Node : Serves(n) /\ Serves(o) /\ host[n] = host[o] => n = o

\* A slot has its role once its registration is over, unless that has failed.
RoleExact ==
  \A n \in Node : Serves(n) =>
    /\ role[n] = 1 <=> ~Registering(n) /\ host[n] \notin missed
    /\ Registering(n) => host[n] \notin missed
RegServes == loop.fn = "reg" => Serves(loop.node)

\* Who is on the list, does not wait and was not missed has a slot.
AllServed ==
  \A h \in Hosts(cur) : h \notin missed \cup Hosts(todo) =>
    \E n \in Node : Serves(n) /\ host[n] = h

SlotInv == ServesNamed /\ ServesOnce /\ RoleExact /\ RegServes /\ AllServed
ReloadInv == ConfTypes /\ SlotInv

-----------------------------------------------------------------------------
(* Every step keeps the invariant.                                         *)

LEMMA ConfInitEstablishes ==
  ASSUME ReloadInit
  PROVE  ReloadInv
<1>1. /\ cur \in Seq(STRING) /\ IsInjective(cur) /\ NULL \notin ToSet(cur)
      /\ Hosts(cur) = Listed(accepted)
  <2>1. CASE Parsed(file)
    BY <2>1, ParseFacts DEF ReloadInit, Hosts
  <2>2. CASE ~Parsed(file)
    <3>1. cur = <<>> /\ accepted = NoFile
      BY <2>2, ParseFacts DEF ReloadInit
    <3>2. Listed(NoFile) = {} /\ Hosts(<<>>) = {}
      BY DEF Listed, NoFile, Hosts, ToSet
    <3>3. <<>> \in Seq(STRING) /\ IsInjective(<<>>) /\ NULL \notin ToSet(<<>>)
      BY DEF IsInjective, ToSet
    <3> QED BY <3>1, <3>2, <3>3
  <2> QED BY <2>1, <2>2
<1>2. 0 \in Node
  BY NodeAssumption DEF Node
<1>3. /\ host = [n \in Node |-> NULL] /\ missed = {} /\ todo = cur /\ loop = NoLoop
      /\ closing = [n \in Node |-> FALSE] /\ role = [n \in Node |-> 0]
  BY DEF ReloadInit, my_pool_init
<1>4. ConfTypes
  BY <1>1, <1>2, <1>3 DEF ConfTypes, Hosts, LoopName, NoLoop
<1>5. \A n \in Node : ~Serves(n) /\ ~Registering(n)
  BY <1>3 DEF Serves, Registering, NoLoop
<1>6. SlotInv
  BY <1>3, <1>5 DEF SlotInv, ServesNamed, ServesOnce, RoleExact, RegServes, AllServed,
     NoLoop
<1> QED BY <1>4, <1>6 DEF ReloadInv

\* A server takes a free slot, which serves nobody, or one whose registration
\* has failed.
LEMMA RegisterKeepsInv ==
  ASSUME ReloadInv, NEW n \in Node, Register(n)
  PROVE  ReloadInv'
<1> DEFINE h == Head(todo)
<1>1. /\ loop = NoLoop /\ todo # <<>> /\ role[n] = 0 /\ n \in Node
      /\ closing' = [closing EXCEPT ![n] = FALSE] /\ host' = [host EXCEPT ![n] = h]
      /\ todo' = Tail(todo) /\ missed' = missed \ {h}
      /\ loop' = [fn |-> "reg", node |-> n, cnt |-> 0] /\ UNCHANGED <<role, cur, accepted>>
  BY DEF Register, FirstFree, FreeSlots, my_node_init, NoLongerClosing
<1>2. /\ closing \in [Node -> BOOLEAN] /\ role \in [Node -> {0, 1}]
      /\ host \in [Node -> STRING \cup {NULL}]
      /\ todo \in Seq(STRING) /\ NULL \notin Hosts(cur) /\ missed \subseteq Hosts(cur)
      /\ Hosts(todo) \subseteq Hosts(cur) \ missed
  BY DEF ReloadInv, ConfTypes
<1>3. /\ todo' \in Seq(STRING) /\ IsInjective(todo')
      /\ h \in Hosts(todo) /\ Hosts(todo') = Hosts(todo) \ {h}
  BY <1>1, TailFacts DEF ReloadInv, ConfTypes, Hosts
<1>4. h \in STRING /\ h # NULL
  <2>1. PICK i \in DOMAIN todo : h = todo[i]
    BY <1>3 DEF Hosts, ToSet
  <2>2. h \in STRING
    BY <1>2, <2>1, LenProperties, ElementOfSeq
  <2> QED BY <1>2, <1>3, <2>2
<1> HIDE DEF h
<1>5. ConfTypes'
  BY <1>1, <1>2, <1>3, <1>4 DEF ReloadInv, ConfTypes, LoopName, Hosts
<1>6. /\ \A o \in Node : ~Registering(o)
      /\ \A o \in Node : Registering(o)' <=> o = n
  BY <1>1 DEF Registering, NoLoop
<1>7. /\ Serves(n)' /\ host'[n] = h
      /\ \A o \in Node \ {n} : /\ Serves(o)' <=> Serves(o)
                               /\ host'[o] = host[o] /\ role'[o] = role[o]
  BY <1>1, <1>2, <1>4 DEF Serves
<1>8. Serves(n) => host[n] \in missed
  BY <1>1, <1>6 DEF ReloadInv, SlotInv, RoleExact
<1>9. \A o \in Node : Serves(o) => host[o] # h
  BY <1>3 DEF ReloadInv, SlotInv, ServesNamed
<1>10. ServesNamed' /\ ServesOnce'
  BY <1>1, <1>2, <1>3, <1>7, <1>9 DEF ReloadInv, SlotInv, ServesNamed, ServesOnce, Hosts
<1>11. RoleExact' /\ RegServes'
  BY <1>1, <1>6, <1>7, <1>9 DEF ReloadInv, SlotInv, RoleExact, RegServes
<1>12. AllServed'
  <2> SUFFICES ASSUME NEW x \in Hosts(cur), x \notin missed' \cup Hosts(todo')
               PROVE  \E o \in Node : Serves(o)' /\ host'[o] = x
    BY <1>1 DEF AllServed, Hosts
  <2>1. CASE x = h
    BY <1>7, <2>1
  <2>2. CASE x # h
    <3>1. PICK o \in Node : Serves(o) /\ host[o] = x
      BY <1>1, <1>3, <2>2 DEF ReloadInv, SlotInv, AllServed
    <3>2. o # n
      BY <1>1, <1>8, <2>2, <3>1
    <3> QED BY <1>7, <3>1, <3>2
  <2> QED BY <2>1, <2>2
<1> QED BY <1>5, <1>10, <1>11, <1>12 DEF ReloadInv, SlotInv

LEMMA NoSlotKeepsInv ==
  ASSUME ReloadInv, RegisterNoSlot
  PROVE  ReloadInv'
<1> DEFINE h == Head(todo)
<1>1. /\ loop = NoLoop /\ todo # <<>> /\ todo' = Tail(todo) /\ missed' = missed \cup {h}
      /\ UNCHANGED <<loop, role, closing, cur, accepted, host>>
  BY DEF RegisterNoSlot, vars
<1>2. /\ todo' \in Seq(STRING) /\ IsInjective(todo')
      /\ h \in Hosts(todo) /\ Hosts(todo') = Hosts(todo) \ {h}
  BY <1>1, TailFacts DEF ReloadInv, ConfTypes, Hosts
<1> HIDE DEF h
<1>3. ConfTypes'
  BY <1>1, <1>2 DEF ReloadInv, ConfTypes, Hosts
<1>4. \A o \in Node : Serves(o) => host[o] # h
  BY <1>2 DEF ReloadInv, SlotInv, ServesNamed
<1>5. \A o \in Node : /\ Serves(o)' <=> Serves(o)
                      /\ Registering(o)' <=> Registering(o)
  BY <1>1 DEF Serves, Registering
<1>6. SlotInv'
  BY <1>1, <1>2, <1>4, <1>5 DEF ReloadInv, SlotInv, ServesNamed, ServesOnce, RoleExact,
     RegServes, AllServed, Hosts, Serves
<1> QED BY <1>3, <1>6 DEF ReloadInv

\* The registration under way makes a connection.
LEMMA ConnectKeepsInv ==
  ASSUME ReloadInv, NEW m \in My, RegisterConnect(m)
  PROVE  ReloadInv'
<1>1. /\ loop' = [loop EXCEPT !.cnt = @ + 1]
      /\ UNCHANGED <<role, closing, cur, accepted, host, todo, missed>>
  BY DEF RegisterConnect, RegConnect, Step, nodeFlags, confVars
<1>2. loop' \in [fn : LoopName, node : Node, cnt : Nat] /\ loop'.fn = loop.fn
      /\ loop'.node = loop.node
  BY <1>1 DEF ReloadInv, ConfTypes
<1>3. ConfTypes'
  BY <1>1, <1>2 DEF ReloadInv, ConfTypes, Hosts
<1>4. SlotInv'
  BY <1>1, <1>2 DEF ReloadInv, SlotInv, ServesNamed, ServesOnce, RoleExact,
     RegServes, AllServed, Hosts, Serves, Registering
<1> QED BY <1>3, <1>4 DEF ReloadInv

LEMMA RegisterFailKeepsInv ==
  ASSUME ReloadInv, RegisterFail
  PROVE  ReloadInv'
<1>1. /\ loop.fn = "reg" /\ loop' = NoLoop /\ missed' = missed \cup {host[loop.node]}
      /\ UNCHANGED <<role, closing, cur, accepted, host, todo>>
  BY DEF RegisterFail, RegFail, nodeFlags
<1>2. loop.node \in Node /\ Serves(loop.node) /\ 0 \in Node
  BY <1>1, NodeAssumption DEF ReloadInv, ConfTypes, SlotInv, RegServes, Node
<1>3. host[loop.node] \in Hosts(cur) \ Hosts(todo)
  BY <1>2 DEF ReloadInv, SlotInv, ServesNamed
<1>4. ConfTypes'
  BY <1>1, <1>2, <1>3 DEF ReloadInv, ConfTypes, Hosts, NoLoop, LoopName
<1>5. \A o \in Node : /\ Serves(o)' <=> Serves(o) /\ ~Registering(o)'
                      /\ Registering(o) <=> o = loop.node
                      /\ Serves(o) /\ o # loop.node => host[o] # host[loop.node]
  BY <1>1, <1>2 DEF ReloadInv, SlotInv, ServesOnce, Serves, Registering, NoLoop
<1>6. ServesNamed' /\ ServesOnce'
  BY <1>1, <1>5 DEF ReloadInv, SlotInv, ServesNamed, ServesOnce, Hosts
<1>8. AllServed'
  <2>1. \A o \in Node : Serves(o)' <=> Serves(o)
    BY <1>1, <1>5 DEF Registering, NoLoop
  <2> QED BY <1>1, <2>1 DEF ReloadInv, SlotInv, AllServed, Hosts
<1>7. RoleExact' /\ RegServes'
  BY <1>1, <1>5 DEF ReloadInv, SlotInv, RoleExact, RegServes, NoLoop
<1> QED BY <1>4, <1>6, <1>7, <1>8 DEF ReloadInv, SlotInv

LEMMA RegisteredKeepsInv ==
  ASSUME ReloadInv, Registered
  PROVE  ReloadInv'
<1>1. /\ loop.fn = "reg" /\ loop' = NoLoop /\ role' = [role EXCEPT ![loop.node] = 1]
      /\ UNCHANGED <<closing, cur, accepted, host, todo, missed>>
  BY DEF Registered, confVars
<1>2. loop.node \in Node /\ Serves(loop.node) /\ 0 \in Node
  BY <1>1, NodeAssumption DEF ReloadInv, ConfTypes, SlotInv, RegServes, Node
<1>3. ConfTypes'
  BY <1>1, <1>2 DEF ReloadInv, ConfTypes, Hosts, NoLoop, LoopName
<1>4. /\ role'[loop.node] = 1
      /\ \A o \in Node : /\ Serves(o)' <=> Serves(o) /\ ~Registering(o)'
                         /\ Registering(o) <=> o = loop.node
                         /\ o # loop.node => role'[o] = role[o]
  BY <1>1, <1>2 DEF ReloadInv, ConfTypes, Serves, Registering, NoLoop
<1>5. ServesNamed' /\ ServesOnce'
  BY <1>1, <1>4 DEF ReloadInv, SlotInv, ServesNamed, ServesOnce, Hosts
<1>7. AllServed'
  <2>1. \A o \in Node : Serves(o)' <=> Serves(o)
    BY <1>1, <1>4 DEF Registering, NoLoop
  <2> QED BY <1>1, <2>1 DEF ReloadInv, SlotInv, AllServed, Hosts
<1>6. RoleExact' /\ RegServes'
  BY <1>1, <1>2, <1>4 DEF ReloadInv, SlotInv, RoleExact, RegServes, NoLoop
<1> QED BY <1>3, <1>5, <1>6, <1>7 DEF ReloadInv, SlotInv

\* Who left the list is marked, who stays serves on, and who joins waits.
LEMMA ReloadKeepsInv ==
  ASSUME ReloadInv, NEW f \in File, Usr1Reload(f)
  PROVE  ReloadInv'
<1> DEFINE new == Conf!mysql_conf_parse(f)
           left == Hosts(cur) \ Hosts(new)
<1>1. /\ loop = NoLoop /\ todo = <<>> /\ UNCHANGED <<role, loop, host>>
  BY DEF Usr1Reload
<1>2. /\ new \in Seq(STRING) /\ IsInjective(new) /\ NULL \notin Hosts(new)
      /\ Parsed(f) => Hosts(new) = Listed(f)
  BY ParseFacts DEF Hosts
<1>3. \/ UNCHANGED <<closing, todo, cur, accepted, missed>>
      \/ /\ closing' = Unregistered(left) /\ todo' = Without(new, Hosts(cur))
         /\ cur' = new /\ missed' = missed \cap Hosts(new)
         /\ Parsed(f) /\ accepted' = f
  BY DEF Usr1Reload
<1> HIDE DEF new
<1>4. CASE UNCHANGED <<closing, todo, cur, accepted, missed>>
  BY <1>1, <1>4 DEF ReloadInv, ConfTypes, SlotInv, ServesNamed, ServesOnce, RoleExact,
     RegServes, AllServed, Hosts, Serves, Registering
<1>5. CASE /\ closing' = Unregistered(left) /\ todo' = Without(new, Hosts(cur))
           /\ cur' = new /\ missed' = missed \cap Hosts(new)
           /\ Parsed(f) /\ accepted' = f
  <2>1. /\ todo' \in Seq(STRING) /\ IsInjective(todo')
        /\ Hosts(todo') = Hosts(new) \ Hosts(cur)
    BY <1>2, <1>5, WithoutFacts DEF Hosts
  <2>2. /\ closing \in [Node -> BOOLEAN] /\ missed \subseteq Hosts(cur)
        /\ Hosts(todo) = {}
    BY <1>1 DEF ReloadInv, ConfTypes, Hosts, ToSet
  <2>3. /\ closing' \in [Node -> BOOLEAN]
        /\ \A n \in Node : closing'[n] <=> closing[n] \/ host[n] \in left
    BY <1>5, <2>2 DEF Unregistered
  <2>4. ConfTypes'
    BY <1>1, <1>2, <1>5, <2>1, <2>2, <2>3 DEF ReloadInv, ConfTypes, Hosts
  <2>5. \A n \in Node : /\ Serves(n)' <=> Serves(n) /\ host[n] \in Hosts(new)
                        /\ ~Registering(n) /\ ~Registering(n)'
    BY <1>1, <2>3 DEF ReloadInv, SlotInv, ServesNamed, Serves, Registering, NoLoop
  <2>6. ServesNamed' /\ ServesOnce'
    BY <1>1, <1>5, <2>1, <2>5 DEF ReloadInv, SlotInv, ServesNamed, ServesOnce, Hosts
  <2>7. RoleExact' /\ RegServes'
    BY <1>1, <1>5, <2>5 DEF ReloadInv, SlotInv, RoleExact, RegServes, NoLoop
  <2>8. AllServed'
    BY <1>1, <1>5, <2>1, <2>2, <2>5 DEF ReloadInv, SlotInv, AllServed, Hosts
  <2> QED BY <2>4, <2>6, <2>7, <2>8 DEF ReloadInv, SlotInv
<1> QED BY <1>3, <1>4, <1>5

\* The pool by itself marks no slot, and takes the role of a marked one only.
LEMMA PoolKeepsSlots ==
  ASSUME ReloadInv, PoolStep
  PROVE  /\ loop.fn # "reg" /\ loop'.fn # "reg"
         /\ loop' \in [fn : LoopName, node : Node, cnt : Nat]
         /\ role' \in [Node -> {0, 1}]
         /\ \A n \in Node : ~closing[n] => role'[n] = role[n]
         /\ UNCHANGED <<closing, cur, accepted, host, todo, missed>>
<1>1. /\ loop \in [fn : LoopName, node : Node, cnt : Nat] /\ loop.fn # "reg"
      /\ closing \in [Node -> BOOLEAN] /\ role \in [Node -> {0, 1}]
      /\ UNCHANGED <<cur, accepted, host, todo, missed>>
  BY DEF ReloadInv, ConfTypes, PoolStep, confVars
<1>2. NoLoop.fn # "reg" /\ NoLoop \in [fn : LoopName, node : Node, cnt : Nat]
  BY NodeAssumption DEF NoLoop, LoopName, Node
<1>3. ASSUME NextNode
      PROVE  loop'.fn # "reg" /\ loop' \in [fn : LoopName, node : Node, cnt : Nat]
  <2>1. CASE loop' = NoLoop
    BY <1>2, <2>1
  <2>2. CASE /\ loop.node + 1 < NumNode
             /\ loop' = [loop EXCEPT !.node = @ + 1, !.cnt = 0]
    <3>1. loop.node + 1 \in Node
      BY <1>1, <2>2, NodeAssumption DEF Node
    <3> QED BY <1>1, <2>2, <3>1
  <2> QED BY <1>3, <2>1, <2>2 DEF NextNode
<1>4. ASSUME Step
      PROVE  loop'.fn # "reg" /\ loop' \in [fn : LoopName, node : Node, cnt : Nat]
  BY <1>1, <1>4 DEF Step
<1>5. CASE CleanupDone
  <2>1. loop.node \in Node /\ closing[loop.node] /\ role' = [role EXCEPT ![loop.node] = 0]
        /\ UNCHANGED closing /\ NextNode
    BY <1>1, <1>5 DEF CleanupDone, Cleanable
  <2> QED BY <1>1, <1>3, <2>1
<1>6. CASE UNCHANGED nodeFlags /\ (NextNode \/ Step \/ UNCHANGED loop)
  BY <1>1, <1>3, <1>4, <1>6 DEF nodeFlags
<1>7. CASE \E fn \in RetryKind \cup {"ping", "cleanup"} : StartLoop(fn)
  BY <1>1, <1>7, NodeAssumption DEF StartLoop, RetryKind, nodeFlags, LoopName, Node
<1>8. CASE \E m \in My : Retry(m) \/ Cleanup(m)
  BY <1>1, <1>8 DEF Retry, Cleanup, nodeFlags
<1>9. CASE \/ RetryNextNode \/ PingNextNode \/ CleanupSkip
           \/ \E m \in My : PingPrepare(m) \/ PingRelease(m)
           \/ \E m \in My, n \in Node : PingTimeout(m, n)
  BY <1>6, <1>9 DEF RetryNextNode, PingNextNode, CleanupSkip, PingPrepare, PingRelease,
     PingTimeout
<1>10. CASE Callbacks
  BY <1>6, <1>10 DEF Callbacks, HsStage, HsDone, HsFail, PingReq, PingResp, PingFail
<1>11. CASE Sessions \/ \E m \in My : Age(m)
  BY <1>6, <1>11 DEF Sessions, Age, SlaveConnGet, SessionHandler, Put, Close, TryIncrease
<1> QED BY <1>5, <1>7, <1>8, <1>9, <1>10, <1>11 DEF PoolStep, Timers

LEMMA PoolKeepsInv ==
  ASSUME ReloadInv, PoolStep
  PROVE  ReloadInv'
<1>1. /\ loop.fn # "reg" /\ loop'.fn # "reg"
      /\ loop' \in [fn : LoopName, node : Node, cnt : Nat]
      /\ role' \in [Node -> {0, 1}]
      /\ \A n \in Node : ~closing[n] => role'[n] = role[n]
      /\ UNCHANGED <<closing, cur, accepted, host, todo, missed>>
  BY PoolKeepsSlots
<1>2. ConfTypes'
  BY <1>1 DEF ReloadInv, ConfTypes, Hosts
<1>3. \A n \in Node : /\ Serves(n)' <=> Serves(n)
                      /\ Serves(n) => role'[n] = role[n]
                      /\ ~Registering(n) /\ ~Registering(n)'
  BY <1>1 DEF Serves, Registering
<1>4. SlotInv'
  BY <1>1, <1>3 DEF ReloadInv, SlotInv, ServesNamed, ServesOnce, RoleExact,
     RegServes, AllServed, Hosts
<1> QED BY <1>2, <1>4 DEF ReloadInv

LEMMA ConfStepPreserves ==
  ASSUME ReloadInv, [ReloadNext]_reloadVars
  PROVE  ReloadInv'
<1>1. CASE UNCHANGED reloadVars
  BY <1>1 DEF reloadVars, vars, confVars, ReloadInv, ConfTypes, SlotInv, ServesNamed,
     ServesOnce, RoleExact, RegServes, AllServed, Hosts, Serves, Registering
<1> QED BY <1>1, RegisterKeepsInv, NoSlotKeepsInv, ConnectKeepsInv, RegisterFailKeepsInv,
           RegisteredKeepsInv, ReloadKeepsInv, PoolKeepsInv DEF ReloadNext

-----------------------------------------------------------------------------
(* The theorems.                                                           *)

\* Slots, list and reload under way agree at every step.
THEOREM ReloadInvCorrect == ReloadSpec => []ReloadInv
BY ConfInitEstablishes, ConfStepPreserves, PTL DEF ReloadSpec

\* Between reloads the servers that have their role are those named by the last
\* file that could be read, but for the missed ones (my_pool.c:351, 383): after any
\* sequence of files, read or refused, from boot on, and none after a boot whose
\* file is empty, missing or wrong (work.c:117).
THEOREM ListServedCorrect == ReloadSpec => []ListServed
<1>1. ASSUME ReloadInv PROVE ListServed
  <2> SUFFICES ASSUME Settled
               PROVE  {host[n] : n \in {o \in Node : Serves(o) /\ role[o] = 1}}
                        = Hosts(cur) \ missed
    BY <1>1 DEF ListServed, ReloadInv, ConfTypes
  <2>1. Hosts(todo) = {} /\ \A n \in Node : ~Registering(n)
    BY DEF Settled, Hosts, ToSet, Registering
  <2>2. \A n \in Node : Serves(n) => /\ host[n] \in Hosts(cur)
                                     /\ role[n] = 1 <=> host[n] \notin missed
    BY <1>1, <2>1 DEF ReloadInv, SlotInv, ServesNamed, RoleExact
  <2>3. \A h \in Hosts(cur) \ missed : \E n \in Node : Serves(n) /\ host[n] = h
    BY <1>1, <2>1 DEF ReloadInv, SlotInv, AllServed
  <2> QED BY <2>2, <2>3
<1> QED BY <1>1, ReloadInvCorrect, PTL

\* No two slots that are not closing are for the same server (work.c:263, 282).
THEOREM OneSlotEachCorrect == ReloadSpec => []OneSlotEach
<1>1. ReloadInv => OneSlotEach
  BY DEF ReloadInv, ConfTypes, SlotInv, ServesNamed, ServesOnce, OneSlotEach
<1> QED BY <1>1, ReloadInvCorrect, PTL

-----------------------------------------------------------------------------
(* The pool under the reloads.  my_node_init forgets the pages on the lists *)
(* of a slot, so PlaceInv does not hold of them any more; SoundInv does.   *)

\* The steps of a reload that start or end a registration, or mark slots.
ConfMoves == (\E n \in Node : Register(n)) \/ Registered \/ (\E f \in File : Usr1Reload(f))

\* The other steps are steps of the pool.
LEMMA ReloadIsPoolStep == [ReloadNext]_reloadVars => ConfMoves \/ [Next]_vars
BY DEF ReloadNext, ConfMoves, RegisterConnect, RegisterNoSlot, RegisterFail, PoolStep,
       Next, Boot, reloadVars

LEMMA ConfMovesStill ==
  ASSUME ConfMoves
  PROVE  UNCHANGED <<node, conn, cb, open, idle, cur_connecting_cnt, indet, faults>>
<1>1. CASE \E n \in Node : Register(n)
  BY <1>1 DEF Register, my_node_init, NodeInitConnecting
<1>2. CASE Registered
  BY <1>2 DEF Registered, counters
<1>3. CASE \E f \in File : Usr1Reload(f)
  BY <1>3 DEF Usr1Reload, counters
<1> QED BY <1>1, <1>2, <1>3 DEF ConfMoves

\* my_node_init empties the lists of a slot and leaves those of the others.
LEMMA NodeInitLists ==
  ASSUME SoundInv, NEW n \in Node, my_node_init(n)
  PROVE  /\ ListType' /\ OnceOnly'
         /\ \A m \in My, a \in Node, k \in ListName :
              On(m, a, k)' <=> a # n /\ On(m, a, k)
<1>1. \A x \in Lists : list'[x] = IF x[1] = n THEN <<>> ELSE list[x]
  BY DEF my_node_init
<1>2. ListType'
  BY DEF my_node_init, SoundInv, TypeOK, ListType
<1>3. OnceOnly'
  BY <1>1 DEF OnceOnly, SoundInv
<1>4. ASSUME NEW m \in My, NEW a \in Node, NEW k \in ListName
      PROVE  On(m, a, k)' <=> a # n /\ On(m, a, k)
  <2>1. <<a, k>> \in Lists /\ <<a, k>>[1] = a
    BY DEF Lists
  <2>2. list'[<<a, k>>] = IF a = n THEN <<>> ELSE list[<<a, k>>]
    BY <1>1, <2>1
  <2> QED BY <2>2 DEF On, ToSet
<1> QED BY <1>2, <1>3, <1>4

\* A page that is taken off its list, or stays, keeps what SoundPage says.
LEMMA RegisterKeepsSound ==
  ASSUME SoundInv, ConfTypes', NEW n \in Node, Register(n)
  PROVE  SoundInv'
<1>1. /\ ListType' /\ OnceOnly'
      /\ \A m \in My, a \in Node, k \in ListName :
           On(m, a, k)' <=> a # n /\ On(m, a, k)
  BY NodeInitLists DEF Register
<1>2. UNCHANGED <<node, conn, cb, open, idle, cur_connecting_cnt, indet, faults>>
  BY ConfMovesStill DEF ConfMoves
<1>3. TypeOK'
  <2>1. /\ avail_count' \in [Node -> 0 .. CountMod - 1]
        /\ curall_connection' \in [Node -> Int]
    BY BoundAssumption DEF Register, my_node_init, SoundInv, TypeOK
  <2> QED BY <1>1, <1>2, <2>1 DEF SoundInv, TypeOK, ListType, ConfTypes
<1>4. ASSUME NEW m \in My PROVE SoundPage(m)'
  <2>1. SoundPage(m)
    BY DEF SoundInv
  <2>2. FitsList(m)'
    BY <1>1, <1>2, <2>1 DEF SoundPage, FitsList, Unwatched, ListName
  <2> QED BY <1>1, <1>2, <2>1, <2>2 DEF SoundPage
<1>5. OneEach'
  BY <1>2 DEF SoundInv, OneEach
<1> QED BY <1>1, <1>3, <1>4, <1>5 DEF SoundInv

\* Every step of the composition keeps the pool sound.
LEMMA ReloadKeepsSound ==
  ASSUME SoundInv, ConfTypes', [ReloadNext]_reloadVars
  PROVE  SoundInv'
<1>1. CASE \E n \in Node : Register(n)
  BY <1>1, RegisterKeepsSound
<1>2. CASE Registered \/ \E f \in File : Usr1Reload(f)
  <2>1. UNCHANGED <<list, node, conn, cb, open, idle, avail_count, curall_connection,
                    cur_connecting_cnt, indet, faults>>
    BY <1>2 DEF Registered, Usr1Reload, counters
  <2>2. RestType' /\ Still
    BY <2>1 DEF SoundInv, TypeOK, RestType, Still, ConfTypes
  <2> QED BY <2>2, StillKeepsInv
<1>3. CASE [Next]_vars
  BY <1>3, NextKeepsInv
<1> QED BY <1>1, <1>2, <1>3, ReloadIsPoolStep DEF ConfMoves

\* The counter of handshakes is that of the node, whoever's it is now:
\* my_node_init leaves the one and does not end the others.
LEMMA ReloadKeepsCount ==
  ASSUME SoundInv, ConnectingExact, [ReloadNext]_reloadVars
  PROVE  ConnectingExact'
<1>1. CASE ConfMoves
  BY <1>1, ConfMovesStill DEF ConnectingExact, Handshaking, Allocated
<1>2. CASE [Next]_vars
  BY <1>2, NextIsMoves, MovesCounted, StillMovesCounted
<1> QED BY <1>1, <1>2, ReloadIsPoolStep

LEMMA ReloadInitSound == ReloadInit => SoundInv /\ ConnectingExact
<1>1. NoLoop \in [fn : LoopName, node : Node, cnt : Nat]
  BY NodeAssumption DEF NoLoop, LoopName, Node
<1> QED BY <1>1, InitKeepsInv, PlaceIsSound, InitCounted DEF ReloadInit

\* What is left of the pool's invariant when slots are taken again.
THEOREM SoundCorrect == ReloadSpec => []SoundInv
<1>1. ReloadInv => ConfTypes
  BY DEF ReloadInv
<1>2. SoundInv /\ ConfTypes' /\ [ReloadNext]_reloadVars => SoundInv'
  BY ReloadKeepsSound
<1> QED BY <1>1, <1>2, ReloadInitSound, ReloadInvCorrect, PTL DEF ReloadSpec

\* Whatever slots are taken again with handshakes under way, what is handed
\* out is connected, nobody's and unwatched (my_pool.c:464).
THEOREM ReadyUnderReload == ReloadSpec => []ReadyWhenAvail
<1>1. SoundInv => ReadyWhenAvail
  BY DEF SoundInv, SoundPage, ReadyWhenAvail
<1> QED BY <1>1, SoundCorrect, PTL

\* Every way out of a handshake counts once, also in the slot of another server
\* than the one it began for: cur_connecting_cnt is not reset (my_pool.c:142).
THEOREM ConnectingUnderReload == ReloadSpec => []ConnectingExact
<1>1. SoundInv /\ ConnectingExact /\ [ReloadNext]_reloadVars => ConnectingExact'
  BY ReloadKeepsCount
<1> QED BY <1>1, ReloadInitSound, SoundCorrect, PTL DEF ReloadSpec

\* A reload takes no connection from a session or a check: pages are given back
\* by the cleanup of a slot, or by the ping timer when surplus and unused.
THEOREM ReleasesUnderReload == ReloadSpec => ReleaseIsSafe
<1>1. ASSUME SoundInv, [ReloadNext]_reloadVars PROVE [SafelyReleased]_vars
  <2>1. CASE ConfMoves
    BY <2>1, ConfMovesStill DEF SafelyReleased
  <2>2. CASE [Next]_vars
    BY <1>1, <2>2, ReleasesAreSafe
  <2> QED BY <1>1, <2>1, <2>2, ReloadIsPoolStep
<1>2. SoundInv /\ [ReloadNext]_reloadVars => [SafelyReleased]_vars
  BY <1>1
<1>3. ReloadSpec => [][SafelyReleased]_vars
  BY <1>2, SoundCorrect, PTL DEF ReloadSpec
<1> QED BY <1>3 DEF ReleaseIsSafe, SafelyReleased
=============================================================================
