------------------------------- MODULE MyPool -------------------------------
(***************************************************************************)
(* The pool of MySQL connections of myrelay: my_pool.c, with the handshake *)
(* and ping callbacks of my_ops.c that drive a connection when no client   *)
(* session owns it.                                                        *)
(*                                                                         *)
(* The program is one thread around an epoll loop (work.c:143): a callback *)
(* or a timer runs to its end before the next one.  Every action below is  *)
(* one callback, or one iteration of the loop of a timer; while such a     *)
(* loop is under way (loop.fn # "none") only its own iterations can happen.*)
(* A connection whose handshake is under way is on no list at all.         *)
(***************************************************************************)
EXTENDS Integers, FiniteSets, SequencesExt

CONSTANTS
  My,           \* pages of the genpool of my_conn_t
  Client,       \* client sessions (conn_t) that may own a connection
  NumNode,      \* registered slots of mypool->slave (slave_num)
  MinConn,      \* min_connection of each node
  MaxConn,      \* max_connection of each node
  MaxInflight,  \* maxinflightconn, 10 in my_try_increase_connection
  PingBatch,    \* argument of the ping timer, 10 in my_pool_init
  CountMod,     \* 2^32: avail_count and cur_connecting_cnt are unsigned int
  IndetCnt,     \* values the uninitialised cur_connecting_cnt may start with
  SessionCb,    \* callbacks a session registers on the connection it owns
  MaxFault,     \* bound: failures of connect, handshake, ping or exchange
  NULL

Node == 0 .. NumNode - 1
ListName == {"used", "avail", "dead", "fail", "ping"}
Lists == Node \X ListName
HsCb == {"hs1", "hs2", "hs3"}
PingCb == {"ping_req", "ping_resp"}

ASSUME MyAssumption == IsFiniteSet(My) /\ NULL \notin My \cup Client \cup Node
ASSUME NodeAssumption == /\ NumNode \in Nat \ {0}
                         /\ MinConn \in [Node -> Nat]
                         /\ MaxConn \in [Node -> Nat]
ASSUME BoundAssumption == /\ MaxInflight \in Nat /\ PingBatch \in Nat
                          /\ CountMod \in Nat \ {0} /\ MaxFault \in Nat
                          /\ IndetCnt \subseteq 0 .. CountMod - 1
ASSUME CbAssumption == SessionCb \cap (HsCb \cup PingCb \cup {"none"}) = {}
\* Pages run out, if at all, while the last node is registered: a registration
\* after a failed one would take the slot of the failed one again.
ASSUME RegAssumption ==
  SumFunctionOnSet(MinConn, 0 .. NumNode - 2) <= Cardinality(My)
ASSUME ClientAssumption == Client \cap {"absent", "pool", "ready"} = {}

VARIABLES
  list,               \* the list heads of each node, as sequences of pages
  node,               \* node[m]: my->node, NULL for a free page
  conn,               \* conn[m]: my->conn, the session that owns m
  cb,                 \* cb[m]: the epoll callback registered for my->fd
  open,               \* pages whose my->fd is an open socket
  idle,               \* available or pinged, not used by a client for 30s
  avail_count, curall_connection, cur_connecting_cnt,
  indet,              \* what cur_connecting_cnt held before boot
  closing, role,
  loop,               \* timer or registration loop under way
  faults              \* failures so far (bounded by MaxFault)

counters == <<curall_connection, cur_connecting_cnt, indet>>
nodeFlags == <<closing, role>>
vars == <<list, node, conn, cb, open, idle, avail_count, curall_connection,
          cur_connecting_cnt, indet, closing, role, loop, faults>>

NoLoop == [fn |-> "none", node |-> 0, cnt |-> 0]
LoopName == {"none", "reg", "dead", "fail", "ping", "cleanup"}

-----------------------------------------------------------------------------
(* The intrusive list (list.h): a page is on at most one list.             *)

Unlinked(s, m) ==
  IF \E i \in DOMAIN s : s[i] = m
  THEN RemoveAt(s, CHOOSE i \in DOMAIN s : s[i] = m)
  ELSE s

\* Variant with a bug: list_del_init is forgotten.
DelInitForgotten(m) == list

DelInit(m) == [x \in Lists |-> Unlinked(list[x], m)]

MoveTail(m, n, k) ==
  [x \in Lists |-> IF x = <<n, k>> THEN Append(Unlinked(list[x], m), m)
                                   ELSE Unlinked(list[x], m)]

MoveHead(m, n, k) ==
  [x \in Lists |-> IF x = <<n, k>> THEN <<m>> \o Unlinked(list[x], m)
                                   ELSE Unlinked(list[x], m)]

On(m, n, k) == m \in ToSet(list[<<n, k>>])
IsHead(m, n, k) == list[<<n, k>>] # <<>> /\ m = Head(list[<<n, k>>])

-----------------------------------------------------------------------------
(* Pieces shared by several callbacks.                                     *)

\* Variant with a bug: the counter is not taken as a 32-bit unsigned int.
AvailCountUnbounded(n, d) == [avail_count EXCEPT ![n] = @ + d]

AvailCount(n, d) == [avail_count EXCEPT ![n] = (@ + d) % CountMod]
Connecting(n, d) == [cur_connecting_cnt EXCEPT ![n] = (@ + d) % CountMod]

NoFault == faults' = faults
Fault == faults < MaxFault /\ faults' = faults + 1

\* Variants with a bug: del_handler, or my->conn = NULL, is forgotten.
ClosedKeepsHandler(m) ==
  /\ conn' = [conn EXCEPT ![m] = NULL]
  /\ open' = open \ {m} /\ idle' = idle \ {m} /\ UNCHANGED cb
ClosedKeepsOwner(m) ==
  /\ cb' = [cb EXCEPT ![m] = "none"]
  /\ open' = open \ {m} /\ idle' = idle \ {m} /\ UNCHANGED conn

\* Every close: del_handler, close(fd), conn = NULL.
Closed(m) ==
  /\ conn' = [conn EXCEPT ![m] = NULL]
  /\ cb' = [cb EXCEPT ![m] = "none"]
  /\ open' = open \ {m}
  /\ idle' = idle \ {m}

my_conn_set_dead(m, n) ==
  /\ list' = MoveTail(m, n, "dead")
  /\ avail_count' = AvailCount(n, -1)

my_conn_close(m, n) == Closed(m) /\ my_conn_set_dead(m, n)

\* set_dead and then set_fail: the counter goes down twice.
my_conn_close_on_fail(m, n) ==
  /\ Closed(m)
  /\ list' = MoveTail(m, n, "fail")
  /\ avail_count' = AvailCount(n, -2)

\* dec is 1, or 0 when the connection was put back into avail just before.
my_conn_close_and_release(m, n, dec) ==
  /\ Closed(m)
  /\ list' = DelInit(m)
  /\ avail_count' = AvailCount(n, -dec)
  /\ curall_connection' = [curall_connection EXCEPT ![n] = @ - 1]
  /\ node' = [node EXCEPT ![m] = NULL]

\* A failed connect returns 0 as well: the caller cannot see it.
make_my_conn(m, n) ==
  \/ /\ NoFault
     /\ list' = DelInit(m)
     /\ conn' = [conn EXCEPT ![m] = NULL]
     /\ cb' = [cb EXCEPT ![m] = "hs1"]
     /\ open' = open \cup {m}
     /\ idle' = idle \ {m}
     /\ cur_connecting_cnt' = Connecting(n, 1)
     /\ UNCHANGED avail_count
  \/ /\ Fault
     /\ my_conn_close_on_fail(m, n)
     /\ UNCHANGED cur_connecting_cnt

\* The setters of the other lists.  To avail: at the tail after use; after a
\* ping at the head, with lastused_time as it was.
my_conn_set_used(m, n, c) ==
  /\ conn' = [conn EXCEPT ![m] = c]
  /\ list' = MoveTail(m, n, "used")
  /\ cb' = [cb EXCEPT ![m] = "none"]
  /\ idle' = idle \ {m}
  /\ avail_count' = AvailCount(n, -1)

my_conn_set_ping(m, n) ==
  /\ conn' = [conn EXCEPT ![m] = NULL]
  /\ list' = MoveTail(m, n, "ping")
  /\ avail_count' = AvailCount(n, -1)

\* Variant with a bug: a ping refreshes lastused_time too.
SetAvailRefreshes(m, isupdate) ==
  /\ conn' = [conn EXCEPT ![m] = NULL]
  /\ list' = IF isupdate THEN MoveTail(m, node[m], "avail")
                         ELSE MoveHead(m, node[m], "avail")
  /\ idle' = idle \ {m}
  /\ avail_count' = AvailCount(node[m], 1)

my_conn_set_avail(m, isupdate) ==
  /\ conn' = [conn EXCEPT ![m] = NULL]
  /\ list' = IF isupdate THEN MoveTail(m, node[m], "avail")
                         ELSE MoveHead(m, node[m], "avail")
  /\ idle' = IF isupdate THEN idle \ {m} ELSE idle
  /\ avail_count' = AvailCount(node[m], 1)

\* ctx.dirty is never set: conn_alloc_my_conn has dirty = 0.
my_conn_put(m, isupdate) ==
  /\ cb' = [cb EXCEPT ![m] = "none"]
  /\ my_conn_set_avail(m, isupdate)

my_conn_alloc(m, n) ==
  /\ node[m] = NULL
  /\ node' = [node EXCEPT ![m] = n]
  /\ curall_connection' = [curall_connection EXCEPT ![n] = @ + 1]

my_pool_have_conn == \E n \in Node : avail_count[n] > 0

-----------------------------------------------------------------------------
my_pool_init ==
  /\ list = [x \in Lists |-> <<>>]
  /\ node = [m \in My |-> NULL]
  /\ conn = [m \in My |-> NULL]
  /\ cb = [m \in My |-> "none"]
  /\ open = {}
  /\ idle = {}
  /\ avail_count = [n \in Node |-> 0]
  /\ curall_connection = [n \in Node |-> 0]
  /\ cur_connecting_cnt \in [Node -> IndetCnt]
  /\ indet = cur_connecting_cnt
  /\ closing = [n \in Node |-> FALSE]
  /\ role = [n \in Node |-> 0]
  /\ faults = 0

\* The registration of the first node has begun.
Init == my_pool_init /\ loop = [fn |-> "reg", node |-> 0, cnt |-> 0]

-----------------------------------------------------------------------------
(* The loops over the nodes: registration at boot, and the timers.         *)

Step == loop' = [loop EXCEPT !.cnt = @ + 1]
NextNode == loop' = IF loop.node + 1 < NumNode
                    THEN [loop EXCEPT !.node = @ + 1, !.cnt = 0]
                    ELSE NoLoop

\* my_slave_reg, one iteration of the loop of _my_reg.
RegConnect(m) ==
  LET n == loop.node IN
  /\ loop.fn = "reg" /\ loop.cnt < MinConn[n]
  /\ my_conn_alloc(m, n)
  /\ make_my_conn(m, n)
  /\ Step
  /\ UNCHANGED <<indet, nodeFlags>>

RegDone ==
  /\ loop.fn = "reg" /\ loop.cnt = MinConn[loop.node]
  /\ role' = [role EXCEPT ![loop.node] = 1]
  /\ NextNode
  /\ UNCHANGED <<list, node, conn, cb, open, idle, avail_count, counters,
                 closing, faults>>

\* genpool_alloc_page fails: _my_reg gives up and the role stays 0.  This is
\* the last node (RegAssumption).
RegFail ==
  /\ loop.fn = "reg" /\ loop.cnt < MinConn[loop.node]
  /\ \A m \in My : node[m] # NULL
  /\ loop' = NoLoop
  /\ UNCHANGED <<list, node, conn, cb, open, idle, avail_count, counters,
                 nodeFlags, faults>>

StartLoop(fn) ==
  /\ loop = NoLoop
  /\ loop' = [fn |-> fn, node |-> 0, cnt |-> 0]
  /\ UNCHANGED <<list, node, conn, cb, open, idle, avail_count, counters,
                 nodeFlags, faults>>

\* The dead timer takes the whole list, the fail timer one connection a node.
RetryKind == {"dead", "fail"}
\* Variant with a bug: ++count >= arg instead of count++ >= arg.
MoreToRetryOffByOne(n) == /\ ~closing[n]
                          /\ list[<<n, loop.fn>>] # <<>>
                          /\ loop.fn = "fail" => loop.cnt + 1 < 1

MoreToRetry(n) == /\ ~closing[n]
                  /\ list[<<n, loop.fn>>] # <<>>
                  /\ loop.fn = "fail" => loop.cnt < 1

Retry(m) ==
  LET n == loop.node IN
  /\ loop.fn \in RetryKind
  /\ MoreToRetry(n) /\ IsHead(m, n, loop.fn)
  /\ make_my_conn(m, n)
  /\ loop' = [loop EXCEPT !.cnt = IF loop.fn = "fail" THEN @ + 1 ELSE @]
  /\ UNCHANGED <<node, curall_connection, indet, nodeFlags>>

RetryNextNode ==
  /\ loop.fn \in RetryKind
  /\ ~MoreToRetry(loop.node)
  /\ NextNode
  /\ UNCHANGED <<list, node, conn, cb, open, idle, avail_count, counters,
                 nodeFlags, faults>>

\* Variant with a bug: min_connection is not considered.
KeepRecent(m, n) == m \notin idle

\* The ping timer: ping what is in use or needed, release what is left over.
Keep(m, n) == m \notin idle \/ curall_connection[n] <= MinConn[n]
MoreToPing(n) ==
  /\ ~closing[n]
  /\ list[<<n, "avail">>] # <<>>
  /\ Keep(Head(list[<<n, "avail">>]), n) => loop.cnt < PingBatch

PingPrepare(m) ==
  LET n == loop.node IN
  /\ loop.fn = "ping"
  /\ MoreToPing(n) /\ IsHead(m, n, "avail") /\ Keep(m, n)
  /\ my_conn_set_ping(m, n)
  /\ cb' = [cb EXCEPT ![m] = "ping_req"]
  /\ Step
  /\ UNCHANGED <<node, open, idle, counters, nodeFlags, faults>>

PingRelease(m) ==
  LET n == loop.node IN
  /\ loop.fn = "ping"
  /\ MoreToPing(n) /\ IsHead(m, n, "avail") /\ ~Keep(m, n)
  /\ my_conn_close_and_release(m, n, 1)
  /\ UNCHANGED <<cur_connecting_cnt, indet, nodeFlags, loop, faults>>

PingNextNode ==
  /\ loop.fn = "ping"
  /\ ~MoreToPing(loop.node)
  /\ NextNode
  /\ UNCHANGED <<list, node, conn, cb, open, idle, avail_count, counters,
                 nodeFlags, faults>>

\* Variant with a bug: the pinged connections are forgotten.
CleanupOrderNoPing == <<"used", "avail", "dead", "fail", "fail">>

\* The cleanup timer: closing_time is not modelled, so a node that still has
\* its role may or may not have been closing for MY_NODE_CLOSING_DELAY.
CleanupOrder == <<"used", "avail", "dead", "fail", "ping">>
CleanupList(n) ==  \* the first list with something left, "none" at the end
  LET left == {i \in 1 .. 5 : list[<<n, CleanupOrder[i]>>] # <<>>}
  IN IF left = {} THEN "none"
     ELSE CleanupOrder[CHOOSE i \in left : \A j \in left : i <= j]
Cleanable(n) == closing[n] /\ role[n] # 0

Cleanup(m) ==
  LET n == loop.node
      k == CleanupList(n)
  IN /\ loop.fn = "cleanup"
     /\ Cleanable(n) /\ k # "none" /\ IsHead(m, n, k)
     /\ my_conn_close_and_release(m, n, IF k = "used" THEN 0 ELSE 1)
     /\ loop' = [loop EXCEPT !.cnt = 1]
     /\ UNCHANGED <<cur_connecting_cnt, indet, nodeFlags, faults>>

CleanupDone ==
  /\ loop.fn = "cleanup"
  /\ Cleanable(loop.node) /\ CleanupList(loop.node) = "none"
  /\ role' = [role EXCEPT ![loop.node] = 0]
  /\ NextNode
  /\ UNCHANGED <<list, node, conn, cb, open, idle, avail_count, counters,
                 closing, faults>>

CleanupSkip ==
  /\ loop.fn = "cleanup" /\ loop.cnt = 0
  /\ NextNode
  /\ UNCHANGED <<list, node, conn, cb, open, idle, avail_count, counters,
                 nodeFlags, faults>>

-----------------------------------------------------------------------------
(* Callbacks and the operations sessions call.                             *)

\* my_hs_stage1_cb and my_hs_stage2_cb: the next stage's callback is added.
HsStage(m) ==
  /\ loop = NoLoop /\ cb[m] \in {"hs1", "hs2"}
  /\ cb' = [cb EXCEPT ![m] = IF @ = "hs1" THEN "hs2" ELSE "hs3"]
  /\ UNCHANGED <<list, node, conn, open, idle, avail_count, counters,
                 nodeFlags, loop, faults>>

\* my_hs_stage3_cb, the server accepted the login.
HsDone(m) ==
  /\ loop = NoLoop /\ cb[m] = "hs3"
  /\ cb' = [cb EXCEPT ![m] = "none"]
  /\ my_conn_set_avail(m, TRUE)
  /\ cur_connecting_cnt' = Connecting(node[m], -1)
  /\ UNCHANGED <<node, open, curall_connection, indet, nodeFlags, loop, faults>>

\* Variant with a bug: the error path forgets cur_connecting_cnt.
HsFailLeaks(m) ==
  /\ loop = NoLoop /\ cb[m] \in HsCb /\ Fault
  /\ my_conn_close_on_fail(m, node[m])
  /\ UNCHANGED <<node, counters, nodeFlags, loop>>

\* The error path ("end:") of the three stages.
HsFail(m) ==
  /\ loop = NoLoop /\ cb[m] \in HsCb /\ Fault
  /\ my_conn_close_on_fail(m, node[m])
  /\ cur_connecting_cnt' = Connecting(node[m], -1)
  /\ UNCHANGED <<node, curall_connection, indet, nodeFlags, loop>>

PingReq(m) ==
  /\ loop = NoLoop /\ cb[m] = "ping_req"
  /\ cb' = [cb EXCEPT ![m] = "ping_resp"]
  /\ UNCHANGED <<list, node, conn, open, idle, avail_count, counters,
                 nodeFlags, loop, faults>>

\* The ping does not refresh lastused_time.
PingResp(m) ==
  /\ loop = NoLoop /\ cb[m] = "ping_resp"
  /\ my_conn_put(m, FALSE)
  /\ UNCHANGED <<node, open, counters, nodeFlags, loop, faults>>

PingFail(m) ==
  /\ loop = NoLoop /\ cb[m] \in PingCb /\ Fault
  /\ my_conn_close(m, node[m])
  /\ UNCHANGED <<node, counters, nodeFlags, loop>>

\* The ping list is ordered by state_time: the head is the oldest.
PingTimeout(m, n) ==
  /\ loop = NoLoop /\ ~closing[n] /\ IsHead(m, n, "ping") /\ Fault
  /\ my_conn_close_on_fail(m, n)
  /\ UNCHANGED <<node, counters, nodeFlags, loop>>

\* Variant with a bug: a session that has a connection gets another one.
NoConnectionUnchecked(c) == TRUE

NoConnection(c) == \A m \in My : conn[m] # c

\* accept_client_cb and conn_alloc_my_conn: a session without a connection
\* gets the first available one; the hash of ip and port picks the node.
SlaveConnGet(c, m, n) ==
  /\ loop = NoLoop /\ my_pool_have_conn /\ NoConnection(c)
  /\ ~closing[n] /\ IsHead(m, n, "avail")
  /\ my_conn_set_used(m, n, c)
  /\ UNCHANGED <<node, open, counters, nodeFlags, loop, faults>>

\* The session owns m and registers, or removes, its callbacks on m.
SessionHandler(m, h) ==
  /\ loop = NoLoop /\ conn[m] # NULL
  /\ cb' = [cb EXCEPT ![m] = h]
  /\ UNCHANGED <<list, node, conn, open, idle, avail_count, counters,
                 nodeFlags, loop, faults>>

\* conn_close of the session.
Put(m) ==
  /\ loop = NoLoop /\ conn[m] # NULL
  /\ my_conn_put(m, TRUE)
  /\ UNCHANGED <<node, open, counters, nodeFlags, loop, faults>>

\* conn_close_with_my of the session.
Close(m) ==
  /\ loop = NoLoop /\ conn[m] # NULL /\ Fault
  /\ my_conn_close(m, node[m])
  /\ UNCHANGED <<node, counters, nodeFlags, loop>>

\* Variant with a bug: <= max_connection.
MayGrowPast(n) == /\ cur_connecting_cnt[n] <= MaxInflight
                  /\ ~closing[n] /\ curall_connection[n] <= MaxConn[n]

MayGrow(n) == /\ cur_connecting_cnt[n] <= MaxInflight
              /\ ~closing[n] /\ curall_connection[n] < MaxConn[n]

\* accept_client_cb with an empty pool; now % slave_num picks the node.
TryIncrease(m, n) ==
  /\ loop = NoLoop /\ ~my_pool_have_conn /\ MayGrow(n)
  /\ my_conn_alloc(m, n)
  /\ make_my_conn(m, n)
  /\ UNCHANGED <<indet, nodeFlags, loop>>

my_unreg(n) ==
  /\ loop = NoLoop /\ ~closing[n]
  /\ closing' = [closing EXCEPT ![n] = TRUE]
  /\ UNCHANGED <<list, node, conn, cb, open, idle, avail_count, counters,
                 role, loop, faults>>

\* Thirty seconds pass without a client using m.
Age(m) ==
  /\ loop = NoLoop /\ m \notin idle
  /\ \E n \in Node : On(m, n, "avail") \/ On(m, n, "ping")
  /\ idle' = idle \cup {m}
  /\ UNCHANGED <<list, node, conn, cb, open, avail_count, counters,
                 nodeFlags, loop, faults>>

-----------------------------------------------------------------------------
Boot == RegDone \/ RegFail \/ \E m \in My : RegConnect(m)

Timers ==
  \/ \E fn \in RetryKind \cup {"ping", "cleanup"} : StartLoop(fn)
  \/ \E m \in My : Retry(m) \/ PingPrepare(m) \/ PingRelease(m) \/ Cleanup(m)
  \/ RetryNextNode \/ PingNextNode \/ CleanupDone \/ CleanupSkip
  \/ \E m \in My, n \in Node : PingTimeout(m, n)

Callbacks ==
  \E m \in My : HsStage(m) \/ HsDone(m) \/ HsFail(m)
                \/ PingReq(m) \/ PingResp(m) \/ PingFail(m)

Sessions ==
  \E m \in My : \/ \E c \in Client, n \in Node : SlaveConnGet(c, m, n)
                \/ \E h \in SessionCb \cup {"none"} : SessionHandler(m, h)
                \/ Put(m) \/ Close(m)
                \/ \E n \in Node : TryIncrease(m, n)

Next == Boot \/ Timers \/ Callbacks \/ Sessions
        \/ (\E n \in Node : my_unreg(n)) \/ (\E m \in My : Age(m))

Spec == Init /\ [][Next]_vars

\* The event loop runs every loop to its end and every timer again and again;
\* a server that accepted a connection or a request answers, or its socket
\* fails (the code itself has no handshake timeout); time passes.  The actions
\* are disabled while a timer runs: hence strong fairness.
LoopStep == loop # NoLoop /\ Next
Fairness ==
  /\ WF_vars(LoopStep)
  /\ \A fn \in RetryKind \cup {"ping"} : SF_vars(StartLoop(fn))
  /\ \A m \in My : /\ SF_vars(HsStage(m) \/ HsDone(m) \/ HsFail(m))
                    /\ SF_vars(PingReq(m) \/ PingResp(m) \/ PingFail(m))
                    /\ SF_vars(Age(m))
FairSpec == Spec /\ Fairness

-----------------------------------------------------------------------------
(* Properties.                                                             *)

Allocated(n) == {m \in My : node[m] = n}
Handshaking(n) == {m \in Allocated(n) : cb[m] \in HsCb}

\* The values of the variables, as the C types of my_conn_t and my_node_t.
TypeOK ==
  /\ list \in [Lists -> Seq(My)]
  /\ node \in [My -> Node \cup {NULL}]
  /\ conn \in [My -> Client \cup {NULL}]
  /\ cb \in [My -> HsCb \cup PingCb \cup SessionCb \cup {"none"}]
  /\ open \subseteq My /\ idle \subseteq My
  /\ avail_count \in [Node -> 0 .. CountMod - 1]
  /\ curall_connection \in [Node -> Int]
  /\ cur_connecting_cnt \in [Node -> 0 .. CountMod - 1]
  /\ indet \in [Node -> 0 .. CountMod - 1]
  /\ closing \in [Node -> BOOLEAN] /\ role \in [Node -> {0, 1}]
  /\ loop \in [fn : LoopName, node : Node, cnt : Nat]
  /\ faults \in Nat

\* Where a page may be, seen from the page.
OnSomeList(m) == \E k \in ListName : On(m, node[m], k)
Placed(m) ==
  /\ \A n \in Node, k \in ListName : On(m, n, k) => node[m] = n
  /\ node[m] # NULL => (cb[m] \in HsCb <=> ~OnSomeList(m))

\* A connection the pool has allocated is never lost and never counted twice:
\* it is at one place of one list of its own node, or its handshake is under
\* way and then it is on no list (my_pool.c:740, 772, 1014 unlink it first).
OnceOnly ==
  \A x, y \in Lists : \A i \in DOMAIN list[x], j \in DOMAIN list[y] :
    list[x][i] = list[y][j] => x = y /\ i = j
NothingLost == OnceOnly /\ \A m \in My : Placed(m)

\* What my_slave_conn_get hands out is an open connection nobody owns and no
\* callback watches; what a reconnect timer takes is closed and unwatched; the
\* callback of a connection is one its list calls for; and a free page is
\* referenced by nothing.
Unwatched(m) == cb[m] = "none" /\ conn[m] = NULL
FitsList(m) ==
  /\ \A n \in Node :
       /\ On(m, n, "avail") => m \in open /\ Unwatched(m)
       /\ On(m, n, "dead") \/ On(m, n, "fail") => m \notin open /\ Unwatched(m)
       /\ On(m, n, "ping") => m \in open /\ cb[m] \in PingCb /\ conn[m] = NULL
       /\ On(m, n, "used") => m \in open /\ cb[m] \in SessionCb \cup {"none"}
  /\ cb[m] \in HsCb => m \in open /\ conn[m] = NULL
  /\ node[m] = NULL => m \notin open /\ Unwatched(m)
ReadyWhenAvail == \A m \in My : FitsList(m)

\* The used list holds exactly the connections a session owns, so the cleanup
\* (my_pool.c:966) never follows a NULL my->conn; and two sessions never share
\* a connection nor one session two (conn_pool.c:298).
Owned(m) == conn[m] # NULL <=> \E n \in Node : On(m, n, "used")
OneEach == \A m, o \in My : conn[m] = conn[o] /\ conn[m] # NULL => m = o
OwnedIffUsed == OneEach /\ \A m \in My : Owned(m)

\* cur_connecting_cnt counts the handshakes under way, from whatever value
\* the malloc'ed node held: every way out of a handshake counts once.
ConnectingExact ==
  \A n \in Node : cur_connecting_cnt[n] =
                  (indet[n] + Cardinality(Handshaking(n))) % CountMod

\* curall_connection counts the allocated connections of the node, whatever
\* their state; growth stops at max_connection and the ping timer stops
\* releasing at min_connection.
CapacityOK ==
  \A n \in Node :
    /\ curall_connection[n] = Cardinality(Allocated(n))
    /\ curall_connection[n] <= MinConn[n] \/ curall_connection[n] <= MaxConn[n]
    /\ role[n] = 1 /\ ~closing[n] => curall_connection[n] >= MinConn[n]

\* Once the cleanup of a closing node is over, none of its connections serves a
\* session, is pinged or waits for a timer that skips closing nodes, and none
\* ever will again: only a handshake that was under way can still arrive.
Deserted(n) == \A k \in {"used", "ping", "dead"} : list[<<n, k>>] = <<>>
CleanedStaysClean ==
  [][\A n \in Node :
       \/ role[n] = 1 /\ role'[n] = 0
       \/ closing[n] /\ role[n] = 0 /\ Deserted(n)
       => Deserted(n)']_vars

\* A connection is given back to the system only by the cleanup of its node, or
\* by the ping timer while it is available, unused for long and not needed for
\* min_connection: never under a session, never while it is being checked.
ReleaseIsSafe ==
  [][\A m \in My : node[m] # NULL /\ node'[m] = NULL =>
       \/ closing[node[m]]
       \/ /\ On(m, node[m], "avail") /\ m \in idle
          /\ curall_connection[node[m]] > MinConn[node[m]]]_vars

\* A connection that failed or died is connected again and becomes available,
\* however often it has to wait behind others, unless its node is unregistered.
Recovers ==
  \A m \in My, n \in Node :
    On(m, n, "dead") \/ On(m, n, "fail") ~> On(m, n, "avail") \/ closing[n]

\* When the clients are gone the pool shrinks to min_connection: pings do not
\* keep a surplus connection alive (my_ops.c:1348).
Quiet == \A m \in My : conn[m] = NULL /\ cb[m] \notin HsCb
ShrinksToMin ==
  <>[]Quiet => <>[](\A n \in Node : closing[n] \/ curall_connection[n] <= MinConn[n])

-----------------------------------------------------------------------------
(* What comments of the source say and the code does not keep.             *)

\* my_pool.c:1066: my_pool_have_conn says whether a connection is available;
\* accept_client_cb accepts a client, or adds a connection, by this answer.
HaveConnTrue ==
  loop = NoLoop => (my_pool_have_conn <=> \E n \in Node : list[<<n, "avail">>] # <<>>)

\* my_pool.h:60: cur_connecting_cnt is the number of connections being made.
ConnectingCountTrue ==
  \A n \in Node : cur_connecting_cnt[n] = Cardinality(Handshaking(n))

\* my_ops.c:1348: a pinged connection goes to the end of the queue.
PingedToTail ==
  [][\A m \in My : cb[m] = "ping_resp" /\ cb'[m] = "none" /\ m \in open'
       => m = Last(list'[<<node[m], "avail">>])]_vars

-----------------------------------------------------------------------------
(* The pool keeps the promise stated in ConnLease.                         *)

StatusOf(m) == IF node[m] = NULL THEN "absent"
               ELSE IF conn[m] # NULL THEN conn[m]
               ELSE IF On(m, node[m], "avail") THEN "ready"
               ELSE "pool"
LeaseStatus == [m \in My |-> StatusOf(m)]

Lease == INSTANCE ConnLease WITH status <- LeaseStatus

\* Refinement: a session gets only a connected and idle connection, gets one at
\* most, and a connection goes from one session to the next through the pool.
ImplementsLease == Lease!LeaseSpec
=============================================================================
