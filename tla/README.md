# myrelay in TLA+

myrelay is a relay between MySQL clients and MySQL servers.  It keeps a pool of
logged-in connections to the servers, leases one of them to each client that
connects, logs the client in itself, and passes commands and answers between
the two sockets.  It is one process with one thread: an epoll loop
(`src/work.c:143`) calls one callback per ready socket, then the timers that
are due.  What can go wrong is therefore not a data race but an order of
callbacks: each callback leaves a state, two registered callbacks, a list and
some counters behind, and every other callback relies on them.

This directory holds TLA+ modules translated from the C code, the TLC
configurations that check them on small instances, and proofs of the main
properties for every size of the system.

## 1. Inventory of the system

| Part | Code | State it keeps | Operations | Hard behaviour |
|---|---|---|---|---|
| MySQL connection pool | `my_pool.c/.h` | per node (server) five lists `used`, `avail`, `dead`, `fail`, `ping`; `avail_count`, `curall_connection`, `cur_connecting_cnt`; `closing`, `role`; per connection its node, session, socket | registration, `my_slave_conn_get`, `my_conn_put`, the three closes, growth, unregistration; timers for dead, fail, ping, ping timeout and cleanup | a connection is on no list during its handshake; timers and sessions compete for `avail`; counters must survive every error path; cleanup of a closing node while its connections are in use |
| Handshake and ping | `my_ops.c:65-245, 1282-1357` | the callback registered on the MySQL socket; what the server told (`my_info_t`) | three stages of login; ping request and response; error path of each | every way out must restore list, counter and callback |
| Client session | `my_ops.c:312-1242`, `conn_pool.c/.h`, `cli_pool.c` | `state`, `c->my`, callbacks of both sockets, current database, five timeout lists | accept, login, read a command, answer it locally or forward it, change database, pass on the answer, five timeouts, two closes | either socket or a timer may speak at any point of an exchange |
| Session context | `my_ops.c:570-669, 1119-1242`, `my->ctx`, `my->setnamesql` | copies of what the server keeps for a connection | change of database, SET NAMES left out when already sent | copies outlive the session |
| Accepting clients | `work.c:169-219` | none of its own | `accept_client_cb`: open a session and lease a connection, or start one | decides by `avail_count`; pools may be empty |
| Configuration reload | `work.c:usr1_reload`, `my_conf.c` | two lists of servers | parse, unregister, register; a slot is taken again | stragglers of the old server meet the new one; files that cannot be parsed |
| Event loop | `oplib/src/handler.c` | slot of the file descriptor: callback and argument | `add_handler`, `del_handler`, delivery of a batch | a socket closed and its descriptor reused inside a batch |
| Timers | `oplib/src/timer.c` | list of timers | register, run those that are due | none beyond their interleaving with callbacks |
| Lists | `oplib/include/list.h` | pointers | `list_del_init`, `list_move`, `list_move_tail` | a page must be on one list only |
| Page allocator | `oplib/src/genpool.c` | chunks on three lists, pages on two per chunk, two counters | allocate, release, grow, give back, destroy | limits, failing `malloc`, release into a full chunk |
| Packet buffers | `my_buf.c`, `my_ops.c:847-966` | a growing buffer, its size, fill and position | read, write, grow, rewind, reset | packets that arrive and leave in parts |
| MySQL protocol | `my_protocol.c/.h`, `mysql_com.h`, `passwd.c` | none | make and parse packets, scramble | fields in the order of the other side; lengths of names |
| SQL log, start and signals, utilities | `sqldump.c`, `main.c`, `oplib` | none that others depend on | formatting, thin wrappers | none |

How they interact.  `accept_client_cb` opens a session and asks the pool for a
connection.  The session registers callbacks on both sockets through
`handler.c`; the pool does the same for connections without a session
(handshake and ping).  `c->my` and `my->conn` point at each other.  Timers of
the pool close connections and, in the cleanup, sessions; timers of
`conn_pool.c` close sessions.  A session ends with `conn_close`, which puts its
connection back, or with `conn_close_with_my`, which closes it.  All pages come
from `genpool.c`.

What makes each part correct:

- pool: a connection is at one place; what is available is connected, unowned
  and unwatched; a lease is exclusive; counters agree with the lists; capacity
  stays between `min_connection` and `max_connection`; failed connections come
  back; surplus ones go; a cleaned node stays deserted;
- session: pointers agree on both sides of every close; the two registered
  callbacks are the ones the state calls for; a command runs in the database
  its client chose, whoever had the connection before; nobody stays in a state
  for ever;
- reload: between reloads the servers of the list are served, each by one slot,
  and no others;
- event loop: an event reaches the owner of the socket, now;
- allocator: a page has one owner and lies in memory the pool keeps;
- buffers: every byte is passed on once, commands whole;
- login: who knows the password gets in, and nobody else.

The hazards, each at its line of code with the properties that cover it, are
listed in `PROJECT.json`.

## 2. Modules

| Module | Models |
|---|---|
| `ConnLease` | abstract: what the pool promises to sessions, without lists, counters, callbacks or timers |
| `MyPool` | `my_pool.c` and the handshake and ping callbacks of `my_ops.c`; implements `ConnLease` |
| `Relay` | the sessions on top of `MyPool`: client and MySQL callbacks, timeouts, closes, and the wire to the server |
| `MyConf`, `Reload` | the list of servers a file gives; `usr1_reload` and slots taken again, on top of `MyPool` |
| `SessionCtx` | what a connection remembers from one session to the next, on top of `ConnLease` |
| `ConnPool` | opening and closing of sessions, the timeout lists of `conn_pool.c` and the timers |
| `EventLoop` | `handler.c`: the table, the epoll instance, batches |
| `PageSet` | abstract: a set of pages with holders |
| `GenPool` | `genpool.c`; implements `PageSet` |
| `Protocol`, `Login` | packets as sequences of fields; the relay's login at a server and the client's at the relay |
| `PktBuf` | `my_buf.c` and the reads and writes that fill and empty a buffer |
| `MC...` | values of the constants for TLC, symmetry: one module per module with runs |
| `Lists` | sequences with elements taken out (`list_del_init` on a list, the servers of a list that are not in another), with lemmas on what they keep |
| `MyPool_proofs` | the inductive invariant of the pool; releases and the refinement of `ConnLease`; counters, capacity and cleaned nodes |
| `Relay_proofs`, `Reload_proofs` | the compositions: sessions on the pool, with pointers and callbacks; slots and the servers they serve |
| `ConnPool_proofs`, `SessionCtx_proofs` | timeout lists and timers; the copies of the server's state |
| `Oplib_proofs` | `GenPool` (invariants, refinement of `PageSet`) and `EventLoop` |
| `Packets_proofs` | `PktBuf` and `Login` |

Definitions with a comment "Variant with a bug" are the form a plausible
mistake would give to the definition after them.  No specification uses them;
put in the place of that definition they make a property fail (`PROJECT.json`,
"mutants").

### MyPool

State.  `list[<<n, k>>]` is list `k` of node `n` as a sequence of connections
(pages of the genpool); `node[m]` is `my->node`, `NULL` for a free page;
`conn[m]` is `my->conn`; `cb[m]` is the callback registered for `my->fd`;
`open` is the set of pages whose socket is open.  The counters and flags of
`my_node_t` keep their names.  `loop` is the loop of a timer (or of
registration) under way: such a loop is several actions, one per iteration, and
no callback runs until it is over.  That is how the code runs, and it lets TLC
see the states between iterations.

Actions.  One for each callback, timer iteration or entry point: `RegConnect`,
`RegDone`, `RegFail` (`_my_reg`, `my_slave_reg`), `Retry` (dead and fail
timers), `PingPrepare`, `PingRelease` (ping timer), `PingTimeout`, `Cleanup`,
`CleanupDone`, `CleanupSkip`, `HsStage`, `HsDone`, `HsFail`, `PingReq`,
`PingResp`, `PingFail`, and what sessions call: `SlaveConnGet`,
`SessionHandler`, `Put`, `Close`, `TryIncrease`, `my_unreg`.  The setters of
lists and the closes are operators of the same name as in the code, so an
action reads as the calls it makes.

Abstractions.

- Time: `lastused_time` is the set `idle` (unused for 30 s; `Age` puts a
  connection in it).  A timer may start whenever no callback runs.
  `closing_time` is nondeterministic: `CleanupSkip` is the case where the delay
  of a closing node is not over yet.
- The hash of the client's address that picks a node (`my_slave_conn_get`) and
  `now % slave_num` (`my_try_increase_connection`) pick any node.
- Packets have no contents, and a partial read or write is no step, except in
  `Relay` where it matters.
- `epoll_ctl` and `malloc` succeed; `genpool_alloc_page` may fail (`RegFail`),
  and the number of pages is the constant `My`.
- Failures (connect, handshake, ping, exchange) happen at any point, at most
  `MaxFault` times: `MaxFault` is the bound of the model.
- `avail_count` and `cur_connecting_cnt` are `unsigned int`: they wrap at
  `CountMod`.  `cur_connecting_cnt` is read uninitialised; it starts with any
  value of `IndetCnt`, and `indet` remembers which.
- `ctx.dirty` is set nowhere in the code, so `my_conn_put` never closes.  The
  `raw` list of a node is initialised and never used; it is left out.
- Nodes are registered at boot only (`Reload` adds the rest).  `RegAssumption`
  (there are pages for all nodes but the last) keeps registration within what
  boot can do without taking a slot twice.
- A client that is accepted when no connection is available is dropped at once
  (`cli_hs_stage1_prepare` fails): the step changes nothing and is no action.

### Relay

Adds `state[c]`, `my[c]`, the callback `ch[c]` of the client socket, and the
server's side of the wire: `owed[m]`, the responses the server still owes (or
that nobody has read yet), at most `MaxOwed`, and `part`, the connections with
a request written in part.  A step of a session is a step of `MyPool`
(`SlaveConnGet`, `SessionHandler`, `Put`, `Close`) together with what the
callback does to the session.  Every wire property rests on one fact of
`cli_query_cb` (`my_ops.c:556`): a client that is heard while an answer is
awaited takes the callback of the MySQL socket away.

Login (`CliHs`) goes through three stages; the password may be wrong.  A
command is `CliIgnored` (answered by the relay), or `CliForward`, after a
change of database or not.  `MyAnswerEof` is the case where the server has
closed: `read` returns 0, which `my_real_read_result_set` does not take for an
error, and the session goes on with an empty answer (`answer0`) until it times
out. `CliClose`, `Timeout` and `MyClose` are the ends of a session.

### MyConf and Reload

`MyConf` says what `mysql_conf_parse` makes of a file: a sequence of lines,
each a record of its first word, the number of words `sscanf` converts and the
server it names. A last line without newline is not looked at, and any line
that is no server makes the list empty.

`Reload` makes the nodes of `MyPool` the slots of `mypool->slave`.  `cur` is
`myconf_cur`, `todo` what the boot or the reload under way has still to
register, `host[n]` the server a slot was registered for last, `to[m]` the
server a socket is connected to (different after the slot was taken again).
`missed` remembers servers for which no slot or no page was found, and
`accepted` the last file that was no error; both are used by the properties
only.  The first file may be empty, missing or refused as any other: `work()`
logs it and goes on without a server (`work.c:117`).  Its servers are
registered by the same steps as those of a reload.  `my_node_init` forgets the
pages left on the lists of a slot (they were connected when registration failed
half way, or their handshake outlived the cleanup) and the counters but
`cur_connecting_cnt`.  `NothingLost` is therefore no property of the
composition.  A forgotten page still has links to the head of its old list;
when it is unlinked (a session or a ping ends), the model leaves the new
contents of that list alone.  The pool goes on between reloads (`PoolStep`),
not during one: `usr1_reload` runs to its end.  The properties compare with
`Listed(accepted)`, the servers on the lines of that file, and not with what
the parser made of it.

`FileAssumption` says that a file names a server once.  The parser does not
check it, and a server named twice would be served by two slots; the properties
are about the other files.  `Without` (`Lists`) takes the servers of one list
out of another: those that stay keep their order.

### SessionCtx

The lease is that of `ConnLease`; on top of it `curdb[c]` is what the client
asked for, `ctx[m]` the copies (`my->ctx.curdb`, `my->setnamesql`), `server[m]`
what the server has, `sent[m]` the SET NAMES written on this socket.  The
actions are the branches of `cli_query_cb` and the callbacks of the exchange.
A server may refuse any change of database; the relay has told the client of a
COM_INIT_DB that all is well (`my_ops.c:597`) and takes any answer to the later
change for success (`my_ops.c:1211`).  A session may end at any point of an
exchange, and `conn_close` puts its connection back as it is.

What the relay does not notice of this is remembered in `astray[m]`, which only
the properties read: the server refused a change of database (`"refused"`), a
`USE` in the text of a query made one (`"text"`), a session ended before the
answer to its change (`"abandoned"`), before its SET NAMES was written
(`"unsent"`), or with half a command written (`"torn"`; what follows half a
command may mean anything to the server).  The next change of database that the
server takes makes up for the first three, the next SET NAMES that is
remembered and written for the fourth, a new socket for all.  `CtxTrue`,
`QueryInDb` and `NamesWereSent` say what holds at all other times, with all of
this going on around them.  That each of the first four does harm by itself is
a counterexample (section 3); that half a command does needs none.

### ConnPool

`link[s]` is the timeout list of a state, `age[c]` the time since
`c->state_time`: ages are kept as distances to now, told apart up to the
longest timeout, so the clock needs no bound.  The clock is taken to be
monotone.  The five timers have the same interval, are due together and run in
one step, as in one call of `timer()`; each closes at most `MaxConns` sessions
of its list and stops at the first young one.  Which state follows which
(`Follows`) is read off the calls of `my_ops.c`; when it follows is `Relay`'s
matter.  `down` is set when the code follows a `NULL` session (`work.c:211`),
and the model stops there.

### EventLoop

`owner[fd]` is whose socket is open, `hcptr` the table, `interest` what the
kernel watches, `events` the rest of a batch (with what the entry held when it
was reported, which only a faulty variant looks at).  Descriptors are given out
lowest first, as by `accept` and `socket`.  A callback or a timer closes and
opens any sockets, with `del_handler` before the close, as `cli_conn_close` and
`my_conn_close` do.  `epoll_ctl` may fail. `Illegal` is the macro `fd_is_legal`
as the compiler reads its negation.

### GenPool and PageSet

A list is a set: any chunk or page it holds may be the next one taken.
`holders` counts who holds a page, for the properties.  `malloc` may fail at
any call and may return the address of a chunk that was freed.  `PageSet` knows
neither chunks nor counters.

### Protocol and Login

A packet is the sequence of its fields, so a `parse_*` that reads them in
another order than its `make_*`, or one that is not there, gets the wrong ones.
Names have a length, because arrays cut them; the scramble is the pair of
message and password; capabilities are a set of flags in two halves.
`parse_login` reads the database whether it is there or not: what the buffer
held is `Stale`.  It copies names into arrays of 128 without looking at their
length (`my_protocol.c:318`): a client's names are taken to fit (`ClientLogs`),
and what a longer one does is not modelled.  Servers and clients are external:
they know one password and announce capabilities.  The flag for SSL is among
those the relay sends back (`my_ops.c:54, 116`): a server that announced it
waits for TLS and hangs up in the end, and the packet of a client that took the
relay at its word ends before the name, so the client is refused.

### PktBuf

Bytes are counted, not named: each read and write may take any part of what is
there.  Clients may send before they have their answer; `patient` remembers
whether this one ever did.  The session ends when the end of a stream is read,
when `read` or `write` fails at a socket whose other side has closed
(`my_ops.c:699, 803`), and when the client is heard while its command is being
written (`CliHeardWriting`, `my_ops.c:550`).  Commands are those the relay
forwards, and memory does not run out.  `LenAssumption` excludes packets
without payload, for which `parse_com` computes a length of -1 (see the
hazards).  One session and its connection; a server that answers some bytes to
each whole command.

## 3. What the runs check

Properties that hold:

| Run | Instance | Properties |
|---|---|---|
| `core` | `MyPool`: 2 nodes that want 2 connections each, of 3 pages; 2 sessions; 1 failure | `TypeOK`, `NothingLost`, `ReadyWhenAvail`, `OwnedIffUsed`, `ConnectingExact`, `CapacityOK`, `ImplementsLease`, `CleanedStaysClean` |
| `live` | `MyPool`: 1 node (min 1, max 2), 1 session, 2 failures, fairness | `Recovers`, `ShrinksToMin`, `ReleaseIsSafe` |
| `sessions` | `Relay`: 1 node, 2 connections, 2 sessions, 1 failure, 2 owed responses | `RelayTypeOK`, `PointersAgree`, `CallbacksFitState` |
| `reload` | `Reload`: 2 slots that want 2 connections and 1, 3 pages, boot and 2 reloads with any of 7 files, `cur_connecting_cnt` starting at 7 of 0..7 | `ListServed`, `OneSlotEach`, `ConnectingExact` |
| `context` | `SessionCtx`: 1 connection, 2 sessions in turn, 3 databases, 2 character sets | `CtxTrue`, `NamesWereSent`, `QueryInDb` |
| `timeouts` | `ConnPool`: 3 sessions, 2 client pages, timeouts of 1 and 2, one close per tick, fairness | `ConnTypeOK`, `ListOfState`, `TimeoutExact`, `NoneStuck` |
| `batch` | `EventLoop`: 4 descriptors, 4 entries, batches of 3, 4 owners | `EventTypeOK`, `TableExact`, `CallsOwner` |
| `pages` | `GenPool`: 4 addresses, 3 pages per chunk, 3 chunks allowed, 2 kept free | `CountersExact`, `ChunksFit`, `HeldIsBacked`, `ImplementsPageSet` |
| `logins` | `Login`: 4 servers, one old, one with another password, one with SSL; 3 users, 3 passwords, databases of length 0, 5, 64 and 128 | `LoginTypeOK`, `ServerLogsIn`, `NoDatabaseAtLogin`, `AnnouncedTrue`, `ClientVerified` |
| `bytes` | `PktBuf`: header 2, buffer 4, packets of 3, 4 and 6, answers of 1 and 5, 3 packets, clients that wait and that do not, fairness | `BufTypeOK`, `BytesKept`, `ClosedForCause`, `Delivered` |

Why the bounds are enough.

- `core`: three pages are the least number for which two nodes compete for the
  last one and a list has more than one connection; registration runs out of
  pages, so a node is left without role and below `min_connection`; two
  sessions can be served while a third connection is checked, reconnected or
  cleaned up.  `MaxInflight = 0` makes the limit of growth bite. With two
  connections wanted of each node nothing is ever surplus here: that is
  `live`'s.
- `live` has no symmetry (it would be unsound for liveness) and two
  connections: one can be behind the other on every list, and one is surplus.
  `PingBatch = 1` makes the ping timer stop in the middle of a list.  Two
  failures let a reconnected connection fail again.
- `sessions`: a connection can pass from one session to the other with an
  answer outstanding.
- `reload`: two slots and files with one, two, no and unreadable servers make a
  server leave while its slot is closing, slots run out and slots be taken
  again under handshakes; three pages for connections of three uses of the
  slots.  Slot 0 wants two connections: its registration can fail half way and
  leave a page behind.  A list may be refused or empty at any of the three
  times.  The initial counter of 7 wraps with the first handshake.
- `context`: every value has another one it can be mistaken for, and the
  connection another session.  Connections share nothing but sessions, and a
  session starts with nothing of the one before it, so one connection shows
  what is passed on; the theorems are for any number.  The third database lets
  a change be refused on a connection that is astray already.
- `timeouts`: with one close per tick and three sessions, one always waits
  behind another; a long and a short timeout keep the lists apart; the pools
  run out separately.
- `batch`: with four descriptors and batches of three, an event of the batch
  may be of a socket closed, closed and reopened by another owner, or reopened
  and registered, before it is delivered.
- `pages`: three chunks may be full, used and free at once, and a fourth
  address lets freed memory come back.
- `logins`: names at, below and above the length of `c->curdb`, and names that
  do not fit a login, which only a COM_INIT_DB may have; a server whose
  password differs; capabilities of both halves, SSL announced or not.
- `bytes`: packets below, at, above and far above the buffer's length, so a
  buffer grows while it is full and is grown already; every cut of every
  packet.

Deadlock is checked in every run but these, whose systems may stop: `ConnPool`
(the process has followed `NULL`), `GenPool` (the pool is destroyed), `PktBuf`
(the session is closed).

Statements of the source that the code does not keep, as runs:

| Run | Statement | What happens |
|---|---|---|
| `have_conn` | `my_pool.c:1066`: `my_pool_have_conn` says whether a connection is available | `my_conn_set_dead` and `my_conn_set_fail` count `avail_count` down for connections that were not available, for a failed one twice; the unsigned counter wraps and the answer is yes with nothing available (the client is accepted and dropped), or is 0 with connections available |
| `avail_idle` | `my_pool.h:45`: available connections are idle | a session that ends in the middle of an exchange (the client speaks or closes, a timeout) puts its connection back with a response outstanding |

More of them are kept as configurations that are run by hand (`tlc -config
MCGenPool_room.cfg MCGenPool`).  Each ends in a counterexample:

| Configuration | Property | Statement | What happens |
|---|---|---|---|
| `MCMyPool_indet` | `ConnectingCountTrue` | `my_pool.h:60`: number of connections being made | never initialised in memory from `malloc`; a large value stops growth of the node for ever |
| `MCMyPool_ping_tail` | `PingedToTail` | `my_ops.c:1348`: pinged connections go to the end | they go to the head |
| `MCGenPool_room` | `RoomMeansPage` | `genpool.c:133`: `genpool_init` takes the maximum of pages | pages released into a full chunk are not found again before all of its pages are released: `NULL` with pages free |
| `MCSessionCtx_use_refused` | `UseTaken` | `my_ops.c:647`: what follows is done when the change of database is complete | the server refuses it, nobody looks at its answer, and the query is executed in the database before, or in none |
| `MCSessionCtx_use_text` | `TextSeen` | `my_ops.c:640`: the databases are compared | a `USE` inside a query changes the server's database only |
| `MCSessionCtx_prepare` | `CommandInDb` | `my_ops.c:599`: the database is looked at when a query comes | other commands that depend on it (prepare, field list) go out without the comparison |
| `MCSessionCtx_names` | `NamesAsTold` | `my_ops.c:652`: SET NAMES is left out when the connection has that character set | a SET NAMES that needs a change of database first is not remembered, and a later one of the name remembered before is left out |
| `MCSessionCtx_unsent` | `NamesKept` | `my_pool.h:26`: remembered so as not to be sent several times | remembered before it is written; the session may end in between |
| `MCSessionCtx_use_abandoned` | `GivenUpSeen` | `my_ops.c:640` | a session that ends between its change of database and the answer leaves the old name in the copy |
| `MCReload_straggler` | `OfThisMachine` | `my_pool.h:51`: the connections of this machine | a handshake that outlives the cleanup of its slot becomes available for the server that took the slot |
| `MCReload_shipped_conf` | `FileServed` | `conf/mysql.conf:1`: the form of a line | the parser wants seven words and the role slave; the file has six and a master, and is refused |
| `MCConnPool_accept_null` | `AllocFailHandled` | `work.c:206`: the connection is closed when none can be allocated | the handshake of the `NULL` session is prepared next |
| `MCEventLoop_fd_limit` | `LimitKept` | `handler.c:83`: a descriptor beyond the limit is refused | the macro has no parentheses; only negative ones are refused |
| `MCLogin_no_db` | `DatabaseHeard` | `mysql_com.h:132`: a database is given with its flag | what follows the scramble is taken for it in any case: the name of the password plugin, or old bytes |
| `MCLogin_long_name` | `NameWhole` | `mysql_com.h:25`: names of 64 characters | the 64th is lost in an array of 64 |
| `MCPktBuf_pipelined` | `OneCommand` | `my_ops.c:570`: one whole packet has been read | what came with it is written to the server too and never looked at |

## 4. Fairness

`FairSpec` (`MyPool`) assumes of the program only what its loop does:

- weak fairness of `LoopStep`: a timer's loop, once begun, is run to its end;
- strong fairness of the start of the dead, fail and ping timers: they are
  periodic, and the loop returns to them after each batch of events.  Strong,
  because in the model they are disabled while another timer's loop is under
  way.

and of the environment:

- strong fairness of each connection's handshake and ping: the server answers
  or the socket fails.  The code has no timeout for a handshake, so a silent
  server with an open socket would hold the connection for ever; this is listed
  as a hazard that no property covers;
- strong fairness of `Age`: time passes.

Sessions, growth, unregistration and the cleanup have no fairness: no liveness
property may rely on a client.  Failures are finite (`MaxFault`): `Recovers`
says that a connection comes back once failures stop.

`ConnFairSpec` (`ConnPool`) assumes weak fairness of `timer`, which the main
loop calls after every `epoll_wait` of a second at most, and of the clock.
Clients and servers may do nothing, or change state as often as they like.

`BufFairSpec` (`PktBuf`) assumes weak fairness of each read and write: a socket
that can be read or written is, as level-triggered epoll reports it again.
That the peer takes what is written is part of it.  Nothing makes the loop hear
a client in the middle of its command, and nothing makes a socket fail:
`Delivered` is about clients that wait for their answers, and allows for either
side to hang up.

## 5. What is proved

The theorems hold for every value of the constants that meets the named
assumptions of the modules:

- `MyAssumption` (finitely many pages; `NULL` is none of the other values),
  `NodeAssumption` and `BoundAssumption` (natural numbers), `CbAssumption` (a
  session's callbacks are not those of a handshake or a ping),
  `ClientAssumption` (a session is not one of the words of `ConnLease`), for
  the pool; any initial `cur_connecting_cnt`, counter width and number of
  failures;
- `OwedAssumption`, `SessionCbAssumption` (the callbacks of `Relay` are among
  the session's) for the sessions;
- `ChunkAssumption`, `SizeAssumption` (at least one page per chunk; no more
  chunks are preallocated than may be kept) for the allocator;
- `FdAssumption`, `ArgAssumption` and `NumFd <= hccount` for the event loop:
  the last is the condition the macro fails to check, stated in the theorems;
- `DbAssumption`, `SessionAssumption`, `CharsetAssumption` for the session
  context: the empty name is no database, a session is not one of the words of
  `ConnLease`, the character set of the login is not one of those asked for.
  Nothing is assumed of clients, servers or the ends of sessions;
- `LenAssumption`, `MaxSentAssumption` for the buffer;
- `ReloadAssumption` (natural numbers) and `FileAssumption` (a file names a
  server once) for the reload; nothing of the first file that is not assumed of
  the others;
- `ClientAssumption`, `TimeAssumption` (finitely many sessions, timeouts and
  limits that are natural numbers) for the timeout lists;
- `GreetingAssumption`, `ScramAssumption`, `NameAssumption` (what is greeted,
  scrambled and named are the records of `Protocol`), `StaleAssumption` (what
  the greeting leaves in the buffer is shorter than a name may be) and
  `FlagAssumption` (a capability is in one half) for the logins, whose names
  fit their arrays by the guard of `ClientLogs`.

| Module | Theorem | States |
|---|---|---|
| `MyPool_proofs` | `PlaceCorrect` | `Spec => []PlaceInv`, the inductive invariant |
| | `TypeCorrect`, `NothingLostCorrect`, `ReadyWhenAvailCorrect`, `OwnedIffUsedCorrect` | the four invariants |
| | `ReleaseCorrect` | `ReleaseIsSafe` |
| | `LeaseCorrect` | `Spec => ImplementsLease`: every step of the pool is a step of `ConnLease` or leaves it unchanged |
| | `CleanedCorrect` | `CleanedStaysClean` |
| | `CapacityCorrect` | `[]CapacityOK` |
| | `ConnectingCorrect` | `[]ConnectingExact` |
| `Relay_proofs` | `PoolUnderSessions` | `RelaySpec => Spec`: all of the above holds under the sessions |
| | `RelayTypeCorrect`, `PointersCorrect`, `CallbacksCorrect` | the three invariants of `sessions` |
| `Reload_proofs` | `ReloadInvCorrect` | `ReloadSpec => []ReloadInv`, the inductive invariant |
| | `ListServedCorrect`, `OneSlotEachCorrect`, `ConnectingUnderReload` | the three invariants of `reload` |
| | `SoundCorrect` | `ReloadSpec => []SoundInv`: what is left of `PlaceInv` |
| | `ReadyUnderReload`, `ReleasesUnderReload` | `ReadyWhenAvail` and `ReleaseIsSafe`, when slots are taken again |
| `ConnPool_proofs` | `ConnInvCorrect` | `ConnSpec => []ConnInv`, the inductive invariant |
| | `ConnTypeCorrect`, `ListOfStateCorrect`, `TimeoutExactCorrect` | the safety properties of `timeouts` |
| `SessionCtx_proofs` | `CtxTypeCorrect`, `CtxTrueCorrect`, `NamesWereSentCorrect`, `QueryInDbCorrect` | the three properties of `context`, and types |
| `Oplib_proofs` | `PoolTypeCorrect`, `CountersCorrect`, `ChunksFitCorrect`, `HeldIsBackedCorrect` | the invariants of `pages`, and types |
| | `ImplementsPageSetCorrect` | every step of the allocator is a step of `PageSet` or leaves it unchanged |
| | `EventTypeCorrect`, `TableCorrect`, `CallsOwnerCorrect` | the three properties of `batch` |
| `Packets_proofs` | `BufTypeCorrect`, `BytesKeptCorrect`, `ClosedForCauseCorrect` | the safety properties of `bytes` |
| | `LoginInvCorrect` | `LoginSpec => []LoginInv`, the inductive invariant |
| | `LoginTypeCorrect`, `ServerLogsInCorrect`, `NoDatabaseCorrect`, `AnnouncedCorrect`, `ClientVerifiedCorrect` | the five invariants of `logins` |

The pool.  None of its invariants is inductive alone.  A callback takes the
connection it is called for to be on the list its state names (`HsDone` links a
page that must be on no list; a close unlinks it from the list it is on), and a
timer takes the page it finds on a list to be in the state that list names.
`PlaceInv` is their conjunction: types, `OnceOnly` (lists are disjoint and
without repetition), `OneEach` (a session owns one connection) and, for each
page, `PageInv`: its node, callback, socket and owner fit its place.

The proof goes page by page.  Every action but those that only move a loop or a
flag touches one page `m`: `PageStep(m)` says that the step keeps every other
page (`Only`), the disjointness of the lists, and what `PageInv` says of `m`.
Lemmas about `list_del_init`, `list_move` and `list_move_tail` (`DelInitFacts`,
`MoveFacts`, `MovedOn`, `DeletedOn`), which rest on facts about removal, append
and prepend on sequences without repetition, then give one lemma per helper of
`my_pool.c` (`CloseStep`, `ReleaseStep`, `ConnectStep`, `MoveStep`, `PutStep`,
`CallbackStep`), and each action cites the lemma of the helper it calls.  The
refinement uses the same decomposition: the status of a page is a function of
its place, so each group of actions makes one change of status.

The counters.  `CountInv` adds to `PlaceInv` that `curall_connection[n]` is the
cardinality of the pages of `n` and within its limits, and `RegInv`: how far
registration has come, which is what bounds it from above while it runs and
from below once it is over.  One page changes its node per step, so one
cardinality changes by one.  `cur_connecting_cnt` follows the set of handshakes
in the same way, but modulo `CountMod`: `ModStep` says that adding one and
reducing is the same as reducing and adding one, which rests on the uniqueness
of the quotient (`DivUnique`).

The sessions.  `RelayInv` is `PlaceInv` with `SessionInv`: pointers agree, and
the pair of callbacks of every session fits its state.  `PointersAgree` needs
`OneEach` and the places of pages: the cleanup finds the session to close by
the list, and `conn_close` the connection by the pointer.  Every step of
`Relay` is a step of `MyPool` or leaves the pool as it is, so `PlaceInv` is
cited and not proved again.

The reload.  `ListServed` speaks of the states between reloads; what makes it
true is what holds between the steps of one.  `ReloadInv` says of each slot
that is not closing which server it serves: one of the list that is not still
to be registered (`ServesNamed`), no two slots the same (`ServesOnce`), with
the role `SLAVE` exactly when its registration is over and has not failed
(`RoleExact`), the one being registered among them (`RegServes`); and every
server of the list is served, still to be registered or counted as missed
(`AllServed`).  A reload keeps the slots of the servers both lists name and
closes the others, so the proof needs that a server is once in what `Without`
leaves, and that nothing else is in it.

The pool under the reloads.  `PlaceInv` does not survive `my_node_init`: what
it forgets is on no list and may be available, owned or pinged all the same.
`SoundInv` is what does: a page that is on a list belongs there, and one that a
session owns or that is pinged is connected.  The lemmas of `MyPool_proofs`
about single actions need no more than this, and establish more of the page
they move (all of `PageInv`, whether it was on a list before or not), so they
serve both specifications: `PageStep(m)` keeps `SoundPage(m)`, and `PageInv(m)`
if it was there.

The timeout lists.  A timer looks at a list from its head and stops at the
first session that is young enough.  That this misses nobody needs that the
list is ordered by age, and that needs that a session is at one place of one
list: `ConnInv` is types, `CliOfOpen` (the pool of client pages counts the open
sessions), `ListOfState` and `OldestFirst`.  `ClosesFirst` says that the ones
closed are the first of the list; `TimeoutExact` follows.

Both rest on `Lists`.  A sequence without some of its elements is there a
function (`Picked`: the element at the place of rank `r`) and not `SelectSeq`,
which is recursive: what it computes would need an induction the provers cannot
do.  `RankFacts` says that places and ranks correspond, in order;
`PickedFacts`, `WithoutFacts` and `TailFacts`, that what is left has the same
elements but those taken out, as often and in the same order.

The logins.  `LoginInv` says for each stage what packet is in transit and where
each of its fields came from: the scramble of the server that waits for the
answer, the name and the password of the configuration, the clipped name of a
database.  What clients are told (`info`) is the greeting of one server, whole,
whoever greeted the relay since.  Each theorem about logins reads its fact off
the stage at which a login ends.

The buffers.  `BufInv` adds the types of the counts to `BytesKept`.
`ClosedForCause` needs one more invariant: `RoomLeft`, that a buffer that is
read into has room.  A full one would make `read` return 0, which is what the
end of the stream looks like, and a session would be closed whose client did
neither hang up nor send out of turn.

The others.  `PoolInv` of the allocator is the conjunction of its invariants:
that freed memory holds no page out needs that a free chunk has all its pages,
and that needs the lists of chunks to be disjoint.  `EventInv` is the
conjunction of types and `TableExact`: `Deliver` reads the table as it is now,
so what an event was reported for does not matter. `CtxInv` says for each phase
of the exchange that the copies are true, but for what `astray` tells and for a
SET NAMES that is remembered and not written yet.

Only model-checked: liveness (`Recovers`, `ShrinksToMin`, `NoneStuck`,
`Delivered`), which is out of the prover's reach.  Every other property of the
runs in the first table is a theorem.

## 6. Not modelled, and why

- The SQL log: formatting and output.  The hash of passwords and the encoding
  of integers into bytes: data; what matters of them to a login is which
  message meets which password, and which field is read where.
- `main.c`: the worker processes are dead code (`main.c:96`), and signals set
  flags `work()` reads.
- `dict`, `iprange`, `md5`, `hash` of `oplib`: not used by the relay.
  `sock.c`, `conf.c`, `log.c`: thin wrappers.
- A failing `epoll_ctl` outside `EventLoop`, failures of `accept` and
  `setnonblock`, of `malloc` outside `GenPool`.
- The timer that writes the status of the pool to a file.  The table of timers:
  it is filled once, at boot.
- Pointers of `list.h`: a list is a sequence (or a set, where its order does
  not matter).  The links of a page that `my_node_init` forgot are therefore
  not there either (section 2, `Reload`).
- Logins with names that do not fit the arrays of `parse_login`
  (`my_protocol.c:318`); a failing growth of a buffer (`my_buf.c`).
- Packets without payload (`my_protocol.c:440`): what they do depends on old
  contents of the buffer.

## 7. What is left

1. Failing `epoll_ctl` in the callbacks of `Relay` and in the handshakes of
   `MyPool`: the error paths exist and are those of other failures, but a
   failure between `del_handler` and `add_handler` of the two sockets leaves
   one of them without callback.
2. `SessionCtx` and `PktBuf` composed with `Relay`: today they rest on
   `ConnLease` and on one session.
3. The table of timers with intervals of its own per timer, under `MyPool`.
4. The links of `list.h` as pointers: that a list is a sequence as long as its
   head is not initialised again, and what unlinking a forgotten page does
   after that (`Reload`).
5. Liveness of sessions in `Relay`: an exchange ends or is answered, from the
   timeouts of `ConnPool`.
6. Instances with eleven connections, for which the tail of the available list
   may starve (`my_pool.c:640`).
