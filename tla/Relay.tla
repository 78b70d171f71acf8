------------------------------- MODULE Relay --------------------------------
(***************************************************************************)
(* The sessions of myrelay on top of the pool: the client and MySQL        *)
(* callbacks of my_ops.c, accept_client_cb of work.c, conn_pool.c and      *)
(* cli_pool.c.  A session c pairs a client socket with the connection it   *)
(* leased; both sockets have a callback of their own, and what a callback  *)
(* does depends on the state the other one left behind.                    *)
(*                                                                         *)
(* The server side is a count per connection: the responses the server     *)
(* still owes, or that nobody has read from the socket yet.                *)
(***************************************************************************)
EXTENDS MyPool

CONSTANT MaxOwed  \* bound: responses outstanding on one connection

ASSUME OwedAssumption == MaxOwed \in Nat

VARIABLES
  state,  \* c->state; "closed" when the conn_t page is free
  my,     \* c->my
  ch,     \* callback registered on the client socket
  owed,   \* owed[m]: responses still to be read on connection m
  part    \* connections with a request written in part

sessionVars == <<state, my, ch>>
wireVars == <<owed, part>>
relayVars == <<vars, sessionVars, wireVars>>

MySessionCb == {"use_req", "use_resp", "query", "answer"}
ASSUME SessionCbAssumption == MySessionCb \subseteq SessionCb

State == {"closed", "unavail", "idle", "reading", "prepare", "writing", "answering"}
\* "answer0" is cli_answer_cb with nothing to write: it never finishes.
CliCb == {"none", "hs1", "hs2", "hs3", "auth_fail", "query", "ok", "answer", "answer0"}

RelayInit ==
  /\ Init
  /\ state = [c \in Client |-> "closed"]
  /\ my = [c \in Client |-> NULL]
  /\ ch = [c \in Client |-> "none"]
  /\ owed = [m \in My |-> 0]
  /\ part = {}

Session(c, s, h) ==
  /\ state' = [state EXCEPT ![c] = s]
  /\ ch' = [ch EXCEPT ![c] = h]
  /\ UNCHANGED my

\* A closed socket loses what was in flight on it.
Wire(m, d) ==
  /\ owed' = [o \in My |-> IF o \notin open' THEN 0
                           ELSE IF o = m THEN owed[o] + d ELSE owed[o]]
  /\ part' = (part \ {m}) \cap open'
WireRest == /\ owed' = [o \in My |-> IF o \in open' THEN owed[o] ELSE 0]
            /\ part' = part \cap open'

-----------------------------------------------------------------------------
(* Opening a session: the connection is leased before the client logs in.  *)

Accept(c, m, n) ==
  /\ state[c] = "closed"
  /\ SlaveConnGet(c, m, n)
  /\ state' = [state EXCEPT ![c] = "unavail"]
  /\ my' = [my EXCEPT ![c] = m]
  /\ ch' = [ch EXCEPT ![c] = "hs1"]
  /\ UNCHANGED wireVars

PoolIdle == loop = NoLoop /\ UNCHANGED vars /\ UNCHANGED wireVars

\* cli_hs_stage1_cb, and cli_hs_stage2_cb with a good or a bad password.
CliHs(c) ==
  /\ PoolIdle
  /\ \/ ch[c] = "hs1" /\ Session(c, state[c], "hs2")
     \/ ch[c] = "hs2" /\ \E h \in {"hs3", "auth_fail"} : Session(c, state[c], h)
     \/ ch[c] = "hs3" /\ Session(c, "idle", "query")

\* Variant with a bug: c->my = NULL is forgotten.
SessionEndKeepsMy(c) ==
  /\ state' = [state EXCEPT ![c] = "closed"]
  /\ ch' = [ch EXCEPT ![c] = "none"]
  /\ UNCHANGED my

\* conn_close and conn_close_with_my, the session's own part.
SessionEnd(c) ==
  /\ state' = [state EXCEPT ![c] = "closed"]
  /\ my' = [my EXCEPT ![c] = NULL]
  /\ ch' = [ch EXCEPT ![c] = "none"]

\* conn_close: a client callback fails or sees the end of the stream, the
\* client quits, sends something it should not or is refused, or is heard
\* while its request is being written.
CliClose(c) ==
  /\ state[c] # "closed"
  /\ Put(my[c])
  /\ SessionEnd(c)
  /\ WireRest

\* conn_close by one of the five timers: not during the client's handshake.
Timeout(c) ==
  /\ state[c] \notin {"closed", "unavail"}
  /\ Put(my[c])
  /\ SessionEnd(c)
  /\ WireRest

\* conn_close_with_my: a MySQL callback of the session fails.
MyClose(c) ==
  /\ state[c] # "closed" /\ cb[my[c]] \in MySessionCb
  /\ Close(my[c])
  /\ SessionEnd(c)
  /\ WireRest

-----------------------------------------------------------------------------
(* cli_query_cb.  Heard while an answer is awaited or being passed on, it  *)
(* takes the connection's callback away first (my_ops.c:556).              *)

Hears(c) == ch[c] = "query" /\ state[c] \in {"idle", "reading", "answering"}

\* Variant with a bug: the connection's callback is not taken away.
CliReadPartKeepsCb(c) ==
  /\ Hears(c) /\ state[c] # "reading"
  /\ SessionHandler(my[c], cb[my[c]])
  /\ Session(c, "reading", "query")
  /\ UNCHANGED wireVars

\* Part of a command, or a new one not complete yet.
CliReadPart(c) ==
  /\ Hears(c) /\ state[c] # "reading"
  /\ SessionHandler(my[c], "none")
  /\ Session(c, "reading", "query")
  /\ UNCHANGED wireVars

\* A command the relay answers itself (cli_com_ignored).
CliIgnored(c) ==
  /\ Hears(c)
  /\ SessionHandler(my[c], "none")
  /\ Session(c, "reading", "ok")
  /\ UNCHANGED wireVars

\* A command that goes to MySQL, after a change of database if one is needed.
CliForward(c) ==
  /\ Hears(c)
  /\ \/ SessionHandler(my[c], "use_req") /\ Session(c, "prepare", "query")
     \/ SessionHandler(my[c], "query") /\ Session(c, "writing", "query")
  /\ UNCHANGED wireVars

CliOkWritten(c) ==
  /\ ch[c] = "ok" /\ PoolIdle
  /\ Session(c, "reading", "query")

-----------------------------------------------------------------------------
(* The exchange with MySQL.                                                *)

MyWritePart(c) ==
  /\ state[c] # "closed" /\ cb[my[c]] \in {"use_req", "query"}
  /\ loop = NoLoop
  /\ part' = part \cup {my[c]}
  /\ UNCHANGED <<vars, sessionVars, owed>>

UseDbReq(c) ==
  /\ state[c] = "prepare" /\ cb[my[c]] = "use_req" /\ owed[my[c]] < MaxOwed
  /\ SessionHandler(my[c], "use_resp")
  /\ Wire(my[c], 1)
  /\ UNCHANGED sessionVars

UseDbResp(c) ==
  /\ state[c] = "prepare" /\ cb[my[c]] = "use_resp" /\ owed[my[c]] > 0
  /\ SessionHandler(my[c], "query")
  /\ Session(c, "writing", ch[c])
  /\ Wire(my[c], -1)

MyQuery(c) ==
  /\ state[c] = "writing" /\ cb[my[c]] = "query" /\ owed[my[c]] < MaxOwed
  /\ SessionHandler(my[c], "answer")
  /\ Session(c, "answering", ch[c])
  /\ Wire(my[c], 1)

\* my_answer_cb with the last, or not the last, part of a response.
MyAnswer(c) ==
  /\ state[c] = "answering" /\ cb[my[c]] = "answer" /\ owed[my[c]] > 0
  /\ SessionHandler(my[c], "none")
  /\ Session(c, "answering", "answer")
  /\ \E d \in {-1, 0} : Wire(my[c], d)

\* my_answer_cb when the server has closed: read returns 0, not an error.
MyAnswerEof(c) ==
  /\ state[c] = "answering" /\ cb[my[c]] = "answer"
  /\ SessionHandler(my[c], "none")
  /\ Session(c, "answering", "answer0")
  /\ UNCHANGED wireVars

CliAnswer(c) ==
  /\ ch[c] = "answer"
  /\ SessionHandler(my[c], "answer")
  /\ Session(c, state[c], "query")
  /\ UNCHANGED wireVars

-----------------------------------------------------------------------------
(* Steps of the pool, with what they do to sessions and to the wire.       *)

PingWire(m) ==
  \/ PingReq(m) /\ owed[m] < MaxOwed /\ Wire(m, 1)
  \/ PingResp(m) /\ owed[m] > 0 /\ Wire(m, -1)

CleanupWire(m) ==
  /\ Cleanup(m)
  /\ IF conn[m] = NULL THEN UNCHANGED sessionVars ELSE SessionEnd(conn[m])
  /\ WireRest

PoolAlone ==
  \/ Boot
  \/ \E fn \in RetryKind \cup {"ping", "cleanup"} : StartLoop(fn)
  \/ \E m \in My : Retry(m) \/ PingPrepare(m) \/ PingRelease(m)
                   \/ HsStage(m) \/ HsDone(m) \/ HsFail(m) \/ PingFail(m) \/ Age(m)
  \/ RetryNextNode \/ PingNextNode \/ CleanupDone \/ CleanupSkip
  \/ \E n \in Node : my_unreg(n) \/ \E m \in My : PingTimeout(m, n) \/ TryIncrease(m, n)

RelayNext ==
  \/ \E c \in Client :
       \/ \E m \in My, n \in Node : Accept(c, m, n)
       \/ CliHs(c) \/ CliClose(c) \/ Timeout(c) \/ MyClose(c)
       \/ CliReadPart(c) \/ CliIgnored(c) \/ CliForward(c) \/ CliOkWritten(c)
       \/ MyWritePart(c) \/ UseDbReq(c) \/ UseDbResp(c)
       \/ MyQuery(c) \/ MyAnswer(c) \/ MyAnswerEof(c) \/ CliAnswer(c)
  \/ \E m \in My : PingWire(m) /\ UNCHANGED sessionVars
  \/ \E m \in My : CleanupWire(m)
  \/ PoolAlone /\ UNCHANGED sessionVars /\ WireRest

RelaySpec == RelayInit /\ [][RelayNext]_relayVars

-----------------------------------------------------------------------------
(* Properties.                                                             *)

\* The values of the session and wire variables.
RelayTypeOK ==
  /\ TypeOK
  /\ state \in [Client -> State]
  /\ my \in [Client -> My \cup {NULL}]
  /\ ch \in [Client -> CliCb]
  /\ owed \in [My -> 0 .. MaxOwed] /\ part \subseteq My

\* c->my and my->conn always point at each other, on both sides of every close
\* (conn_pool.c:223, 257; my_pool.c:505, 566, 957): no callback follows a stale
\* pointer to a session or to a connection that somebody else uses now.
PointersAgree ==
  /\ \A c \in Client, m \in My : my[c] = m <=> conn[m] = c
  /\ \A c \in Client : state[c] = "closed" <=> my[c] = NULL

\* The pair of callbacks registered on the two sockets of a session is the one
\* its state calls for: never none of them, so no session waits for an event
\* nobody watches; and MySQL is not listened to unless something was asked.
Watches(c) == <<ch[c], cb[my[c]]>>
CallbacksFitState ==
  \A c \in Client :
    CASE state[c] = "closed" -> ch[c] = "none"
      [] state[c] = "unavail" -> Watches(c) \in {"hs1", "hs2", "hs3", "auth_fail"} \X {"none"}
      [] state[c] = "idle" -> Watches(c) = <<"query", "none">>
      [] state[c] = "reading" -> Watches(c) \in {"query", "ok"} \X {"none"}
      [] state[c] = "prepare" -> Watches(c) \in {"query"} \X {"use_req", "use_resp"}
      [] state[c] = "writing" -> Watches(c) = <<"query", "query">>
      [] state[c] = "answering" -> Watches(c) \in {<<"query", "answer">>,
                                     <<"answer", "none">>, <<"answer0", "none">>}

\* my_pool.h:45: an available connection is idle.  It is not when a session
\* ends between its request and the end of the answer.
AvailIsIdle ==
  \A m \in My, n \in Node : On(m, n, "avail") => owed[m] = 0 /\ m \notin part
=============================================================================
