------------------------------ MODULE ConnPool -------------------------------
(***************************************************************************)
(* The sessions and their timeouts: conn_pool.c and cli_pool.c, the timers *)
(* of oplib (timer.c) that call them, and the accept callback of work.c    *)
(* that opens a session.  A session whose command is being read, prepared, *)
(* written or answered, or that is idle, is on the timeout list of that    *)
(* state; a timer looks at the oldest ones of a list and stops at the      *)
(* first that is young enough.                                             *)
(*                                                                         *)
(* A time is kept as its distance to now: age[c] is now - c->state_time.   *)
(* What my_ops.c does with a session is left to Relay: here any of its     *)
(* changes of state may come next.                                         *)
(***************************************************************************)
EXTENDS Integers, FiniteSets, Lists

CONSTANTS
  Client,    \* pages of the pool of conn_t
  CliPages,  \* number of pages of the pool of cli_conn_t
  Timeout,   \* seconds allowed in each state, from the configuration
  MaxConns,  \* argument of the five timers, 30 in conn_pool_init
  Interval   \* of the five timers, 1 in conn_pool_init

Listed == {"reading", "writing", "answering", "prepare", "idle"}

ASSUME ClientAssumption == IsFiniteSet(Client) /\ CliPages \in Nat
ASSUME TimeAssumption == /\ Timeout \in [Listed -> Nat]
                         /\ MaxConns \in Nat \ {0} /\ Interval \in Nat \ {0}

VARIABLES
  state,   \* c->state; "closed" when the page is free
  age,     \* time since c->state_time, up to MaxAge
  link,    \* link[s]: the timeout list of state s
  cli,     \* sessions with a cli_conn_t
  since,   \* time since lasttime of the five timers, up to Interval
  down     \* the process has followed a NULL pointer

connVars == <<state, age, link, cli, since, down>>

\* An age is told apart up to the longest timeout.
MaxAge == 1 + CHOOSE t \in {Timeout[s] : s \in Listed} :
                 \A s \in Listed : Timeout[s] <= t

\* Variant with a bug: the session stays on its timeout list.
UnlinkForgotten(c) == link

Unlink(c) == [s \in Listed |-> Without(link[s], {c})]

ConnInit ==
  /\ state = [c \in Client |-> "closed"]
  /\ age = [c \in Client |-> 0]
  /\ link = [s \in Listed |-> <<>>]
  /\ cli = {}
  /\ since = Interval
  /\ down = FALSE

-----------------------------------------------------------------------------
(* Opening and closing.                                                    *)

\* Variant with a bug: the failure of cli_conn_open is not looked at.
OpensUnchecked == \E c \in Client : state[c] = "closed"

Opens == \E c \in Client : state[c] = "closed" /\ Cardinality(cli) < CliPages

\* accept_client_cb: conn_open, and the handshake is prepared.
conn_open(c) ==
  /\ ~down /\ Opens /\ state[c] = "closed"
  /\ state' = [state EXCEPT ![c] = "unavail"]
  /\ age' = [age EXCEPT ![c] = 0]
  /\ cli' = cli \cup {c}
  /\ UNCHANGED <<link, since, down>>

\* conn_open returns NULL, a conn_t taken in vain given back; then the socket
\* is closed, and cli_hs_stage1_prepare(NULL) reads c->cli.
OpenFails ==
  /\ ~down /\ ~Opens
  /\ down' = TRUE
  /\ UNCHANGED <<state, age, link, cli, since>>

\* conn_close and conn_close_with_my: cli_conn_close and conn_release too.
conn_close(c) ==
  /\ ~down /\ state[c] # "closed"
  /\ state' = [state EXCEPT ![c] = "closed"]
  /\ link' = Unlink(c)
  /\ cli' = cli \ {c}
  /\ UNCHANGED <<age, since, down>>

-----------------------------------------------------------------------------
(* conn_state_set_*: the session goes to the end of the list of its state. *)

\* Variant with a bug: list_move instead of list_move_tail.
SetStateHead(c, s) == [Unlink(c) EXCEPT ![s] = <<c>> \o @]

MoveToTail(c, s) == [Unlink(c) EXCEPT ![s] = Append(@, c)]

conn_state_set(c, s) ==
  /\ ~down
  /\ state' = [state EXCEPT ![c] = s]
  /\ age' = [age EXCEPT ![c] = 0]
  /\ link' = MoveToTail(c, s)
  /\ UNCHANGED <<cli, since, down>>

\* The calls of my_ops.c: the login is answered (478); a command arrives (548,
\* 554), is answered by the relay (1055), or needs a change of database (647)
\* or not (667); the database is changed (1233); the command is written (718).
\* A command that is complete at once is heard and forwarded in one callback.
Follows ==
  [unavail |-> {"idle"},
   idle |-> {"reading", "prepare", "writing"},
   reading |-> {"reading", "prepare", "writing"},
   prepare |-> {"writing"},
   writing |-> {"answering"},
   answering |-> {"reading", "prepare", "writing"}]

Progress(c) ==
  /\ state[c] # "closed"
  /\ \E s \in Follows[state[c]] : conn_state_set(c, s)

-----------------------------------------------------------------------------
(* Time and the timers.                                                    *)

Expired(c, s) == age[c] > Timeout[s]

\* Variant with a bug: ++count >= arg.
InBatchShort(i) == i < MaxConns

InBatch(i) == i <= MaxConns

\* _conn_state_timeout_timer: the sessions closed, up to the first young one.
TimedOut(s) ==
  {link[s][i] : i \in {j \in DOMAIN link[s] :
                         /\ InBatch(j)
                         /\ \A k \in 1 .. j : Expired(link[s][k], s)}}

\* timer(): the five timers, whose interval is the same, in one iteration of
\* the main loop.
timer ==
  /\ ~down /\ since >= Interval
  /\ LET gone == UNION {TimedOut(s) : s \in Listed} IN
     /\ state' = [c \in Client |-> IF c \in gone THEN "closed" ELSE state[c]]
     /\ link' = [s \in Listed |-> Without(link[s], gone)]
     /\ cli' = cli \ gone
  /\ since' = 0
  /\ UNCHANGED <<age, down>>

Tick ==
  /\ ~down
  /\ age' = [c \in Client |-> IF state[c] = "closed" \/ age[c] = MaxAge
                              THEN age[c] ELSE age[c] + 1]
  /\ since' = IF since = Interval THEN since ELSE since + 1
  /\ UNCHANGED <<state, link, cli, down>>

ConnNext ==
  \/ \E c \in Client : conn_open(c) \/ conn_close(c) \/ Progress(c)
  \/ OpenFails \/ timer \/ Tick

ConnSpec == ConnInit /\ [][ConnNext]_connVars

\* The main loop calls timer() again and again, after a second of epoll_wait
\* at most, and time passes.  Nothing is assumed of clients and servers.
ConnFairSpec == ConnSpec /\ WF_connVars(timer) /\ WF_connVars(Tick)

-----------------------------------------------------------------------------
(* Properties.                                                             *)

\* The values of the variables.
ConnTypeOK ==
  /\ state \in [Client -> Listed \cup {"closed", "unavail"}]
  /\ age \in [Client -> 0 .. MaxAge]
  /\ link \in [Listed -> Seq(Client)]
  /\ cli \subseteq Client /\ Cardinality(cli) <= CliPages
  /\ since \in 0 .. Interval /\ down \in BOOLEAN

\* A session is on one timeout list, once, and it is the list of its state: a
\* page of conn_t given back to its pool is on none (conn_pool.c:223, 457), or
\* the next session in that page would be timed out under another one's state.
ListOfState ==
  \A s \in Listed : /\ ToSet(link[s]) = {c \in Client : state[c] = s}
                    /\ IsInjective(link[s])

\* A timer closes exactly the sessions that stayed too long in their state, all
\* of them unless it has closed as many as it may: stopping at the first young
\* session (conn_pool.c:459) misses nobody behind it.
Closes(s) == {c \in Client : state[c] = s /\ state'[c] = "closed"}
TooLong(s) == {c \in Client : state[c] = s /\ Expired(c, s)}
TimeoutExact ==
  [][timer => \A s \in Listed :
       /\ Closes(s) \subseteq TooLong(s)
       /\ Closes(s) = TooLong(s) \/ Cardinality(Closes(s)) = MaxConns]_connVars

\* No session stays in a state for ever, however many others wait to be closed
\* before it and whatever its client and its server do: it goes on or is closed,
\* once it has left its handshake.
NoneStuck ==
  \A c \in Client :
    []<>(state[c] \in {"closed", "unavail"} \/ ~Expired(c, state[c]) \/ down)

-----------------------------------------------------------------------------
(* What messages of the source say and the code does not keep.             *)

\* work.c:206: when no session can be allocated, the connection of the client
\* is closed, and the relay goes on.
AllocFailHandled == ~down
=============================================================================
