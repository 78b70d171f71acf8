----------------------------- MODULE SessionCtx ------------------------------
(***************************************************************************)
(* What a leased connection remembers from one session to the next: the    *)
(* current database and the character set.  The server keeps them for the  *)
(* connection; the relay keeps copies (my->ctx.curdb, my->setnamesql), by   *)
(* which it decides what it need not send; a session keeps what its client *)
(* asked for (c->curdb).  The lease itself is that of ConnLease.           *)
(*                                                                         *)
(* A server executes the commands of a connection in the order they were   *)
(* written, so a command takes effect here when it has been written.       *)
(***************************************************************************)
EXTENDS ConnLease

CONSTANTS
  Db,        \* names of databases
  NoDb,      \* the empty name: no database
  Charset,   \* character sets, and the SET NAMES commands that ask for them
  NoCharset  \* the character set of the login, and an empty setnamesql

ASSUME DbAssumption == NoDb \notin Db
ASSUME SessionAssumption == Client \cap {"absent", "pool", "ready"} = {}
ASSUME CharsetAssumption == NoCharset \notin Charset

VARIABLES
  curdb,       \* c->curdb
  phase,       \* where the exchange of the session is
  query,       \* the command in c->buf
  connected,   \* connections whose socket is open
  ctx,         \* ctx[m]: my->ctx.curdb and my->setnamesql
  server,      \* server[m]: what the server has for the connection
  sent,        \* SET NAMES commands written on m since it was connected
  astray       \* astray[m]: what made the copies of m doubtful, history only

clientVars == <<curdb, phase, query>>
connVars == <<connected, ctx, server, sent, astray>>
ctxVars == <<status, clientVars, connVars>>

Phase == {"closed", "login", "idle", "use", "use_resp", "query", "answer"}
NoQuery == [kind |-> "none"]
Name == Db \cup {NoDb}
Context == [db : Name, names : Charset \cup {NoCharset}]

\* "query": COM_QUERY, COM_CREATE_DB or COM_DROP_DB that depends on the current
\* database; "names": SET NAMES; "text": one that leaves the server in database
\* arg by itself (USE, DROP DATABASE); "prepare": any other command.
Query == [kind : {"query", "prepare"}] \cup [kind : {"names"}, arg : Charset]
         \cup [kind : {"text"}, arg : Name]

\* What the code does not notice, and a later session of m may meet:
\*   "refused"    the server did not change to the database it was asked for;
\*   "text"       a query changed the database by itself;
\*   "abandoned"  a session ended before the answer to its change was read;
\*   "unsent"     a session ended before its SET NAMES was written;
\*   "torn"       a session ended with a part of a command written.
\* A change of database the server takes makes up for the first three, a
\* SET NAMES written for the fourth, and a new socket for all of them.
Settled == {"refused", "text", "abandoned"}
Astray == Settled \cup {"unsent", "torn"}

\* Variants with a bug: a connection made again keeps a part of its context.
InitKeepsDb(m) == [ctx EXCEPT ![m].names = NoCharset]
InitKeepsNames(m) == [ctx EXCEPT ![m].db = NoDb]

\* my_conn_init: at allocation and whenever the connection is made again.
my_conn_init(m) == [ctx EXCEPT ![m] = [db |-> NoDb, names |-> NoCharset]]

CtxInit ==
  /\ LeaseInit
  /\ curdb = [c \in Client |-> NoDb]
  /\ phase = [c \in Client |-> "closed"]
  /\ query = [c \in Client |-> NoQuery]
  /\ connected = {}
  /\ ctx = [m \in My |-> [db |-> NoDb, names |-> NoCharset]]
  /\ server = [m \in My |-> [db |-> NoDb, names |-> NoCharset]]
  /\ sent = [m \in My |-> {}]
  /\ astray = [m \in My |-> {}]

-----------------------------------------------------------------------------
(* The pool.                                                               *)

\* The server takes a command for what it is, and has s then; but half a command
\* left on the socket makes anything of the one that follows it.
ServerHas(m, s) ==
  \/ "torn" \notin astray[m] /\ server' = [server EXCEPT ![m] = s]
  \/ "torn" \in astray[m] /\ \E any \in Context : server' = [server EXCEPT ![m] = any]

\* Allocated, or found dead: the handshake is done once more, and the server
\* starts a session of its own.
Connect(m) ==
  /\ \/ Allocate(m)
     \/ status[m] = "pool" /\ m \notin connected /\ UNCHANGED status
  /\ connected' = connected \cup {m}
  /\ ctx' = my_conn_init(m)
  /\ server' = [server EXCEPT ![m] = [db |-> NoDb, names |-> NoCharset]]
  /\ sent' = [sent EXCEPT ![m] = {}]
  /\ astray' = [astray EXCEPT ![m] = {}]
  /\ UNCHANGED clientVars

Available(m) == m \in connected /\ MakeReady(m) /\ UNCHANGED <<clientVars, connVars>>

Ping(m) ==
  /\ Check(m)
  /\ ServerHas(m, server[m])
  /\ UNCHANGED <<clientVars, connected, ctx, sent, astray>>

PingFails(m) ==
  /\ status[m] = "pool" /\ m \in connected
  /\ connected' = connected \ {m}
  /\ UNCHANGED <<status, clientVars, ctx, server, sent, astray>>

-----------------------------------------------------------------------------
(* A session.                                                              *)

\* conn_open and conn_init.
Open(c, m) ==
  /\ Lend(m, c)
  /\ curdb' = [curdb EXCEPT ![c] = NoDb]
  /\ phase' = [phase EXCEPT ![c] = "login"]
  /\ query' = [query EXCEPT ![c] = NoQuery]
  /\ UNCHANGED connVars

\* The page of the session is given back; nothing of it is read again.
Forget(c) ==
  /\ curdb' = [curdb EXCEPT ![c] = NoDb]
  /\ phase' = [phase EXCEPT ![c] = "closed"]
  /\ query' = [query EXCEPT ![c] = NoQuery]

\* cli_hs_stage2_cb takes the database from the login packet.
Login(c, d) ==
  /\ phase[c] = "login"
  /\ curdb' = [curdb EXCEPT ![c] = d]
  /\ phase' = [phase EXCEPT ![c] = "idle"]
  /\ UNCHANGED <<status, query, connVars>>

\* How much of a command under way was written when its session ends: none,
\* a part, or all of it and the answer is owed.
CutOff(c) ==
  CASE phase[c] \in {"use", "query"} -> {{}, {"torn"}}
    [] phase[c] = "use_resp" -> {{"abandoned"}}
    [] OTHER -> {{}}

\* conn_close, by a timeout, an error of the client's or QUIT, at any point: the
\* connection goes back as it is.
SessionClose(c, m) ==
  /\ status[m] = c
  /\ Return(m)
  /\ \E cut \in CutOff(c) :
       astray' = [astray EXCEPT ![m] =
         @ \cup cut \cup (IF phase[c] = "query" /\ query[c].kind = "names"
                         THEN {"unsent"} ELSE {})]
  /\ Forget(c)
  /\ UNCHANGED <<connected, ctx, server, sent>>

\* conn_close_with_my.
SessionBreak(c, m) ==
  /\ status[m] = c
  /\ phase[c] \in {"use", "use_resp", "query", "answer"}
  /\ Break(m)
  /\ connected' = connected \ {m}
  /\ Forget(c)
  /\ UNCHANGED <<ctx, server, sent, astray>>

\* cli_query_cb is called: between commands, or with an answer still to come.
Listening(c) == phase[c] \in {"idle", "answer"}

\* COM_INIT_DB is answered by the relay; c->curdb alone is set.
InitDb(c, m, d) ==
  /\ status[m] = c /\ Listening(c)
  /\ curdb' = [curdb EXCEPT ![c] = d]
  /\ phase' = [phase EXCEPT ![c] = "idle"]
  /\ UNCHANGED <<status, query, connVars>>

\* Variant with a bug: the case of COM_QUERY is after the check.
ChecksNoQuery(q) == FALSE

\* cli_query_cb: which way a complete command goes.
ChecksContext(q) == q.kind # "prepare"
NeedsUse(c, m, q) == ChecksContext(q) /\ ctx[m].db # curdb[c]
SameNames(m, q) == q.kind = "names" /\ q.arg = ctx[m].names

StartUse(c, m, q) ==
  /\ status[m] = c /\ Listening(c) /\ NeedsUse(c, m, q)
  /\ phase' = [phase EXCEPT ![c] = "use"]
  /\ query' = [query EXCEPT ![c] = q]
  /\ UNCHANGED <<status, curdb, connVars>>

\* The SET NAMES of the connection already: the relay answers.
IgnoreNames(c, m, q) ==
  /\ status[m] = c /\ Listening(c) /\ ~NeedsUse(c, m, q) /\ SameNames(m, q)
  /\ phase' = [phase EXCEPT ![c] = "idle"]
  /\ UNCHANGED <<status, curdb, query, connVars>>

\* setnamesql is set before the command is sent.
Forward(c, m, q) ==
  /\ status[m] = c /\ Listening(c) /\ ~NeedsUse(c, m, q) /\ ~SameNames(m, q)
  /\ phase' = [phase EXCEPT ![c] = "query"]
  /\ query' = [query EXCEPT ![c] = q]
  /\ ctx' = IF q.kind = "names" THEN [ctx EXCEPT ![m].names = q.arg] ELSE ctx
  /\ UNCHANGED <<status, curdb, connected, server, sent, astray>>

\* my_use_db_req_cb.  The server changes to the database, or refuses (no such
\* database, no access, no name) and stays where it was.
UseWritten(c, m) ==
  /\ status[m] = c /\ phase[c] = "use"
  /\ phase' = [phase EXCEPT ![c] = "use_resp"]
  /\ \/ /\ curdb[c] # NoDb
        /\ ServerHas(m, [server[m] EXCEPT !.db = curdb[c]])
        /\ astray' = [astray EXCEPT ![m] = @ \ Settled]
     \/ /\ ServerHas(m, server[m])
        /\ astray' = [astray EXCEPT ![m] = @ \cup {"refused"}]
  /\ UNCHANGED <<status, curdb, query, connected, ctx, sent>>

\* my_use_db_resp_cb: an answer has come, whatever it says.
UseAnswered(c, m) ==
  /\ status[m] = c /\ phase[c] = "use_resp"
  /\ phase' = [phase EXCEPT ![c] = "query"]
  /\ ctx' = [ctx EXCEPT ![m].db = curdb[c]]
  /\ UNCHANGED <<status, curdb, query, connected, server, sent, astray>>

\* my_query_cb: the server executes the command, and c->buf is reset.
QueryWritten(c, m) ==
  /\ status[m] = c /\ phase[c] = "query"
  /\ phase' = [phase EXCEPT ![c] = "answer"]
  /\ query' = [query EXCEPT ![c] = NoQuery]
  /\ \/ /\ query[c].kind = "names"
        /\ ServerHas(m, [server[m] EXCEPT !.names = query[c].arg])
        /\ sent' = [sent EXCEPT ![m] = @ \cup {query[c].arg}]
        /\ astray' = [astray EXCEPT ![m] =
             IF ctx[m].names = query[c].arg THEN @ \ {"unsent"} ELSE @]
     \/ /\ query[c].kind = "text"
        /\ ServerHas(m, [server[m] EXCEPT !.db = query[c].arg])
        /\ astray' = [astray EXCEPT ![m] = @ \cup {"text"}]
        /\ UNCHANGED sent
     \/ /\ query[c].kind \in {"query", "prepare"}
        /\ ServerHas(m, server[m])
        /\ UNCHANGED <<sent, astray>>
  /\ UNCHANGED <<status, curdb, connected, ctx>>

\* my_answer_cb and cli_answer_cb: the whole answer has reached the client.
Answered(c, m) ==
  /\ status[m] = c /\ phase[c] = "answer"
  /\ phase' = [phase EXCEPT ![c] = "idle"]
  /\ UNCHANGED <<status, curdb, query, connVars>>

CtxNext ==
  \/ \E m \in My : Connect(m) \/ Available(m) \/ Ping(m) \/ PingFails(m)
  \/ \E c \in Client, d \in Name : Login(c, d)
  \/ \E c \in Client, m \in My :
       \/ Open(c, m) \/ SessionClose(c, m) \/ SessionBreak(c, m)
       \/ \E d \in Name : InitDb(c, m, d)
       \/ \E q \in Query : StartUse(c, m, q) \/ IgnoreNames(c, m, q) \/ Forward(c, m, q)
       \/ UseWritten(c, m) \/ UseAnswered(c, m)
       \/ QueryWritten(c, m) \/ Answered(c, m)

CtxSpec == CtxInit /\ [][CtxNext]_ctxVars

-----------------------------------------------------------------------------
(* Properties.                                                             *)

\* The values of the variables, and which of them go together.
CtxTypeOK ==
  /\ LeaseTypeOK
  /\ curdb \in [Client -> Name]
  /\ phase \in [Client -> Phase]
  /\ query \in [Client -> Query \cup {NoQuery}]
  /\ connected \subseteq My
  /\ ctx \in [My -> Context] /\ server \in [My -> Context]
  /\ sent \in [My -> SUBSET Charset]
  /\ astray \in [My -> SUBSET Astray]

\* No command is between the relay and the server that may change the database.
AtRest(m) ==
  \/ status[m] = "ready"
  \/ \E c \in Client : status[m] = c /\ phase[c] # "use_resp"

\* The database the relay remembers for a connection is the one the server has,
\* through reconnections, changes of database and of owner, and sessions that end
\* anywhere; unless, since the last change the server took, one was refused, given
\* up before its answer or made by the text of a query, or half a command was
\* left on the socket (my_ops.c:641, 675, 1222).
CtxTrue ==
  \A m \in My :
    AtRest(m) /\ astray[m] \subseteq {"unsent"} => ctx[m].db = server[m].db

Executes(c, m) == status[m] = c /\ phase[c] = "query" /\ phase'[c] = "answer"
InOwnDb(c, m) ==
  Executes(c, m) /\ query[c].kind = "query" => server[m].db = curdb[c]

\* A query is executed in the database its client chose last, at login or by a
\* COM_INIT_DB the server has never seen, whoever had the connection before and
\* wherever their exchanges ended, with the exceptions of CtxTrue: what went
\* astray before the last change the server took does no harm.
QueryInDb ==
  [][\A c \in Client, m \in My :
       astray[m] \subseteq {"unsent"} => InOwnDb(c, m)]_ctxVars

\* A SET NAMES is left out only if the same one was written on this very socket
\* before, or the last one remembered was lost with its session (my_pool.h:26).
NamesWereSent ==
  \A m \in My, c \in Client :
    (status[m] = "ready" \/ (status[m] = c /\ Listening(c))) /\ "unsent" \notin astray[m]
      => ctx[m].names \in sent[m] \cup {NoCharset}

-----------------------------------------------------------------------------
(* What comments of the source say and the code does not keep: each is      *)
(* broken by one thing astray, or with nothing astray at all.               *)

\* my_ops.c:647: the query goes out when the change of database is complete.
UseTaken ==
  [][\A c \in Client, m \in My : astray[m] \subseteq {"refused"} => InOwnDb(c, m)]_ctxVars

\* my_ops.c:640: the databases are compared, whatever changed the server's.
TextSeen ==
  [][\A c \in Client, m \in My : astray[m] \subseteq {"text"} => InOwnDb(c, m)]_ctxVars

\* my_ops.c:640, for a session that ended in its change of database.
GivenUpSeen ==
  [][\A c \in Client, m \in My : astray[m] \subseteq {"abandoned"} => InOwnDb(c, m)]_ctxVars

\* my_pool.h:26: a SET NAMES is remembered so as not to be sent several times.
NamesKept ==
  \A m \in My : status[m] = "ready" => ctx[m].names \in sent[m] \cup {NoCharset}

\* my_ops.c:599: after COM_INIT_DB was answered, the database is compared when
\* it matters.  Only COM_QUERY, COM_CREATE_DB and COM_DROP_DB are compared.
CommandInDb ==
  [][\A c \in Client, m \in My :
       Executes(c, m) /\ query[c].kind = "prepare" /\ astray[m] = {}
         => server[m].db = curdb[c]]_ctxVars

\* my_ops.c:652: SET NAMES is ignored when the connection has that character
\* set already: one the relay would answer itself is the one the server has.
NamesAsTold ==
  \A c \in Client, m \in My, q \in Query :
    /\ status[m] = c /\ phase[c] = "idle" /\ astray[m] = {}
    /\ ~NeedsUse(c, m, q) /\ SameNames(m, q)
    => server[m].names = q.arg
=============================================================================
