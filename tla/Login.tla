-------------------------------- MODULE Login --------------------------------
(***************************************************************************)
(* Two logins with the packets of Protocol: the relay logs in to a server  *)
(* (my_hs_stage1_cb to my_hs_stage3_cb), and a client logs in to the relay *)
(* (cli_hs_stage1_prepare to cli_hs_stage3_cb), which greets it in the     *)
(* name of the servers: with what the last of them told (my_info_t).       *)
(*                                                                         *)
(* One connection after another and one session after another; when their  *)
(* callbacks come is MyPool's and Relay's matter.                          *)
(***************************************************************************)
EXTENDS Protocol, FiniteSets

CONSTANTS
  Greeting,  \* what servers greet with, and the password they know
  User, Password,    \* of clients and servers; a user is a name
  user, passwd,      \* g_conf.user and g_conf.passwd
  my_user, my_pass,  \* of the node, mysql.conf
  CliScram,          \* scrambles the relay draws for clients
  DbName,            \* databases clients ask for
  Stale              \* what the read buffer may hold after a login packet

\* A scramble has two parts; a name has a length.
IsScramble(s) == s = <<s[1], s[2]>>
IsName(n) == n = Name(n.id, n.len) /\ n.len \in Nat

ASSUME GreetingAssumption ==
  \A g \in Greeting : IsScramble(g.scram) /\ g.cap \subseteq LowFlag \cup HighFlag
ASSUME ScramAssumption == \A s \in CliScram : IsScramble(s)
ASSUME NameAssumption == \A n \in DbName \cup Stale \cup User : IsName(n)
\* What the greeting leaves in the buffer is shorter than a name may be.
ASSUME StaleAssumption == \A n \in Stale : Fits(n)

VARIABLES
  info,   \* myinfo, and whether it was set less than 10 seconds ago
  conn,   \* a connection being made: its stage, packet in transit and server
  avail,  \* a connection has become available
  cli     \* a session: stage, packet, scramble, what the client asks for, curdb

loginVars == <<info, conn, avail, cli>>

NoInfo == [fresh |-> FALSE, protocol |-> 0, cap |-> {}, status |-> 0, ver |-> "none"]
NoConn == [stage |-> "start", pkt |-> <<>>, server |-> "none"]
NoCli == [stage |-> "closed", pkt |-> <<>>, scram |-> "none", asks |-> "none",
          curdb |-> NoName, ok |-> FALSE]

LoginInit == info = NoInfo /\ conn = NoConn /\ avail = FALSE /\ cli = NoCli

-----------------------------------------------------------------------------
(* The relay logs in to a server.                                          *)

\* Variants with a bug: the flag is not masked; the parts are in the wrong order.
CapUmaskNoDb == {"found_rows", "no_schema", "odbc", "compress", "ssl_verify",
                 "local_files", "ignore_space", "ignore_sigpipe", "reserved"}
MessageSwapped(i) == <<i.plug, i.scram>>

cap_umask == {"found_rows", "no_schema", "odbc", "compress", "ssl_verify",
              "local_files", "ignore_space", "ignore_sigpipe", "reserved", "db"}
Message(i) == <<i.scram, i.plug>>

ServerGreets(g) ==
  /\ conn.stage = "start"
  /\ conn' = [stage |-> "greeted", server |-> g,
              pkt |-> make_init([pktno |-> 0, prot_ver |-> g.prot, srv_ver |-> g.ver,
                                 scram |-> g.scram[1], plug |-> g.scram[2],
                                 cap |-> g.cap, lang |-> 8, status |-> g.status])]
  /\ UNCHANGED <<info, avail, cli>>

\* my_info_set: not twice in 10 seconds.
my_info_set(i) ==
  info' = IF info.fresh THEN info
          ELSE [fresh |-> TRUE, protocol |-> i.prot_ver, cap |-> i.cap,
                status |-> i.status, ver |-> i.srv_ver]

\* my_hs_stage1_cb.
MyHsStage1 ==
  /\ conn.stage = "greeted"
  /\ LET i == parse_init(conn.pkt) IN
     /\ my_info_set(i)
     /\ conn' = [conn EXCEPT !.stage = "login", !.pkt =
          make_login([pktno |-> 1, client_flags |-> i.cap \ cap_umask,
                      charset |-> i.lang, user |-> my_user,
                      scram |-> IF my_pass = "" THEN NoScramble ELSE Scramble(Message(i), my_pass),
                      db |-> NoName])]
  /\ UNCHANGED <<avail, cli>>

\* The flag asks for a switch to SSL (mysql_com.h:140).
AsksSsl == "ssl" \in conn.pkt[2]

\* The server compares the scramble it expects.
ServerVerifies ==
  /\ conn.stage = "login" /\ ~AsksSsl
  /\ LET g == conn.server
         expected == IF g.pass = "" THEN NoScramble ELSE Scramble(g.scram, g.pass)
     IN conn' = [conn EXCEPT !.stage = "answered", !.pkt =
          IF conn.pkt[4] = my_user /\ conn.pkt[5] = expected
          THEN make_auth_result(2) ELSE make_result_error(2, 1045)]
  /\ UNCHANGED <<info, avail, cli>>

\* A server that is asked for SSL waits for its first message, and closes the
\* socket: the relay never sends one.
ServerSwitches ==
  /\ conn.stage = "login" /\ AsksSsl
  /\ conn' = [conn EXCEPT !.stage = "hungup", !.pkt = <<>>]
  /\ UNCHANGED <<info, avail, cli>>

\* my_hs_stage3_cb: available, or closed and tried again later; the end of the
\* stream is an error of my_real_read.
LoggedIn == conn.stage = "answered" /\ parse_auth_result(conn.pkt).result = 0
MyHsStage3 ==
  /\ conn.stage \in {"answered", "hungup"}
  /\ avail' = (avail \/ LoggedIn)
  /\ conn' = [NoConn EXCEPT !.stage = IF LoggedIn THEN "avail" ELSE "fail",
                            !.server = conn.server]
  /\ UNCHANGED <<info, cli>>

MyNext == /\ conn.stage \in {"avail", "fail"} /\ conn' = NoConn
          /\ UNCHANGED <<info, avail, cli>>

TenSeconds == /\ info.fresh /\ info' = [info EXCEPT !.fresh = FALSE]
              /\ UNCHANGED <<conn, avail, cli>>

-----------------------------------------------------------------------------
(* A client logs in to the relay.                                          *)

\* cli_hs_stage1_prepare, once the session has a connection.
CliHsStage1Prepare(s) ==
  /\ cli.stage = "closed" /\ avail
  /\ cli' = [NoCli EXCEPT !.stage = "greeted", !.scram = s, !.pkt =
       make_init([pktno |-> 0, prot_ver |-> info.protocol, srv_ver |-> info.ver,
                  scram |-> s[1], plug |-> s[2], cap |-> info.cap, lang |-> 8,
                  status |-> info.status])]
  /\ UNCHANGED <<info, conn, avail>>

\* A client uses capabilities it was told of, SSL included, and names a database,
\* if it does, with the flag that says so.  Its names fit: parse_login copies
\* them with no regard to its arrays, and what a longer one does is not modelled.
ClientLogs(u, pw, flags, db) ==
  /\ cli.stage = "greeted" /\ Fits(u) /\ Fits(db)
  /\ LET i == parse_init(cli.pkt) IN
     /\ flags \subseteq i.cap
     /\ "db" \in flags <=> db # NoName
     /\ cli' = [cli EXCEPT !.stage = "login",
          !.asks = [user |-> u, pass |-> pw, db |-> db, ssl |-> "ssl" \in flags],
          !.pkt = ClientLogin(
            [client_flags |-> flags, user |-> u, db |-> db,
             scram |-> IF pw = "" THEN NoScramble ELSE Scramble(<<i.scram, i.plug>>, pw)])]
  /\ UNCHANGED <<info, conn, avail>>

\* Variant with a bug: the name of the user is not compared.
GoodLoginAnyUser(l, s) == l.scram = Scramble(s, passwd)

GoodLogin(l, s) == l.user = user /\ l.scram = Scramble(s, passwd)

\* Variant with a bug: the whole length of c->curdb, and a byte more.
CurdbPast(name) == Clip(name, 64)

\* strncpy into c->curdb, an array of 64.
Curdb(name) == Clip(name, 63)

\* cli_hs_stage2_cb.
CliHsStage2(stale) ==
  /\ cli.stage = "login"
  /\ LET l == parse_login(cli.pkt, stale) IN
     cli' = IF GoodLogin(l, cli.scram)
            THEN [cli EXCEPT !.stage = "told", !.pkt = make_auth_result(2),
                             !.curdb = Curdb(l.db)]
            ELSE [cli EXCEPT !.stage = "refused", !.pkt = make_result_error(2, 1045)]
  /\ UNCHANGED <<info, conn, avail>>

\* cli_hs_stage3_cb and cli_hs_auth_fail_cb: the answer is written.
CliHsStage3 ==
  /\ cli.stage \in {"told", "refused"}
  /\ cli' = IF cli.stage = "told"
            THEN [cli EXCEPT !.stage = "idle", !.ok = TRUE, !.pkt = <<>>] ELSE NoCli
  /\ UNCHANGED <<info, conn, avail>>

\* cli_query_cb of COM_INIT_DB: c->arg holds 1023 bytes.
InitDb(db) ==
  /\ cli.stage = "idle"
  /\ LET com == parse_com(make_com([pktno |-> 0, comno |-> "INIT_DB", arg |-> db])) IN
     cli' = [cli EXCEPT !.asks.db = db, !.curdb = Curdb(Clip(com.arg, 1023))]
  /\ UNCHANGED <<info, conn, avail>>

\* my_use_db_prepare: the request that goes to the server.
UseDb ==
  /\ cli.stage = "idle" /\ cli.curdb # NoName
  /\ cli' = [cli EXCEPT !.stage = "use",
                        !.pkt = make_com([pktno |-> 0, comno |-> "INIT_DB",
                                          arg |-> cli.curdb])]
  /\ UNCHANGED <<info, conn, avail>>

CliClose == /\ cli.stage # "closed" /\ cli' = NoCli
            /\ UNCHANGED <<info, conn, avail>>

LoginNext ==
  \/ (\E g \in Greeting : ServerGreets(g)) \/ MyHsStage1
  \/ ServerVerifies \/ ServerSwitches \/ MyHsStage3 \/ MyNext \/ TenSeconds
  \/ \E s \in CliScram : CliHsStage1Prepare(s)
  \/ \E u \in User, pw \in Password, db \in DbName, f \in SUBSET (LowFlag \cup HighFlag) :
       ClientLogs(u, pw, f, db)
  \/ \E d \in Stale : CliHsStage2(d)
  \/ CliHsStage3 \/ (\E db \in DbName \ {NoName} : InitDb(db)) \/ UseDb \/ CliClose

LoginSpec == LoginInit /\ [][LoginNext]_loginVars

-----------------------------------------------------------------------------
(* Properties.                                                             *)

\* The stages, and the capacity of c->curdb: 63 bytes and the zero.
LoginTypeOK ==
  /\ conn.stage \in {"start", "greeted", "login", "answered", "hungup", "avail", "fail"}
  /\ cli.stage \in {"closed", "greeted", "login", "told", "refused", "idle", "use"}
  /\ cli.curdb.len <= 63

\* The scramble that reaches the server is made of both parts of its greeting
\* in their order (my_ops.c:107): a server that knows the password lets the
\* relay in and one that knows another does not.  A server that can do SSL never
\* does: the relay sends its flag back (my_ops.c:54, 116) and does not switch.
Admits(g) == g.pass = my_pass /\ "ssl" \notin g.cap
ServerLogsIn ==
  /\ conn.stage = "avail" => Admits(conn.server)
  /\ conn.stage = "fail" => ~Admits(conn.server)

\* The relay logs in without a database, and says so: a server would take the
\* password type, which comes first (my_protocol.c:271), for its name.
NoDatabaseAtLogin == conn.stage = "login" => ServerReadsDb(conn.pkt) = NoName

\* What a client is told of the server is what one server told the relay, all
\* of it of the same one, however many logged in since and however long ago.
AnnouncedTrue ==
  cli.stage = "greeted" =>
    LET i == parse_init(cli.pkt) IN
    \E g \in Greeting :
      i.prot_ver = g.prot /\ i.srv_ver = g.ver /\ i.cap = g.cap /\ i.status = g.status

\* A client is let in with the name and the password of the configuration
\* only, and with them it is, unless the password is empty: then the client
\* sends no scramble (my_ops.c:393).  One that takes the relay at its word and
\* asks for SSL, which a server announced, is refused.
RightLogin == cli.asks.user = user /\ cli.asks.pass = passwd
ClientVerified ==
  /\ cli.stage \in {"told", "idle", "use"} => RightLogin /\ ~cli.asks.ssl
  /\ cli.stage = "refused" => ~RightLogin \/ cli.asks.ssl \/ passwd = ""

-----------------------------------------------------------------------------
(* What comments of the source say and the code does not keep.             *)

\* mysql_com.h:132: a database is specified on connect with this flag.  Without
\* it the client has named none.
DatabaseHeard ==
  cli.stage \in {"told", "idle"} /\ cli.asks.db = NoName => cli.curdb = NoName

\* mysql_com.h:25: a name has 64 characters at most; the name a client gives to
\* the relay is the one the relay gives to the server.
NameWhole == cli.stage = "use" /\ cli.asks.db # NoName => cli.pkt[3] = cli.asks.db
=============================================================================
