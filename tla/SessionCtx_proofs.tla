-------------------------- MODULE SessionCtx_proofs ---------------------------
(***************************************************************************)
(* Theorems about the context of a leased connection, for any number of    *)
(* connections, sessions, databases and character sets, with sessions that *)
(* end anywhere, servers that refuse any database and clients that name    *)
(* none.  Nothing is assumed but the names of the constants.               *)
(***************************************************************************)
EXTENDS SessionCtx, TLAPS

\* The parts of CtxTrue and NamesWereSent, for one connection.
Agree(m) == astray[m] \subseteq {"unsent"} => ctx[m].db = server[m].db
Named(m) == "unsent" \in astray[m] \/ ctx[m].names \in sent[m] \cup {NoCharset}

\* The relay may be one command ahead of the server: a SET NAMES it remembers
\* and has not written yet.
AheadByNames(c, m) ==
  phase[c] = "query" /\ query[c].kind = "names" /\ ctx[m].names = query[c].arg

\* What holds of session c and its connection m, by where the exchange is.
SessionInv(c, m) ==
  /\ phase[c] # "use_resp" => Agree(m)
  /\ phase[c] = "use_resp" /\ astray[m] \subseteq {"unsent"} => server[m].db = curdb[c]
  /\ phase[c] = "query" /\ query[c].kind # "prepare" => ctx[m].db = curdb[c]
  /\ phase[c] \in {"use", "use_resp", "query"} => query[c] \in Query
  /\ Named(m) \/ AheadByNames(c, m)

\* What holds of a connection that waits for a session or is checked.
IdleInv(m) == m \in connected \/ status[m] = "ready" => Agree(m) /\ Named(m)

LeaseOnce == \A m, n \in My : status[m] \in Client /\ status[m] = status[n] => m = n

CtxInv ==
  /\ CtxTypeOK
  /\ LeaseOnce
  /\ \A m \in My : status[m] \notin Client => IdleInv(m)
  /\ \A c \in Client, m \in My : status[m] = c => SessionInv(c, m)

LEMMA QueryKinds ==
  ASSUME NEW q \in Query
  PROVE  /\ q.kind \in {"query", "prepare", "names", "text"}
         /\ q.kind = "names" => q.arg \in Charset
         /\ q.kind = "text" => q.arg \in Name
BY DEF Query

\* What a server has after a command is some context, and the one the command
\* gives it unless the socket is torn; nothing happens to other connections.
LEMMA ServerHasContext ==
  ASSUME CtxTypeOK, NEW m \in My, NEW s \in Context, ServerHas(m, s)
  PROVE  /\ server' \in [My -> Context]
         /\ "torn" \notin astray[m] => server'[m] = s
         /\ \A n \in My \ {m} : server'[n] = server[n]
BY DEF CtxTypeOK, ServerHas

LEMMA InitEstablishes ==
  ASSUME CtxInit PROVE CtxInv
<1>1. CtxTypeOK
  BY DEF CtxInit, CtxTypeOK, LeaseInit, LeaseTypeOK, Phase, Context, Name
<1>2. \A m \in My : status[m] \notin Client /\ status[m] # "ready"
  BY SessionAssumption DEF CtxInit, LeaseInit
<1>3. connected = {}
  BY DEF CtxInit
<1> QED BY <1>1, <1>2, <1>3 DEF CtxInv, LeaseOnce, IdleInv

-----------------------------------------------------------------------------
(* The pool.                                                               *)

\* A step that touches connection m alone, and leaves it without a session.
LEMMA PoolStep ==
  ASSUME CtxInv, NEW m \in My, CtxTypeOK', UNCHANGED clientVars,
         status[m] \notin Client, status'[m] \notin Client,
         \A n \in My \ {m} : /\ status'[n] = status[n] /\ ctx'[n] = ctx[n]
                             /\ server'[n] = server[n] /\ sent'[n] = sent[n]
                             /\ astray'[n] = astray[n]
                             /\ n \in connected' <=> n \in connected,
         IdleInv(m)'
  PROVE  CtxInv'
<1>1. LeaseOnce'
  BY DEF CtxInv, LeaseOnce
<1>2. \A n \in My : status'[n] \notin Client => IdleInv(n)'
  BY DEF CtxInv, IdleInv, Agree, Named
<1>3. \A c \in Client, n \in My : status'[n] = c => SessionInv(c, n)'
  BY DEF CtxInv, SessionInv, Agree, Named, AheadByNames, clientVars
<1> QED BY <1>1, <1>2, <1>3 DEF CtxInv

LEMMA ConnectStep ==
  ASSUME CtxInv, NEW m \in My, Connect(m)
  PROVE  CtxInv'
<1>1. CtxTypeOK'
  BY DEF CtxInv, CtxTypeOK, Connect, Allocate, Move, LeaseTypeOK, my_conn_init, Context,
         Name, clientVars
<1>2. ctx'[m] = server'[m] /\ ctx'[m].names = NoCharset
  BY DEF CtxInv, CtxTypeOK, Connect, my_conn_init
<1>3. IdleInv(m)'
  BY <1>2 DEF IdleInv, Agree, Named
<1>4. status[m] \notin Client /\ status'[m] \notin Client
  BY SessionAssumption DEF CtxInv, CtxTypeOK, LeaseTypeOK, Connect, Allocate, Move
<1> QED BY <1>1, <1>3, <1>4, PoolStep
        DEF CtxInv, CtxTypeOK, LeaseTypeOK, Connect, Allocate, Move, my_conn_init

LEMMA CheckStep ==
  ASSUME CtxInv, NEW m \in My, Available(m) \/ PingFails(m)
  PROVE  CtxInv'
<1>1. CtxTypeOK'
  BY DEF CtxInv, CtxTypeOK, Available, PingFails, MakeReady, Move, LeaseTypeOK, clientVars,
         connVars
<1>2. status[m] \notin Client /\ status'[m] \notin Client
  BY SessionAssumption
     DEF CtxInv, CtxTypeOK, LeaseTypeOK, Available, PingFails, MakeReady, Move
<1>3. IdleInv(m)'
  BY <1>2 DEF CtxInv, CtxTypeOK, LeaseTypeOK, IdleInv, Agree, Named, Available, PingFails,
              MakeReady, Move, connVars
<1> QED BY <1>1, <1>2, <1>3, PoolStep
        DEF CtxInv, CtxTypeOK, LeaseTypeOK, Available, PingFails, MakeReady, Move,
            clientVars, connVars

LEMMA PingStep ==
  ASSUME CtxInv, NEW m \in My, Ping(m)
  PROVE  CtxInv'
<1>1. /\ server' \in [My -> Context]
      /\ "torn" \notin astray[m] => server'[m] = server[m]
      /\ \A n \in My \ {m} : server'[n] = server[n]
  BY ServerHasContext DEF CtxInv, CtxTypeOK, Ping
<1>2. CtxTypeOK'
  BY <1>1 DEF CtxInv, CtxTypeOK, Ping, Check, Move, LeaseTypeOK, clientVars
<1>3. status[m] = "ready" /\ status' = [status EXCEPT ![m] = "pool"]
  BY DEF Ping, Check, Move
<1>4. status[m] \notin Client /\ status'[m] \notin Client
  BY <1>3, SessionAssumption DEF CtxInv, CtxTypeOK, LeaseTypeOK
<1>5. IdleInv(m)'
  BY <1>1, <1>3, <1>4 DEF CtxInv, IdleInv, Agree, Named, Ping
<1> QED BY <1>1, <1>2, <1>3, <1>4, <1>5, PoolStep
        DEF CtxInv, CtxTypeOK, LeaseTypeOK, Ping, clientVars

-----------------------------------------------------------------------------
(* Sessions.                                                               *)

\* A step that touches session c and its connection m alone.
LEMMA SessionStep ==
  ASSUME CtxInv, NEW c \in Client, NEW m \in My, CtxTypeOK', status' = status, status[m] = c,
         UNCHANGED connected,
         \A n \in My \ {m} : /\ ctx'[n] = ctx[n] /\ server'[n] = server[n]
                             /\ sent'[n] = sent[n] /\ astray'[n] = astray[n],
         \A d \in Client \ {c} : /\ curdb'[d] = curdb[d] /\ phase'[d] = phase[d]
                                 /\ query'[d] = query[d],
         SessionInv(c, m)'
  PROVE  CtxInv'
<1>1. LeaseOnce'
  BY DEF CtxInv, LeaseOnce
<1>2. \A n \in My : status'[n] \notin Client => IdleInv(n)'
  BY DEF CtxInv, IdleInv, Agree, Named
<1>3. ASSUME NEW d \in Client, NEW n \in My, status'[n] = d
      PROVE  SessionInv(d, n)'
  <2>1. CASE n = m
    BY <1>3, <2>1
  <2>2. CASE n # m
    <3>1. d # c
      BY <1>3, <2>2 DEF CtxInv, LeaseOnce
    <3> QED BY <1>3, <2>2, <3>1 DEF CtxInv, SessionInv, Agree, Named, AheadByNames
  <2> QED BY <2>1, <2>2
<1> QED BY <1>1, <1>2, <1>3 DEF CtxInv

LEMMA OpenStep ==
  ASSUME CtxInv, NEW c \in Client, NEW m \in My, Open(c, m)
  PROVE  CtxInv'
<1> USE DEF CtxInv, CtxTypeOK, LeaseTypeOK
<1>1. CtxTypeOK'
  BY DEF Open, Lend, Move, connVars, Phase, Name
<1>2. /\ status[m] = "ready" /\ status' = [status EXCEPT ![m] = c]
      /\ \A n \in My : status[n] # c
      /\ UNCHANGED connVars
      /\ phase'[c] = "login"
      /\ \A d \in Client \ {c} : /\ curdb'[d] = curdb[d] /\ phase'[d] = phase[d]
                                 /\ query'[d] = query[d]
  BY DEF Open, Lend, Move
<1>3. status[m] \notin Client
  BY <1>2, SessionAssumption
<1>4. LeaseOnce'
  BY <1>2 DEF LeaseOnce
<1>5. \A n \in My : status'[n] \notin Client => IdleInv(n)'
  BY <1>2 DEF IdleInv, Agree, Named, connVars
<1>6. SessionInv(c, m)'
  BY <1>2, <1>3 DEF SessionInv, IdleInv, Agree, Named, connVars
<1>7. \A d \in Client, n \in My : status'[n] = d => SessionInv(d, n)'
  BY <1>2, <1>6 DEF SessionInv, Agree, Named, AheadByNames, connVars
<1> QED BY <1>1, <1>4, <1>5, <1>7

LEMMA LoginStep ==
  ASSUME CtxInv, NEW c \in Client, NEW d \in Name, Login(c, d)
  PROVE  CtxInv'
<1>1. CtxTypeOK'
  BY DEF CtxInv, CtxTypeOK, LeaseTypeOK, Login, connVars, Phase
<1>2. CASE \E m \in My : status[m] = c
  <2>1. PICK m \in My : status[m] = c
    BY <1>2
  <2>2. SessionInv(c, m)'
    BY <2>1 DEF CtxInv, CtxTypeOK, SessionInv, Agree, Named, AheadByNames, Login, connVars
  <2> QED BY <1>1, <2>1, <2>2, SessionStep DEF CtxInv, CtxTypeOK, Login, connVars
<1>3. CASE \A m \in My : status[m] # c
  BY <1>1, <1>3 DEF CtxInv, CtxTypeOK, LeaseOnce, IdleInv, SessionInv, Agree, Named,
                    AheadByNames, Login, connVars
<1> QED BY <1>2, <1>3

\* A step that ends session c, which leaves m fit for the next one.
LEMMA EndStep ==
  ASSUME CtxInv, NEW c \in Client, NEW m \in My, CtxTypeOK', status[m] = c, Forget(c),
         NEW s \in {"pool", "ready"}, status' = [status EXCEPT ![m] = s],
         UNCHANGED <<ctx, server, sent>>, connected' \subseteq connected,
         \A n \in My \ {m} : astray'[n] = astray[n],
         IdleInv(m)'
  PROVE  CtxInv'
<1> USE DEF CtxInv, CtxTypeOK, LeaseTypeOK
<1>1. s \notin Client
  BY SessionAssumption
<1>2. LeaseOnce'
  BY <1>1 DEF LeaseOnce
<1>3. \A n \in My : status'[n] \notin Client => IdleInv(n)'
  BY <1>1 DEF IdleInv, Agree, Named
<1>4. ASSUME NEW d \in Client, NEW n \in My, status'[n] = d
      PROVE  SessionInv(d, n)'
  <2>1. n # m /\ status[n] = d /\ d # c
    BY <1>1, <1>4 DEF LeaseOnce
  <2>2. curdb'[d] = curdb[d] /\ phase'[d] = phase[d] /\ query'[d] = query[d]
    BY <2>1 DEF Forget
  <2> QED BY <2>1, <2>2 DEF SessionInv, Agree, Named, AheadByNames
<1> QED BY <1>2, <1>3, <1>4

LEMMA CloseStep ==
  ASSUME CtxInv, NEW c \in Client, NEW m \in My, SessionClose(c, m)
  PROVE  CtxInv'
<1> USE DEF CtxInv, CtxTypeOK, LeaseTypeOK
<1>1. /\ status[m] = c /\ Forget(c) /\ status' = [status EXCEPT ![m] = "ready"]
      /\ UNCHANGED <<connected, ctx, server, sent>>
  BY DEF SessionClose, Return, Move
<1> DEFINE lost == IF phase[c] = "query" /\ query[c].kind = "names" THEN {"unsent"} ELSE {}
<1>2. PICK cut \in CutOff(c) : astray' = [astray EXCEPT ![m] = @ \cup cut \cup lost]
  BY DEF SessionClose
<1>3. cut \subseteq Astray /\ (phase[c] = "use_resp" => cut = {"abandoned"})
  BY <1>2 DEF CutOff, Astray, Settled
<1>4. lost \subseteq Astray /\ (phase[c] = "query" /\ query[c].kind = "names" => "unsent" \in lost)
  BY DEF Astray
<1>5. astray' \in [My -> SUBSET Astray] /\ astray'[m] = astray[m] \cup cut \cup lost
  BY <1>2, <1>3, <1>4
<1> HIDE DEF lost
<1>6. CtxTypeOK'
  BY <1>1, <1>5 DEF Forget, Phase, Name
<1>7. IdleInv(m)'
  <2>1. Named(m)'
    BY <1>1, <1>4, <1>5 DEF SessionInv, Named, AheadByNames
  <2>2. Agree(m)'
    <3>1. CASE phase[c] = "use_resp"
      BY <1>3, <1>5, <3>1 DEF Agree
    <3>2. CASE phase[c] # "use_resp"
      BY <1>1, <1>5, <3>2 DEF SessionInv, Agree
    <3> QED BY <3>1, <3>2
  <2> QED BY <2>1, <2>2 DEF IdleInv
<1>8. \A n \in My \ {m} : astray'[n] = astray[n]
  BY <1>2
<1> QED BY <1>1, <1>6, <1>7, <1>8, EndStep

LEMMA BreakStep ==
  ASSUME CtxInv, NEW c \in Client, NEW m \in My, SessionBreak(c, m)
  PROVE  CtxInv'
<1>1. /\ status[m] = c /\ Forget(c) /\ status' = [status EXCEPT ![m] = "pool"]
      /\ UNCHANGED <<ctx, server, sent, astray>> /\ connected' = connected \ {m}
  BY DEF SessionBreak, Break, Move
<1>2. CtxTypeOK'
  BY <1>1 DEF CtxInv, CtxTypeOK, LeaseTypeOK, Forget, Phase, Name
<1>3. IdleInv(m)'
  BY <1>1 DEF CtxInv, CtxTypeOK, LeaseTypeOK, IdleInv
<1> QED BY <1>1, <1>2, <1>3, EndStep

LEMMA CommandStep ==
  ASSUME CtxInv, NEW c \in Client, NEW m \in My,
         \/ \E d \in Name : InitDb(c, m, d)
         \/ \E q \in Query : StartUse(c, m, q) \/ IgnoreNames(c, m, q) \/ Forward(c, m, q)
  PROVE  CtxInv'
<1> USE DEF CtxInv, CtxTypeOK, connVars, Listening
<1>1. ASSUME NEW d \in Name, InitDb(c, m, d)
      PROVE  CtxInv'
  <2>1. CtxTypeOK'
    BY <1>1 DEF InitDb, LeaseTypeOK, Phase
  <2>2. SessionInv(c, m)'
    BY <1>1 DEF InitDb, SessionInv, Agree, Named, AheadByNames
  <2> QED BY <1>1, <2>1, <2>2, SessionStep DEF InitDb
<1>2. ASSUME NEW q \in Query, StartUse(c, m, q)
      PROVE  CtxInv'
  <2>1. CtxTypeOK'
    BY <1>2 DEF StartUse, LeaseTypeOK, Phase
  <2>2. SessionInv(c, m)'
    BY <1>2 DEF StartUse, SessionInv, Agree, Named, AheadByNames
  <2> QED BY <1>2, <2>1, <2>2, SessionStep DEF StartUse
<1>3. ASSUME NEW q \in Query, IgnoreNames(c, m, q)
      PROVE  CtxInv'
  <2>1. CtxTypeOK'
    BY <1>3 DEF IgnoreNames, LeaseTypeOK, Phase
  <2>2. SessionInv(c, m)'
    BY <1>3 DEF IgnoreNames, SessionInv, Agree, Named, AheadByNames
  <2> QED BY <1>3, <2>1, <2>2, SessionStep DEF IgnoreNames
<1>4. ASSUME NEW q \in Query, Forward(c, m, q)
      PROVE  CtxInv'
  <2>1. q.kind = "names" => q.arg \in Charset
    BY QueryKinds
  <2>2. CtxTypeOK'
    <3>1. ctx' \in [My -> Context]
      BY <1>4, <2>1 DEF Forward, Context
    <3> QED BY <1>4, <3>1 DEF Forward, LeaseTypeOK, Phase
  <2>3. /\ phase[c] # "use_resp" /\ phase[c] # "query"
        /\ query'[c] = q /\ phase'[c] = "query" /\ curdb' = curdb
        /\ q.kind # "prepare" => ctx[m].db = curdb[c]
    BY <1>4 DEF Forward, NeedsUse, ChecksContext
  <2>4. /\ ctx'[m].db = ctx[m].db
        /\ ctx'[m].names = IF q.kind = "names" THEN q.arg ELSE ctx[m].names
        /\ \A n \in My \ {m} : ctx'[n] = ctx[n]
    BY <1>4 DEF Forward, Context
  <2>5. SessionInv(c, m)'
    BY <1>4, <2>3, <2>4 DEF Forward, SessionInv, Agree, Named, AheadByNames
  <2> QED BY <1>4, <2>2, <2>4, <2>5, SessionStep DEF Forward
<1> QED BY <1>1, <1>2, <1>3, <1>4

LEMMA UseWrittenStep ==
  ASSUME CtxInv, NEW c \in Client, NEW m \in My, UseWritten(c, m)
  PROVE  CtxInv'
<1> USE DEF CtxInv, CtxTypeOK
<1>1. /\ status[m] = c /\ phase[c] = "use" /\ phase' = [phase EXCEPT ![c] = "use_resp"]
      /\ UNCHANGED <<status, curdb, query, connected, ctx, sent>>
  BY DEF UseWritten
<1>2. CASE /\ ServerHas(m, [server[m] EXCEPT !.db = curdb[c]])
           /\ astray' = [astray EXCEPT ![m] = @ \ Settled]
  <2>1. [server[m] EXCEPT !.db = curdb[c]] \in Context
    BY DEF Context
  <2>2. /\ server' \in [My -> Context]
        /\ "torn" \notin astray[m] => server'[m].db = curdb[c]
        /\ \A n \in My \ {m} : server'[n] = server[n]
    BY <1>2, <2>1, ServerHasContext DEF Context
  <2>3. CtxTypeOK'
    BY <1>1, <1>2, <2>2 DEF LeaseTypeOK, Phase
  <2>4. astray'[m] \subseteq {"unsent"} => "torn" \notin astray[m]
    BY <1>2 DEF Settled
  <2>5. Named(m)'
    BY <1>1, <1>2 DEF SessionInv, Named, AheadByNames, Settled
  <2>6. SessionInv(c, m)'
    BY <1>1, <2>2, <2>4, <2>5 DEF SessionInv
  <2> QED BY <1>1, <1>2, <2>2, <2>3, <2>6, SessionStep
<1>3. CASE /\ ServerHas(m, server[m])
           /\ astray' = [astray EXCEPT ![m] = @ \cup {"refused"}]
  <2>1. /\ server' \in [My -> Context]
        /\ \A n \in My \ {m} : server'[n] = server[n]
    BY <1>3, ServerHasContext
  <2>2. CtxTypeOK'
    BY <1>1, <1>3, <2>1 DEF LeaseTypeOK, Phase, Astray, Settled
  <2>3. "refused" \in astray'[m]
    BY <1>3
  <2>4. Named(m)'
    BY <1>1, <1>3 DEF SessionInv, Named, AheadByNames
  <2>5. SessionInv(c, m)'
    BY <1>1, <2>3, <2>4 DEF SessionInv
  <2> QED BY <1>1, <1>3, <2>1, <2>2, <2>5, SessionStep
<1> QED BY <1>2, <1>3 DEF UseWritten

LEMMA QueryWrittenStep ==
  ASSUME CtxInv, NEW c \in Client, NEW m \in My, QueryWritten(c, m)
  PROVE  CtxInv'
<1> USE DEF CtxInv, CtxTypeOK
<1>1. /\ status[m] = c /\ phase[c] = "query" /\ phase' = [phase EXCEPT ![c] = "answer"]
      /\ query' = [query EXCEPT ![c] = NoQuery]
      /\ UNCHANGED <<status, curdb, connected, ctx>>
  BY DEF QueryWritten
<1>2. /\ query[c].kind = "names" => query[c].arg \in Charset
      /\ query[c].kind = "text" => query[c].arg \in Name
  BY <1>1, QueryKinds DEF SessionInv
\* What each kind of command leaves behind.
<1> DEFINE Left(s, more, less, wrote) ==
      /\ ServerHas(m, s)
      /\ sent' = [sent EXCEPT ![m] = @ \cup wrote]
      /\ astray' = [astray EXCEPT ![m] = (@ \cup more) \ less]
<1>3. ASSUME NEW s \in Context, NEW more \in SUBSET Astray, NEW less \in SUBSET {"unsent"},
             NEW wrote \in SUBSET Charset, Left(s, more, less, wrote),
             more = {} => s.db = server[m].db,
             more # {} => more = {"text"},
             Named(m)'
      PROVE  CtxInv'
  <2>1. /\ server' \in [My -> Context]
        /\ "torn" \notin astray[m] => server'[m] = s
        /\ \A n \in My \ {m} : server'[n] = server[n]
    BY <1>3, ServerHasContext
  <2>2. CtxTypeOK'
    BY <1>1, <1>3, <2>1 DEF LeaseTypeOK, Phase
  <2>3. Agree(m)'
    <3>1. CASE more = {}
      <4>1. astray'[m] \subseteq {"unsent"}
              => astray[m] \subseteq {"unsent"} /\ "torn" \notin astray[m]
        <5>1. astray'[m] = astray[m] \ less
          BY <1>3, <3>1
        <5>2. \A a : a \in less => a = "unsent"
          BY <1>3
        <5>3. "torn" # "unsent"
          OBVIOUS
        <5> QED BY <5>1, <5>2, <5>3, Zenon
      <4> QED BY <1>1, <1>3, <2>1, <3>1, <4>1 DEF SessionInv, Agree
    <3>2. CASE more = {"text"}
      BY <1>3, <3>2 DEF Agree
    <3> QED BY <1>3, <3>1, <3>2
  <2>4. SessionInv(c, m)'
    BY <1>1, <1>3, <2>3 DEF SessionInv
  <2> QED BY <1>1, <1>3, <2>1, <2>2, <2>4, SessionStep
<1>4. CASE /\ query[c].kind = "names"
           /\ ServerHas(m, [server[m] EXCEPT !.names = query[c].arg])
           /\ sent' = [sent EXCEPT ![m] = @ \cup {query[c].arg}]
           /\ astray' = [astray EXCEPT ![m] =
                IF ctx[m].names = query[c].arg THEN @ \ {"unsent"} ELSE @]
  <2> DEFINE s == [server[m] EXCEPT !.names = query[c].arg]
             less == IF ctx[m].names = query[c].arg THEN {"unsent"} ELSE {}
  <2>1. s \in Context /\ s.db = server[m].db
    BY <1>2, <1>4 DEF Context
  <2>2. Named(m)'
    BY <1>1, <1>4 DEF SessionInv, Named, AheadByNames
  <2>3. Left(s, {}, less, {query[c].arg})
    BY <1>4
  <2>4. less \in SUBSET {"unsent"} /\ {query[c].arg} \in SUBSET Charset
    BY <1>2, <1>4
  <2> HIDE DEF s, less, Left
  <2> QED BY <1>3, <2>1, <2>2, <2>3, <2>4
<1>5. CASE /\ query[c].kind = "text"
           /\ ServerHas(m, [server[m] EXCEPT !.db = query[c].arg])
           /\ astray' = [astray EXCEPT ![m] = @ \cup {"text"}]
           /\ UNCHANGED sent
  <2> DEFINE s == [server[m] EXCEPT !.db = query[c].arg]
  <2>1. s \in Context
    BY <1>2, <1>5 DEF Context
  <2>2. Named(m)'
    BY <1>1, <1>5 DEF SessionInv, Named, AheadByNames
  <2>3. Left(s, {"text"}, {}, {})
    BY <1>5
  <2>4. /\ {"text"} \in SUBSET Astray /\ {"text"} # {}
        /\ {} \in SUBSET {"unsent"} /\ {} \in SUBSET Charset
    BY DEF Astray, Settled
  <2> HIDE DEF s, Left
  <2> QED BY <1>3, <2>1, <2>2, <2>3, <2>4
<1>6. CASE /\ query[c].kind \in {"query", "prepare"}
           /\ ServerHas(m, server[m])
           /\ UNCHANGED <<sent, astray>>
  <2>1. Named(m)'
    BY <1>1, <1>6 DEF SessionInv, Named, AheadByNames
  <2>2. Left(server[m], {}, {}, {}) /\ server[m] \in Context
    BY <1>6
  <2>3. {} \in SUBSET Astray /\ {} \in SUBSET {"unsent"} /\ {} \in SUBSET Charset
    OBVIOUS
  <2> HIDE DEF Left
  <2> QED BY <1>3, <2>1, <2>2, <2>3
<1> QED BY <1>4, <1>5, <1>6 DEF QueryWritten

LEMMA AnswerStep ==
  ASSUME CtxInv, NEW c \in Client, NEW m \in My, UseAnswered(c, m) \/ Answered(c, m)
  PROVE  CtxInv'
<1> USE DEF CtxInv, CtxTypeOK, connVars
<1>1. CASE UseAnswered(c, m)
  <2>1. CtxTypeOK'
    BY <1>1 DEF UseAnswered, LeaseTypeOK, Phase, Context
  <2>2. SessionInv(c, m)'
    BY <1>1 DEF UseAnswered, SessionInv, Agree, Named, AheadByNames, Context
  <2> QED BY <1>1, <2>1, <2>2, SessionStep DEF UseAnswered
<1>2. CASE Answered(c, m)
  <2>1. CtxTypeOK'
    BY <1>2 DEF Answered, LeaseTypeOK, Phase
  <2>2. SessionInv(c, m)'
    BY <1>2 DEF Answered, SessionInv, Agree, Named, AheadByNames
  <2> QED BY <1>2, <2>1, <2>2, SessionStep DEF Answered
<1> QED BY <1>1, <1>2

LEMMA StepPreserves ==
  ASSUME CtxInv, [CtxNext]_ctxVars
  PROVE  CtxInv'
<1>1. CASE UNCHANGED ctxVars
  BY <1>1 DEF ctxVars, clientVars, connVars, CtxInv, CtxTypeOK, LeaseTypeOK, LeaseOnce,
              IdleInv, SessionInv, Agree, Named, AheadByNames
<1>2. CASE CtxNext
  BY <1>2, ConnectStep, CheckStep, PingStep, OpenStep, LoginStep, CloseStep, BreakStep,
     CommandStep, UseWrittenStep, QueryWrittenStep, AnswerStep
     DEF CtxNext
<1> QED BY <1>1, <1>2

-----------------------------------------------------------------------------
\* The inductive invariant: what the relay remembers of a connection is what the
\* server has, but for the commands under way and what went astray on that very
\* socket (my_ops.c:641-660).
THEOREM CtxInvCorrect == CtxSpec => []CtxInv
<1>1. CtxInit => CtxInv
  BY InitEstablishes
<1>2. CtxInv /\ [CtxNext]_ctxVars => CtxInv'
  BY StepPreserves
<1> QED BY <1>1, <1>2, PTL DEF CtxSpec

\* Type correctness of sessions and contexts.
THEOREM CtxTypeCorrect == CtxSpec => []CtxTypeOK
<1>1. CtxInv => CtxTypeOK
  BY DEF CtxInv
<1> QED BY <1>1, CtxInvCorrect, PTL

\* The database the relay remembers is the one the server has whenever no change
\* of it is under way, unless a change was refused, given up or made by a query
\* since the last one the server took, or the socket was left in mid-command.
THEOREM CtxTrueCorrect == CtxSpec => []CtxTrue
<1>1. ASSUME CtxInv PROVE CtxTrue
  <2>1. ASSUME NEW m \in My, status[m] = "ready"
        PROVE  Agree(m)
    BY <1>1, <2>1, SessionAssumption DEF CtxInv, IdleInv
  <2>2. ASSUME NEW m \in My, NEW c \in Client, status[m] = c, phase[c] # "use_resp"
        PROVE  Agree(m)
    BY <1>1, <2>2 DEF CtxInv, SessionInv
  <2> QED BY <2>1, <2>2 DEF CtxTrue, AtRest, Agree
<1> QED BY <1>1, CtxInvCorrect, PTL

\* A SET NAMES is left out only if the same one was written on this socket before,
\* or the last one remembered ended with its session before it was written.
THEOREM NamesWereSentCorrect == CtxSpec => []NamesWereSent
<1>1. ASSUME CtxInv PROVE NamesWereSent
  <2>1. ASSUME NEW m \in My, status[m] = "ready"
        PROVE  Named(m)
    BY <1>1, <2>1, SessionAssumption DEF CtxInv, IdleInv
  <2>2. ASSUME NEW m \in My, NEW c \in Client, status[m] = c, Listening(c)
        PROVE  Named(m)
    BY <1>1, <2>2 DEF CtxInv, SessionInv, AheadByNames, Listening
  <2> QED BY <2>1, <2>2 DEF NamesWereSent, Named
<1> QED BY <1>1, CtxInvCorrect, PTL

\* A query is executed in the database its client chose last, with the exceptions
\* of CtxTrue; what went astray before the last change the server took, in whatever
\* session, does it no harm.
THEOREM QueryInDbCorrect == CtxSpec => QueryInDb
<1> DEFINE InDb == \A c \in Client, m \in My :
             astray[m] \subseteq {"unsent"} => InOwnDb(c, m)
<1>1. CtxInv => InDb
  BY DEF CtxInv, InOwnDb, Executes, SessionInv, Agree
<1>2. CtxInv /\ [CtxNext]_ctxVars => [InDb]_ctxVars
  BY <1>1
<1> QED BY <1>2, CtxInvCorrect, PTL DEF CtxSpec, QueryInDb
=============================================================================
