----------------------------- MODULE Relay_proofs ----------------------------
(***************************************************************************)
(* Theorems about the sessions, for any number of sessions, connections    *)
(* and nodes: seen from the pool they behave as the pool's own module says *)
(* a session may, and a session and its connection always fit together.    *)
(***************************************************************************)
EXTENDS Relay, MyPool_proofs

SessionType ==
  /\ state \in [Client -> State]
  /\ my \in [Client -> My \cup {NULL}]
  /\ ch \in [Client -> CliCb]
WireType == owed \in [My -> 0 .. MaxOwed] /\ part \subseteq My

\* The callbacks of the two sockets that a state calls for.
Fits(s, h, k) ==
  \/ s = "closed" /\ h = "none"
  \/ s = "unavail" /\ h \in {"hs1", "hs2", "hs3", "auth_fail"} /\ k = "none"
  \/ s = "idle" /\ h = "query" /\ k = "none"
  \/ s = "reading" /\ h \in {"query", "ok"} /\ k = "none"
  \/ s = "prepare" /\ h = "query" /\ k \in {"use_req", "use_resp"}
  \/ s = "writing" /\ h = "query" /\ k = "query"
  \/ s = "answering" /\ h = "query" /\ k = "answer"
  \/ s = "answering" /\ h \in {"answer", "answer0"} /\ k = "none"
AllFit == \A c \in Client : Fits(state[c], ch[c], cb[my[c]])

\* The inductive invariant, besides the pool's own.
SessionInv == SessionType /\ PointersAgree /\ AllFit
RelayInv == PlaceInv /\ SessionInv /\ WireType

LEMMA FitIsFit == SessionType => (AllFit <=> CallbacksFitState)
<1> SUFFICES ASSUME SessionType, NEW c \in Client
             PROVE  Fits(state[c], ch[c], cb[my[c]]) <=>
    CASE state[c] = "closed" -> ch[c] = "none"
      [] state[c] = "unavail" -> Watches(c) \in {"hs1", "hs2", "hs3", "auth_fail"} \X {"none"}
      [] state[c] = "idle" -> Watches(c) = <<"query", "none">>
      [] state[c] = "reading" -> Watches(c) \in {"query", "ok"} \X {"none"}
      [] state[c] = "prepare" -> Watches(c) \in {"query"} \X {"use_req", "use_resp"}
      [] state[c] = "writing" -> Watches(c) = <<"query", "query">>
      [] state[c] = "answering" -> Watches(c) \in {<<"query", "answer">>,
                                     <<"answer", "none">>, <<"answer0", "none">>}
  BY DEF AllFit, CallbacksFitState
<1>1. state[c] \in State
  BY DEF SessionType
<1>2. CASE state[c] = "closed"
  BY <1>2 DEF Fits
<1>3. CASE state[c] = "unavail"
  BY <1>3 DEF Fits, Watches
<1>4. CASE state[c] = "idle"
  BY <1>4 DEF Fits, Watches
<1>5. CASE state[c] = "reading"
  BY <1>5 DEF Fits, Watches
<1>6. CASE state[c] = "prepare"
  BY <1>6 DEF Fits, Watches
<1>7. CASE state[c] = "writing"
  BY <1>7 DEF Fits, Watches
<1>8. CASE state[c] = "answering"
  BY <1>8 DEF Fits, Watches
<1> QED BY <1>1, <1>2, <1>3, <1>4, <1>5, <1>6, <1>7, <1>8 DEF State

\* A session that is open has a connection, which is its own.
LEMMA OwnConnection ==
  ASSUME SessionInv, NEW c \in Client, state[c] # "closed"
  PROVE  my[c] \in My /\ conn[my[c]] = c /\ c # NULL
  BY MyAssumption DEF SessionInv, SessionType, PointersAgree

-----------------------------------------------------------------------------
(* The steps of the sessions are steps of the pool.                        *)

LEMMA RelayIsPoolStep ==
  ASSUME SessionInv, [RelayNext]_relayVars
  PROVE  [Next]_vars
<1>1. CASE UNCHANGED relayVars
  BY <1>1 DEF relayVars
<1>2. CASE PoolAlone
  BY <1>2 DEF PoolAlone, Next, Timers, Callbacks, Sessions, RetryKind
<1>3. CASE \E m \in My : PingWire(m) \/ CleanupWire(m)
  BY <1>3 DEF PingWire, CleanupWire, Next, Callbacks, Timers
<1>4. ASSUME NEW c \in Client, NEW m \in My, NEW n \in Node, Accept(c, m, n)
      PROVE  Next
  BY <1>4 DEF Accept, Next, Sessions
<1>5. ASSUME NEW c \in Client,
             CliHs(c) \/ CliOkWritten(c) \/ MyWritePart(c)
      PROVE  UNCHANGED vars
  BY <1>5 DEF CliHs, CliOkWritten, MyWritePart, PoolIdle
<1>6. ASSUME NEW c \in Client, CliClose(c) \/ Timeout(c) \/ MyClose(c)
      PROVE  Next
  <2>1. my[c] \in My
    BY <1>6, OwnConnection DEF CliClose, Timeout, MyClose
  <2> QED BY <1>6, <2>1 DEF CliClose, Timeout, MyClose, Next, Sessions
<1>7. ASSUME NEW c \in Client,
             CliReadPart(c) \/ CliIgnored(c) \/ CliForward(c) \/ UseDbReq(c) \/ UseDbResp(c)
             \/ MyQuery(c) \/ MyAnswer(c) \/ MyAnswerEof(c) \/ CliAnswer(c)
      PROVE  Next
  <2>1. state[c] # "closed"
    BY <1>7 DEF SessionInv, AllFit, Fits, CliReadPart, CliIgnored, CliForward, Hears,
                UseDbReq, UseDbResp, MyQuery, MyAnswer, MyAnswerEof, CliAnswer
  <2>2. my[c] \in My
    BY <2>1, OwnConnection
  <2>3. \E h \in SessionCb \cup {"none"} : SessionHandler(my[c], h)
    BY <1>7, SessionCbAssumption
       DEF MySessionCb, CliReadPart, CliIgnored, CliForward, UseDbReq, UseDbResp, MyQuery,
           MyAnswer, MyAnswerEof, CliAnswer
  <2> QED BY <2>2, <2>3 DEF Next, Sessions
<1> QED BY <1>1, <1>2, <1>3, <1>4, <1>5, <1>6, <1>7 DEF RelayNext

-----------------------------------------------------------------------------
(* The steps of the pool leave the connections of sessions alone.          *)

OwnersKept == \A o \in My : /\ conn'[o] = conn[o]
                            /\ conn[o] # NULL => cb'[o] = cb[o]

\* What one connection nobody owns goes through.
LEMMA UnownedStep ==
  ASSUME PlaceInv, NEW m \in My, PageStep(m), conn[m] = NULL, conn'[m] = NULL
  PROVE  OwnersKept
  BY DEF PageStep, Only, OwnersKept

LEMMA PoolKeepsOwners ==
  ASSUME PlaceInv, PoolAlone \/ \E m \in My : PingReq(m) \/ PingResp(m)
  PROVE  OwnersKept
<1>0. /\ loop.node \in Node /\ PageType /\ NULL \notin Client
      /\ "none" \notin HsCb \cup PingCb
  BY LoopType, TypeSplit, MyAssumption DEF PlaceInv, RestType, HsCb, PingCb
<1>1. CASE StillMoves
  BY <1>1 DEF StillMoves, RegDone, RegFail, StartLoop, RetryNextNode, PingNextNode,
              CleanupDone, CleanupSkip, my_unreg, Age, vars, OwnersKept
<1>2. ASSUME NEW m \in My, make_my_conn(m, loop.node) \/ \E n \in Node : make_my_conn(m, n)
      PROVE  conn'[m] = NULL
  BY <1>0, <1>2 DEF make_my_conn, my_conn_close_on_fail, Closed, PageType
<1>3. ASSUME NEW m \in My, NEW n \in Node, my_conn_alloc(m, n) PROVE conn[m] = NULL
  BY <1>3 DEF my_conn_alloc, PlaceInv, PageInv, FitsList, Unwatched
<1>4. ASSUME NEW m \in My, RegConnect(m) PROVE OwnersKept
  <2>1. conn[m] = NULL /\ conn'[m] = NULL
    BY <1>0, <1>2, <1>3, <1>4 DEF RegConnect
  <2> QED BY <1>4, <2>1, PlaceIsSound, ReconnectMoves, UnownedStep
<1>5. ASSUME NEW m \in My, NEW n \in Node, TryIncrease(m, n) PROVE OwnersKept
  <2>1. conn[m] = NULL /\ conn'[m] = NULL
    BY <1>2, <1>3, <1>5 DEF TryIncrease
  <2> QED BY <1>5, <2>1, PlaceIsSound, ReconnectMoves, UnownedStep
<1>6. ASSUME NEW m \in My, Retry(m) PROVE OwnersKept
  <2>1. loop.fn \in {"dead", "fail"} /\ IsHead(m, loop.node, loop.fn)
    BY <1>6 DEF Retry, RetryKind
  <2>2. conn[m] = NULL
    BY <1>0, <2>1, PlaceIsSound, HeadOn DEF FitsList, Unwatched, ListName
  <2>3. conn'[m] = NULL
    BY <1>2, <1>6 DEF Retry
  <2> QED BY <1>6, <2>2, <2>3, PlaceIsSound, ReconnectMoves, UnownedStep
<1>7. ASSUME NEW m \in My, PingPrepare(m) \/ PingRelease(m) PROVE OwnersKept
  <2>1. conn[m] = NULL
    BY <1>0, <1>7, PlaceIsSound, HeadOn DEF PingPrepare, PingRelease, FitsList, Unwatched, ListName
  <2>2. conn'[m] = NULL
    BY <1>0, <1>7 DEF PingPrepare, PingRelease, my_conn_set_ping,
                      my_conn_close_and_release, Closed, PageType
  <2> QED BY <1>7, <2>1, <2>2, PlaceIsSound, ListMoves, CloseMoves, UnownedStep
<1>8. ASSUME NEW m \in My, HsStage(m) \/ HsDone(m) \/ HsFail(m) PROVE OwnersKept
  <2>1. conn[m] = NULL
    BY <1>8 DEF HsStage, HsDone, HsFail, HsCb, PlaceInv, PageInv, FitsList
  <2>2. conn'[m] = NULL
    BY <1>0, <1>8, <2>1 DEF HsStage, HsDone, HsFail, my_conn_set_avail,
                            my_conn_close_on_fail, Closed, PageType
  <2> QED BY <1>8, <2>1, <2>2, PlaceIsSound, CallbackMoves, ListMoves, CloseMoves, UnownedStep
<1>9. ASSUME NEW m \in My, PingReq(m) \/ PingResp(m) \/ PingFail(m) PROVE OwnersKept
  <2>1. conn[m] = NULL
    BY <1>9, PlaceIsSound, PingedOpen DEF PingReq, PingResp, PingFail, PingCb
  <2>2. conn'[m] = NULL
    BY <1>0, <1>9, <2>1 DEF PingReq, PingResp, PingFail, my_conn_put, my_conn_set_avail,
                            my_conn_close, Closed, PageType
  <2> QED BY <1>9, <2>1, <2>2, PlaceIsSound, CallbackMoves, ListMoves, CloseMoves, UnownedStep
<1>10. ASSUME NEW m \in My, NEW n \in Node, PingTimeout(m, n) PROVE OwnersKept
  <2>1. conn[m] = NULL
    BY <1>10, PlaceIsSound, HeadOn DEF PingTimeout, FitsList, ListName
  <2>2. conn'[m] = NULL
    BY <1>0, <1>10 DEF PingTimeout, my_conn_close_on_fail, Closed, PageType
  <2> QED BY <1>10, <2>1, <2>2, PlaceIsSound, CloseMoves, UnownedStep
<1>11. CASE Boot
  BY <1>1, <1>4, <1>11 DEF Boot, StillMoves
<1>12. CASE \E n \in Node : my_unreg(n) \/ \E m \in My : PingTimeout(m, n) \/ TryIncrease(m, n)
  BY <1>1, <1>5, <1>10, <1>12 DEF StillMoves
<1>13. CASE \E m \in My : Retry(m) \/ PingPrepare(m) \/ PingRelease(m) \/ HsStage(m)
                          \/ HsDone(m) \/ HsFail(m) \/ PingFail(m) \/ Age(m)
  BY <1>1, <1>6, <1>7, <1>8, <1>9, <1>13 DEF StillMoves
<1> QED BY <1>1, <1>9, <1>11, <1>12, <1>13 DEF PoolAlone, StillMoves

-----------------------------------------------------------------------------
(* One session and its connection.                                         *)

\* A step of the session c on the connection m.
PairStep(c, m) ==
  /\ SessionType'
  /\ \A d \in Client \ {c} : state'[d] = state[d] /\ my'[d] = my[d] /\ ch'[d] = ch[d]
  /\ \A o \in My \ {m} : conn'[o] = conn[o] /\ cb'[o] = cb[o]
  /\ \/ my'[c] = NULL /\ conn'[m] = NULL /\ state'[c] = "closed" /\ ch'[c] = "none"
     \/ my'[c] = m /\ conn'[m] = c /\ state'[c] # "closed"
        /\ Fits(state'[c], ch'[c], cb'[m])

\* It keeps the invariant if m was the session's own, or nobody's while the
\* session had none.
LEMMA PairKeepsInv ==
  ASSUME SessionInv, NEW c \in Client, NEW m \in My, PairStep(c, m),
         \/ my[c] = m
         \/ my[c] = NULL /\ conn[m] = NULL
  PROVE  SessionInv'
<1>1. NULL \notin Client /\ NULL \notin My
  BY MyAssumption
<1>2. /\ \A d \in Client, o \in My : my[d] = o <=> conn[o] = d
      /\ \A d \in Client : state[d] = "closed" <=> my[d] = NULL
      /\ \A d \in Client : Fits(state[d], ch[d], cb[my[d]])
      /\ \A d \in Client : my[d] \in My \cup {NULL}
  BY DEF SessionInv, SessionType, PointersAgree, AllFit
<1>3. \A d \in Client \ {c} : my[d] # m
  BY <1>1, <1>2
<1>4. \A o \in My \ {m} : conn[o] # c
  BY <1>1, <1>2
<1>5. ASSUME NEW d \in Client, NEW o \in My PROVE my'[d] = o <=> conn'[o] = d
  <2>1. CASE d = c /\ o = m
    BY <1>1, <2>1 DEF PairStep
  <2>2. CASE d = c /\ o # m
    BY <1>1, <1>4, <2>2 DEF PairStep
  <2>3. CASE d # c /\ o = m
    BY <1>1, <1>3, <2>3 DEF PairStep
  <2>4. CASE d # c /\ o # m
    BY <1>2, <2>4 DEF PairStep
  <2> QED BY <2>1, <2>2, <2>3, <2>4
<1>6. ASSUME NEW d \in Client PROVE state'[d] = "closed" <=> my'[d] = NULL
  BY <1>1, <1>2 DEF PairStep
<1>7. ASSUME NEW d \in Client PROVE Fits(state'[d], ch'[d], cb'[my'[d]])
  <2>1. CASE d = c
    BY <2>1 DEF PairStep, Fits
  <2>2. CASE d # c /\ my[d] = NULL
    <3>1. state'[d] = "closed" /\ ch'[d] = "none"
      BY <1>2, <2>2 DEF PairStep, Fits
    <3> QED BY <3>1 DEF Fits
  <2>3. CASE d # c /\ my[d] \in My
    <3>1. my[d] \in My \ {m} /\ my'[d] = my[d]
      BY <1>3, <2>3 DEF PairStep
    <3>2. cb'[my'[d]] = cb[my[d]]
      BY <3>1 DEF PairStep
    <3> QED BY <1>2, <2>3, <3>2 DEF PairStep
  <2> QED BY <1>2, <2>1, <2>2, <2>3
<1>8. PointersAgree'
  BY <1>5, <1>6 DEF PointersAgree
<1>9. AllFit'
  BY <1>7 DEF AllFit
<1> QED BY <1>8, <1>9 DEF PairStep, SessionInv

\* Sessions that do not move, while the pool leaves their connections alone.
LEMMA OwnersKeptKeepsInv ==
  ASSUME SessionInv, OwnersKept, UNCHANGED sessionVars
  PROVE  SessionInv'
<1>1. UNCHANGED <<state, my, ch>> /\ NULL \notin Client
  BY MyAssumption DEF sessionVars
<1>2. SessionType' /\ PointersAgree'
  BY <1>1 DEF SessionInv, SessionType, PointersAgree, OwnersKept
<1>3. ASSUME NEW c \in Client PROVE Fits(state'[c], ch'[c], cb'[my'[c]])
  <2>1. CASE state[c] = "closed"
    BY <1>1, <2>1 DEF SessionInv, AllFit, Fits
  <2>2. CASE state[c] # "closed"
    <3>1. cb'[my[c]] = cb[my[c]]
      BY <2>2, OwnConnection DEF OwnersKept
    <3> QED BY <1>1, <3>1 DEF SessionInv, AllFit
  <2> QED BY <2>1, <2>2
<1> QED BY <1>2, <1>3 DEF SessionInv, AllFit

\* The connection is closed or given back, and so is the session.
LEMMA EndKeepsInv ==
  ASSUME RelayInv, NEW c \in Client, state[c] # "closed", SessionEnd(c),
         NEW m \in My, m = my[c], PageStep(m), conn'[m] = NULL
  PROVE  SessionInv'
<1>1. SessionType
  BY DEF RelayInv, SessionInv
<1>2. SessionType'
  BY <1>1 DEF SessionType, SessionEnd, State, CliCb
<1>3. PairStep(c, m)
  BY <1>1, <1>2 DEF PairStep, SessionEnd, SessionType, PageStep, Only
<1> QED BY <1>3, PairKeepsInv DEF RelayInv

\* The session takes a callback for its connection and goes on.
LEMMA HandlerKeepsInv ==
  ASSUME RelayInv, NEW c \in Client, state[c] # "closed", NEW h,
         SessionHandler(my[c], h), NEW s \in State \ {"closed"}, NEW k \in CliCb,
         \/ Session(c, s, k)
         \/ UNCHANGED sessionVars /\ s = state[c] /\ k = ch[c],
         Fits(s, k, h)
  PROVE  SessionInv'
<1>1. /\ SessionType /\ my[c] \in My /\ conn[my[c]] = c
      /\ cb \in [My -> HsCb \cup PingCb \cup SessionCb \cup {"none"}]
  BY OwnConnection DEF RelayInv, SessionInv, PlaceInv, TypeOK
<1>2. SessionType'
  BY <1>1 DEF SessionType, Session, sessionVars
<1> PICK m \in My : m = my[c]
  BY <1>1
<1>3. conn' = conn /\ cb' = [cb EXCEPT ![m] = h] /\ my' = my
  BY DEF SessionHandler, Session, sessionVars
<1>4. state'[c] = s /\ ch'[c] = k
  BY <1>1 DEF SessionType, Session, sessionVars
<1>5. \A d \in Client \ {c} : state'[d] = state[d] /\ ch'[d] = ch[d]
  BY <1>1 DEF SessionType, Session, sessionVars
<1>6. PairStep(c, m)
  BY <1>1, <1>2, <1>3, <1>4, <1>5 DEF PairStep
<1> QED BY <1>6, PairKeepsInv DEF RelayInv

\* Only the session's side moves.
LEMMA ClientKeepsInv ==
  ASSUME RelayInv, NEW c \in Client, state[c] # "closed", UNCHANGED vars,
         NEW s \in State \ {"closed"}, NEW k \in CliCb, Session(c, s, k),
         Fits(s, k, cb[my[c]])
  PROVE  SessionInv'
<1>1. SessionType /\ my[c] \in My /\ conn[my[c]] = c
  BY OwnConnection DEF RelayInv, SessionInv
<1>2. SessionType'
  BY <1>1 DEF SessionType, Session
<1> PICK m \in My : m = my[c]
  BY <1>1
<1>3. conn' = conn /\ cb' = cb /\ my' = my
  BY DEF vars, Session
<1>4. PairStep(c, m)
  BY <1>1, <1>2, <1>3 DEF PairStep, SessionType, Session
<1> QED BY <1>4, PairKeepsInv DEF RelayInv

-----------------------------------------------------------------------------
(* The steps of the sessions.                                              *)

LEMMA AcceptKeepsInv ==
  ASSUME RelayInv, NEW c \in Client, NEW m \in My, NEW n \in Node, Accept(c, m, n)
  PROVE  SessionInv'
<1>1. /\ SessionType /\ PointersAgree /\ PlaceInv /\ NULL \notin Client
      /\ conn \in [My -> Client \cup {NULL}]
      /\ cb \in [My -> HsCb \cup PingCb \cup SessionCb \cup {"none"}]
  BY MyAssumption DEF RelayInv, SessionInv, PlaceInv, TypeOK
<1>2. conn[m] = NULL
  BY <1>1, PlaceIsSound, HeadOn DEF Accept, SlaveConnGet, FitsList, Unwatched, ListName
<1>3. my[c] = NULL
  BY <1>1 DEF Accept, PointersAgree
<1>4. conn' = [conn EXCEPT ![m] = c] /\ cb' = [cb EXCEPT ![m] = "none"]
  BY DEF Accept, SlaveConnGet, my_conn_set_used
<1>5. /\ state' = [state EXCEPT ![c] = "unavail"] /\ my' = [my EXCEPT ![c] = m]
      /\ ch' = [ch EXCEPT ![c] = "hs1"]
  BY DEF Accept
<1>6. SessionType'
  BY <1>1, <1>5 DEF SessionType, State, CliCb
<1>7. PairStep(c, m)
  BY <1>1, <1>4, <1>5, <1>6 DEF PairStep, SessionType, Fits
<1> QED BY <1>2, <1>3, <1>7, PairKeepsInv DEF RelayInv

LEMMA ClosesKeepInv ==
  ASSUME RelayInv, NEW c \in Client, CliClose(c) \/ Timeout(c) \/ MyClose(c)
  PROVE  SessionInv'
<1>1. state[c] # "closed" /\ SessionEnd(c)
  BY DEF CliClose, Timeout, MyClose
<1>2. my[c] \in My /\ PlaceInv /\ conn \in [My -> Client \cup {NULL}]
  BY <1>1, OwnConnection DEF RelayInv, PlaceInv, TypeOK
<1> PICK m \in My : m = my[c]
  BY <1>2
<1>3. Put(m) \/ Close(m)
  BY DEF CliClose, Timeout, MyClose
<1>4. PageStep(m)
  BY <1>2, <1>3, PlaceIsSound, ListMoves, CloseMoves
<1>5. conn'[m] = NULL
  BY <1>2, <1>3 DEF Put, Close, my_conn_put, my_conn_set_avail, my_conn_close, Closed
<1> QED BY <1>1, <1>4, <1>5, EndKeepsInv

LEMMA CommandsKeepInv ==
  ASSUME RelayInv, NEW c \in Client,
         CliHs(c) \/ CliOkWritten(c) \/ CliReadPart(c) \/ CliIgnored(c) \/ CliForward(c)
  PROVE  SessionInv'
<1>1. Fits(state[c], ch[c], cb[my[c]]) /\ state[c] \in State
  BY DEF RelayInv, SessionInv, SessionType, AllFit
<1>2. CASE CliHs(c)
  <2>1. state[c] = "unavail" /\ cb[my[c]] = "none" /\ UNCHANGED vars
    BY <1>1, <1>2 DEF CliHs, Fits, PoolIdle
  <2>2. \/ Session(c, "unavail", "hs2") \/ Session(c, "idle", "query")
        \/ Session(c, "unavail", "hs3") \/ Session(c, "unavail", "auth_fail")
    BY <1>2, <2>1 DEF CliHs
  <2>3. /\ Fits("unavail", "hs2", "none") /\ Fits("idle", "query", "none")
        /\ Fits("unavail", "hs3", "none") /\ Fits("unavail", "auth_fail", "none")
    BY DEF Fits
  <2>4. {"unavail", "idle"} \subseteq State \ {"closed"}
    BY DEF State
  <2>5. {"hs2", "hs3", "auth_fail", "query"} \subseteq CliCb
    BY DEF CliCb
  <2> QED BY <2>1, <2>2, <2>3, <2>4, <2>5, ClientKeepsInv
<1>3. CASE CliOkWritten(c)
  <2>1. state[c] = "reading" /\ cb[my[c]] = "none" /\ UNCHANGED vars
    BY <1>1, <1>3 DEF CliOkWritten, Fits, PoolIdle
  <2>2. Fits("reading", "query", "none") /\ "reading" \in State \ {"closed"} /\ "query" \in CliCb
    BY DEF Fits, State, CliCb
  <2> QED BY <1>3, <2>1, <2>2, ClientKeepsInv DEF CliOkWritten
<1>4. CASE CliReadPart(c) \/ CliIgnored(c) \/ CliForward(c)
  <2>1. state[c] # "closed"
    BY <1>4 DEF CliReadPart, CliIgnored, CliForward, Hears
  <2>2. /\ {"reading", "prepare", "writing"} \subseteq State \ {"closed"}
        /\ {"query", "ok"} \subseteq CliCb
    BY DEF State, CliCb
  <2>3. /\ Fits("reading", "query", "none") /\ Fits("reading", "ok", "none")
        /\ Fits("prepare", "query", "use_req") /\ Fits("writing", "query", "query")
    BY DEF Fits
  <2>4. \/ SessionHandler(my[c], "none") /\ Session(c, "reading", "query")
        \/ SessionHandler(my[c], "none") /\ Session(c, "reading", "ok")
        \/ SessionHandler(my[c], "use_req") /\ Session(c, "prepare", "query")
        \/ SessionHandler(my[c], "query") /\ Session(c, "writing", "query")
    BY <1>4 DEF CliReadPart, CliIgnored, CliForward
  <2> QED BY <2>1, <2>2, <2>3, <2>4, HandlerKeepsInv
<1> QED BY <1>2, <1>3, <1>4

LEMMA ExchangeKeepsInv ==
  ASSUME RelayInv, NEW c \in Client,
         \/ UseDbReq(c) \/ UseDbResp(c) \/ MyQuery(c) \/ MyAnswer(c) \/ MyAnswerEof(c)
         \/ CliAnswer(c)
  PROVE  SessionInv'
<1>1. Fits(state[c], ch[c], cb[my[c]]) /\ state[c] \in State
  BY DEF RelayInv, SessionInv, SessionType, AllFit
<1>2. /\ {"prepare", "writing", "answering"} \subseteq State \ {"closed"}
      /\ {"query", "answer", "answer0"} \subseteq CliCb
  BY DEF State, CliCb
<1>3. /\ Fits("prepare", "query", "use_resp") /\ Fits("writing", "query", "query")
      /\ Fits("answering", "query", "answer") /\ Fits("answering", "answer", "none")
      /\ Fits("answering", "answer0", "none")
  BY DEF Fits
<1>4. CASE UseDbReq(c)
  <2>1. state[c] = "prepare" /\ ch[c] = "query"
    BY <1>1, <1>4 DEF UseDbReq, Fits
  <2>2. SessionHandler(my[c], "use_resp") /\ UNCHANGED sessionVars
    BY <1>4 DEF UseDbReq
  <2> QED BY <1>2, <1>3, <2>1, <2>2, HandlerKeepsInv
<1>5. CASE UseDbResp(c) \/ MyQuery(c)
  <2>1. state[c] # "closed" /\ ch[c] = "query"
    BY <1>1, <1>5 DEF UseDbResp, MyQuery, Fits
  <2>2. \/ SessionHandler(my[c], "query") /\ Session(c, "writing", "query")
        \/ SessionHandler(my[c], "answer") /\ Session(c, "answering", "query")
    BY <1>5, <2>1 DEF UseDbResp, MyQuery
  <2> QED BY <1>2, <1>3, <2>1, <2>2, HandlerKeepsInv
<1>6. CASE MyAnswer(c) \/ MyAnswerEof(c)
  <2>1. state[c] # "closed"
    BY <1>6 DEF MyAnswer, MyAnswerEof
  <2>2. /\ SessionHandler(my[c], "none")
        /\ Session(c, "answering", "answer") \/ Session(c, "answering", "answer0")
    BY <1>6 DEF MyAnswer, MyAnswerEof
  <2> QED BY <1>2, <1>3, <2>1, <2>2, HandlerKeepsInv
<1>7. CASE CliAnswer(c)
  <2>1. state[c] = "answering"
    BY <1>1, <1>7 DEF CliAnswer, Fits
  <2>2. SessionHandler(my[c], "answer") /\ Session(c, "answering", "query")
    BY <1>7, <2>1 DEF CliAnswer
  <2> QED BY <1>2, <1>3, <2>1, <2>2, HandlerKeepsInv
<1> QED BY <1>4, <1>5, <1>6, <1>7

LEMMA CleanupKeepsInv ==
  ASSUME RelayInv, NEW m \in My, CleanupWire(m)
  PROVE  SessionInv'
<1>1. /\ Cleanup(m) /\ PlaceInv /\ conn \in [My -> Client \cup {NULL}] /\ SessionInv
  BY DEF RelayInv, CleanupWire, PlaceInv, TypeOK
<1>2. PageStep(m)
  BY <1>1, PlaceIsSound, CloseMoves
<1>3. conn'[m] = NULL
  BY <1>1 DEF Cleanup, my_conn_close_and_release, Closed
<1>4. CASE conn[m] = NULL
  BY <1>1, <1>2, <1>3, <1>4, UnownedStep, OwnersKeptKeepsInv DEF CleanupWire
<1>5. CASE conn[m] # NULL
  <2>1. SessionEnd(conn[m]) /\ conn[m] \in Client
    BY <1>1, <1>5 DEF CleanupWire
  <2>2. my[conn[m]] = m /\ state[conn[m]] # "closed"
    BY <1>1, <2>1, MyAssumption DEF SessionInv, PointersAgree
  <2> QED BY <1>2, <1>3, <2>1, <2>2, EndKeepsInv
<1> QED BY <1>4, <1>5

\* The sessions keep fitting their connections whatever happens.
LEMMA NextKeepsSessions == RelayInv /\ [RelayNext]_relayVars => SessionInv'
<1> SUFFICES ASSUME RelayInv, [RelayNext]_relayVars PROVE SessionInv'
  OBVIOUS
<1>1. SessionInv /\ PlaceInv
  BY DEF RelayInv
<1>2. CASE UNCHANGED relayVars
  <2>1. OwnersKept /\ UNCHANGED sessionVars
    BY <1>2 DEF relayVars, vars, OwnersKept
  <2> QED BY <1>1, <2>1, OwnersKeptKeepsInv
<1>3. CASE \E m \in My : PingWire(m) /\ UNCHANGED sessionVars
  <2>1. OwnersKept
    BY <1>1, <1>3, PoolKeepsOwners DEF PingWire
  <2> QED BY <1>1, <1>3, <2>1, OwnersKeptKeepsInv
<1>4. CASE PoolAlone /\ UNCHANGED sessionVars
  BY <1>1, <1>4, PoolKeepsOwners, OwnersKeptKeepsInv
<1>5. ASSUME NEW c \in Client, MyWritePart(c) PROVE SessionInv'
  <2>1. OwnersKept /\ UNCHANGED sessionVars
    BY <1>5 DEF MyWritePart, vars, OwnersKept
  <2> QED BY <1>1, <2>1, OwnersKeptKeepsInv
<1> QED BY <1>2, <1>3, <1>4, <1>5, AcceptKeepsInv, ClosesKeepInv, CommandsKeepInv,
           ExchangeKeepsInv, CleanupKeepsInv DEF RelayNext

\* At most MaxOwed responses are outstanding: the bound of the model, and never
\* less than none.
LEMMA NextKeepsWire == RelayInv /\ [RelayNext]_relayVars => WireType'
<1> SUFFICES ASSUME RelayInv, [RelayNext]_relayVars PROVE WireType'
  OBVIOUS
<1>1. WireType /\ MaxOwed \in Nat
  BY OwedAssumption DEF RelayInv
<1>2. CASE UNCHANGED wireVars
  BY <1>1, <1>2 DEF WireType, wireVars
<1>3. CASE WireRest
  BY <1>1, <1>3 DEF WireType, WireRest
<1>4. ASSUME NEW m, NEW d \in Int, Wire(m, d), m \in My => owed[m] + d \in 0 .. MaxOwed
      PROVE  WireType'
  BY <1>1, <1>4 DEF WireType, Wire
<1>5. ASSUME NEW m, m \in My => owed[m] < MaxOwed, Wire(m, 1) PROVE WireType'
  BY <1>1, <1>4, <1>5 DEF WireType
<1>6. ASSUME NEW m, m \in My => owed[m] > 0, Wire(m, -1) PROVE WireType'
  BY <1>1, <1>4, <1>6 DEF WireType
<1>7. ASSUME NEW m, Wire(m, 0) PROVE WireType'
  BY <1>1, <1>4, <1>7 DEF WireType
<1>8. CASE \E m \in My : PingWire(m)
  BY <1>5, <1>6, <1>8 DEF PingWire
<1>9. ASSUME NEW c \in Client,
             UseDbReq(c) \/ UseDbResp(c) \/ MyQuery(c) \/ MyAnswer(c)
      PROVE  WireType'
  <2>1. CASE UseDbReq(c)
    BY <1>5, <2>1 DEF UseDbReq
  <2>2. CASE UseDbResp(c)
    BY <1>6, <2>2 DEF UseDbResp
  <2>3. CASE MyQuery(c)
    BY <1>5, <2>3 DEF MyQuery
  <2>4. CASE MyAnswer(c)
    BY <1>6, <1>7, <2>4 DEF MyAnswer
  <2> QED BY <1>9, <2>1, <2>2, <2>3, <2>4
<1>10. ASSUME NEW c \in Client, MyWritePart(c) PROVE WireType'
  <2>1. my[c] \in My
    BY <1>10, OwnConnection DEF MyWritePart, RelayInv
  <2> QED BY <1>1, <1>10, <2>1 DEF MyWritePart, WireType
<1>11. ASSUME NEW c \in Client, CliHs(c) PROVE UNCHANGED wireVars
  BY <1>11 DEF CliHs, PoolIdle
<1>12. ASSUME NEW c \in Client, CliOkWritten(c) PROVE UNCHANGED wireVars
  BY <1>12 DEF CliOkWritten, PoolIdle
<1>13. ASSUME NEW c \in Client,
              \/ CliReadPart(c) \/ CliIgnored(c) \/ CliForward(c)
              \/ MyAnswerEof(c) \/ CliAnswer(c)
              \/ \E m \in My, n \in Node : Accept(c, m, n)
       PROVE  UNCHANGED wireVars
  BY <1>13 DEF CliReadPart, CliIgnored, CliForward, MyAnswerEof, CliAnswer, Accept
<1>14. ASSUME NEW c \in Client, CliClose(c) \/ Timeout(c) \/ MyClose(c) PROVE WireRest
  BY <1>14 DEF CliClose, Timeout, MyClose
<1>15. UNCHANGED relayVars => UNCHANGED wireVars
  BY DEF relayVars
<1>16. (\E m \in My : CleanupWire(m)) => WireRest
  BY DEF CleanupWire
<1> QED BY <1>2, <1>3, <1>8, <1>9, <1>10, <1>11, <1>12, <1>13, <1>14, <1>15, <1>16
        DEF RelayNext

LEMMA RelayInitKeepsInv == RelayInit => RelayInv
<1> SUFFICES ASSUME RelayInit PROVE RelayInv
  OBVIOUS
<1>1. PlaceInv
  BY BootKeepsInv DEF RelayInit
<1>2. SessionType /\ WireType
  BY OwedAssumption DEF RelayInit, SessionType, WireType, State, CliCb
<1>3. PointersAgree /\ AllFit
  BY MyAssumption DEF RelayInit, Init, my_pool_init, PointersAgree, AllFit, Fits
<1> QED BY <1>1, <1>2, <1>3 DEF RelayInv, SessionInv

-----------------------------------------------------------------------------
(* Theorems.                                                               *)

\* The inductive invariant of the sessions and their connections.
THEOREM RelayInvCorrect == RelaySpec => []RelayInv
<1>1. RelayInv /\ [RelayNext]_relayVars => RelayInv'
  <2> SUFFICES ASSUME RelayInv, [RelayNext]_relayVars PROVE RelayInv'
    OBVIOUS
  <2>1. PlaceInv'
    BY RelayIsPoolStep, NextKeepsPlace DEF RelayInv
  <2> QED BY <2>1, NextKeepsSessions, NextKeepsWire DEF RelayInv
<1> QED BY <1>1, RelayInitKeepsInv, PTL DEF RelaySpec

\* The sessions use the pool as its module says sessions may: what is proved of
\* the pool alone holds of the pool under the sessions.
THEOREM PoolUnderSessions == RelaySpec => Spec
<1>1. RelayInv /\ [RelayNext]_relayVars => [Next]_vars
  BY RelayIsPoolStep DEF RelayInv
<1>2. RelayInit => Init
  BY DEF RelayInit
<1> QED BY <1>1, <1>2, RelayInvCorrect, PTL DEF RelaySpec, Spec

\* Type correctness of sessions, connections and what is outstanding.
THEOREM RelayTypeCorrect == RelaySpec => []RelayTypeOK
<1>1. RelayInv => RelayTypeOK
  BY DEF RelayInv, SessionInv, SessionType, WireType, RelayTypeOK, PlaceInv
<1> QED BY <1>1, RelayInvCorrect, PTL

\* Session and connection point at each other, on both sides of every close.
THEOREM PointersCorrect == RelaySpec => []PointersAgree
<1>1. RelayInv => PointersAgree
  BY DEF RelayInv, SessionInv
<1> QED BY <1>1, RelayInvCorrect, PTL

\* The callbacks on the two sockets of a session are those its state calls for.
THEOREM CallbacksCorrect == RelaySpec => []CallbacksFitState
<1>1. RelayInv => CallbacksFitState
  BY FitIsFit DEF RelayInv, SessionInv
<1> QED BY <1>1, RelayInvCorrect, PTL

=============================================================================
