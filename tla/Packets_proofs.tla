--------------------------- MODULE Packets_proofs ---------------------------
(***************************************************************************)
(* Theorems about the packets of the relay: the bytes and the contents.    *)
(*                                                                         *)
(* The buffer of a session, for packets and answers of any lengths, cut    *)
(* anywhere, any size of the buffer and clients that do or do not wait for *)
(* their answers.                                                          *)
(*                                                                         *)
(* The two logins, for any servers, SSL or not, any passwords, sets of     *)
(* capabilities and databases, and clients whose names fit a login.        *)
(***************************************************************************)
EXTENDS PktBuf, Login, TLAPS

-----------------------------------------------------------------------------
(* The buffer of a session.                                                *)

\* The values of the variables, besides what BufTypeOK says of them.
Counts ==
  /\ buf \in [size : Nat, used : Nat, pos : Nat, reloc : BOOLEAN]
  /\ buf.size >= PREALLOC
  /\ sent \in Seq(PktLen)
  /\ read \in Nat /\ written \in Nat /\ due \in Nat
  /\ answered \in [read : Nat, written : Nat]

BufInv == Counts /\ BufTypeOK /\ BytesKept

LEMMA FreshFacts ==
  /\ Fresh \in [size : Nat, used : Nat, pos : Nat, reloc : BOOLEAN]
  /\ Fresh.size = PREALLOC /\ Fresh.used = 0 /\ Fresh.pos = 0 /\ ~Fresh.reloc
BY LenAssumption DEF Fresh

LEMMA HeadLenNat ==
  ASSUME Counts, NEW l \in HeadLen
  PROVE  l \in Nat
<1>1. l \in PktLen
  BY DEF HeadLen, Counts
<1> QED BY <1>1, LenAssumption

LEMMA BufInitEstablishes ==
  ASSUME BufInit PROVE BufInv
BY LenAssumption, FreshFacts DEF BufInit, BufInv, Counts, BufTypeOK, BytesKept, Held, Left

-----------------------------------------------------------------------------
(* The steps.                                                              *)

\* The buffer after a read of n bytes, of which the packet wants l, before the
\* position is taken back.
Grown(n, l) ==
  LET size == Realloc(Filled(n).size, l) IN
  [Filled(n) EXCEPT !.size = size, !.reloc = @ \/ size > Filled(n).size]

LEMMA FilledFacts ==
  ASSUME Counts, BufTypeOK, NEW n \in Nat, n <= Room(buf)
  PROVE  /\ Filled(n) \in [size : Nat, used : Nat, pos : Nat, reloc : BOOLEAN]
         /\ Filled(n).used = buf.used + n /\ Filled(n).pos = buf.pos + n
         /\ Filled(n).size = buf.size /\ Filled(n).reloc = buf.reloc
         /\ buf.used + n <= buf.size
<1>1. /\ buf \in [size : Nat, used : Nat, pos : Nat, reloc : BOOLEAN]
      /\ buf.used <= buf.size
  BY DEF Counts, BufTypeOK
<1>2. buf.used + n <= buf.size
  BY <1>1 DEF Room
<1>3. buf.used + n \in Nat /\ buf.pos + n \in Nat
  BY <1>1
<1> QED BY <1>1, <1>2, <1>3 DEF Filled

LEMMA GrownFacts ==
  ASSUME Counts, BufTypeOK, NEW n \in Nat, n <= Room(buf), NEW l \in Nat
  PROVE  /\ Grown(n, l) \in [size : Nat, used : Nat, pos : Nat, reloc : BOOLEAN]
         /\ Grown(n, l).used = buf.used + n /\ Grown(n, l).pos = buf.pos + n
         /\ Grown(n, l).size >= buf.size
         /\ Grown(n, l).reloc <=> Grown(n, l).size > PREALLOC
<1>1. Realloc(buf.size, l) \in Nat /\ Realloc(buf.size, l) >= buf.size
  BY DEF Realloc, Counts
<1>2. /\ Grown(n, l) \in [size : Nat, used : Nat, pos : Nat, reloc : BOOLEAN]
      /\ Grown(n, l).used = buf.used + n /\ Grown(n, l).pos = buf.pos + n
      /\ Grown(n, l).size = Realloc(buf.size, l)
      /\ Grown(n, l).reloc <=> buf.reloc \/ Realloc(buf.size, l) > buf.size
  BY <1>1, FilledFacts DEF Grown
<1>3. buf.reloc <=> buf.size > PREALLOC
  BY DEF BufTypeOK
<1>4. PREALLOC \in Nat /\ buf.size \in Nat /\ buf.size >= PREALLOC
  BY LenAssumption DEF Counts
<1> QED BY <1>1, <1>2, <1>3, <1>4

LEMMA ReadStep ==
  ASSUME BufInv, NEW n \in Some, MyRealRead(n)
  PROVE  BufInv'
<1> USE DEF BufInv
<1>1. n \in Nat /\ n <= Room(buf)
  BY DEF Some, MyRealRead
<1>2. /\ buf \in [size : Nat, used : Nat, pos : Nat, reloc : BOOLEAN]
      /\ 0 <= buf.pos /\ buf.pos <= buf.used /\ buf.used <= buf.size
      /\ mode \in {"read", "answer"}
  BY DEF Counts, BufTypeOK, MyRealRead
<1>3. /\ read' = read + n
      /\ UNCHANGED <<sent, written, commands, due, answered, eof>>
  BY DEF MyRealRead
<1>4. read = written + buf.used /\ answered.read = answered.written
  BY <1>2, FreshFacts DEF BytesKept, Held, Counts
<1>5. /\ buf.used + n <= buf.size /\ PREALLOC \in Nat /\ buf.size >= PREALLOC
      /\ read' \in Nat /\ read' = written + (buf.used + n)
      /\ written \in Nat /\ due \in Nat /\ answered \in [read : Nat, written : Nat]
      /\ sent \in Seq(PktLen)
  BY <1>1, <1>2, <1>3, <1>4, LenAssumption DEF Counts, Room
<1>6. CASE Part(n) /\ mode' = "read"
  <2>1. /\ buf' \in [size : Nat, used : Nat, pos : Nat, reloc : BOOLEAN]
        /\ buf'.used = buf.used + n /\ buf'.pos = buf.pos + n
        /\ buf'.size >= buf.size
        /\ buf'.reloc <=> buf'.size > PREALLOC
    <3>1. buf' = Filled(n) \/ \E l \in HeadLen : buf' = Grown(n, l)
      BY <1>6 DEF Part, Grown
    <3>2. CASE buf' = Filled(n)
      BY <1>1, <1>2, <3>2, FilledFacts DEF BufTypeOK
    <3>3. CASE \E l \in HeadLen : buf' = Grown(n, l)
      <4>1. PICK l \in HeadLen : buf' = Grown(n, l)
        BY <3>3
      <4> QED BY <1>1, <4>1, GrownFacts, HeadLenNat
    <3> QED BY <3>1, <3>2, <3>3
  <2>2. Counts'
    BY <1>1, <1>2, <1>3, <1>5, <2>1 DEF Counts
  <2>3. BufTypeOK'
    BY <1>1, <1>2, <1>6, <1>5, <2>1 DEF BufTypeOK
  <2>4. BytesKept'
    <3>1. /\ Held("read")' = buf.used + n /\ Held("write")' = 0 /\ Held("client")' = 0
          /\ mode' # "answer"
      BY <1>6, <2>1 DEF Held
    <3>2. answered' = answered /\ written' = written
      BY <1>3
    <3> QED BY <1>4, <1>5, <3>1, <3>2 DEF BytesKept
  <2> QED BY <2>2, <2>3, <2>4
<1>7. CASE Whole(n) /\ mode' = "write"
  <2>1. PICK l \in HeadLen : buf' = buf_rewind(Grown(n, l)) /\ buf.used + n >= l
    BY <1>1, <1>7, FilledFacts DEF Whole, Grown
  <2>2. /\ buf' \in [size : Nat, used : Nat, pos : Nat, reloc : BOOLEAN]
        /\ buf'.used = buf.used + n /\ buf'.pos = 0
        /\ buf'.size >= buf.size
        /\ buf'.reloc <=> buf'.size > PREALLOC
    BY <1>1, <2>1, GrownFacts, HeadLenNat DEF buf_rewind
  <2>3. Counts'
    BY <1>1, <1>2, <1>3, <1>5, <2>2 DEF Counts
  <2>4. BufTypeOK'
    BY <1>1, <1>2, <1>7, <1>5, <2>2 DEF BufTypeOK
  <2>5. BytesKept'
    BY <1>1, <1>2, <1>3, <1>4, <1>7, <1>5, <2>2 DEF BytesKept, Held, Left
  <2> QED BY <2>3, <2>4, <2>5
<1> QED BY <1>6, <1>7 DEF MyRealRead

LEMMA MovedFacts ==
  ASSUME Counts, NEW n \in Nat
  PROVE  /\ Moved(n) \in [size : Nat, used : Nat, pos : Nat, reloc : BOOLEAN]
         /\ Moved(n).pos = buf.pos + n /\ Moved(n).used = buf.used
         /\ Moved(n).size = buf.size /\ Moved(n).reloc = buf.reloc
BY DEF Counts, Moved

LEMMA WriteStep ==
  ASSUME BufInv, NEW n \in Some, MyQuery(n) \/ CliAnswer(n)
  PROVE  BufInv'
<1> USE DEF BufInv
<1>1. n \in Nat /\ n <= Left
  BY DEF Some, MyQuery, CliAnswer
<1>2. /\ buf \in [size : Nat, used : Nat, pos : Nat, reloc : BOOLEAN]
      /\ 0 <= buf.pos /\ buf.pos <= buf.used /\ buf.used <= buf.size
      /\ read \in Nat /\ written \in Nat /\ due \in Nat
      /\ answered \in [read : Nat, written : Nat]
  BY DEF Counts, BufTypeOK
<1>3. /\ Moved(n) \in [size : Nat, used : Nat, pos : Nat, reloc : BOOLEAN]
      /\ Moved(n).pos = buf.pos + n /\ Moved(n).used = buf.used
      /\ Moved(n).size = buf.size /\ Moved(n).reloc = buf.reloc
  BY <1>1, MovedFacts
<1>4. Done(n) => n = Left
  BY <1>3, <1>1, <1>2 DEF Done, Left
<1>5. CASE MyQuery(n)
  <2>1. written' = written + n /\ mode = "write" /\ UNCHANGED <<sent, read, answered, eof>>
    BY <1>5 DEF MyQuery
  <2>2. read = written + Left /\ answered.read = answered.written
    BY <1>2, <2>1 DEF BytesKept, Held
  <2>3. CASE Done(n)
    <3>1. /\ buf' = Fresh /\ mode' = "answer"
          /\ due' = due \/ \E a \in Answer : due' = due + a
      BY <1>5, <2>3 DEF MyQuery, buf_reset
    <3>2. due' \in Nat
      BY <1>2, <3>1, LenAssumption
    <3> QED BY <1>1, <1>2, <1>4, <2>1, <2>2, <2>3, <3>1, <3>2, FreshFacts
            DEF Counts, BufTypeOK, BytesKept, Held
  <2>4. CASE ~Done(n)
    <3>1. buf' = Moved(n) /\ mode' = mode /\ due' = due
      BY <1>5, <2>4 DEF MyQuery
    <3> QED BY <1>1, <1>2, <2>1, <2>2, <3>1, <1>3
            DEF Counts, BufTypeOK, BytesKept, Held, Left
  <2> QED BY <2>3, <2>4
<1>6. CASE CliAnswer(n)
  <2>1. /\ answered' = [answered EXCEPT !.written = @ + n] /\ mode = "client"
        /\ UNCHANGED <<sent, read, written, due, eof>>
    BY <1>6 DEF CliAnswer
  <2>2. answered.read = answered.written + Left /\ read = written
    BY <1>2, <2>1 DEF BytesKept, Held
  <2>3. /\ answered' \in [read : Nat, written : Nat]
        /\ answered'.read = answered.read /\ answered'.written = answered.written + n
    BY <1>1, <1>2, <2>1
  <2>4. CASE Done(n)
    <3>1. buf' = Fresh /\ mode' = "answer"
      BY <1>6, <2>4 DEF CliAnswer, buf_reset
    <3> QED BY <1>1, <1>2, <1>4, <2>1, <2>2, <2>3, <2>4, <3>1, FreshFacts
            DEF Counts, BufTypeOK, BytesKept, Held
  <2>5. CASE ~Done(n)
    <3>1. buf' = Moved(n) /\ mode' = mode
      BY <1>6, <2>5 DEF CliAnswer
    <3> QED BY <1>1, <1>2, <2>1, <2>2, <2>3, <3>1, <1>3
            DEF Counts, BufTypeOK, BytesKept, Held, Left
  <2> QED BY <2>4, <2>5
<1> QED BY <1>5, <1>6

LEMMA AnswerStep ==
  ASSUME BufInv, NEW n \in Some, MyAnswer(n)
  PROVE  BufInv'
<1> USE DEF BufInv
<1>1. /\ n \in Nat /\ n <= Room(buf) /\ n <= due
      /\ due' = due - n /\ mode = "answer" /\ mode' = "client"
      /\ answered' = [answered EXCEPT !.read = @ + n]
      /\ buf' = buf_rewind(Filled(n))
      /\ UNCHANGED <<sent, read, written, commands, eof>>
  BY DEF Some, MyAnswer
<1>2. /\ buf = Fresh /\ read = written /\ answered.read = answered.written
      /\ written \in Nat /\ due \in Nat /\ answered \in [read : Nat, written : Nat]
  BY <1>1 DEF BytesKept, Held, Counts
<1>3. /\ buf' \in [size : Nat, used : Nat, pos : Nat, reloc : BOOLEAN]
      /\ buf'.used = n /\ buf'.pos = 0 /\ buf'.size = PREALLOC /\ ~buf'.reloc
      /\ n <= PREALLOC
  BY <1>1, <1>2, FilledFacts, FreshFacts DEF buf_rewind
<1>4. /\ answered' \in [read : Nat, written : Nat]
      /\ answered'.read = answered.read + n /\ answered'.written = answered.written
  BY <1>1, <1>2
<1> QED BY <1>1, <1>2, <1>3, <1>4, LenAssumption
        DEF Counts, BufTypeOK, BytesKept, Held, Left

LEMMA OtherStep ==
  ASSUME BufInv,
         \/ \E l \in PktLen : ClientSends(l)
         \/ \E who \in {"client", "server"} : Closes(who)
         \/ MyRealReadEnd \/ CliHeardWriting \/ SocketFails \/ MyAnswerEof
         \/ UNCHANGED bufVars
  PROVE  BufInv'
<1> USE DEF BufInv, Counts, BufTypeOK, BytesKept, Held, Left
<1>1. ASSUME NEW l \in PktLen, ClientSends(l)
      PROVE  BufInv'
  BY <1>1 DEF ClientSends
<1>2. ASSUME NEW who \in {"client", "server"}, Closes(who)
      PROVE  BufInv'
  BY <1>2 DEF Closes
<1>3. CASE MyRealReadEnd \/ CliHeardWriting \/ SocketFails
  BY <1>3 DEF MyRealReadEnd, CliHeardWriting, SocketFails
<1>4. CASE MyAnswerEof
  BY <1>4, FreshFacts DEF MyAnswerEof
<1>5. CASE UNCHANGED bufVars
  BY <1>5 DEF bufVars
<1> QED BY <1>1, <1>2, <1>3, <1>4, <1>5

LEMMA BufStepPreserves ==
  ASSUME BufInv, [BufNext]_bufVars
  PROVE  BufInv'
BY ReadStep, WriteStep, AnswerStep, OtherStep DEF BufNext

-----------------------------------------------------------------------------
(* While a command is read there is room for more of it.                   *)

RoomLeft == mode = "read" => Room(buf) > 0

LEMMA ReadLeavesRoom ==
  ASSUME BufInv, NEW n \in Some, MyRealRead(n), mode' = "read"
  PROVE  Room(buf') > 0
<1>1. n \in Nat /\ n <= Room(buf) /\ Part(n)
  BY DEF Some, MyRealRead
<1>2. /\ Filled(n) \in [size : Nat, used : Nat, pos : Nat, reloc : BOOLEAN]
      /\ Filled(n).used = buf.used + n /\ Filled(n).size = buf.size
  BY <1>1, FilledFacts DEF BufInv
<1>3. buf.size \in Nat /\ buf.size >= PREALLOC /\ PREALLOC > HEADER_SIZE
      /\ PREALLOC \in Nat /\ HEADER_SIZE \in Nat
  BY LenAssumption DEF BufInv, Counts
<1>4. CASE Filled(n).used < HEADER_SIZE /\ buf' = Filled(n)
  BY <1>2, <1>3, <1>4 DEF Room
<1>5. CASE \E l \in HeadLen : Filled(n).used < l /\ buf' = Grown(n, l)
  <2>1. PICK l \in HeadLen : Filled(n).used < l /\ buf' = Grown(n, l)
    BY <1>5
  <2>2. l \in Nat
    BY HeadLenNat DEF BufInv
  <2>3. /\ buf'.used = Filled(n).used
        /\ buf'.size = Realloc(buf.size, l)
    BY <1>2, <2>1, <2>2, <1>3 DEF Grown, Realloc
  <2>4. Realloc(buf.size, l) \in Nat /\ Realloc(buf.size, l) >= l
    BY <1>3, <2>2 DEF Realloc
  <2> QED BY <1>2, <2>1, <2>2, <2>3, <2>4 DEF Room
<1> QED BY <1>1, <1>4, <1>5 DEF Part, Grown

LEMMA StepLeavesRoom ==
  ASSUME BufInv, RoomLeft, [BufNext]_bufVars
  PROVE  RoomLeft'
<1>1. ASSUME NEW n \in Some, MyRealRead(n) PROVE RoomLeft'
  BY <1>1, ReadLeavesRoom DEF RoomLeft, Room
<1>2. ASSUME UNCHANGED buf, mode' = "read" => mode = "read" PROVE RoomLeft'
  BY <1>2 DEF RoomLeft, Room
<1>3. ASSUME mode' # "read" PROVE RoomLeft'
  BY <1>3 DEF RoomLeft
<1>4. ASSUME NEW n \in Some, MyQuery(n) \/ MyAnswer(n) \/ CliAnswer(n) PROVE mode' # "read"
  BY <1>4 DEF MyQuery, MyAnswer, CliAnswer
<1>5. ASSUME \/ \E l \in PktLen : ClientSends(l)
             \/ \E who \in {"client", "server"} : Closes(who)
             \/ MyRealReadEnd \/ CliHeardWriting \/ SocketFails \/ MyAnswerEof
             \/ UNCHANGED bufVars
      PROVE  UNCHANGED buf /\ (mode' = "read" => mode = "read")
  BY <1>5 DEF ClientSends, Closes, MyRealReadEnd, CliHeardWriting, SocketFails,
              MyAnswerEof, bufVars
<1> QED BY <1>1, <1>2, <1>3, <1>4, <1>5 DEF BufNext

\* Nothing but the end of the stream makes my_real_read see one.
LEMMA EndIsEnd ==
  ASSUME BufInv, RoomLeft, MyRealReadEnd
  PROVE  eof = "client" /\ Unread = 0
<1>1. Room(buf) > 0
  <2>1. CASE mode = "read"
    BY <2>1 DEF RoomLeft
  <2>2. CASE mode = "answer"
    BY <2>2, FreshFacts, LenAssumption DEF BufInv, BytesKept, Room
  <2> QED BY <2>1, <2>2 DEF MyRealReadEnd
<1> QED BY <1>1 DEF MyRealReadEnd

LEMMA ClosedWithCause ==
  ASSUME BufInv, RoomLeft, [BufNext]_bufVars, mode' = "closed", mode # "closed"
  PROVE  eof # "none" \/ (mode = "write" /\ Unread > 0)
<1>1. MyRealReadEnd \/ CliHeardWriting \/ SocketFails
  <2>1. ASSUME NEW n \in Some, MyRealRead(n) \/ MyQuery(n) \/ MyAnswer(n) \/ CliAnswer(n)
        PROVE  mode' # "closed"
    BY <2>1 DEF MyRealRead, MyQuery, MyAnswer, CliAnswer
  <2>2. ASSUME \/ \E l \in PktLen : ClientSends(l)
               \/ \E who \in {"client", "server"} : Closes(who)
               \/ MyAnswerEof \/ UNCHANGED bufVars
        PROVE  mode' # "closed"
    BY <2>2 DEF ClientSends, Closes, MyAnswerEof, bufVars
  <2> QED BY <2>1, <2>2 DEF BufNext
<1>2. CASE MyRealReadEnd
  BY <1>2, EndIsEnd
<1>3. CASE CliHeardWriting \/ SocketFails
  BY <1>3 DEF CliHeardWriting, SocketFails
<1> QED BY <1>1, <1>2, <1>3

-----------------------------------------------------------------------------
\* The inductive invariant: positions and sizes of the buffer, and where the
\* bytes read and not written are.
THEOREM BufInvCorrect == BufSpec => []BufInv
<1>1. BufInit => BufInv
  BY BufInitEstablishes
<1>2. BufInv /\ [BufNext]_bufVars => BufInv'
  BY BufStepPreserves
<1> QED BY <1>1, <1>2, PTL DEF BufSpec

\* The positions of the buffer are in their order and within its memory.
THEOREM BufTypeCorrect == BufSpec => []BufTypeOK
<1>1. BufInv => BufTypeOK
  BY DEF BufInv
<1> QED BY <1>1, BufInvCorrect, PTL

\* Every byte read from one socket is written to the other, once (my_ops.c:868,
\* 935, my_buf.c).
THEOREM BytesKeptCorrect == BufSpec => []BytesKept
<1>1. BufInv => BytesKept
  BY DEF BufInv
<1> QED BY <1>1, BufInvCorrect, PTL

\* There is room for the rest of a command, however long it is: a buffer that
\* is too small for it has grown when its length was read (my_ops.c:881).
THEOREM RoomLeftCorrect == BufSpec => []RoomLeft
<1>1. BufInit => RoomLeft
  BY FreshFacts, LenAssumption DEF BufInit, RoomLeft, Room
<1>2. BufInv /\ RoomLeft /\ [BufNext]_bufVars => RoomLeft'
  BY StepLeavesRoom
<1> QED BY <1>1, <1>2, BufInvCorrect, PTL DEF BufSpec

\* A session is closed when one of the two has closed its socket or the client
\* sends while its command is written (my_ops.c:550, 699, 803); my_real_read
\* takes a full buffer for the end of the stream (my_ops.c:868) but never meets
\* one.
THEOREM ClosedForCauseCorrect == BufSpec => ClosedForCause
<1>1. BufInv /\ RoomLeft /\ [BufNext]_bufVars
        => [mode' = "closed" /\ mode # "closed"
              => eof # "none" \/ (mode = "write" /\ Unread > 0)]_bufVars
  BY ClosedWithCause
<1> QED BY <1>1, BufInvCorrect, RoomLeftCorrect, PTL DEF BufSpec, ClosedForCause

-----------------------------------------------------------------------------
(* The two logins.                                                         *)

\* What a server told is known as a whole.
Tells(i, g) ==
  i.protocol = g.prot /\ i.ver = g.ver /\ i.cap = g.cap /\ i.status = g.status
Known == \E g \in Greeting : Tells(info, g)

\* The login a server waits for, and the one the relay makes.
Expected(scram, pass) == IF pass = "" THEN NoScramble ELSE Scramble(scram, pass)

\* The packet in transit, by the stage of the connection.
ConnInv ==
  /\ conn.stage \in {"start", "greeted", "login", "answered", "hungup", "avail", "fail"}
  /\ conn.stage # "start" => conn.server \in Greeting
  /\ conn.stage = "greeted" =>
       LET g == conn.server IN
       conn.pkt = <<0, g.prot, g.ver, g.scram[1], g.cap \cap LowFlag, 8,
                    g.status, g.cap \cap HighFlag, g.scram[2], PASSWORD_TYPE>>
  /\ conn.stage = "login" =>
       /\ conn.pkt[4] = my_user
       /\ conn.pkt[5] = Expected(conn.server.scram, my_pass)
       /\ "db" \notin conn.pkt[2]
       /\ "ssl" \in conn.pkt[2] <=> "ssl" \in conn.server.cap
  /\ conn.stage = "answered" => (conn.pkt[2] = 0 <=> Admits(conn.server))
  /\ conn.stage = "hungup" => ~Admits(conn.server)
  /\ ServerLogsIn

\* A login a client has made: a request for SSL has none of the names.
LoginPkt(p, u, scram, ssl) ==
  /\ ssl => Len(p) = 3
  /\ ~ssl => /\ Len(p) >= 5 /\ p[4] = u /\ p[5] = scram
             /\ Len(p) >= 6 => IsName(p[6])

\* The packet in transit, by the stage of the session.
CliInv ==
  /\ cli.stage \in {"closed", "greeted", "login", "told", "refused", "idle", "use"}
  /\ cli.stage \in {"greeted", "login"} => cli.scram \in CliScram
  /\ cli.stage = "greeted" =>
       \E g \in Greeting :
         cli.pkt = <<0, g.prot, g.ver, cli.scram[1], g.cap \cap LowFlag, 8,
                     g.status, g.cap \cap HighFlag, cli.scram[2], PASSWORD_TYPE>>
  /\ cli.stage = "login" =>
       /\ cli.asks.ssl \in BOOLEAN
       /\ LoginPkt(cli.pkt, cli.asks.user, Expected(cli.scram, cli.asks.pass), cli.asks.ssl)
  /\ IsName(cli.curdb) /\ cli.curdb.len <= 63
  /\ ClientVerified

\* The records keep their fields.
LoginRecords ==
  /\ conn = [stage |-> conn.stage, pkt |-> conn.pkt, server |-> conn.server]
  /\ cli = [stage |-> cli.stage, pkt |-> cli.pkt, scram |-> cli.scram,
            asks |-> cli.asks, curdb |-> cli.curdb, ok |-> cli.ok]
  /\ cli.stage \notin {"closed", "greeted"} =>
       cli.asks = [user |-> cli.asks.user, pass |-> cli.asks.pass, db |-> cli.asks.db,
                   ssl |-> cli.asks.ssl]

LoginInv ==
  /\ LoginRecords /\ ConnInv /\ CliInv
  /\ conn.stage \in {"login", "answered", "avail"} => Known
  /\ info.fresh => Known
  /\ avail => Known

-----------------------------------------------------------------------------
(* Packets and names.                                                      *)

LEMMA ClipFacts ==
  ASSUME NEW n, IsName(n), NEW k \in Nat
  PROVE  IsName(Clip(n, k)) /\ Clip(n, k).len <= k
<1>1. CASE n.len <= k
  BY <1>1 DEF Clip, IsName
<1>2. CASE ~(n.len <= k)
  <2>1. Clip(n, k) = Name(n.id, k)
    BY <1>2 DEF Clip, IsName, Name
  <2> QED BY <2>1 DEF IsName, Name
<1> QED BY <1>1, <1>2

LEMMA ExpectedFacts ==
  ASSUME NEW s, IsScramble(s), NEW p, NEW q
  PROVE  /\ Expected(<<s[1], s[2]>>, p) = Expected(s, p)
         /\ Expected(s, p) = Expected(s, q) <=> p = q
<1>1. \A m, r : Scramble(m, r) # NoScramble
  BY DEF Scramble, NoScramble
<1>2. \A m, r, t : Scramble(m, r) = Scramble(m, t) => r = t
  BY DEF Scramble
<1>3. Expected(s, p) = Expected(s, q) => p = q
  BY <1>1, <1>2 DEF Expected
<1> QED BY <1>3 DEF IsScramble

\* The fields of a login packet the relay makes, and of one a client makes.
LEMMA MakeLoginFields ==
  ASSUME NEW l, l.db = NoName
  PROVE  LET p == make_login(l) IN
         p[2] = l.client_flags /\ p[4] = l.user /\ p[5] = l.scram
BY DEF make_login

LEMMA ClientLoginFields ==
  ASSUME NEW l, IsName(l.db)
  PROVE  LoginPkt(ClientLogin(l), l.user, l.scram, "ssl" \in l.client_flags)
<1> USE DEF LoginPkt
<1> DEFINE head == <<1, l.client_flags, 33, l.user, l.scram>>
<1>1. IsName(PASSWORD_TYPE)
  BY DEF IsName, PASSWORD_TYPE, Name
<1>2. CASE "ssl" \in l.client_flags
  BY <1>2 DEF ClientLogin, SslRequest
<1>3. CASE "ssl" \notin l.client_flags
  <2> USE <1>1, <1>3 DEF ClientLogin
  <2>1. CASE "db" \in l.client_flags /\ "plugin" \in l.client_flags
    BY <2>1
  <2>2. CASE "db" \in l.client_flags /\ "plugin" \notin l.client_flags
    BY <2>2
  <2>3. CASE "db" \notin l.client_flags /\ "plugin" \in l.client_flags
    BY <2>3
  <2>4. CASE "db" \notin l.client_flags /\ "plugin" \notin l.client_flags
    BY <2>4
  <2> QED BY <2>1, <2>2, <2>3, <2>4
<1> QED BY <1>2, <1>3

-----------------------------------------------------------------------------
(* The relay logs in to a server.                                          *)

LEMMA LoginInitEstablishes ==
  ASSUME LoginInit PROVE LoginInv
<1>1. IsName(NoName)
  BY DEF IsName, NoName, Name
<1>2. NoName.len <= 63
  BY DEF NoName, Name
<1>3. ConnInv
  BY DEF LoginInit, ConnInv, NoConn, ServerLogsIn
<1>4. CliInv
  BY <1>1, <1>2 DEF LoginInit, CliInv, NoCli, ClientVerified
<1>5. LoginRecords
  BY DEF LoginInit, LoginRecords, NoConn, NoCli
<1> QED BY <1>3, <1>4, <1>5 DEF LoginInit, LoginInv, NoInfo, NoConn

LEMMA GreetsKeepsInv ==
  ASSUME LoginInv, NEW g \in Greeting, ServerGreets(g)
  PROVE  LoginInv'
<1> USE DEF ServerGreets
<1>1. conn' = [stage |-> "greeted", server |-> g,
               pkt |-> <<0, g.prot, g.ver, g.scram[1], g.cap \cap LowFlag, 8,
                         g.status, g.cap \cap HighFlag, g.scram[2], PASSWORD_TYPE>>]
  BY DEF make_init
<1>2. ConnInv'
  BY <1>1 DEF ConnInv, ServerLogsIn
<1>3. CliInv' /\ LoginRecords'
  BY <1>1 DEF LoginInv, CliInv, ClientVerified, RightLogin, LoginRecords
<1> QED BY <1>1, <1>2, <1>3 DEF LoginInv, Known, Tells

\* my_hs_stage1_cb: what the server told is known now, and the packet of the
\* login carries the scramble of both parts of the greeting.
LEMMA Stage1KeepsInv ==
  ASSUME LoginInv, MyHsStage1
  PROVE  LoginInv'
<1> DEFINE g == conn.server
           i == parse_init(conn.pkt)
           l == [pktno |-> 1, client_flags |-> i.cap \ cap_umask,
                 charset |-> i.lang, user |-> my_user,
                 scram |-> IF my_pass = "" THEN NoScramble ELSE Scramble(Message(i), my_pass),
                 db |-> NoName]
<1>1. g \in Greeting /\ conn.stage = "greeted" /\ IsScramble(g.scram)
  BY GreetingAssumption DEF LoginInv, ConnInv, MyHsStage1
<1>2. /\ i.prot_ver = g.prot /\ i.srv_ver = g.ver /\ i.status = g.status
      /\ i.cap = g.cap /\ i.scram = g.scram[1] /\ i.plug = g.scram[2]
  BY <1>1, GreetingAssumption DEF LoginInv, ConnInv, parse_init, CapOf
<1>3. /\ conn' = [conn EXCEPT !.stage = "login", !.pkt = make_login(l)]
      /\ my_info_set(i) /\ UNCHANGED <<avail, cli>>
  BY DEF MyHsStage1
<1>4. /\ make_login(l)[2] = i.cap \ cap_umask /\ make_login(l)[4] = my_user
      /\ make_login(l)[5] = l.scram
  BY MakeLoginFields
<1>5. l.scram = Expected(g.scram, my_pass)
  <2> HIDE DEF i, g
  <2>1. Message(i) = g.scram
    BY <1>1, <1>2 DEF Message, IsScramble
  <2> QED BY <2>1 DEF Expected
<1>6. "db" \in cap_umask /\ "ssl" \notin cap_umask
  BY DEF cap_umask
<1> HIDE DEF l, i
<1>7. conn' = [stage |-> "login", pkt |-> make_login(l), server |-> g]
  BY <1>3 DEF LoginInv, LoginRecords
<1>8. ConnInv'
  BY <1>1, <1>2, <1>4, <1>5, <1>6, <1>7 DEF ConnInv, ServerLogsIn
<1>9. Known'
  BY <1>1, <1>2, <1>3 DEF Known, Tells, my_info_set, LoginInv
<1>10. CliInv' /\ LoginRecords'
  BY <1>3, <1>7 DEF LoginInv, CliInv, ClientVerified, RightLogin, LoginRecords
<1> QED BY <1>8, <1>9, <1>10 DEF LoginInv

LEMMA VerifiesKeepsInv ==
  ASSUME LoginInv, ServerVerifies
  PROVE  LoginInv'
<1> DEFINE g == conn.server
           right == conn.pkt[4] = my_user /\ conn.pkt[5] = Expected(g.scram, g.pass)
           answer == IF right THEN make_auth_result(2) ELSE make_result_error(2, 1045)
<1>1. /\ conn.stage = "login" /\ conn' = [conn EXCEPT !.stage = "answered", !.pkt = answer]
      /\ UNCHANGED <<info, avail, cli>>
  BY DEF ServerVerifies, Expected
<1>2. "ssl" \notin g.cap
  BY DEF ServerVerifies, AsksSsl, LoginInv, ConnInv
<1>3. g \in Greeting /\ IsScramble(g.scram)
  BY <1>1, GreetingAssumption DEF LoginInv, ConnInv
<1>4. right <=> g.pass = my_pass
  <2>1. conn.pkt[4] = my_user /\ conn.pkt[5] = Expected(g.scram, my_pass)
    BY <1>1 DEF LoginInv, ConnInv
  <2>2. Expected(g.scram, my_pass) = Expected(g.scram, g.pass) <=> g.pass = my_pass
    BY <1>3, ExpectedFacts
  <2> QED BY <2>1, <2>2
<1>5. answer[2] = 0 <=> Admits(g)
  BY <1>4, <1>2 DEF make_auth_result, make_result_error, Admits
<1> HIDE DEF answer
<1>6. conn' = [stage |-> "answered", pkt |-> answer, server |-> g]
  BY <1>1 DEF LoginInv, LoginRecords
<1>7. ConnInv'
  BY <1>3, <1>5, <1>6 DEF ConnInv, ServerLogsIn
<1>8. CliInv' /\ LoginRecords'
  BY <1>1, <1>6 DEF LoginInv, CliInv, ClientVerified, RightLogin, LoginRecords
<1> QED BY <1>1, <1>6, <1>7, <1>8 DEF LoginInv, Known, Tells

LEMMA SwitchesKeepsInv ==
  ASSUME LoginInv, ServerSwitches
  PROVE  LoginInv'
<1>1. /\ conn.stage = "login" /\ conn' = [conn EXCEPT !.stage = "hungup", !.pkt = <<>>]
      /\ UNCHANGED <<info, avail, cli>>
  BY DEF ServerSwitches
<1>2. conn.server \in Greeting /\ ~Admits(conn.server)
  BY <1>1 DEF ServerSwitches, AsksSsl, Admits, LoginInv, ConnInv
<1>3. conn' = [stage |-> "hungup", pkt |-> <<>>, server |-> conn.server]
  BY <1>1 DEF LoginInv, LoginRecords
<1>4. ConnInv'
  BY <1>2, <1>3 DEF ConnInv, ServerLogsIn
<1>5. CliInv' /\ LoginRecords'
  BY <1>1, <1>3 DEF LoginInv, CliInv, ClientVerified, RightLogin, LoginRecords
<1> QED BY <1>1, <1>3, <1>4, <1>5 DEF LoginInv, Known, Tells

LEMMA Stage3KeepsInv ==
  ASSUME LoginInv, MyHsStage3 \/ MyNext
  PROVE  LoginInv'
<1>1. CliInv' /\ (LoginRecords /\ conn' = [stage |-> conn.stage, pkt |-> conn.pkt, server |-> conn.server]' => LoginRecords')
  BY DEF LoginInv, CliInv, ClientVerified, RightLogin, LoginRecords, MyHsStage3, MyNext
<1>2. CASE MyHsStage3
  <2>1. conn' = [stage |-> IF LoggedIn THEN "avail" ELSE "fail", pkt |-> <<>>,
                 server |-> conn.server]
    BY <1>2 DEF MyHsStage3, NoConn
  <2>2. conn.server \in Greeting /\ (LoggedIn <=> Admits(conn.server))
    BY <1>2 DEF MyHsStage3, LoginInv, ConnInv, LoggedIn, parse_auth_result
  <2>3. ConnInv'
    BY <2>1, <2>2 DEF ConnInv, ServerLogsIn
  <2>4. avail' => Known'
    BY <1>2 DEF MyHsStage3, LoggedIn, LoginInv, Known, Tells
  <2> QED BY <1>1, <1>2, <2>1, <2>3, <2>4 DEF MyHsStage3, LoggedIn, LoginInv, Known, Tells
<1>3. CASE MyNext
  BY <1>1, <1>3 DEF MyNext, LoginInv, LoginRecords, NoConn, ConnInv, ServerLogsIn, Known, Tells
<1> QED BY <1>2, <1>3

LEMMA TenSecondsKeepsInv ==
  ASSUME LoginInv, TenSeconds
  PROVE  LoginInv'
<1>1. Known'
  BY DEF TenSeconds, LoginInv, Known, Tells
<1>2. ConnInv' /\ CliInv' /\ LoginRecords'
  BY DEF TenSeconds, LoginInv, ConnInv, ServerLogsIn, CliInv, ClientVerified, RightLogin,
         LoginRecords
<1> QED BY <1>1, <1>2 DEF LoginInv

-----------------------------------------------------------------------------
(* A client logs in to the relay.                                          *)

\* These actions leave the connection and what servers told as they are.
Rest == UNCHANGED <<info, conn, avail>>

LEMMA RestKept ==
  ASSUME LoginInv, Rest, CliInv',
         cli' = [stage |-> cli.stage, pkt |-> cli.pkt, scram |-> cli.scram,
                 asks |-> cli.asks, curdb |-> cli.curdb, ok |-> cli.ok]',
         cli'.stage \notin {"closed", "greeted"} =>
           cli'.asks = [user |-> cli'.asks.user, pass |-> cli'.asks.pass, db |-> cli'.asks.db,
                        ssl |-> cli'.asks.ssl]
  PROVE  LoginInv'
BY DEF LoginInv, Rest, ConnInv, ServerLogsIn, LoginRecords, Known, Tells

LEMMA PrepareKeepsInv ==
  ASSUME LoginInv, NEW s \in CliScram, CliHsStage1Prepare(s)
  PROVE  LoginInv'
<1>1. PICK g \in Greeting : Tells(info, g)
  BY DEF CliHsStage1Prepare, LoginInv, Known
<1>2. cli' = [stage |-> "greeted", scram |-> s, asks |-> "none", curdb |-> NoName,
              ok |-> FALSE,
              pkt |-> <<0, g.prot, g.ver, s[1], g.cap \cap LowFlag, 8,
                        g.status, g.cap \cap HighFlag, s[2], PASSWORD_TYPE>>]
  BY <1>1 DEF CliHsStage1Prepare, NoCli, make_init, Tells
<1>3. IsName(NoName) /\ NoName.len <= 63
  BY DEF IsName, NoName, Name
<1>4. CliInv'
  BY <1>2, <1>3 DEF CliInv, ClientVerified
<1> QED BY <1>2, <1>4, RestKept DEF Rest, CliHsStage1Prepare

LEMMA LogsKeepsInv ==
  ASSUME LoginInv, NEW u, NEW pw, NEW flags, NEW db \in DbName,
         ClientLogs(u, pw, flags, db)
  PROVE  LoginInv'
<1> DEFINE i == parse_init(cli.pkt)
           l == [client_flags |-> flags, user |-> u, db |-> db,
                 scram |-> IF pw = "" THEN NoScramble ELSE Scramble(<<i.scram, i.plug>>, pw)]
           ssl == "ssl" \in flags
<1>1. cli' = [cli EXCEPT !.stage = "login",
                         !.asks = [user |-> u, pass |-> pw, db |-> db, ssl |-> ssl],
                         !.pkt = ClientLogin(l)]
  BY DEF ClientLogs
<1>2. cli.scram \in CliScram /\ IsScramble(cli.scram)
  BY ScramAssumption DEF ClientLogs, LoginInv, CliInv
<1>3. i.scram = cli.scram[1] /\ i.plug = cli.scram[2]
  BY DEF ClientLogs, LoginInv, CliInv, parse_init
<1>4. l.scram = Expected(cli.scram, pw)
  <2> HIDE DEF i
  <2>1. <<i.scram, i.plug>> = cli.scram
    BY <1>2, <1>3 DEF IsScramble
  <2> QED BY <2>1 DEF Expected
<1>5. LoginPkt(ClientLogin(l), u, Expected(cli.scram, pw), ssl)
  <2>1. LoginPkt(ClientLogin(l), l.user, l.scram, "ssl" \in l.client_flags)
    BY ClientLoginFields, NameAssumption
  <2> QED BY <1>4, <2>1
<1> HIDE DEF l
<1>6. cli' = [stage |-> "login", pkt |-> ClientLogin(l), scram |-> cli.scram,
              asks |-> [user |-> u, pass |-> pw, db |-> db, ssl |-> ssl],
              curdb |-> cli.curdb, ok |-> cli.ok]
  BY <1>1 DEF LoginInv, LoginRecords
<1>7. ssl \in BOOLEAN
  OBVIOUS
<1> DEFINE p == ClientLogin(l)
<1> HIDE DEF ssl, p
<1>8. cli' = [stage |-> "login", pkt |-> p, scram |-> cli.scram,
              asks |-> [user |-> u, pass |-> pw, db |-> db, ssl |-> ssl],
              curdb |-> cli.curdb, ok |-> cli.ok]
  BY <1>6 DEF p
<1>9. LoginPkt(p, u, Expected(cli.scram, pw), ssl)
  BY <1>5 DEF p
<1>10. CliInv'
  BY <1>2, <1>7, <1>8, <1>9 DEF LoginInv, CliInv, ClientVerified
<1> QED BY <1>6, <1>10, RestKept DEF Rest, ClientLogs

\* cli_hs_stage2_cb lets in who asked with the name and the password of the
\* configuration.
LEMMA Stage2KeepsInv ==
  ASSUME LoginInv, NEW stale \in Stale, CliHsStage2(stale)
  PROVE  LoginInv'
<1> DEFINE l == parse_login(cli.pkt, stale)
<1>9. /\ cli.asks.ssl \in BOOLEAN
      /\ LoginPkt(cli.pkt, cli.asks.user, Expected(cli.scram, cli.asks.pass), cli.asks.ssl)
  BY DEF CliHsStage2, LoginInv, CliInv
<1>1. /\ IsName(l.db)
      /\ cli.asks.ssl => l.scram = NoScramble
      /\ ~cli.asks.ssl =>
           l.user = cli.asks.user /\ l.scram = Expected(cli.scram, cli.asks.pass)
  BY <1>9, NameAssumption DEF LoginPkt, parse_login
<1> HIDE DEF l
<1>2. GoodLogin(l, cli.scram) => RightLogin /\ ~cli.asks.ssl
  <2>1. Scramble(cli.scram, passwd) # NoScramble
    BY DEF Scramble, NoScramble
  <2>2. Scramble(cli.scram, cli.asks.pass) = Scramble(cli.scram, passwd)
          => cli.asks.pass = passwd
    BY DEF Scramble
  <2> QED BY <1>1, <2>1, <2>2 DEF GoodLogin, RightLogin, Expected
<1>3. ~GoodLogin(l, cli.scram) => ~RightLogin \/ cli.asks.ssl \/ passwd = ""
  BY <1>1 DEF GoodLogin, RightLogin, Expected
<1>4. IsName(Curdb(l.db)) /\ Curdb(l.db).len <= 63
  BY <1>1, ClipFacts DEF Curdb
<1>5. /\ cli.stage = "login" /\ UNCHANGED <<info, conn, avail>>
      /\ GoodLogin(l, cli.scram) =>
           cli' = [cli EXCEPT !.stage = "told", !.pkt = make_auth_result(2),
                              !.curdb = Curdb(l.db)]
      /\ ~GoodLogin(l, cli.scram) =>
           cli' = [cli EXCEPT !.stage = "refused", !.pkt = make_result_error(2, 1045)]
  BY DEF CliHsStage2, l
<1>8. cli = [stage |-> cli.stage, pkt |-> cli.pkt, scram |-> cli.scram,
             asks |-> cli.asks, curdb |-> cli.curdb, ok |-> cli.ok]
  BY DEF LoginInv, LoginRecords
<1> DEFINE told == make_auth_result(2)
           name == Curdb(l.db)
           refusal == make_result_error(2, 1045)
<1>6. CASE GoodLogin(l, cli.scram)
  <2>3. cli' = [cli EXCEPT !.stage = "told", !.pkt = told, !.curdb = name]
    BY <1>5, <1>6
  <2> HIDE DEF told, name
  <2>1. cli' = [stage |-> "told", pkt |-> told, scram |-> cli.scram,
                asks |-> cli.asks, curdb |-> name, ok |-> cli.ok]
    BY <1>8, <2>3
  <2> USE DEF name
  <2>2. CliInv'
    BY <1>2, <1>4, <1>6, <2>1 DEF CliInv, ClientVerified, RightLogin
  <2> QED BY <1>5, <2>1, <2>2, RestKept DEF Rest, LoginInv, LoginRecords
<1>7. CASE ~GoodLogin(l, cli.scram)
  <2>3. cli' = [cli EXCEPT !.stage = "refused", !.pkt = refusal]
    BY <1>5, <1>7
  <2> HIDE DEF refusal
  <2>1. cli' = [stage |-> "refused", pkt |-> refusal, scram |-> cli.scram,
                asks |-> cli.asks, curdb |-> cli.curdb, ok |-> cli.ok]
    BY <1>8, <2>3
  <2>2. CliInv'
    BY <1>3, <1>7, <2>1 DEF LoginInv, CliInv, ClientVerified, RightLogin
  <2> QED BY <1>5, <2>1, <2>2, RestKept DEF Rest, LoginInv, LoginRecords
<1> QED BY <1>6, <1>7

LEMMA Stage3CliKeepsInv ==
  ASSUME LoginInv, CliHsStage3 \/ CliClose
  PROVE  LoginInv'
<1>1. IsName(NoName) /\ NoName.len <= 63
  BY DEF IsName, NoName, Name
<1>2. cli = [stage |-> cli.stage, pkt |-> cli.pkt, scram |-> cli.scram,
             asks |-> cli.asks, curdb |-> cli.curdb, ok |-> cli.ok]
  BY DEF LoginInv, LoginRecords
<1>3. CASE cli' = NoCli
  <2>1. CliInv'
    BY <1>1, <1>3 DEF CliInv, ClientVerified, NoCli
  <2> QED BY <1>3, <2>1, RestKept DEF Rest, CliHsStage3, CliClose, NoCli
<1>4. CASE /\ cli.stage = "told"
           /\ cli' = [cli EXCEPT !.stage = "idle", !.ok = TRUE, !.pkt = <<>>]
  <2>1. cli' = [stage |-> "idle", pkt |-> <<>>, scram |-> cli.scram,
                asks |-> cli.asks, curdb |-> cli.curdb, ok |-> TRUE]
    BY <1>2, <1>4
  <2>2. CliInv'
    BY <1>4, <2>1 DEF LoginInv, CliInv, ClientVerified, RightLogin
  <2> QED BY <1>4, <2>1, <2>2, RestKept DEF Rest, CliHsStage3, CliClose, LoginInv, LoginRecords
<1> QED BY <1>3, <1>4 DEF CliHsStage3, CliClose

LEMMA InitDbKeepsInv ==
  ASSUME LoginInv, NEW db \in DbName, InitDb(db)
  PROVE  LoginInv'
<1> DEFINE com == parse_com(make_com([pktno |-> 0, comno |-> "INIT_DB", arg |-> db]))
           name == Curdb(Clip(com.arg, 1023))
<1>1. com.arg = Clip(db, 4095)
  BY DEF parse_com, make_com
<1>2. IsName(name) /\ name.len <= 63
  <2>1. IsName(com.arg)
    BY <1>1, ClipFacts, NameAssumption
  <2> HIDE DEF com
  <2>2. IsName(Clip(com.arg, 1023))
    BY <2>1, ClipFacts
  <2> QED BY <2>2, ClipFacts DEF Curdb
<1>3. cli.stage = "idle" /\ cli' = [cli EXCEPT !.asks.db = db, !.curdb = name]
  BY DEF InitDb
<1> HIDE DEF com, name
<1>4. /\ cli = [stage |-> cli.stage, pkt |-> cli.pkt, scram |-> cli.scram,
                asks |-> cli.asks, curdb |-> cli.curdb, ok |-> cli.ok]
      /\ cli.asks = [user |-> cli.asks.user, pass |-> cli.asks.pass, db |-> cli.asks.db,
                     ssl |-> cli.asks.ssl]
  BY <1>3 DEF LoginInv, LoginRecords
<1>5. cli' = [stage |-> "idle", pkt |-> cli.pkt, scram |-> cli.scram,
              asks |-> [user |-> cli.asks.user, pass |-> cli.asks.pass, db |-> db,
                        ssl |-> cli.asks.ssl],
              curdb |-> name, ok |-> cli.ok]
  <2>1. [cli.asks EXCEPT !.db = db]
          = [user |-> cli.asks.user, pass |-> cli.asks.pass, db |-> db,
             ssl |-> cli.asks.ssl]
    BY <1>4
  <2>2. cli' = [cli EXCEPT !.asks = [cli.asks EXCEPT !.db = db], !.curdb = name]
    BY <1>3
  <2> QED BY <1>3, <1>4, <2>1, <2>2
<1>6. /\ cli'.stage = "idle" /\ cli'.pkt = cli.pkt /\ cli'.scram = cli.scram
      /\ cli'.asks.user = cli.asks.user /\ cli'.asks.pass = cli.asks.pass
      /\ cli'.asks.ssl = cli.asks.ssl /\ cli'.curdb = name
  BY <1>5
<1>7. CliInv'
  BY <1>2, <1>3, <1>6 DEF LoginInv, CliInv, ClientVerified, RightLogin
<1>8. Rest
  BY DEF Rest, InitDb
<1>9. cli' = [stage |-> cli.stage, pkt |-> cli.pkt, scram |-> cli.scram,
              asks |-> cli.asks, curdb |-> cli.curdb, ok |-> cli.ok]'
  BY <1>5
<1>10. cli'.asks = [user |-> cli'.asks.user, pass |-> cli'.asks.pass, db |-> cli'.asks.db,
                    ssl |-> cli'.asks.ssl]
  BY <1>5
<1> QED BY <1>7, <1>8, <1>9, <1>10, RestKept

LEMMA UseDbKeepsInv ==
  ASSUME LoginInv, UseDb
  PROVE  LoginInv'
<1> DEFINE p == make_com([pktno |-> 0, comno |-> "INIT_DB", arg |-> cli.curdb])
<1>1. cli.stage = "idle" /\ cli' = [cli EXCEPT !.stage = "use", !.pkt = p]
  BY DEF UseDb
<1> HIDE DEF p
<1>2. cli = [stage |-> cli.stage, pkt |-> cli.pkt, scram |-> cli.scram,
             asks |-> cli.asks, curdb |-> cli.curdb, ok |-> cli.ok]
  BY DEF LoginInv, LoginRecords
<1>3. cli' = [stage |-> "use", pkt |-> p, scram |-> cli.scram,
              asks |-> cli.asks, curdb |-> cli.curdb, ok |-> cli.ok]
  BY <1>1, <1>2
<1>4. CliInv'
  BY <1>1, <1>3 DEF LoginInv, CliInv, ClientVerified, RightLogin
<1> QED BY <1>1, <1>3, <1>4, RestKept DEF Rest, UseDb, LoginInv, LoginRecords

-----------------------------------------------------------------------------
(* The theorems.                                                           *)

LEMMA LoginStepPreserves ==
  ASSUME LoginInv, [LoginNext]_loginVars
  PROVE  LoginInv'
<1>1. CASE UNCHANGED loginVars
  BY <1>1 DEF loginVars, LoginInv, LoginRecords, ConnInv, ServerLogsIn, CliInv,
              ClientVerified, RightLogin, Known, Tells
<1>2. CASE LoginNext
  BY <1>2, GreetsKeepsInv, Stage1KeepsInv, VerifiesKeepsInv, SwitchesKeepsInv, Stage3KeepsInv,
     TenSecondsKeepsInv, PrepareKeepsInv, LogsKeepsInv, Stage2KeepsInv,
     Stage3CliKeepsInv, InitDbKeepsInv, UseDbKeepsInv DEF LoginNext
<1> QED BY <1>1, <1>2

\* The packet in transit carries what the stages of both logins need of it.
THEOREM LoginInvCorrect == LoginSpec => []LoginInv
BY LoginInitEstablishes, LoginStepPreserves, PTL DEF LoginSpec

\* The stages, and c->curdb keeps within its array whatever databases clients
\* name, at a login (my_ops.c:395) and, of any length, in a command (my_ops.c:600).
\* A login's own names are taken to fit the arrays parse_login copies them to
\* (my_protocol.c:318): nothing in the code sees to that.
THEOREM LoginTypeCorrect == LoginSpec => []LoginTypeOK
<1>1. LoginInv => LoginTypeOK
  BY DEF LoginInv, ConnInv, CliInv, LoginTypeOK
<1> QED BY <1>1, LoginInvCorrect, PTL

\* A server lets the relay in exactly if it knows the same password and does not
\* announce SSL: the two parts of the scramble are put together in their order
\* (my_ops.c:107), and the flag for SSL is sent back (my_ops.c:116).
THEOREM ServerLogsInCorrect == LoginSpec => []ServerLogsIn
<1>1. LoginInv => ServerLogsIn
  BY DEF LoginInv, ConnInv
<1> QED BY <1>1, LoginInvCorrect, PTL

\* Whatever a server can do, the relay's login announces no database and has
\* none (my_ops.c:54).
THEOREM NoDatabaseCorrect == LoginSpec => []NoDatabaseAtLogin
<1>1. LoginInv => NoDatabaseAtLogin
  BY DEF LoginInv, ConnInv, NoDatabaseAtLogin, ServerReadsDb
<1> QED BY <1>1, LoginInvCorrect, PTL

\* A client is told what one server told the relay, all of it of the same one
\* (my_ops.c:254, my_pool.c:80).
THEOREM AnnouncedCorrect == LoginSpec => []AnnouncedTrue
<1>1. ASSUME LoginInv PROVE AnnouncedTrue
  <2> SUFFICES ASSUME cli.stage = "greeted"
               PROVE  LET i == parse_init(cli.pkt) IN
                      \E g \in Greeting :
                        /\ i.prot_ver = g.prot /\ i.srv_ver = g.ver
                        /\ i.cap = g.cap /\ i.status = g.status
    BY DEF AnnouncedTrue
  <2>1. PICK g \in Greeting :
          cli.pkt = <<0, g.prot, g.ver, cli.scram[1], g.cap \cap LowFlag, 8,
                      g.status, g.cap \cap HighFlag, cli.scram[2], PASSWORD_TYPE>>
    BY <1>1 DEF LoginInv, CliInv
  <2> QED BY <2>1, GreetingAssumption DEF parse_init, CapOf
<1> QED BY <1>1, LoginInvCorrect, PTL

\* A client is let in with the name and the password of the configuration and
\* only with them (my_ops.c:391), and never if it asks for SSL.
THEOREM ClientVerifiedCorrect == LoginSpec => []ClientVerified
<1>1. LoginInv => ClientVerified
  BY DEF LoginInv, CliInv
<1> QED BY <1>1, LoginInvCorrect, PTL

=============================================================================
