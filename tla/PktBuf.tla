------------------------------- MODULE PktBuf --------------------------------
(***************************************************************************)
(* The bytes of a session: c->buf (my_buf.c) and the three functions of    *)
(* my_ops.c that fill and empty it, my_real_read, my_real_read_result_set  *)
(* and my_real_write, in the callbacks that call them.  A command is read  *)
(* in parts until its packet is whole, written in parts to the server, and *)
(* the answer is passed on part by part, with no regard to packets.  The   *)
(* commands are those the relay forwards, and memory does not run out.     *)
(*                                                                         *)
(* Bytes are counted, not named: the buffer holds the last `used` of the   *)
(* bytes read from a socket, and pos of them are dealt with.               *)
(***************************************************************************)
EXTENDS Integers, SequencesExt

CONSTANTS
  HEADER_SIZE,  \* 4
  PREALLOC,     \* PREALLOC_BUF_SIZE, 64k
  PktLen,       \* lengths of the packets clients send, header included
  Answer,       \* lengths of answers
  MaxSent       \* bound: packets a client sends

ASSUME LenAssumption == /\ HEADER_SIZE \in Nat /\ PREALLOC \in Nat
                        /\ HEADER_SIZE < PREALLOC
                        /\ \A l \in PktLen : l \in Nat /\ l > HEADER_SIZE
                        /\ \A a \in Answer : a \in Nat \ {0}
ASSUME MaxSentAssumption == MaxSent \in Nat

VARIABLES
  mode,      \* callback: "read", "write", "answer", "client"; or "closed"
  buf,       \* buf_t: size, used, pos and reloc
  sent,      \* lengths of the packets the client has sent
  read,      \* bytes read of them
  written,   \* bytes written to the server
  commands,  \* commands written
  due,       \* bytes of the answer not read yet
  answered,  \* bytes of answers: read, and written to the client
  eof,       \* "client" or "server" when it has closed its socket, or "none"
  patient    \* history: the client has had its answer whenever it sent

bufVars == <<mode, buf, sent, read, written, commands, due, answered, eof, patient>>

Total(s) == FoldSeq(+, 0, s)
Unread == Total(sent) - read
Start(i) == Total(SubSeq(sent, 1, i - 1))

\* The length in the header at the start of the buffer, header included; it may
\* be anything if no packet starts there.
HeadLen ==
  LET at == {i \in DOMAIN sent : Start(i) = read - buf.used}
  IN IF at = {} THEN PktLen ELSE {sent[i] : i \in at}

\* Variant with a bug: the size of the memory that was freed is kept.
ResetKeepsSize == [buf EXCEPT !.used = 0, !.pos = 0, !.reloc = FALSE]

\* buf_init, and buf_reset.
Fresh == [size |-> PREALLOC, used |-> 0, pos |-> 0, reloc |-> FALSE]
buf_reset == Fresh

BufInit ==
  /\ mode = "read" /\ buf = Fresh
  /\ sent = <<>> /\ read = 0 /\ written = 0 /\ commands = 0
  /\ due = 0 /\ answered = [read |-> 0, written |-> 0]
  /\ eof = "none" /\ patient = TRUE

-----------------------------------------------------------------------------
(* Client and server.                                                      *)

\* A client waits for its answer, or it does not: it pipelines.
ClientWaits == due > 0 \/ buf.used > 0 \/ mode = "write" \/ Unread > 0
ClientSends(l) ==
  /\ eof # "client" /\ Len(sent) < MaxSent
  /\ sent' = Append(sent, l)
  /\ patient' = (patient /\ ~ClientWaits)
  /\ UNCHANGED <<mode, buf, read, written, commands, due, answered, eof>>

Closes(who) ==
  /\ eof = "none" /\ eof' = who
  /\ UNCHANGED <<mode, buf, sent, read, written, commands, due, answered, patient>>

-----------------------------------------------------------------------------
(* cli_query_cb: my_real_read.                                             *)

Room(b) == b.size - b.used

\* Variant with a bug: the buffer does not grow to the length of the packet.
ReallocNot(size, len) == size

\* buf_realloc.
Realloc(size, len) == IF len > size THEN len ELSE size

Filled(n) == [buf EXCEPT !.used = @ + n, !.pos = @ + n]

\* The rest is not there yet.
Part(n) ==
  LET b == Filled(n) IN
  \/ /\ b.used < HEADER_SIZE
     /\ buf' = b
  \/ /\ b.used >= HEADER_SIZE
     /\ \E l \in HeadLen :
          LET size == Realloc(b.size, l) IN
          /\ b.used < l
          /\ buf' = [b EXCEPT !.size = size, !.reloc = @ \/ size > b.size]

\* Variant with a bug: the position is not taken back to the start.
NoRewind(b) == b

buf_rewind(b) == [b EXCEPT !.pos = 0]

\* The packet is whole: parse_com and cli_com_forward rewind the buffer.
Whole(n) ==
  LET b == Filled(n) IN
  /\ b.used >= HEADER_SIZE
  /\ \E l \in HeadLen :
       LET size == Realloc(b.size, l) IN
       /\ b.used >= l
       /\ buf' = buf_rewind([b EXCEPT !.size = size, !.reloc = @ \/ size > b.size])

\* Heard in "answer", the client starts a new command.
MyRealRead(n) ==
  /\ mode \in {"read", "answer"}
  /\ n <= Room(buf) /\ n <= Unread
  /\ \/ Part(n) /\ mode' = "read"
     \/ Whole(n) /\ mode' = "write"
  /\ read' = read + n
  /\ UNCHANGED <<sent, written, commands, due, answered, eof, patient>>

\* read returns 0: at the end of the stream, or when there is no room.
MyRealReadEnd ==
  /\ mode \in {"read", "answer"}
  /\ (eof = "client" /\ Unread = 0) \/ (Room(buf) = 0 /\ Unread > 0)
  /\ mode' = "closed"
  /\ UNCHANGED <<buf, sent, read, written, commands, due, answered, eof, patient>>

\* cli_query_cb while the command is under way to the server: whatever the
\* client has sent, or that it has closed, ends the session.
CliHeardWriting ==
  /\ mode = "write" /\ (Unread > 0 \/ eof = "client")
  /\ mode' = "closed"
  /\ UNCHANGED <<buf, sent, read, written, commands, due, answered, eof, patient>>

\* read and write fail at a socket that the other side has closed: conn_close in
\* the client's callbacks, conn_close_with_my in the server's.
SocketFails ==
  /\ \/ eof = "client" /\ mode \in {"read", "answer", "client"}
     \/ eof = "server" /\ mode \in {"write", "answer"}
  /\ mode' = "closed"
  /\ UNCHANGED <<buf, sent, read, written, commands, due, answered, eof, patient>>

-----------------------------------------------------------------------------
(* my_query_cb, my_answer_cb and cli_answer_cb.                            *)

Left == buf.used - buf.pos
Moved(n) == [buf EXCEPT !.pos = @ + n]
Done(n) == Moved(n).pos >= buf.used

\* Packets whose last byte is among those of the buffer.
Completed == {i \in DOMAIN sent : read - buf.used < Start(i + 1) /\ Start(i + 1) <= read}

\* The server answers what it has got; nothing, if that ends no packet.
MyQuery(n) ==
  /\ mode = "write" /\ n <= Left
  /\ written' = written + n
  /\ IF Done(n)
     THEN /\ buf' = buf_reset /\ mode' = "answer"
          /\ commands' = commands + 1
          /\ due' \in IF Completed = {} THEN {due} ELSE {due + a : a \in Answer}
     ELSE buf' = Moved(n) /\ UNCHANGED <<mode, commands, due>>
  /\ UNCHANGED <<sent, read, answered, eof, patient>>

\* my_real_read_result_set: what there is, up to the size of the buffer.
MyAnswer(n) ==
  /\ mode = "answer" /\ n <= due /\ n <= Room(buf)
  /\ due' = due - n
  /\ answered' = [answered EXCEPT !.read = @ + n]
  /\ buf' = buf_rewind(Filled(n))
  /\ mode' = "client"
  /\ UNCHANGED <<sent, read, written, commands, eof, patient>>

\* The end of the stream is no error: cli_answer_cb has nothing to write.
MyAnswerEof ==
  /\ mode = "answer" /\ eof = "server" /\ due = 0
  /\ mode' = "client"
  /\ UNCHANGED <<buf, sent, read, written, commands, due, answered, eof, patient>>

CliAnswer(n) ==
  /\ mode = "client" /\ n <= Left
  /\ answered' = [answered EXCEPT !.written = @ + n]
  /\ IF Done(n) THEN buf' = buf_reset /\ mode' = "answer"
                ELSE buf' = Moved(n) /\ UNCHANGED mode
  /\ UNCHANGED <<sent, read, written, commands, due, eof, patient>>

\* More bytes than these are never in the buffer.
MaxBytes == PREALLOC + FoldSet(+, 0, PktLen)
Some == 1 .. MaxBytes

BufNext ==
  \/ \E l \in PktLen : ClientSends(l)
  \/ \E who \in {"client", "server"} : Closes(who)
  \/ MyRealReadEnd \/ CliHeardWriting \/ SocketFails \/ MyAnswerEof
  \/ \E n \in Some : MyRealRead(n) \/ MyQuery(n) \/ MyAnswer(n) \/ CliAnswer(n)

BufSpec == BufInit /\ [][BufNext]_bufVars

\* Sockets that can be read and written are, in parts.
BufFairSpec ==
  /\ BufSpec
  /\ WF_bufVars(MyRealReadEnd)
  /\ WF_bufVars(\E n \in Some : MyRealRead(n))
  /\ WF_bufVars(\E n \in Some : MyQuery(n))
  /\ WF_bufVars(\E n \in Some : MyAnswer(n))
  /\ WF_bufVars(\E n \in Some : CliAnswer(n))

-----------------------------------------------------------------------------
(* Properties.                                                             *)

\* The positions of the buffer in their order; its memory is the one in the
\* session unless it has grown.
BufTypeOK ==
  /\ mode \in {"read", "write", "answer", "client", "closed"}
  /\ 0 <= buf.pos /\ buf.pos <= buf.used /\ buf.used <= buf.size
  /\ buf.reloc <=> buf.size > PREALLOC

\* Every byte read from one socket is written to the other, once, however the
\* packets were cut: what has been read and not written is in the buffer, and
\* nothing is left there when the direction changes.
Held(m) == IF mode # m THEN 0 ELSE IF m = "read" THEN buf.used ELSE Left
BytesKept ==
  mode # "closed" =>
    /\ read = written + Held("read") + Held("write")
    /\ answered.read = answered.written + Held("client")
    /\ mode = "answer" => buf = Fresh

\* A session is closed when one of the two has closed its socket, or when the
\* client sends while its command is on its way to the server; never while it
\* is read, whatever its length, although my_real_read (my_ops.c:868) calls a
\* full buffer the end of the stream.
ClosedForCause ==
  [][mode' = "closed" /\ mode # "closed"
       => eof # "none" \/ (mode = "write" /\ Unread > 0)]_bufVars

\* A command of a client that waits for its answers is written to the server
\* whole, however it was cut on its way, and its answer to the client, unless
\* one of the two hangs up.
Delivered ==
  \A i \in 1 .. MaxSent :
    Len(sent) >= i ~> \/ eof # "none" \/ ~patient
                      \/ commands >= i /\ written >= Start(i + 1) /\ due = 0

-----------------------------------------------------------------------------
(* What comments of the source say and the code does not keep.             *)

\* my_ops.c:570: a whole packet has been read when the command is dealt with:
\* what goes to the server is one command.
OneCommand ==
  mode = "write" => buf.used = sent[commands + 1] /\ read = Start(commands + 2)
=============================================================================
