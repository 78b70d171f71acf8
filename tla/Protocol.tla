------------------------------ MODULE Protocol -------------------------------
(***************************************************************************)
(* The packets of the login and of commands: my_protocol.c.  A packet is   *)
(* the sequence of its fields, from the packet number on; make_* writes    *)
(* the fields one after another and parse_* reads as many, in their order. *)
(* The length of a packet is left to PktBuf.                               *)
(*                                                                         *)
(* Capabilities are a set of flags, sent as two halves of 16 bits.  A name *)
(* is what it is called and how much of it there is.                       *)
(***************************************************************************)
EXTENDS Naturals, Sequences

CONSTANTS LowFlag, HighFlag  \* flags of either half
ASSUME FlagAssumption == LowFlag \cap HighFlag = {}

Name(id, len) == [id |-> id, len |-> len]
NoName == Name("", 0)

\* mysql_native_password.
PASSWORD_TYPE == Name("password_type", 21)

\* strncpy into an array of n + 1, or memcpy of n at most.
Clip(name, n) == IF name.len <= n THEN name ELSE [name EXCEPT !.len = n]

\* The arrays of cli_auth_login_t have 128 bytes, for a name and its zero.
LOGIN_ARRAY == 128
Fits(name) == name.len < LOGIN_ARRAY

\* scramble: SHA1 stands for the pair itself.
Scramble(message, password) == <<message, password>>
NoScramble == <<>>

-----------------------------------------------------------------------------
make_init(i) ==
  <<i.pktno, i.prot_ver, i.srv_ver, i.scram, i.cap \cap LowFlag, i.lang,
    i.status, i.cap \cap HighFlag, i.plug, PASSWORD_TYPE>>

\* Variant with a bug: the second half is not shifted into its place.
CapLow(low, high) == low

CapOf(low, high) == low \cup high

\* The language of the server is passed over: 33 is what its clients ask for.
parse_init(p) ==
  [prot_ver |-> p[2], srv_ver |-> p[3], scram |-> p[4],
   cap |-> CapOf(p[5], p[8]), lang |-> 33, status |-> p[7], plug |-> p[9]]

\* The scramble is left out, as a length of 0, when the password is empty; the
\* database is there only if it is not empty, and after the password type.
make_login(l) ==
  <<l.pktno, l.client_flags, l.charset, l.user, l.scram, PASSWORD_TYPE>>
  \o IF l.db = NoName THEN <<>> ELSE <<l.db>>

\* Whatever follows the scramble is the database; behind the last field it is
\* what the buffer held before.  A request for SSL has no name and no scramble:
\* what is found in their place is a part of the greeting, and answers nothing.
\* Names are copied whole, with no regard to the arrays: the packet is one whose
\* names fit (ClientLogs).
parse_login(p, stale) ==
  [client_flags |-> p[2],
   user |-> IF Len(p) >= 5 THEN p[4] ELSE NoName,
   scram |-> IF Len(p) >= 5 THEN p[5] ELSE NoScramble,
   db |-> IF Len(p) >= 6 THEN p[6] ELSE stale]

make_auth_result(pktno) == <<pktno, 0>>
make_result_error(pktno, err) == <<pktno, 255, err>>
parse_auth_result(p) == [result |-> p[2]]

\* Commands; com->arg holds 4095 bytes.
make_com(c) == <<c.pktno, c.comno, c.arg>>
parse_com(p) == [comno |-> p[2], arg |-> Clip(p[3], 4095)]

-----------------------------------------------------------------------------
(* The other side, by the protocol of MySQL: the capabilities say which of *)
(* the optional fields a login has.                                        *)

\* With the flag for SSL a packet ends before the name: the rest is encrypted.
SslRequest(l) == <<1, l.client_flags, 33>>

ClientLogin(l) ==
  IF "ssl" \in l.client_flags THEN SslRequest(l)
  ELSE <<1, l.client_flags, 33, l.user, l.scram>>
       \o (IF "db" \in l.client_flags THEN <<l.db>> ELSE <<>>)
       \o (IF "plugin" \in l.client_flags THEN <<PASSWORD_TYPE>> ELSE <<>>)

ServerReadsDb(p) == IF "db" \in p[2] THEN p[6] ELSE NoName
=============================================================================
