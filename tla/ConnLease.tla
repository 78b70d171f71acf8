----------------------------- MODULE ConnLease ------------------------------
(***************************************************************************)
(* What the pool promises to the sessions of the relay, without lists,     *)
(* counters, callbacks or timers.  A connection is "absent" (not allocated)*)
(* or with the pool ("pool": being connected, checked or waiting for it),  *)
(* or "ready", or leased to one session.  A lease starts from "ready" only,*)
(* a session holds one lease at most, and a lease never passes from one    *)
(* session to another without the pool taking the connection back.         *)
(***************************************************************************)
CONSTANTS My, Client  \* no session is called "absent", "pool" or "ready"

VARIABLE status

LeaseTypeOK == status \in [My -> {"absent", "pool", "ready"} \cup Client]

LeaseInit == status = [m \in My |-> "absent"]

Move(m, from, to) == status[m] \in from /\ status' = [status EXCEPT ![m] = to]

\* The pool allocates a connection and starts to connect it.
Allocate(m) == Move(m, {"absent"}, "pool")
\* A handshake or a ping succeeded.
MakeReady(m) == Move(m, {"pool"}, "ready")
\* The pool takes a connection back to check it.
Check(m) == Move(m, {"ready"}, "pool")
Lend(m, c) == (\A o \in My : status[o] # c) /\ Move(m, {"ready"}, c)
Return(m) == Move(m, Client, "ready")
\* The session found the connection broken.
Break(m) == Move(m, Client, "pool")
\* Released: surplus, or its node is closing.
Retire(m) == Move(m, {"pool", "ready"} \cup Client, "absent")

LeaseNext ==
  \E m \in My : \/ Allocate(m) \/ MakeReady(m) \/ Check(m)
                \/ Return(m) \/ Break(m) \/ Retire(m)
                \/ \E c \in Client : Lend(m, c)

LeaseSpec == LeaseInit /\ [][LeaseNext]_status
=============================================================================
