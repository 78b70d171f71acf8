------------------------------ MODULE EventLoop ------------------------------
(***************************************************************************)
(* The event loop of oplib (handler.c): a table of callbacks by file       *)
(* descriptor, and the epoll instance of the kernel beside it.             *)
(*                                                                         *)
(* epoll_wait reports a batch of events, each of them a pointer into the   *)
(* table.  The callback of one event may close sockets whose events follow *)
(* in the batch, and the system gives the lowest free descriptor to the    *)
(* next socket that is opened, in the same callback perhaps.  After the    *)
(* batch the main loop of work.c runs the timers, which do the same.       *)
(***************************************************************************)
EXTENDS Integers, FiniteSets, SequencesExt

CONSTANTS
  NumFd,     \* descriptors of the process
  hccount,   \* entries of the table, MAX_EVENT in work.c:67
  MaxEvent,  \* MAX_EVENT, events of a batch
  Arg,       \* sessions and connections, arguments of the callbacks
  Callback,  \* functions they register
  NULL

ASSUME FdAssumption == NumFd \in Nat /\ hccount \in Nat /\ MaxEvent \in Nat
ASSUME ArgAssumption == NULL \notin Arg \cup Callback

VARIABLES
  owner,    \* owner[fd]: whose socket is open as fd, NULL if none
  hcptr,    \* the table: callback, arg and fd of each descriptor
  interest, \* descriptors the epoll instance watches
  events,   \* the rest of the batch; what the entry held is remembered
  phase     \* "wait", "batch", "callback" or "timer"

loopVars == <<owner, hcptr, interest, events, phase>>

Fd == 0 .. NumFd - 1
Empty == [callback |-> NULL, arg |-> NULL, fd |-> -1]

\* init_handler.  What lies after the table is in use by others.
EventInit ==
  /\ owner = [fd \in Fd |-> NULL]
  /\ hcptr \in {h \in [Fd -> {Empty} \cup [callback : {NULL}, arg : {NULL}, fd : Fd]] :
                  \A fd \in Fd : IF fd < hccount THEN h[fd] = Empty
                                 ELSE h[fd].fd \in {-1, fd}}
  /\ interest = {}
  /\ events = <<>>
  /\ phase = "wait"

-----------------------------------------------------------------------------
(* What callbacks and timers do.                                           *)

Running == phase \in {"callback", "timer"}
Opened(o) == \E fd \in Fd : owner[fd] = o
LowestFree(fd) == owner[fd] = NULL /\ \A f \in Fd : owner[f] = NULL => fd <= f

\* accept or socket.
OpenSocket(o, fd) ==
  /\ Running /\ ~Opened(o) /\ LowestFree(fd)
  /\ owner' = [owner EXCEPT ![fd] = o]
  /\ UNCHANGED <<hcptr, interest, events, phase>>

\* !fd_is_legal(fd), where the macro (handler.h:21) has no parentheses around
\* its two conditions: the negation takes the first one only.
Illegal(fd) == ~(fd >= 0) /\ fd < hccount

\* add_handler, for the owner of the socket, whether there was one before or
\* not: the kernel's old entry is deleted first.
add_handler(fd, cb) ==
  /\ Running /\ owner[fd] # NULL /\ ~Illegal(fd)
  /\ hcptr' = [hcptr EXCEPT ![fd] = [callback |-> cb, arg |-> owner[fd], fd |-> fd]]
  /\ interest' = interest \cup {fd}
  /\ UNCHANGED <<owner, events, phase>>

\* Variant with a bug: the entry that was not watched stays in the table.
AddFailsKeeps(fd) ==
  /\ Running /\ owner[fd] # NULL /\ ~Illegal(fd)
  /\ \E cb \in Callback :
       hcptr' = [hcptr EXCEPT ![fd] = [callback |-> cb, arg |-> owner[fd], fd |-> fd]]
  /\ interest' = interest \ {fd}
  /\ UNCHANGED <<owner, events, phase>>

\* EPOLL_CTL_ADD fails, after EPOLL_CTL_DEL of the old entry.
AddFails(fd) ==
  /\ Running /\ owner[fd] # NULL /\ ~Illegal(fd)
  /\ hcptr' = [hcptr EXCEPT ![fd] = Empty]
  /\ interest' = interest \ {fd}
  /\ UNCHANGED <<owner, events, phase>>

Cleared(fd) == [hcptr EXCEPT ![fd] = Empty]

del_handler(fd) ==
  /\ Running /\ owner[fd] # NULL /\ ~Illegal(fd)
  /\ hcptr' = Cleared(fd)
  /\ interest' = interest \ {fd}
  /\ UNCHANGED <<owner, events, phase>>

\* cli_conn_close and my_conn_close: del_handler, then close.
CloseSocket(fd) ==
  /\ Running /\ owner[fd] # NULL
  /\ hcptr' = Cleared(fd)
  /\ interest' = interest \ {fd}
  /\ owner' = [owner EXCEPT ![fd] = NULL]
  /\ UNCHANGED <<events, phase>>

-----------------------------------------------------------------------------
(* epoll_handler and the main loop.                                        *)

\* Variant with a bug: one event more than the array holds.
FitsPast(n) == n <= MaxEvent + 1

Fits(n) == n <= MaxEvent

\* epoll_wait: some of the descriptors watched, each once.
EpollWait(s) ==
  /\ phase = "wait"
  /\ Fits(Len(s)) /\ IsInjective(s) /\ ToSet(s) \subseteq interest
  /\ events' = [i \in DOMAIN s |-> [fd |-> s[i], was |-> hcptr[s[i]]]]
  /\ phase' = "batch"
  /\ UNCHANGED <<owner, hcptr, interest>>

\* Variant with a bug: what is called is what was registered when the event was
\* reported.
EntryReported(e) == e.was

Entry(e) == hcptr[e.fd]

\* The callback of the first event, if the table still has one.
Deliver ==
  /\ phase = "batch" /\ events # <<>>
  /\ phase' = IF Entry(Head(events)).callback = NULL THEN "batch" ELSE "callback"
  /\ events' = Tail(events)
  /\ UNCHANGED <<owner, hcptr, interest>>

Return ==
  /\ phase = "callback" /\ phase' = "batch"
  /\ UNCHANGED <<owner, hcptr, interest, events>>

\* After the batch, the timers; then the next epoll_wait.
RunTimers ==
  /\ phase = "batch" /\ events = <<>> /\ phase' = "timer"
  /\ UNCHANGED <<owner, hcptr, interest, events>>
TimersDone ==
  /\ phase = "timer" /\ phase' = "wait"
  /\ UNCHANGED <<owner, hcptr, interest, events>>

EventNext ==
  \/ \E fd \in Fd : \/ \E o \in Arg : OpenSocket(o, fd)
                    \/ \E cb \in Callback : add_handler(fd, cb)
                    \/ AddFails(fd) \/ del_handler(fd) \/ CloseSocket(fd)
  \/ \E s \in SeqOf(Fd, NumFd) : EpollWait(s)
  \/ Deliver \/ Return \/ RunTimers \/ TimersDone

EventSpec == EventInit /\ [][EventNext]_loopVars

-----------------------------------------------------------------------------
(* Properties.                                                             *)

\* The values of the variables; the events fit the array of epoll_handler.
EventTypeOK ==
  /\ owner \in [Fd -> Arg \cup {NULL}]
  /\ hcptr \in [Fd -> [callback : Callback \cup {NULL}, arg : Arg \cup {NULL},
                       fd : Fd \cup {-1}]]
  /\ interest \subseteq Fd
  /\ Len(events) <= MaxEvent
  /\ phase \in {"wait", "batch", "callback", "timer"}

\* The table and the kernel agree, whatever failed: what is watched is the open
\* socket of the one who registered, and an entry that is not watched is empty.
TableExact ==
  \A fd \in Fd :
    /\ fd \in interest <=> hcptr[fd].fd = fd
    /\ fd \in interest => owner[fd] # NULL /\ hcptr[fd].arg = owner[fd]
    /\ fd \notin interest => hcptr[fd] = Empty

\* A callback is called for a socket that is open, with its owner as argument,
\* even if an earlier callback of the batch closed the socket of the event and
\* another one was opened in its place (handler.c:229): never with a session
\* that has been released.
CallsOwner ==
  [][Deliver /\ phase' = "callback" =>
       LET e == Entry(Head(events)) IN
       e.fd # -1 /\ owner[e.fd] # NULL /\ e.arg = owner[e.fd]]_loopVars

-----------------------------------------------------------------------------
(* What messages of the source say and the code does not keep.             *)

\* handler.c:82: a descriptor outside [0, hccount) is not registered.
LimitKept == [][\A fd \in Fd : fd >= hccount => hcptr'[fd] = hcptr[fd]]_loopVars
=============================================================================
