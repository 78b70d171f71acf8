--------------------------- MODULE ConnPool_proofs ---------------------------
(***************************************************************************)
(* Theorems about the sessions and their timeouts, for any number of       *)
(* sessions, any timeouts and any number of sessions a timer may close.    *)
(***************************************************************************)
EXTENDS ConnPool

-----------------------------------------------------------------------------
(* The invariant.                                                          *)

ConnTypes ==
  /\ state \in [Client -> Listed \cup {"closed", "unavail"}]
  /\ age \in [Client -> 0 .. MaxAge]
  /\ link \in [Listed -> Seq(Client)]
  /\ since \in 0 .. Interval /\ down \in BOOLEAN

\* Who has a cli_conn_t.
CliOfOpen == cli = {c \in Client : state[c] # "closed"} /\ Cardinality(cli) <= CliPages

\* Whoever waits before another on a timeout list is not younger.
Sorted(l) == \A i, j \in DOMAIN l : i < j => age[l[j]] <= age[l[i]]
OldestFirst == \A s \in Listed : Sorted(link[s])

ConnInv == ConnTypes /\ CliOfOpen /\ ListOfState /\ OldestFirst

-----------------------------------------------------------------------------
(* Ages.                                                                   *)

\* There is a longest timeout.
LEMMA MaxAgeType == MaxAge \in Nat
<1> DEFINE larger(a, b) == IF a <= b THEN b ELSE a
           t == Timeout
           T == {Timeout[s] : s \in Listed}
           m == larger(larger(larger(t["reading"], t["writing"]),
                              larger(t["answering"], t["prepare"])), t["idle"])
<1>1. \A s \in Listed : Timeout[s] \in Nat
  BY TimeAssumption
<1>2. \A a, b \in T : larger(a, b) \in T /\ a <= larger(a, b) /\ b <= larger(a, b)
  BY <1>1
<1>3. \A s \in Listed : Timeout[s] \in T
  OBVIOUS
<1>4. T \subseteq Nat
  BY <1>1
<1>5. m \in T /\ \A s \in Listed : Timeout[s] <= m
  <2> DEFINE a == larger(t["reading"], t["writing"])
             b == larger(t["answering"], t["prepare"])
             c == larger(a, b)
  <2> HIDE DEF T, larger
  <2>1. a \in T /\ t["reading"] <= a /\ t["writing"] <= a
    BY <1>2, <1>3 DEF Listed
  <2>2. b \in T /\ t["answering"] <= b /\ t["prepare"] <= b
    BY <1>2, <1>3 DEF Listed
  <2> HIDE DEF a, b
  <2>3. c \in T /\ a <= c /\ b <= c
    BY <1>2, <2>1, <2>2
  <2> HIDE DEF c
  <2>4. larger(c, t["idle"]) \in T /\ c <= larger(c, t["idle"]) /\ t["idle"] <= larger(c, t["idle"])
    BY <1>2, <1>3, <2>3 DEF Listed
  <2>5. m = larger(c, t["idle"])
    BY DEF a, b, c
  <2> HIDE DEF m
  <2>8. m \in T /\ c <= m /\ t["idle"] <= m
    BY <2>4, <2>5
  <2>9. a \in Nat /\ b \in Nat /\ c \in Nat /\ m \in Nat
    BY <1>4, <2>1, <2>2, <2>3, <2>8
  <2>6. a <= m /\ b <= m
    BY <2>3, <2>8, <2>9
  <2>7. /\ t["reading"] <= m /\ t["writing"] <= m /\ t["answering"] <= m
        /\ t["prepare"] <= m
    BY <1>1, <2>1, <2>2, <2>6, <2>9 DEF Listed
  <2> QED BY <2>7, <2>8 DEF Listed
<1> HIDE DEF m
<1> DEFINE longest == CHOOSE x \in T : \A s \in Listed : Timeout[s] <= x
<1>6. longest \in T
  BY <1>5
<1>7. MaxAge = 1 + longest
  BY DEF MaxAge
<1> HIDE DEF longest, T
<1> QED BY <1>4, <1>6, <1>7

-----------------------------------------------------------------------------
(* Lists.                                                                  *)

\* Taking sessions off a timeout list leaves the others, in their order.
LEMMA LinkWithout ==
  ASSUME ConnInv, NEW s \in Listed, NEW X
  PROVE  LET l == Without(link[s], X) IN
         /\ l \in Seq(Client) /\ IsInjective(l)
         /\ ToSet(l) = {c \in Client : state[c] = s} \ X
         /\ \A f \in [Client -> Int] :
              (\A c \in Client \ X : f[c] = age[c]) =>
                \A i, j \in DOMAIN l : i < j => f[l[j]] <= f[l[i]]
<1> DEFINE l == Without(link[s], X)
<1>1. /\ link[s] \in Seq(Client) /\ IsInjective(link[s]) /\ Sorted(link[s])
      /\ ToSet(link[s]) = {c \in Client : state[c] = s}
  BY DEF ConnInv, ConnTypes, ListOfState, OldestFirst
<1>2. /\ l \in Seq(Client) /\ IsInjective(l) /\ ToSet(l) = ToSet(link[s]) \ X
      /\ \A q, r \in DOMAIN l :
           q < r => \E i, j \in DOMAIN link[s] :
                      i < j /\ l[q] = link[s][i] /\ l[r] = link[s][j]
  BY <1>1, WithoutFacts
<1> HIDE DEF l
<1>3. ASSUME NEW f \in [Client -> Int], \A c \in Client \ X : f[c] = age[c],
             NEW i \in DOMAIN l, NEW j \in DOMAIN l, i < j
      PROVE  f[l[j]] <= f[l[i]]
  <2>1. l[i] \in ToSet(l) /\ l[j] \in ToSet(l)
    BY DEF ToSet
  <2>2. f[l[i]] = age[l[i]] /\ f[l[j]] = age[l[j]]
    BY <1>1, <1>2, <1>3, <2>1
  <2> QED BY <1>1, <1>2, <1>3, <2>2 DEF Sorted
<1> QED BY <1>1, <1>2, <1>3 DEF l

-----------------------------------------------------------------------------
(* Every step keeps the invariant.                                         *)

LEMMA InitEstablishes == ConnInit => ConnInv
<1> SUFFICES ASSUME ConnInit PROVE ConnInv
  OBVIOUS
<1>1. ConnTypes
  <2>1. MaxAge \in Nat /\ Interval \in Nat /\ 0 \in 0 .. MaxAge /\ Interval \in 0 .. Interval
    BY MaxAgeType, TimeAssumption
  <2>2. link \in [Listed -> Seq(Client)]
    BY DEF ConnInit
  <2>3. state \in [Client -> Listed \cup {"closed", "unavail"}] /\ age \in [Client -> 0 .. MaxAge]
    BY <2>1 DEF ConnInit
  <2> QED BY <2>1, <2>2, <2>3 DEF ConnInit, ConnTypes
<1>2. CliOfOpen
  BY ClientAssumption, FS_EmptySet DEF ConnInit, CliOfOpen
<1>3. ListOfState
  BY DEF ConnInit, ListOfState, ToSet, IsInjective, Listed
<1>4. OldestFirst
  BY DEF ConnInit, OldestFirst, Sorted
<1> QED BY <1>1, <1>2, <1>3, <1>4 DEF ConnInv

LEMMA OpenKeepsInv ==
  ASSUME ConnInv, NEW c \in Client, conn_open(c)
  PROVE  ConnInv'
<1> USE DEF conn_open, ConnInv
<1>1. ConnTypes'
  BY MaxAgeType DEF ConnTypes
<1>2. CliOfOpen'
  <2>1. cli' = {d \in Client : state'[d] # "closed"}
    BY DEF ConnTypes, CliOfOpen
  <2>2. IsFiniteSet(cli) /\ Cardinality(cli) < CliPages
    BY ClientAssumption, FS_Subset DEF CliOfOpen, Opens
  <2>3. Cardinality(cli \cup {c}) = IF c \in cli THEN Cardinality(cli) ELSE Cardinality(cli) + 1
    BY <2>2, FS_AddElement
  <2>4. Cardinality(cli) \in Nat /\ CliPages \in Nat
    BY <2>2, FS_CardinalityType, ClientAssumption
  <2>5. Cardinality(cli') <= CliPages
    BY <2>2, <2>3, <2>4
  <2> QED BY <2>1, <2>5 DEF CliOfOpen
<1>3. ASSUME NEW s \in Listed
      PROVE  /\ ToSet(link'[s]) = {d \in Client : state'[d] = s}
             /\ IsInjective(link'[s])
             /\ Sorted(link[s])'
  <2>1. ToSet(link[s]) = {d \in Client : state[d] = s} /\ IsInjective(link[s])
        /\ Sorted(link[s]) /\ link' = link
    BY DEF ListOfState, OldestFirst
  <2>2. s # "closed" /\ s # "unavail"
    BY DEF Listed
  <2>3. {d \in Client : state'[d] = s} = {d \in Client : state[d] = s}
    BY <2>2 DEF ConnTypes
  <2>4. \A i \in DOMAIN link[s] : link[s][i] \in ToSet(link[s])
    BY DEF ToSet
  <2>5. \A i \in DOMAIN link[s] : age'[link[s][i]] = age[link[s][i]]
    BY <2>1, <2>2, <2>4 DEF ConnTypes
  <2>6. \A i, j \in DOMAIN link[s] : i < j => age'[link[s][j]] <= age'[link[s][i]]
    BY <2>1, <2>5 DEF Sorted
  <2> QED BY <2>1, <2>3, <2>6 DEF Sorted
<1> QED BY <1>1, <1>2, <1>3 DEF ListOfState, OldestFirst

LEMMA FailKeepsInv ==
  ASSUME ConnInv, OpenFails
  PROVE  ConnInv'
BY DEF OpenFails, ConnInv, ConnTypes, CliOfOpen, ListOfState, OldestFirst, Sorted

\* Closed sessions leave their lists, one in conn_close, several in a timer.
LEMMA RemoveKeepsInv ==
  ASSUME ConnInv, NEW X \in SUBSET Client,
         state' = [c \in Client |-> IF c \in X THEN "closed" ELSE state[c]],
         link' = [s \in Listed |-> Without(link[s], X)],
         cli' = cli \ X,
         since' \in 0 .. Interval,
         UNCHANGED <<age, down>>
  PROVE  ConnInv'
<1>1. ASSUME NEW s \in Listed
      PROVE  /\ link'[s] \in Seq(Client)
             /\ ToSet(link'[s]) = {c \in Client : state'[c] = s}
             /\ IsInjective(link'[s])
             /\ Sorted(link[s])'
  <2> DEFINE l == Without(link[s], X)
  <2>1. age \in [Client -> Int] /\ age' = age
    BY MaxAgeType DEF ConnInv, ConnTypes
  <2>2. /\ l \in Seq(Client) /\ IsInjective(l)
        /\ ToSet(l) = {c \in Client : state[c] = s} \ X
        /\ \A f \in [Client -> Int] :
             (\A c \in Client \ X : f[c] = age[c]) =>
               \A i, j \in DOMAIN l : i < j => f[l[j]] <= f[l[i]]
    BY LinkWithout
  <2>3. link'[s] = l
    OBVIOUS
  <2> HIDE DEF l
  <2>4. s # "closed"
    BY DEF Listed
  <2>5. ToSet(l) = {c \in Client : state'[c] = s}
    BY <2>2, <2>4
  <2>6. \A i, j \in DOMAIN l : i < j => age[l[j]] <= age[l[i]]
    BY <2>1, <2>2
  <2> QED BY <2>1, <2>2, <2>3, <2>5, <2>6 DEF Sorted
<1>2. link' \in [Listed -> Seq(Client)]
  BY <1>1
<1>3. ConnTypes'
  BY <1>2 DEF ConnInv, ConnTypes
<1>4. CliOfOpen'
  <2>1. cli' = {c \in Client : state'[c] # "closed"}
    BY DEF ConnInv, CliOfOpen
  <2>2. IsFiniteSet(cli) /\ Cardinality(cli) <= CliPages
    BY ClientAssumption, FS_Subset DEF ConnInv, CliOfOpen
  <2>3. IsFiniteSet(cli') /\ Cardinality(cli') <= Cardinality(cli)
    BY <2>2, FS_Subset
  <2>4. Cardinality(cli) \in Nat /\ Cardinality(cli') \in Nat /\ CliPages \in Nat
    BY <2>2, <2>3, FS_CardinalityType, ClientAssumption
  <2> QED BY <2>1, <2>2, <2>3, <2>4 DEF CliOfOpen
<1> QED BY <1>1, <1>3, <1>4 DEF ConnInv, ListOfState, OldestFirst

LEMMA CloseKeepsInv ==
  ASSUME ConnInv, NEW c \in Client, conn_close(c)
  PROVE  ConnInv'
<1>1. state' = [d \in Client |-> IF d \in {c} THEN "closed" ELSE state[d]]
  BY DEF conn_close, ConnInv, ConnTypes
<1>2. /\ link' = [s \in Listed |-> Without(link[s], {c})]
      /\ cli' = cli \ {c} /\ UNCHANGED <<age, down>>
  BY DEF conn_close, Unlink
<1>3. since' \in 0 .. Interval
  BY DEF conn_close, ConnInv, ConnTypes
<1> QED BY <1>1, <1>2, <1>3, RemoveKeepsInv

Gone == UNION {TimedOut(s) : s \in Listed}

LEMMA TimerKeepsInv ==
  ASSUME ConnInv, timer
  PROVE  ConnInv'
<1>1. ASSUME NEW s \in Listed PROVE TimedOut(s) \subseteq Client
  <2>1. \A i \in DOMAIN link[s] : link[s][i] \in Client
    BY ElementOfSeq, LenProperties DEF ConnInv, ConnTypes
  <2> QED BY <2>1 DEF TimedOut
<1>2. Gone \in SUBSET Client
  BY <1>1 DEF Gone
<1>3. /\ state' = [c \in Client |-> IF c \in Gone THEN "closed" ELSE state[c]]
      /\ link' = [s \in Listed |-> Without(link[s], Gone)]
      /\ cli' = cli \ Gone
      /\ UNCHANGED <<age, down>>
  BY DEF timer, Gone
<1>4. since' \in 0 .. Interval
  BY TimeAssumption DEF timer
<1> QED BY <1>2, <1>3, <1>4, RemoveKeepsInv

LEMMA TickKeepsInv ==
  ASSUME ConnInv, Tick
  PROVE  ConnInv'
<1> USE DEF ConnInv
<1>1. /\ age' \in [Client -> 0 .. MaxAge]
      /\ since' \in 0 .. Interval
      /\ UNCHANGED <<state, link, cli, down>>
  BY MaxAgeType, TimeAssumption DEF Tick, ConnTypes
<1>2. ConnTypes' /\ CliOfOpen' /\ ListOfState'
  BY <1>1 DEF ConnTypes, CliOfOpen, ListOfState
<1>3. ASSUME NEW s \in Listed, NEW i \in DOMAIN link[s], NEW j \in DOMAIN link[s], i < j
      PROVE  age'[link[s][j]] <= age'[link[s][i]]
  <2> DEFINE a == link[s][i]
             b == link[s][j]
  <2>1. a \in ToSet(link[s]) /\ b \in ToSet(link[s])
    BY DEF ToSet
  <2>2. /\ a \in Client /\ state[a] # "closed" /\ b \in Client /\ state[b] # "closed"
    BY <2>1 DEF ListOfState, Listed
  <2>3. age[b] <= age[a]
    BY <1>3 DEF OldestFirst, Sorted
  <2> HIDE DEF a, b
  <2>4. /\ age[a] \in 0 .. MaxAge /\ age[b] \in 0 .. MaxAge
        /\ age'[a] = IF age[a] = MaxAge THEN age[a] ELSE age[a] + 1
        /\ age'[b] = IF age[b] = MaxAge THEN age[b] ELSE age[b] + 1
    BY <2>2 DEF Tick, ConnTypes
  <2>5. age'[b] <= age'[a]
    BY <2>3, <2>4, MaxAgeType
  <2> QED BY <2>5 DEF a, b
<1>4. OldestFirst'
  BY <1>1, <1>3 DEF OldestFirst, Sorted
<1> QED BY <1>2, <1>4

\* A session that changes its state is the youngest of its new list, and goes
\* to its end.
LEMMA StateSetKeepsInv ==
  ASSUME ConnInv, NEW c \in Client, state[c] # "closed", NEW t \in Listed,
         conn_state_set(c, t)
  PROVE  ConnInv'
<1>1. /\ state' = [state EXCEPT ![c] = t] /\ age' = [age EXCEPT ![c] = 0]
      /\ link' = MoveToTail(c, t) /\ UNCHANGED <<cli, since, down>>
  BY DEF conn_state_set
<1>2. /\ state \in [Client -> Listed \cup {"closed", "unavail"}]
      /\ age \in [Client -> 0 .. MaxAge] /\ age' \in [Client -> Int]
      /\ age'[c] = 0 /\ \A d \in Client \ {c} : age'[d] = age[d]
      /\ \A d \in Client : age'[d] >= 0
  BY <1>1, MaxAgeType DEF ConnInv, ConnTypes
<1>3. ASSUME NEW s \in Listed
      PROVE  /\ link'[s] \in Seq(Client)
             /\ ToSet(link'[s]) = {d \in Client : state'[d] = s}
             /\ IsInjective(link'[s])
             /\ Sorted(link[s])'
  <2> DEFINE l == Without(link[s], {c})
  <2>1. /\ l \in Seq(Client) /\ IsInjective(l)
        /\ ToSet(l) = {d \in Client : state[d] = s} \ {c}
        /\ \A f \in [Client -> Int] :
             (\A d \in Client \ {c} : f[d] = age[d]) =>
               \A i, j \in DOMAIN l : i < j => f[l[j]] <= f[l[i]]
    BY LinkWithout
  <2>2. link'[s] = IF s = t THEN Append(l, c) ELSE l
    BY <1>1 DEF MoveToTail, Unlink
  <2> HIDE DEF l
  <2>3. \A i, j \in DOMAIN l : i < j => age'[l[j]] <= age'[l[i]]
    BY <1>2, <2>1
  <2>4. CASE s # t
    <3>1. ToSet(l) = {d \in Client : state'[d] = s}
      BY <1>1, <1>2, <2>1, <2>4
    <3> QED BY <2>1, <2>2, <2>3, <2>4, <3>1 DEF Sorted
  <2>5. CASE s = t
    <3> DEFINE m == Append(l, c)
    <3>1. /\ m \in Seq(Client) /\ Len(l) \in Nat /\ DOMAIN l = 1 .. Len(l)
          /\ DOMAIN m = 1 .. Len(l) + 1 /\ m[Len(l) + 1] = c
          /\ \A i \in 1 .. Len(l) : m[i] = l[i]
      BY <2>1, AppendProperties, LenProperties
    <3> HIDE DEF m
    <3>2. \A i \in DOMAIN l : l[i] \in ToSet(l) /\ l[i] \in Client /\ l[i] # c
      BY <2>1 DEF ToSet
    <3>3. ToSet(m) = ToSet(l) \cup {c}
      BY <3>1 DEF ToSet
    <3>4. ToSet(m) = {d \in Client : state'[d] = s}
      BY <1>1, <1>2, <2>1, <2>5, <3>3
    <3>5. IsInjective(m)
      BY <2>1, <3>1, <3>2 DEF IsInjective
    <3>6. ASSUME NEW i \in DOMAIN m, NEW j \in DOMAIN m, i < j
          PROVE  age'[m[j]] <= age'[m[i]]
      <4>1. i \in DOMAIN l /\ m[i] = l[i]
        BY <3>1, <3>6
      <4>2. CASE j \in DOMAIN l
        BY <2>3, <3>1, <3>6, <4>1, <4>2
      <4>3. CASE j = Len(l) + 1
        BY <1>2, <3>1, <3>2, <4>1, <4>3
      <4> QED BY <3>1, <4>2, <4>3
    <3> QED BY <2>2, <2>5, <3>1, <3>4, <3>5, <3>6 DEF m, Sorted
  <2> QED BY <2>4, <2>5
<1>4. link' \in [Listed -> Seq(Client)]
  <2>1. link' = [s \in Listed |-> link'[s]]
    BY <1>1 DEF MoveToTail, Unlink
  <2> QED BY <1>3, <2>1
<1>5. ConnTypes'
  BY <1>1, <1>2, <1>4, MaxAgeType DEF ConnInv, ConnTypes
<1>6. CliOfOpen'
  BY <1>1, <1>2 DEF ConnInv, CliOfOpen, Listed
<1> QED BY <1>3, <1>5, <1>6 DEF ConnInv, ListOfState, OldestFirst

LEMMA NextKeepsInv ==
  ASSUME ConnInv, [ConnNext]_connVars
  PROVE  ConnInv'
<1>1. CASE UNCHANGED connVars
  BY <1>1 DEF connVars, ConnInv, ConnTypes, CliOfOpen, ListOfState, OldestFirst, Sorted
<1>2. ASSUME NEW c \in Client, Progress(c) PROVE ConnInv'
  <2>1. PICK s \in Follows[state[c]] : state[c] # "closed" /\ conn_state_set(c, s)
    BY <1>2 DEF Progress
  <2>2. s \in Listed
    BY <2>1 DEF Follows, Listed, ConnInv, ConnTypes
  <2> QED BY <2>1, <2>2, StateSetKeepsInv
<1> QED BY <1>1, <1>2, OpenKeepsInv, CloseKeepsInv, FailKeepsInv, TimerKeepsInv,
           TickKeepsInv DEF ConnNext

-----------------------------------------------------------------------------
(* What a timer closes.                                                    *)

\* The sessions a timer closes are the first of their list that stayed too
\* long: all who did, or as many as it may.
LEMMA ClosesFirst ==
  ASSUME ConnInv, NEW s \in Listed
  PROVE  /\ TimedOut(s) \subseteq TooLong(s)
         /\ TimedOut(s) = TooLong(s) \/ Cardinality(TimedOut(s)) = MaxConns
<1> DEFINE l == link[s]
<1>1. /\ l \in Seq(Client) /\ Len(l) \in Nat /\ DOMAIN l = 1 .. Len(l)
      /\ ToSet(l) = {c \in Client : state[c] = s} /\ IsInjective(l) /\ Sorted(l)
  BY LenProperties DEF ConnInv, ConnTypes, ListOfState, OldestFirst
<1>2. TimedOut(s) = {l[i] : i \in {j \in DOMAIN l : /\ InBatch(j)
                                                   /\ \A k \in 1 .. j : Expired(l[k], s)}}
  BY DEF TimedOut
<1>3. MaxConns \in Nat \ {0} /\ Timeout[s] \in Nat /\ \A c \in Client : age[c] \in Int
  BY TimeAssumption, MaxAgeType DEF ConnInv, ConnTypes
<1> HIDE DEF l
<1>4. TimedOut(s) \subseteq TooLong(s)
  <2>1. ASSUME NEW j \in DOMAIN l, \A k \in 1 .. j : Expired(l[k], s)
        PROVE  l[j] \in TooLong(s)
    <3>1. l[j] \in ToSet(l) /\ j \in 1 .. j
      BY <1>1 DEF ToSet
    <3> QED BY <1>1, <2>1, <3>1 DEF TooLong
  <2> QED BY <1>2, <2>1
<1>5. ASSUME NEW c \in TooLong(s), c \notin TimedOut(s)
      PROVE  Cardinality(TimedOut(s)) = MaxConns
  <2>1. PICK i \in DOMAIN l : l[i] = c
    BY <1>1 DEF TooLong, ToSet
  <2>2. \A k \in 1 .. i : Expired(l[k], s)
    <3> TAKE k \in 1 .. i
    <3>1. k \in DOMAIN l /\ (k < i \/ k = i)
      BY <1>1
    <3>2. l[k] \in Client /\ c \in Client
      BY <1>1, <3>1, <2>1
    <3>3. age[c] <= age[l[k]]
      BY <1>1, <1>3, <2>1, <3>1, <3>2 DEF Sorted
    <3> QED BY <1>3, <1>5, <3>2, <3>3 DEF Expired, TooLong
  <2>3. i > MaxConns
    BY <1>1, <1>2, <1>3, <1>5, <2>1, <2>2 DEF InBatch
  <2>4. /\ 1 .. MaxConns \subseteq DOMAIN l
        /\ \A j \in DOMAIN l : InBatch(j) <=> j \in 1 .. MaxConns
        /\ \A j \in 1 .. MaxConns : \A k \in 1 .. j : Expired(l[k], s)
    BY <1>1, <1>3, <2>2, <2>3 DEF InBatch
  <2>5. TimedOut(s) = {l[j] : j \in 1 .. MaxConns}
    BY <1>2, <2>4
  <2> DEFINE f == [j \in 1 .. MaxConns |-> l[j]]
  <2>6. f \in Bijection(1 .. MaxConns, TimedOut(s))
    <3>1. f \in [1 .. MaxConns -> TimedOut(s)]
      BY <2>5
    <3>2. \A j, k \in 1 .. MaxConns : l[j] = l[k] => j = k
      BY <1>1, <2>4 DEF IsInjective
    <3>3. IsInjective(f)
      BY <3>2 DEF IsInjective
    <3>4. \A t \in TimedOut(s) : \E j \in 1 .. MaxConns : f[j] = t
      BY <2>5
    <3> QED BY <3>1, <3>3, <3>4 DEF Bijection, Injection, Surjection
  <2> QED BY <1>3, <2>6, FS_CountingElements DEF ExistsBijection
<1> QED BY <1>4, <1>5

LEMMA TimerCloses ==
  ASSUME ConnInv, timer, NEW s \in Listed
  PROVE  Closes(s) = TimedOut(s)
<1>1. \A t \in Listed : TimedOut(t) \subseteq {c \in Client : state[c] = t}
  BY ClosesFirst DEF TooLong
<1>2. state' = [c \in Client |-> IF c \in Gone THEN "closed" ELSE state[c]]
  BY DEF timer, Gone
<1>3. \A c \in Client : state[c] = s => (c \in Gone <=> c \in TimedOut(s))
  BY <1>1 DEF Gone
<1>4. s # "closed"
  BY DEF Listed
<1> QED BY <1>1, <1>2, <1>3, <1>4 DEF Closes

-----------------------------------------------------------------------------
(* The theorems.                                                           *)

\* The lists hold the sessions of their state, the oldest first.
THEOREM ConnInvCorrect == ConnSpec => []ConnInv
BY InitEstablishes, NextKeepsInv, PTL DEF ConnSpec

\* The values of the variables; no more sessions than pages of cli_conn_t.
THEOREM ConnTypeCorrect == ConnSpec => []ConnTypeOK
<1>1. ConnInv => ConnTypeOK
  BY DEF ConnInv, ConnTypes, CliOfOpen, ConnTypeOK
<1> QED BY <1>1, ConnInvCorrect, PTL

\* A session is on the timeout list of its state, once, and on no other
\* (conn_pool.c:223, 457), for any number of sessions.
THEOREM ListOfStateCorrect == ConnSpec => []ListOfState
<1>1. ConnInv => ListOfState
  BY DEF ConnInv
<1> QED BY <1>1, ConnInvCorrect, PTL

\* A timer that stops at the first young session misses nobody behind it
\* (conn_pool.c:459): it closes only sessions that stayed too long, and all of
\* them or as many as it may.
THEOREM TimeoutExactCorrect == ConnSpec => TimeoutExact
<1> DEFINE Exact == timer => \A s \in Listed :
                      /\ Closes(s) \subseteq TooLong(s)
                      /\ Closes(s) = TooLong(s) \/ Cardinality(Closes(s)) = MaxConns
<1>1. ConnInv => Exact
  BY ClosesFirst, TimerCloses
<1>2. ConnInv => [Exact]_connVars
  BY <1>1
<1> QED BY <1>2, ConnInvCorrect, PTL DEF TimeoutExact
=============================================================================
