--------------------------- MODULE MyPool_proofs ----------------------------
(***************************************************************************)
(* Theorems about the connection pool, for any number of nodes, pages and  *)
(* sessions: where the pages are (PlaceInv, and what a step does to it),   *)
(* when a connection is released, that the pool implements ConnLease, and  *)
(* what the counters and a closing node keep.                              *)
(***************************************************************************)
EXTENDS MyPool, SequenceTheorems, FiniteSetTheorems, TLAPS

-----------------------------------------------------------------------------
(* Lists.                                                                  *)

\* RemoveAt shifts what follows the removed element by one place.
LEMMA RemoveAtFacts ==
  ASSUME NEW S, NEW s \in Seq(S), NEW i \in DOMAIN s
  PROVE  /\ RemoveAt(s, i) \in Seq(S)
         /\ Len(RemoveAt(s, i)) = Len(s) - 1
         /\ \A j \in 1 .. Len(s) - 1 :
              RemoveAt(s, i)[j] = IF j < i THEN s[j] ELSE s[j + 1]
<1> DEFINE a == SubSeq(s, 1, i - 1)
           b == SubSeq(s, i + 1, Len(s))
<1>1. i \in 1 .. Len(s) /\ Len(s) \in Nat
  BY LenProperties
<1>2. /\ a \in Seq(S) /\ Len(a) = i - 1
      /\ \A j \in 1 .. i - 1 : a[j] = s[j]
  BY <1>1
<1>3. /\ b \in Seq(S) /\ Len(b) = Len(s) - i
      /\ \A j \in 1 .. Len(s) - i : b[j] = s[i + j]
  BY <1>1
<1>4. /\ a \o b \in Seq(S) /\ Len(a \o b) = Len(s) - 1
      /\ \A j \in 1 .. Len(s) - 1 : (a \o b)[j] = IF j <= i - 1 THEN a[j] ELSE b[j - (i - 1)]
  <2> HIDE DEF a, b
  <2>1. /\ a \o b \in Seq(S) /\ Len(a \o b) = Len(a) + Len(b)
        /\ \A j \in 1 .. Len(a) + Len(b) :
             (a \o b)[j] = IF j <= Len(a) THEN a[j] ELSE b[j - Len(a)]
    BY <1>2, <1>3, ConcatProperties
  <2>2. Len(a) = i - 1 /\ Len(a) + Len(b) = Len(s) - 1
    BY <1>1, <1>2, <1>3
  <2> QED BY <2>1, <2>2
<1>5. RemoveAt(s, i) = a \o b
  BY DEF RemoveAt
<1>6. ASSUME NEW j \in 1 .. Len(s) - 1
      PROVE  (a \o b)[j] = IF j < i THEN s[j] ELSE s[j + 1]
  <2> HIDE DEF a, b
  <2>1. (a \o b)[j] = IF j <= i - 1 THEN a[j] ELSE b[j - (i - 1)]
    BY <1>4
  <2>2. CASE j < i
    BY <1>1, <1>2, <2>1, <2>2
  <2>3. CASE ~(j < i)
    <3>1. j - (i - 1) \in 1 .. Len(s) - i /\ i + (j - (i - 1)) = j + 1
      BY <1>1, <2>3
    <3> QED BY <1>1, <1>3, <2>1, <2>3, <3>1
  <2> QED BY <2>2, <2>3
<1> QED BY <1>4, <1>5, <1>6

Injective(s) == \A i, j \in DOMAIN s : s[i] = s[j] => i = j

\* Unlinking a page takes that page and nothing else off a list.
LEMMA UnlinkedFacts ==
  ASSUME NEW S, NEW s \in Seq(S), NEW m, Injective(s)
  PROVE  /\ Unlinked(s, m) \in Seq(S)
         /\ Injective(Unlinked(s, m))
         /\ ToSet(Unlinked(s, m)) = ToSet(s) \ {m}
<1>1. CASE ~\E i \in DOMAIN s : s[i] = m
  BY <1>1 DEF Unlinked, ToSet
<1>2. CASE \E i \in DOMAIN s : s[i] = m
  <2> DEFINE p == CHOOSE i \in DOMAIN s : s[i] = m
             u == RemoveAt(s, p)
  <2>1. p \in DOMAIN s /\ s[p] = m
    BY <1>2
  <2>2. Unlinked(s, m) = u
    BY <1>2 DEF Unlinked
  <2> HIDE DEF p
  <2>3. /\ u \in Seq(S) /\ Len(u) = Len(s) - 1
        /\ \A j \in 1 .. Len(s) - 1 : u[j] = IF j < p THEN s[j] ELSE s[j + 1]
    BY <2>1, RemoveAtFacts
  <2> HIDE DEF u
  <2>4. /\ Len(s) \in Nat /\ DOMAIN s = 1 .. Len(s) /\ p \in 1 .. Len(s)
        /\ DOMAIN u = 1 .. Len(s) - 1
    BY <2>1, <2>3, LenProperties
  <2>5. Injective(u)
    <3> SUFFICES ASSUME NEW i \in DOMAIN u, NEW j \in DOMAIN u, u[i] = u[j]
                 PROVE  i = j
      BY DEF Injective
    <3> DEFINE a == IF i < p THEN i ELSE i + 1
               b == IF j < p THEN j ELSE j + 1
    <3>1. a \in DOMAIN s /\ u[i] = s[a] /\ b \in DOMAIN s /\ u[j] = s[b]
      BY <2>3, <2>4
    <3>2. a = b
      BY <3>1 DEF Injective
    <3> QED BY <2>4, <3>2
  <2>6. ASSUME NEW j \in DOMAIN u
        PROVE  u[j] \in ToSet(s) \ {m}
    <3>1. CASE j < p
      <4>1. u[j] = s[j] /\ j \in DOMAIN s /\ j # p
        BY <2>3, <2>4, <3>1
      <4> QED BY <2>1, <4>1 DEF ToSet, Injective
    <3>2. CASE ~(j < p)
      <4>1. u[j] = s[j + 1] /\ j + 1 \in DOMAIN s /\ j + 1 # p
        BY <2>3, <2>4, <3>2
      <4> QED BY <2>1, <4>1 DEF ToSet, Injective
    <3> QED BY <3>1, <3>2
  <2>7. ASSUME NEW i \in DOMAIN s, s[i] # m
        PROVE  s[i] \in ToSet(u)
    <3>1. CASE i < p
      <4>1. u[i] = s[i] /\ i \in DOMAIN u
        BY <2>3, <2>4, <3>1
      <4> QED BY <4>1 DEF ToSet
    <3>2. CASE ~(i < p)
      <4>1. i - 1 \in DOMAIN u /\ ~(i - 1 < p)
        BY <2>1, <2>4, <2>7, <3>2
      <4>2. u[i - 1] = s[i]
        BY <2>3, <2>4, <4>1
      <4> QED BY <4>1, <4>2 DEF ToSet
    <3> QED BY <3>1, <3>2
  <2>8. ToSet(u) = ToSet(s) \ {m}
    BY <2>6, <2>7 DEF ToSet
  <2> QED BY <2>2, <2>3, <2>5, <2>8
<1> QED BY <1>1, <1>2

\* Adding a page at either end of a list that does not hold it.
LEMMA AppendFacts ==
  ASSUME NEW S, NEW s \in Seq(S), NEW m \in S, Injective(s), m \notin ToSet(s)
  PROVE  /\ Append(s, m) \in Seq(S)
         /\ Injective(Append(s, m))
         /\ ToSet(Append(s, m)) = ToSet(s) \cup {m}
<1> DEFINE a == Append(s, m)
<1>1. /\ a \in Seq(S) /\ Len(a) = Len(s) + 1 /\ Len(s) \in Nat
      /\ DOMAIN s = 1 .. Len(s) /\ DOMAIN a = 1 .. Len(s) + 1
      /\ \A i \in 1 .. Len(s) : a[i] = s[i]
      /\ a[Len(s) + 1] = m
  BY AppendProperties, LenProperties
<1> HIDE DEF a
<1>2. Injective(a)
  BY <1>1 DEF Injective, ToSet
<1>3. ToSet(a) = ToSet(s) \cup {m}
  BY <1>1 DEF ToSet
<1> QED BY <1>1, <1>2, <1>3 DEF a

\* What goes on a list at its head is on it, once, with what was there.
LEMMA ConsFacts ==
  ASSUME NEW S, NEW s \in Seq(S), NEW m \in S, Injective(s), m \notin ToSet(s)
  PROVE  /\ <<m>> \o s \in Seq(S)
         /\ Injective(<<m>> \o s)
         /\ ToSet(<<m>> \o s) = ToSet(s) \cup {m}
<1> DEFINE h == <<m>>
           a == h \o s
<1>1. h \in Seq(S) /\ Len(h) = 1 /\ h[1] = m
  OBVIOUS
<1> HIDE DEF h
<1>2. /\ a \in Seq(S) /\ Len(a) = Len(h) + Len(s)
      /\ \A i \in 1 .. Len(h) + Len(s) : a[i] = IF i <= Len(h) THEN h[i] ELSE s[i - Len(h)]
  BY <1>1, ConcatProperties
<1> HIDE DEF a
<1>3. /\ Len(s) \in Nat /\ DOMAIN s = 1 .. Len(s)
      /\ DOMAIN a = 1 .. Len(s) + 1
      /\ a[1] = m
      /\ \A i \in 2 .. Len(s) + 1 : a[i] = s[i - 1]
  <2>1. Len(s) \in Nat /\ DOMAIN s = 1 .. Len(s)
    BY LenProperties
  <2>2. Len(a) = Len(s) + 1 /\ DOMAIN a = 1 .. Len(s) + 1
    BY <1>1, <1>2, <2>1, LenProperties
  <2>3. a[1] = m
    BY <1>1, <1>2, <2>1
  <2>4. ASSUME NEW i \in 2 .. Len(s) + 1
        PROVE  a[i] = s[i - 1]
    BY <1>1, <1>2, <2>1
  <2> QED BY <2>1, <2>2, <2>3, <2>4
<1>4. Injective(a)
  BY <1>3 DEF Injective, ToSet
<1>5. ToSet(a) \subseteq ToSet(s) \cup {m}
  BY <1>3 DEF ToSet
<1>6. ASSUME NEW i \in DOMAIN s
      PROVE  s[i] \in ToSet(a)
  <2>1. i + 1 \in DOMAIN a /\ a[i + 1] = s[i]
    BY <1>3
  <2> QED BY <2>1 DEF ToSet
<1>7. m \in ToSet(a)
  BY <1>3 DEF ToSet
<1> QED BY <1>2, <1>4, <1>5, <1>6, <1>7 DEF a, h, ToSet

-----------------------------------------------------------------------------
(* The lists of the pool as a whole.                                       *)

ListType == list \in [Lists -> Seq(My)]

Disjoint(L) ==
  /\ \A x \in Lists : Injective(L[x])
  /\ \A x, y \in Lists : x # y => ToSet(L[x]) \cap ToSet(L[y]) = {}

\* OnceOnly in terms of the sets of pages on the lists.
LEMMA OnceOnlyIsDisjoint == OnceOnly <=> Disjoint(list)
  BY DEF OnceOnly, Disjoint, Injective, ToSet

\* The same in the next state.
LEMMA DisjointIsOnceOnly ==
  ASSUME NEW L, Disjoint(L)
  PROVE  \A x, y \in Lists : \A i \in DOMAIN L[x], j \in DOMAIN L[y] :
           L[x][i] = L[y][j] => x = y /\ i = j
  BY DEF Disjoint, Injective, ToSet

\* list_del_init takes a page off every list.
LEMMA DelInitFacts ==
  ASSUME NEW m \in My, ListType, OnceOnly
  PROVE  /\ DelInit(m) \in [Lists -> Seq(My)]
         /\ Disjoint(DelInit(m))
         /\ \A x \in Lists : ToSet(DelInit(m)[x]) = ToSet(list[x]) \ {m}
<1>1. Disjoint(list)
  BY OnceOnlyIsDisjoint
<1>2. ASSUME NEW x \in Lists
      PROVE  /\ Unlinked(list[x], m) \in Seq(My)
             /\ Injective(Unlinked(list[x], m))
             /\ ToSet(Unlinked(list[x], m)) = ToSet(list[x]) \ {m}
  <2>1. list[x] \in Seq(My) /\ Injective(list[x])
    BY <1>1 DEF ListType, Disjoint
  <2> QED BY <2>1, UnlinkedFacts
<1> QED BY <1>1, <1>2 DEF DelInit, Disjoint

\* list_move_tail and list_move: off every list, then onto one.
Moved(L, m, z) ==
  /\ L \in [Lists -> Seq(My)]
  /\ Disjoint(L)
  /\ \A x \in Lists : ToSet(L[x]) = IF x = z THEN ToSet(list[x]) \cup {m}
                                            ELSE ToSet(list[x]) \ {m}

\* list_move and list_move_tail put a page on one list, off every other.
LEMMA MoveFacts ==
  ASSUME NEW m \in My, NEW n \in Node, NEW k \in ListName, ListType, OnceOnly
  PROVE  Moved(MoveTail(m, n, k), m, <<n, k>>) /\ Moved(MoveHead(m, n, k), m, <<n, k>>)
<1> DEFINE z == <<n, k>>
           D == DelInit(m)
<1>1. /\ D \in [Lists -> Seq(My)] /\ Disjoint(D)
      /\ \A x \in Lists : ToSet(D[x]) = ToSet(list[x]) \ {m}
  BY DelInitFacts
<1>2. z \in Lists
  BY DEF Lists
<1>3. \A x \in Lists : D[x] = Unlinked(list[x], m)
  BY DEF DelInit
<1>4. ASSUME NEW L, \A x \in Lists : x # z => L[x] = D[x], L = [x \in Lists |-> L[x]],
             L[z] = Append(D[z], m) \/ L[z] = <<m>> \o D[z]
      PROVE  Moved(L, m, z)
  <2> HIDE DEF D, z
  <2>1. D[z] \in Seq(My) /\ Injective(D[z]) /\ m \notin ToSet(D[z])
    BY <1>1, <1>2 DEF Disjoint
  <2>2. L[z] \in Seq(My) /\ Injective(L[z]) /\ ToSet(L[z]) = ToSet(D[z]) \cup {m}
    <3>1. CASE L[z] = Append(D[z], m)
      BY <2>1, <3>1, AppendFacts
    <3>2. CASE L[z] = <<m>> \o D[z]
      BY <2>1, <3>2, ConsFacts
    <3> QED BY <1>4, <3>1, <3>2
  <2>3. L \in [Lists -> Seq(My)]
    BY <1>1, <1>2, <1>4, <2>2
  <2>4. \A x \in Lists : ToSet(L[x]) = IF x = z THEN ToSet(list[x]) \cup {m}
                                               ELSE ToSet(list[x]) \ {m}
    BY <1>1, <1>2, <1>4, <2>2
  <2>5. Disjoint(L)
    BY <1>1, <1>2, <1>4, <2>2, <2>4 DEF Disjoint
  <2> QED BY <2>3, <2>4, <2>5 DEF Moved
<1>5. Moved(MoveTail(m, n, k), m, z)
  <2> DEFINE L == MoveTail(m, n, k)
  <2>1. /\ \A x \in Lists : x # z => L[x] = D[x]
        /\ L = [x \in Lists |-> L[x]]
        /\ L[z] = Append(D[z], m)
    BY <1>2, <1>3 DEF MoveTail
  <2> HIDE DEF L, D, z
  <2>2. Moved(L, m, z)
    BY <1>4, <2>1
  <2> QED BY <2>2 DEF L
<1>6. Moved(MoveHead(m, n, k), m, z)
  <2> DEFINE L == MoveHead(m, n, k)
  <2>1. /\ \A x \in Lists : x # z => L[x] = D[x]
        /\ L = [x \in Lists |-> L[x]]
        /\ L[z] = <<m>> \o D[z]
    BY <1>2, <1>3 DEF MoveHead
  <2> HIDE DEF L, D, z
  <2>2. Moved(L, m, z)
    BY <1>4, <2>1
  <2> QED BY <2>2 DEF L
<1> QED BY <1>5, <1>6

-----------------------------------------------------------------------------
(* The inductive invariant: where each page is and what that entails.      *)

PageInv(m) == Placed(m) /\ FitsList(m) /\ Owned(m)
PlaceInv == TypeOK /\ OnceOnly /\ OneEach /\ \A m \in My : PageInv(m)

\* What is left of it for a page that my_node_init has taken off its list
\* (Reload), whatever it was doing: on a list it belongs there, and owned or
\* pinged it is connected.
SoundPage(m) ==
  /\ FitsList(m)
  /\ \A n \in Node, k \in ListName :
       On(m, n, k) => node[m] = n /\ (k = "used" => conn[m] # NULL)
  /\ cb[m] \in PingCb => conn[m] = NULL
  /\ cb[m] \in PingCb \/ conn[m] # NULL => m \in open
SoundInv == TypeOK /\ OnceOnly /\ OneEach /\ \A m \in My : SoundPage(m)

\* What the step leaves alone: every page but m.
Only(m) ==
  \A o \in My \ {m} :
    /\ node'[o] = node[o] /\ conn'[o] = conn[o] /\ cb'[o] = cb[o]
    /\ o \in open' <=> o \in open
    /\ \A a \in Node, b \in ListName : On(o, a, b)' <=> On(o, a, b)

\* A counter taken modulo CountMod has the type of an unsigned int.
LEMMA ModType == ASSUME NEW a \in Int PROVE a % CountMod \in 0 .. CountMod - 1
  BY BoundAssumption

\* A connection with a ping callback is on the ping list.
LEMMA PingedListed ==
  ASSUME PlaceInv, NEW m \in My, cb[m] \in PingCb
  PROVE  node[m] \in Node /\ On(m, node[m], "ping")
<1>1. /\ cb[m] \notin HsCb /\ cb[m] \notin SessionCb \cup {"none"}
      /\ PageInv(m) /\ node[m] \in Node \cup {NULL} /\ NULL \notin Node
  BY CbAssumption, MyAssumption DEF HsCb, PingCb, PlaceInv, TypeOK
<1>2. node[m] \in Node
  BY <1>1 DEF PageInv, FitsList, Unwatched
<1>3. PICK k \in ListName : On(m, node[m], k)
  BY <1>1, <1>2 DEF PageInv, Placed, OnSomeList
<1>4. k = "ping"
  BY <1>1, <1>2, <1>3 DEF PageInv, FitsList, Unwatched, ListName
<1> QED BY <1>2, <1>3, <1>4

LEMMA PlaceIsSound == PlaceInv => SoundInv
<1> SUFFICES ASSUME PlaceInv, NEW m \in My PROVE SoundPage(m)
  BY DEF PlaceInv, SoundInv
<1>1. PageInv(m)
  BY DEF PlaceInv
<1>2. cb[m] \in PingCb => m \in open /\ conn[m] = NULL
  BY <1>1, PingedListed DEF PageInv, FitsList
<1>3. conn[m] # NULL => m \in open
  BY <1>1 DEF PageInv, Owned, FitsList
<1>4. \A n \in Node, k \in ListName :
        On(m, n, k) => node[m] = n /\ (k = "used" => conn[m] # NULL)
  BY <1>1 DEF PageInv, Placed, Owned
<1> QED BY <1>1, <1>2, <1>3, <1>4 DEF SoundPage, PageInv

\* A page on a list belongs to the node of that list.
LEMMA OnOwnList ==
  ASSUME SoundInv, NEW m \in My
  PROVE  /\ cb[m] # "none" \/ conn[m] # NULL \/ m \in open => node[m] \in Node
         /\ \A n \in Node, k \in ListName : On(m, n, k) => node[m] = n /\ cb[m] \notin HsCb
         /\ node[m] = NULL => \A n \in Node, k \in ListName : ~On(m, n, k)
         /\ cb[m] \in HsCb => \A n \in Node, k \in ListName : ~On(m, n, k)
<1>1. node[m] \in Node \cup {NULL} /\ NULL \notin Node /\ SoundPage(m)
  BY MyAssumption DEF SoundInv, TypeOK
<1>2. ASSUME NEW n \in Node, NEW k \in ListName, On(m, n, k)
      PROVE  node[m] = n /\ cb[m] \notin HsCb
  BY <1>1, <1>2, CbAssumption
     DEF SoundPage, FitsList, Unwatched, ListName, HsCb, PingCb
<1>3. cb[m] # "none" \/ conn[m] # NULL \/ m \in open => node[m] \in Node
  BY <1>1 DEF SoundPage, FitsList, Unwatched
<1> QED BY <1>1, <1>2, <1>3

\* A step that moves m to a list.
LEMMA MovedOn ==
  ASSUME NEW m \in My, NEW n \in Node, NEW k \in ListName, SoundInv,
         list' = MoveTail(m, n, k) \/ list' = MoveHead(m, n, k)
  PROVE  /\ ListType' /\ OnceOnly'
         /\ \A o \in My, a \in Node, b \in ListName :
              On(o, a, b)' <=> IF o = m THEN a = n /\ b = k ELSE On(o, a, b)
<1>1. ListType /\ OnceOnly
  BY DEF SoundInv, TypeOK, ListType
<1>2. Moved(list', m, <<n, k>>)
  BY <1>1, MoveFacts
<1>3. OnceOnly'
  <2>1. Disjoint(list')
    BY <1>2 DEF Moved
  <2> QED BY <2>1, DisjointIsOnceOnly DEF OnceOnly
<1>4. ASSUME NEW o \in My, NEW a \in Node, NEW b \in ListName
      PROVE  On(o, a, b)' <=> IF o = m THEN a = n /\ b = k ELSE On(o, a, b)
  <2>1. /\ <<a, b>> \in Lists
        /\ <<a, b>> = <<n, k>> <=> a = n /\ b = k
    BY DEF Lists
  <2>2. On(o, a, b) <=> o \in ToSet(list[<<a, b>>])
    BY DEF On
  <2>3. On(o, a, b)' <=> o \in ToSet(list'[<<a, b>>])
    BY DEF On, ToSet
  <2> HIDE DEF On
  <2> QED BY <1>2, <2>1, <2>2, <2>3 DEF Moved
<1> QED BY <1>2, <1>3, <1>4 DEF ListType, Moved

\* A step that takes m off every list.
LEMMA DeletedOn ==
  ASSUME NEW m \in My, SoundInv, list' = DelInit(m)
  PROVE  /\ ListType' /\ OnceOnly'
         /\ \A o \in My, a \in Node, b \in ListName :
              On(o, a, b)' <=> o # m /\ On(o, a, b)
<1>1. ListType /\ OnceOnly
  BY DEF SoundInv, TypeOK, ListType
<1>2. /\ list' \in [Lists -> Seq(My)]
      /\ Disjoint(list')
      /\ \A x \in Lists : ToSet(list'[x]) = ToSet(list[x]) \ {m}
  BY <1>1, DelInitFacts
<1>3. OnceOnly'
  BY <1>2, DisjointIsOnceOnly DEF OnceOnly
<1>4. ASSUME NEW o \in My, NEW a \in Node, NEW b \in ListName
      PROVE  On(o, a, b)' <=> o # m /\ On(o, a, b)
  <2>1. <<a, b>> \in Lists
    BY DEF Lists
  <2> QED BY <1>2, <2>1 DEF On, ToSet
<1> QED BY <1>2, <1>3, <1>4 DEF ListType

\* A page the step does not touch keeps its part of the invariant.
LEMMA OtherPages ==
  ASSUME NEW m \in My, SoundInv, Only(m)
  PROVE  \A o \in My \ {m} : SoundPage(o)' /\ (PageInv(o) => PageInv(o)')
<1> SUFFICES ASSUME NEW o \in My \ {m}
             PROVE  SoundPage(o)' /\ (PageInv(o) => PageInv(o)')
  OBVIOUS
<1>1. /\ SoundPage(o) /\ node[o] \in Node \cup {NULL}
      /\ node'[o] = node[o] /\ conn'[o] = conn[o] /\ cb'[o] = cb[o]
      /\ o \in open' <=> o \in open
      /\ \A a \in Node, b \in ListName : On(o, a, b)' <=> On(o, a, b)
  BY DEF SoundInv, TypeOK, Only
<1>2. Placed(o) => Placed(o)'
  BY <1>1 DEF Placed, OnSomeList
<1>3. FitsList(o)'
  BY <1>1 DEF SoundPage, FitsList, Unwatched, ListName
<1>4. Owned(o) => Owned(o)'
  BY <1>1 DEF Owned, ListName
<1>5. SoundPage(o)'
  BY <1>1, <1>3 DEF SoundPage
<1> QED BY <1>2, <1>3, <1>4, <1>5 DEF PageInv

\* The page that moved: its state fits the list it is on now.
LEMMA MovedPage ==
  ASSUME NEW m \in My, NEW n \in Node, NEW k \in ListName,
         node'[m] = n, n # NULL,
         \A a \in Node, b \in ListName : On(m, a, b)' <=> a = n /\ b = k,
         CASE k = "used" -> /\ m \in open' /\ conn'[m] # NULL
                            /\ cb'[m] \in SessionCb \cup {"none"}
           [] k = "avail" -> m \in open' /\ Unwatched(m)'
           [] k = "ping" -> m \in open' /\ cb'[m] \in PingCb /\ conn'[m] = NULL
           [] OTHER -> m \notin open' /\ Unwatched(m)'
  PROVE  SoundPage(m)' /\ PageInv(m)'
<1>1. k \in {"used", "avail", "dead", "fail", "ping"}
  BY DEF ListName
<1>2. cb'[m] \notin HsCb
  BY <1>1, CbAssumption DEF Unwatched, HsCb, PingCb
<1>3. Placed(m)'
  BY <1>2 DEF Placed, OnSomeList
<1>4. FitsList(m)'
  BY <1>1, <1>2 DEF FitsList, Unwatched, ListName
<1>5. Owned(m)'
  BY <1>1 DEF Owned, Unwatched, ListName
<1>6. /\ cb'[m] \in PingCb => conn'[m] = NULL /\ m \in open'
      /\ conn'[m] # NULL => m \in open'
  BY <1>1, CbAssumption DEF Unwatched, PingCb
<1>7. SoundPage(m)'
  BY <1>4, <1>6 DEF SoundPage
<1> QED BY <1>3, <1>4, <1>5, <1>7 DEF PageInv

\* The page that left every list: a handshake is under way, or it is free.
LEMMA DeletedPage ==
  ASSUME NEW m \in My, node'[m] \in Node \cup {NULL}, conn'[m] = NULL,
         \A a \in Node, b \in ListName : ~On(m, a, b)',
         IF node'[m] = NULL THEN cb'[m] = "none" /\ m \notin open'
                            ELSE cb'[m] \in HsCb /\ m \in open'
  PROVE  SoundPage(m)' /\ PageInv(m)'
<1>1. Placed(m)'
  BY DEF Placed, OnSomeList
<1>2. FitsList(m)'
  BY DEF FitsList, Unwatched, ListName, HsCb
<1>3. Owned(m)'
  BY DEF Owned, ListName
<1>4. SoundPage(m)'
  BY <1>2 DEF SoundPage, PingCb, HsCb
<1> QED BY <1>1, <1>2, <1>3, <1>4 DEF PageInv

-----------------------------------------------------------------------------
(* What the fragments shared by several actions do to the invariant.       *)

PageType ==
  /\ list \in [Lists -> Seq(My)]
  /\ node \in [My -> Node \cup {NULL}]
  /\ conn \in [My -> Client \cup {NULL}]
  /\ cb \in [My -> HsCb \cup PingCb \cup SessionCb \cup {"none"}]
  /\ open \subseteq My /\ idle \subseteq My

RestType ==
  /\ avail_count \in [Node -> 0 .. CountMod - 1]
  /\ curall_connection \in [Node -> Int]
  /\ cur_connecting_cnt \in [Node -> 0 .. CountMod - 1]
  /\ indet \in [Node -> 0 .. CountMod - 1]
  /\ closing \in [Node -> BOOLEAN] /\ role \in [Node -> {0, 1}]
  /\ loop \in [fn : LoopName, node : Node, cnt : Nat]
  /\ faults \in Nat

\* An unsigned counter of a node moved by d stays an unsigned counter.
LEMMA CountType ==
  ASSUME RestType, NEW n, NEW d \in Int
  PROVE  /\ AvailCount(n, d) \in [Node -> 0 .. CountMod - 1]
         /\ Connecting(n, d) \in [Node -> 0 .. CountMod - 1]
<1>1. ASSUME NEW f \in [Node -> 0 .. CountMod - 1]
      PROVE  [f EXCEPT ![n] = (@ + d) % CountMod] \in [Node -> 0 .. CountMod - 1]
  <2>1. CASE n \in Node
    <3>1. f[n] + d \in Int
      BY <2>1, BoundAssumption
    <3> QED BY <2>1, <3>1, ModType
  <2>2. CASE n \notin Node
    BY <2>2
  <2> QED BY <2>1, <2>2
<1> QED BY <1>1 DEF AvailCount, Connecting, RestType

\* TypeOK in two parts: what a page step changes, and the rest.
LEMMA TypeSplit == TypeOK <=> PageType /\ RestType
  BY DEF TypeOK, PageType, RestType

\* A legal step of the one page m.
PageStep(m) == /\ PageType' /\ OnceOnly' /\ Only(m)
               /\ SoundPage(m)' /\ (PageInv(m) => PageInv(m)')
               /\ \/ conn'[m] = NULL \/ conn'[m] = conn[m]
                  \/ \A o \in My : conn[o] # conn'[m]

\* A step on one page keeps the invariant if it keeps that page's part of it.
LEMMA PageStepKeepsInv ==
  ASSUME NEW m \in My, SoundInv, RestType', PageStep(m)
  PROVE  SoundInv' /\ (PlaceInv => PlaceInv')
<1>1. TypeOK' /\ OnceOnly'
  BY TypeSplit DEF PageStep, TypeOK, PageType, RestType
<1>2. \A o \in My : SoundPage(o)' /\ (PageInv(o) => PageInv(o)')
  BY OtherPages DEF PageStep
<1>3. OneEach'
  BY DEF PageStep, SoundInv, OneEach, Only
<1> QED BY <1>1, <1>2, <1>3 DEF SoundInv, PlaceInv

\* The node of m after the step; the other pages keep theirs.
NodeIs(m, n) == /\ node' \in [My -> Node \cup {NULL}] /\ node'[m] = n
                /\ \A o \in My \ {m} : node'[o] = node[o]

\* The fields of the other pages: what every assignment to m's own fields keeps.
SameFields(m) ==
  \A o \in My \ {m} : /\ conn'[o] = conn[o] /\ cb'[o] = cb[o]
                      /\ o \in open' <=> o \in open

\* Only one page changes when only its place and its fields are assigned.
LEMMA OnlyPage ==
  ASSUME NEW m \in My, NEW n, NodeIs(m, n), SameFields(m),
         \A o \in My \ {m} : \A a \in Node, b \in ListName : On(o, a, b)' <=> On(o, a, b)
  PROVE  Only(m)
<1> SUFFICES ASSUME NEW o \in My \ {m}
             PROVE  /\ node'[o] = node[o] /\ conn'[o] = conn[o] /\ cb'[o] = cb[o]
                    /\ o \in open' <=> o \in open
                    /\ \A a \in Node, b \in ListName : On(o, a, b)' <=> On(o, a, b)
  BY DEF Only
<1>1. node'[o] = node[o] BY DEF NodeIs
<1>2. conn'[o] = conn[o] /\ cb'[o] = cb[o] BY DEF SameFields
<1>3. o \in open' <=> o \in open BY DEF SameFields
<1> QED BY <1>1, <1>2, <1>3

\* What Closed leaves of a page.
LEMMA ClosedPage ==
  ASSUME NEW m \in My, SoundInv, Closed(m)
  PROVE  /\ conn' \in [My -> Client \cup {NULL}]
         /\ cb' \in [My -> HsCb \cup PingCb \cup SessionCb \cup {"none"}]
         /\ open' \subseteq My /\ idle' \subseteq My
         /\ conn'[m] = NULL /\ cb'[m] = "none" /\ m \notin open'
         /\ SameFields(m)
  BY DEF SoundInv, TypeOK, Closed, SameFields

\* my_conn_close and my_conn_close_on_fail.
LEMMA CloseStep ==
  ASSUME NEW m \in My, NEW n \in Node, NEW k \in {"dead", "fail"}, SoundInv,
         Closed(m), list' = MoveTail(m, n, k), NodeIs(m, n)
  PROVE  PageStep(m)
<1>1. k \in ListName /\ n # NULL
  BY MyAssumption DEF ListName
<1>2. /\ ListType' /\ OnceOnly'
      /\ \A o \in My, a \in Node, b \in ListName :
           On(o, a, b)' <=> IF o = m THEN a = n /\ b = k ELSE On(o, a, b)
  BY <1>1, MovedOn
<1>3. SoundPage(m)' /\ PageInv(m)'
  BY <1>1, <1>2, MovedPage, ClosedPage DEF NodeIs, Unwatched
<1>4. PageType'
  BY <1>2, ClosedPage DEF PageType, ListType, NodeIs
<1>5. Only(m)
  BY <1>2, ClosedPage, OnlyPage
<1> QED BY <1>2, <1>3, <1>4, <1>5, ClosedPage DEF PageStep

\* my_conn_close_and_release.
LEMMA ReleaseStep ==
  ASSUME NEW m \in My, SoundInv, Closed(m), list' = DelInit(m), NodeIs(m, NULL)
  PROVE  PageStep(m)
<1>1. /\ ListType' /\ OnceOnly'
      /\ \A o \in My, a \in Node, b \in ListName :
           On(o, a, b)' <=> o # m /\ On(o, a, b)
  BY DeletedOn
<1>2. SoundPage(m)' /\ PageInv(m)'
  BY <1>1, DeletedPage, ClosedPage DEF NodeIs
<1>3. PageType'
  BY <1>1, ClosedPage DEF PageType, ListType, NodeIs
<1>4. Only(m)
  BY <1>1, ClosedPage, OnlyPage
<1> QED BY <1>1, <1>2, <1>3, <1>4, ClosedPage DEF PageStep

\* make_my_conn.
LEMMA ConnectStep ==
  ASSUME NEW m \in My, NEW n \in Node, SoundInv, make_my_conn(m, n), NodeIs(m, n)
  PROVE  /\ PageStep(m)
         /\ avail_count' \in [Node -> 0 .. CountMod - 1]
         /\ cur_connecting_cnt' \in [Node -> 0 .. CountMod - 1]
         /\ faults' \in Nat
<1>1. CASE /\ NoFault
           /\ list' = DelInit(m)
           /\ conn' = [conn EXCEPT ![m] = NULL]
           /\ cb' = [cb EXCEPT ![m] = "hs1"]
           /\ open' = open \cup {m}
           /\ idle' = idle \ {m}
           /\ cur_connecting_cnt' = Connecting(n, 1)
           /\ UNCHANGED avail_count
  <2>1. /\ ListType' /\ OnceOnly'
        /\ \A o \in My, a \in Node, b \in ListName :
             On(o, a, b)' <=> o # m /\ On(o, a, b)
    BY <1>1, DeletedOn
  <2>2. /\ conn' \in [My -> Client \cup {NULL}]
        /\ cb' \in [My -> HsCb \cup PingCb \cup SessionCb \cup {"none"}]
        /\ open' \subseteq My /\ idle' \subseteq My
        /\ conn'[m] = NULL /\ cb'[m] = "hs1" /\ m \in open'
        /\ SameFields(m)
    BY <1>1 DEF SoundInv, TypeOK, HsCb, SameFields
  <2>3. SoundPage(m)' /\ PageInv(m)'
    BY <2>1, <2>2, DeletedPage, MyAssumption DEF NodeIs, HsCb
  <2>4. PageType'
    BY <2>1, <2>2 DEF PageType, ListType, NodeIs
  <2>5. Only(m)
    BY <2>1, <2>2, OnlyPage
  <2>6. PageStep(m)
    BY <2>1, <2>2, <2>3, <2>4, <2>5 DEF PageStep
  <2>7. cur_connecting_cnt' \in [Node -> 0 .. CountMod - 1]
    BY <1>1, CountType, TypeSplit DEF SoundInv
  <2> QED BY <1>1, <2>6, <2>7 DEF SoundInv, TypeOK, NoFault
<1>2. CASE Fault /\ my_conn_close_on_fail(m, n) /\ UNCHANGED cur_connecting_cnt
  <2>1. PageStep(m)
    BY <1>2, CloseStep DEF my_conn_close_on_fail
  <2>2. avail_count' \in [Node -> 0 .. CountMod - 1]
    BY <1>2, CountType, TypeSplit DEF my_conn_close_on_fail, SoundInv
  <2> QED BY <1>2, <2>1, <2>2 DEF SoundInv, TypeOK, Fault
<1> QED BY <1>1, <1>2 DEF make_my_conn

\* An open connection goes to a list, to an owner (or none) and a callback.
LEMMA MoveStep ==
  ASSUME NEW m \in My, NEW n \in Node, NEW k \in {"avail", "ping", "used"},
         NEW c \in Client \cup {NULL},
         NEW h \in PingCb \cup SessionCb \cup {"none"}, SoundInv,
         list' = MoveTail(m, n, k) \/ list' = MoveHead(m, n, k),
         node[m] = n, node' = node, m \in open, open' = open, idle' \subseteq My,
         conn' = [conn EXCEPT ![m] = c], cb' = [cb EXCEPT ![m] = h],
         k = "avail" => c = NULL /\ h = "none",
         k = "ping" => c = NULL /\ h \in PingCb,
         k = "used" => c # NULL /\ h \in SessionCb \cup {"none"},
         c = NULL \/ c = conn[m] \/ \A o \in My : conn[o] # c
  PROVE  PageStep(m)
<1>1. k \in ListName /\ n # NULL
  BY MyAssumption DEF ListName
<1>2. /\ ListType' /\ OnceOnly'
      /\ \A o \in My, a \in Node, b \in ListName :
           On(o, a, b)' <=> IF o = m THEN a = n /\ b = k ELSE On(o, a, b)
  <2>1. SoundInv /\ k \in ListName /\ (list' = MoveTail(m, n, k) \/ list' = MoveHead(m, n, k))
    BY <1>1
  <2>2. CASE list' = MoveTail(m, n, k)
    BY <2>1, <2>2, MovedOn
  <2>3. CASE list' = MoveHead(m, n, k)
    BY <2>1, <2>3, MovedOn
  <2> QED BY <2>1, <2>2, <2>3
<1>3. /\ conn' \in [My -> Client \cup {NULL}] /\ conn'[m] = c
      /\ cb' \in [My -> HsCb \cup PingCb \cup SessionCb \cup {"none"}] /\ cb'[m] = h
      /\ open' \subseteq My /\ m \in open'
      /\ SameFields(m) /\ NodeIs(m, n)
  BY DEF SoundInv, TypeOK, SameFields, NodeIs
<1>4. SoundPage(m)' /\ PageInv(m)'
  BY <1>1, <1>2, <1>3, MovedPage DEF NodeIs, Unwatched
<1>5. PageType'
  BY <1>2, <1>3 DEF PageType, ListType, NodeIs
<1>6. Only(m)
  BY <1>2, <1>3, OnlyPage
<1> QED BY <1>2, <1>3, <1>4, <1>5, <1>6 DEF PageStep

\* my_conn_put of an open connection.
LEMMA PutStep ==
  ASSUME NEW m \in My, NEW upd \in BOOLEAN, SoundInv, my_conn_put(m, upd),
         node[m] \in Node, m \in open, UNCHANGED <<node, open>>
  PROVE  PageStep(m)
<1>1. list' = MoveTail(m, node[m], "avail") \/ list' = MoveHead(m, node[m], "avail")
  BY DEF my_conn_put, my_conn_set_avail
<1>2. idle' \subseteq My
  BY DEF my_conn_put, my_conn_set_avail, SoundInv, TypeOK
<1> QED BY <1>1, <1>2, MoveStep DEF my_conn_put, my_conn_set_avail

\* Only the callback of m changes, to another of the same kind.
LEMMA CallbackStep ==
  ASSUME NEW m \in My, NEW h, SoundInv,
         \/ cb[m] \in HsCb /\ h \in HsCb
         \/ cb[m] \in PingCb /\ h \in PingCb
         \/ conn[m] # NULL /\ h \in SessionCb \cup {"none"},
         cb' = [cb EXCEPT ![m] = h],
         UNCHANGED <<list, node, conn, open, idle>>
  PROVE  PageStep(m)
<1>1. /\ h \in HsCb \cup PingCb \cup SessionCb \cup {"none"}
      /\ SoundPage(m) /\ OnceOnly /\ PageType
  BY TypeSplit DEF SoundInv
<1>2. \A o \in My, a \in Node, b \in ListName : On(o, a, b)' <=> On(o, a, b)
  BY DEF On, ToSet
<1>3. PageType' /\ cb'[m] = h /\ SameFields(m) /\ NodeIs(m, node[m])
  BY <1>1 DEF PageType, SameFields, NodeIs
<1>4. Only(m)
  BY <1>2, <1>3, OnlyPage
<1>5. /\ h \in HsCb <=> cb[m] \in HsCb
      /\ h \in PingCb => cb[m] \in PingCb
  BY <1>1, CbAssumption DEF SoundPage, FitsList, HsCb, PingCb
<1>6. node'[m] = node[m] /\ conn'[m] = conn[m] /\ (m \in open' <=> m \in open)
  OBVIOUS
<1>7. ASSUME Placed(m) PROVE Placed(m)'
  <2>1. node[m] \in Node \cup {NULL}
    BY <1>1 DEF PageType
  <2>2. \A a \in Node, b \in ListName : On(m, a, b)' => node'[m] = a
    BY <1>2, <1>6, <1>7 DEF Placed
  <2>3. node[m] \in Node => (OnSomeList(m)' <=> OnSomeList(m))
    BY <1>2, <1>6 DEF OnSomeList, On, ToSet
  <2> QED BY <1>3, <1>5, <1>6, <1>7, <2>1, <2>2, <2>3 DEF Placed
<1>8. FitsList(m)'
  BY <1>1, <1>2, <1>3, <1>5, <1>6, CbAssumption
     DEF SoundPage, FitsList, Unwatched, ListName, HsCb, PingCb
<1>9. Owned(m) => Owned(m)'
  BY <1>2, <1>6 DEF Owned, ListName
<1>10. SoundPage(m)'
  BY <1>1, <1>2, <1>3, <1>5, <1>6, <1>8 DEF SoundPage
<1>11. OnceOnly'
  BY <1>1 DEF OnceOnly
<1> QED BY <1>3, <1>4, <1>6, <1>7, <1>8, <1>9, <1>10, <1>11 DEF PageStep, PageInv

-----------------------------------------------------------------------------
(* One lemma per group of actions; the frame of the others is in Still.    *)

\* Pages stay as they are: only counters, flags, loop or idle change.
Still == UNCHANGED <<list, node, conn, cb, open>> /\ idle' \subseteq My

\* A step that moves no page keeps the invariant.
LEMMA StillKeepsInv ==
  ASSUME SoundInv, RestType', Still
  PROVE  SoundInv' /\ (PlaceInv => PlaceInv')
<1>1. TypeOK'
  BY TypeSplit DEF SoundInv, TypeOK, Still, RestType
<1>2. OnceOnly' /\ OneEach'
  BY DEF SoundInv, Still, OnceOnly, OneEach
<1>3. ASSUME NEW m \in My PROVE SoundPage(m)' /\ (PageInv(m) => PageInv(m)')
  <2>1. SoundPage(m) BY DEF SoundInv
  <2>2. \A a, b : On(m, a, b)' <=> On(m, a, b)
    BY DEF Still, On, ToSet
  <2>3. Placed(m) => Placed(m)'
    BY <2>2 DEF Placed, OnSomeList, Still
  <2>4. FitsList(m)'
    BY <2>1, <2>2 DEF SoundPage, FitsList, Unwatched, Still
  <2>5. Owned(m) => Owned(m)'
    BY <2>2 DEF Owned, Still
  <2>6. SoundPage(m)'
    BY <2>1, <2>2, <2>4 DEF SoundPage, Still
  <2> QED BY <2>3, <2>4, <2>5, <2>6 DEF PageInv
<1> QED BY <1>1, <1>2, <1>3 DEF SoundInv, PlaceInv

\* The loop counters keep their type.
LEMMA LoopType ==
  ASSUME loop \in [fn : LoopName, node : Node, cnt : Nat]
  PROVE  /\ Step => loop' \in [fn : LoopName, node : Node, cnt : Nat]
         /\ NextNode => loop' \in [fn : LoopName, node : Node, cnt : Nat]
         /\ loop.node \in Node
<1>1. 0 \in Node /\ (loop.node + 1 < NumNode => loop.node + 1 \in Node)
  BY NodeAssumption DEF Node
<1>2. Step => loop' \in [fn : LoopName, node : Node, cnt : Nat]
  BY DEF Step
<1>3. NextNode => loop' \in [fn : LoopName, node : Node, cnt : Nat]
  <2> SUFFICES ASSUME NextNode PROVE loop' \in [fn : LoopName, node : Node, cnt : Nat]
    OBVIOUS
  <2>1. CASE loop.node + 1 < NumNode
    <3>1. loop' = [loop EXCEPT !.node = @ + 1, !.cnt = 0]
      BY <2>1 DEF NextNode
    <3> QED BY <1>1, <2>1, <3>1
  <2>2. CASE ~(loop.node + 1 < NumNode)
    BY <1>1, <2>2 DEF NextNode, NoLoop, LoopName
  <2> QED BY <2>1, <2>2
<1> QED BY <1>2, <1>3

\* At boot nothing is allocated, and the invariant holds.
LEMMA InitKeepsInv ==
  ASSUME my_pool_init, loop \in [fn : LoopName, node : Node, cnt : Nat]
  PROVE  PlaceInv
<1>1. /\ 0 \in Node /\ 0 \in 0 .. CountMod - 1
      /\ IndetCnt \subseteq 0 .. CountMod - 1
  BY NodeAssumption, BoundAssumption DEF Node
<1>2. RestType
  BY <1>1 DEF my_pool_init, RestType
<1>3. PageType
  BY DEF my_pool_init, PageType
<1>4. \A m \in My, n \in Node, k \in ListName : ~On(m, n, k)
  BY DEF my_pool_init, On, ToSet, Lists
<1>5. OnceOnly /\ OneEach
  BY DEF my_pool_init, OnceOnly, OneEach
<1>6. ASSUME NEW m \in My PROVE PageInv(m)
  BY <1>4 DEF my_pool_init, PageInv, Placed, FitsList, Owned, Unwatched, ListName, HsCb
<1> QED BY <1>2, <1>3, <1>5, <1>6, TypeSplit DEF PlaceInv

LEMMA BootKeepsInv == Init => PlaceInv
<1> SUFFICES ASSUME Init PROVE PlaceInv
  OBVIOUS
<1>1. loop \in [fn : LoopName, node : Node, cnt : Nat]
  BY NodeAssumption DEF Init, LoopName, Node
<1> QED BY <1>1, InitKeepsInv DEF Init

-----------------------------------------------------------------------------
(* What the guards of the actions give.                                    *)

\* The head of a list is on it.
LEMMA HeadOn ==
  ASSUME SoundInv, NEW m \in My, NEW n \in Node, NEW k \in ListName, IsHead(m, n, k)
  PROVE  On(m, n, k) /\ node[m] = n /\ FitsList(m)
<1>1. <<n, k>> \in Lists
  BY DEF Lists
<1>2. list[<<n, k>>] \in Seq(My) /\ list[<<n, k>>] # <<>>
  BY <1>1 DEF SoundInv, TypeOK, IsHead
<1>3. 1 \in DOMAIN list[<<n, k>>] /\ list[<<n, k>>][1] = m
  BY <1>2 DEF IsHead
<1>4. On(m, n, k)
  BY <1>3 DEF On, ToSet
<1> QED BY <1>4, OnOwnList DEF SoundInv, SoundPage

\* A connection a session owns, or one that is pinged, is open.
LEMMA OwnedOpen ==
  ASSUME SoundInv, NEW m \in My, conn[m] # NULL
  PROVE  node[m] \in Node /\ m \in open /\ conn[m] \in Client
BY OnOwnList DEF SoundInv, SoundPage, TypeOK

LEMMA PingedOpen ==
  ASSUME SoundInv, NEW m \in My, cb[m] \in PingCb
  PROVE  node[m] \in Node /\ m \in open /\ conn[m] = NULL
BY OnOwnList DEF SoundInv, SoundPage, PingCb

\* The actions of one connection, one case each.
PageMoves(m) ==
  \/ RegConnect(m) \/ Retry(m) \/ PingPrepare(m) \/ PingRelease(m) \/ Cleanup(m)
  \/ HsStage(m) \/ HsDone(m) \/ HsFail(m) \/ PingReq(m) \/ PingResp(m)
  \/ PingFail(m) \/ Put(m) \/ Close(m)
  \/ \E c \in Client, n \in Node : SlaveConnGet(c, m, n)
  \/ \E h \in SessionCb \cup {"none"} : SessionHandler(m, h)
  \/ \E n \in Node : TryIncrease(m, n) \/ PingTimeout(m, n)

\* The actions that call make_my_conn keep the invariant.
LEMMA ReconnectMoves ==
  ASSUME SoundInv, NEW m \in My,
         \/ RegConnect(m) \/ Retry(m)
         \/ \E n \in Node : TryIncrease(m, n)
  PROVE  RestType' /\ PageStep(m)
<1>0. RestType /\ PageType /\ loop.node \in Node
  BY TypeSplit, LoopType DEF SoundInv, RestType
<1>1. CASE RegConnect(m)
  <2>1. NodeIs(m, loop.node)
    BY <1>0, <1>1 DEF RegConnect, my_conn_alloc, NodeIs, PageType
  <2>2. /\ PageStep(m) /\ faults' \in Nat
        /\ avail_count' \in [Node -> 0 .. CountMod - 1]
        /\ cur_connecting_cnt' \in [Node -> 0 .. CountMod - 1]
    BY <1>0, <1>1, <2>1, ConnectStep DEF RegConnect
  <2>3. curall_connection' \in [Node -> Int]
    BY <1>0, <1>1 DEF RegConnect, my_conn_alloc, RestType
  <2>4. loop' \in [fn : LoopName, node : Node, cnt : Nat]
    BY <1>0, <1>1, LoopType DEF RegConnect, RestType
  <2> QED BY <1>0, <1>1, <2>2, <2>3, <2>4 DEF RegConnect, RestType, nodeFlags
<1>2. CASE Retry(m)
  <2>1. loop.fn \in ListName /\ IsHead(m, loop.node, loop.fn)
    BY <1>2 DEF Retry, RetryKind, ListName
  <2>2. NodeIs(m, loop.node)
    BY <1>0, <1>2, <2>1, HeadOn DEF Retry, NodeIs, PageType
  <2>3. /\ PageStep(m) /\ faults' \in Nat
        /\ avail_count' \in [Node -> 0 .. CountMod - 1]
        /\ cur_connecting_cnt' \in [Node -> 0 .. CountMod - 1]
    BY <1>0, <1>2, <2>2, ConnectStep DEF Retry
  <2>4. loop' \in [fn : LoopName, node : Node, cnt : Nat]
    BY <1>0, <1>2 DEF Retry, RestType
  <2> QED BY <1>0, <1>2, <2>3, <2>4 DEF Retry, RestType, nodeFlags
<1>3. ASSUME NEW n \in Node, TryIncrease(m, n)
      PROVE  RestType' /\ PageStep(m)
  <2>1. NodeIs(m, n)
    BY <1>0, <1>3 DEF TryIncrease, my_conn_alloc, NodeIs, PageType
  <2>2. /\ PageStep(m) /\ faults' \in Nat
        /\ avail_count' \in [Node -> 0 .. CountMod - 1]
        /\ cur_connecting_cnt' \in [Node -> 0 .. CountMod - 1]
    BY <1>0, <1>3, <2>1, ConnectStep DEF TryIncrease
  <2>3. curall_connection' \in [Node -> Int]
    BY <1>0, <1>3 DEF TryIncrease, my_conn_alloc, RestType
  <2> QED BY <1>0, <1>3, <2>2, <2>3 DEF TryIncrease, RestType, nodeFlags
<1> QED BY <1>1, <1>2, <1>3

\* The actions that close a connection keep the invariant.
LEMMA CloseMoves ==
  ASSUME SoundInv, NEW m \in My,
         \/ PingRelease(m) \/ Cleanup(m) \/ HsFail(m) \/ PingFail(m) \/ Close(m)
         \/ \E n \in Node : PingTimeout(m, n)
  PROVE  RestType' /\ PageStep(m)
<1>0. /\ RestType /\ PageType /\ loop.node \in Node /\ FitsList(m)
      /\ cb[m] # "none" => node[m] \in Node
  BY TypeSplit, LoopType, OnOwnList DEF SoundInv, SoundPage, RestType
<1>1. ASSUME NEW d \in {0, 1}, my_conn_close_and_release(m, loop.node, d)
      PROVE  /\ PageStep(m)
             /\ avail_count' \in [Node -> 0 .. CountMod - 1]
             /\ curall_connection' \in [Node -> Int]
  <2>1. NodeIs(m, NULL)
    BY <1>0, <1>1 DEF my_conn_close_and_release, NodeIs, PageType
  <2>2. PageStep(m)
    BY <1>1, <2>1, ReleaseStep DEF my_conn_close_and_release
  <2>3. -d \in Int /\ avail_count' = AvailCount(loop.node, -d)
    BY <1>1 DEF my_conn_close_and_release
  <2>4. avail_count' \in [Node -> 0 .. CountMod - 1]
    BY <1>0, <2>3, CountType
  <2>5. curall_connection' \in [Node -> Int]
    BY <1>0, <1>1 DEF my_conn_close_and_release, RestType
  <2> QED BY <2>2, <2>4, <2>5
<1>2. ASSUME NEW n \in Node, node[m] = n, node' = node,
             my_conn_close(m, n) \/ my_conn_close_on_fail(m, n)
      PROVE  PageStep(m) /\ avail_count' \in [Node -> 0 .. CountMod - 1]
  <2>1. NodeIs(m, n)
    BY <1>0, <1>2 DEF NodeIs, PageType
  <2>2. CASE my_conn_close(m, n)
    BY <1>0, <2>1, <2>2, CloseStep, CountType DEF my_conn_close, my_conn_set_dead
  <2>3. CASE my_conn_close_on_fail(m, n)
    BY <1>0, <2>1, <2>3, CloseStep, CountType DEF my_conn_close_on_fail
  <2> QED BY <1>2, <2>2, <2>3
<1>3. CASE PingRelease(m)
  BY <1>0, <1>1, <1>3 DEF PingRelease, RestType, nodeFlags
<1>4. CASE Cleanup(m)
  <2> DEFINE d == IF CleanupList(loop.node) = "used" THEN 0 ELSE 1
  <2>1. d \in {0, 1} /\ my_conn_close_and_release(m, loop.node, d)
    BY <1>4 DEF Cleanup
  <2>2. loop' \in [fn : LoopName, node : Node, cnt : Nat]
    BY <1>0, <1>4 DEF Cleanup, RestType
  <2> HIDE DEF d
  <2> QED BY <1>0, <1>1, <1>4, <2>1, <2>2 DEF Cleanup, RestType, nodeFlags
<1>5. CASE HsFail(m)
  <2>1. node[m] \in Node
    BY <1>0, <1>5 DEF HsFail, HsCb
  <2>2. cur_connecting_cnt' \in [Node -> 0 .. CountMod - 1]
    BY <1>0, <1>5, CountType DEF HsFail
  <2>3. PageStep(m) /\ avail_count' \in [Node -> 0 .. CountMod - 1]
    BY <1>2, <1>5, <2>1 DEF HsFail
  <2> QED BY <1>0, <1>5, <2>2, <2>3 DEF HsFail, Fault, RestType, nodeFlags
<1>6. CASE PingFail(m)
  <2>1. node[m] \in Node
    BY <1>0, <1>6 DEF PingFail, PingCb
  <2> QED BY <1>0, <1>2, <1>6, <2>1 DEF PingFail, Fault, RestType, nodeFlags, counters
<1>7. CASE Close(m)
  <2>1. node[m] \in Node
    BY <1>7, OwnedOpen DEF Close
  <2> QED BY <1>0, <1>2, <1>7, <2>1 DEF Close, Fault, RestType, nodeFlags, counters
<1>8. ASSUME NEW n \in Node, PingTimeout(m, n)
      PROVE  RestType' /\ PageStep(m)
  <2>1. node[m] = n
    BY <1>8, HeadOn DEF PingTimeout, ListName
  <2> QED BY <1>0, <1>2, <1>8, <2>1 DEF PingTimeout, Fault, RestType, nodeFlags, counters
<1> QED BY <1>3, <1>4, <1>5, <1>6, <1>7, <1>8

\* The actions that move an open connection to a list keep the invariant.
LEMMA ListMoves ==
  ASSUME SoundInv, NEW m \in My,
         \/ PingPrepare(m) \/ HsDone(m) \/ PingResp(m) \/ Put(m)
         \/ \E c \in Client, n \in Node : SlaveConnGet(c, m, n)
  PROVE  RestType' /\ PageStep(m)
<1>0. /\ RestType /\ PageType /\ loop.node \in Node /\ FitsList(m)
      /\ cb[m] # "none" => node[m] \in Node
  BY TypeSplit, LoopType, OnOwnList DEF SoundInv, SoundPage, RestType
<1>1. CASE PingPrepare(m)
  <2>1. IsHead(m, loop.node, "avail")
    BY <1>1 DEF PingPrepare
  <2>2. node[m] = loop.node /\ m \in open
    BY <1>0, <2>1, HeadOn DEF ListName, FitsList
  <2>3. PageStep(m)
    BY <1>0, <1>1, <2>2, MoveStep DEF PingPrepare, my_conn_set_ping, PingCb, PageType
  <2>4. /\ loop' \in [fn : LoopName, node : Node, cnt : Nat]
        /\ avail_count' \in [Node -> 0 .. CountMod - 1]
    BY <1>0, <1>1, LoopType, CountType DEF PingPrepare, my_conn_set_ping, RestType
  <2> QED BY <1>0, <1>1, <2>3, <2>4 DEF PingPrepare, RestType, nodeFlags, counters
<1>2. CASE HsDone(m)
  <2>1. node[m] \in Node /\ m \in open
    BY <1>0, <1>2 DEF HsDone, HsCb, FitsList
  <2>2. PageStep(m)
    BY <1>0, <1>2, <2>1, PutStep DEF HsDone, my_conn_put
  <2>3. /\ cur_connecting_cnt' \in [Node -> 0 .. CountMod - 1]
        /\ avail_count' \in [Node -> 0 .. CountMod - 1]
    BY <1>0, <1>2, CountType DEF HsDone, my_conn_set_avail
  <2> QED BY <1>0, <1>2, <2>2, <2>3 DEF HsDone, RestType, nodeFlags
<1>3. CASE PingResp(m)
  <2>1. node[m] \in Node /\ m \in open
    BY <1>3, PingedOpen DEF PingResp, PingCb
  <2>2. PageStep(m)
    BY <1>0, <1>3, <2>1, PutStep DEF PingResp
  <2>3. avail_count' \in [Node -> 0 .. CountMod - 1]
    BY <1>0, <1>3, CountType DEF PingResp, my_conn_put, my_conn_set_avail
  <2> QED BY <1>0, <1>3, <2>2, <2>3 DEF PingResp, RestType, nodeFlags, counters
<1>4. CASE Put(m)
  <2>1. node[m] \in Node /\ m \in open
    BY <1>4, OwnedOpen DEF Put
  <2>2. PageStep(m)
    BY <1>0, <1>4, <2>1, PutStep DEF Put
  <2>3. avail_count' \in [Node -> 0 .. CountMod - 1]
    BY <1>0, <1>4, CountType DEF Put, my_conn_put, my_conn_set_avail
  <2> QED BY <1>0, <1>4, <2>2, <2>3 DEF Put, RestType, nodeFlags, counters
<1>5. ASSUME NEW c \in Client, NEW n \in Node, SlaveConnGet(c, m, n)
      PROVE  RestType' /\ PageStep(m)
  <2>1. node[m] = n /\ m \in open
    BY <1>0, <1>5, HeadOn DEF SlaveConnGet, ListName, FitsList
  <2>2. c # NULL /\ \A o \in My : conn[o] # c
    BY <1>5, MyAssumption DEF SlaveConnGet, NoConnection
  <2>3. PageStep(m)
    BY <1>0, <1>5, <2>1, <2>2, MoveStep DEF SlaveConnGet, my_conn_set_used, PageType
  <2>4. avail_count' \in [Node -> 0 .. CountMod - 1]
    BY <1>0, <1>5, CountType DEF SlaveConnGet, my_conn_set_used
  <2> QED BY <1>0, <1>5, <2>3, <2>4 DEF SlaveConnGet, RestType, nodeFlags, counters
<1> QED BY <1>1, <1>2, <1>3, <1>4, <1>5

\* The actions that only register another callback keep the invariant.
LEMMA CallbackMoves ==
  ASSUME SoundInv, NEW m \in My,
         \/ HsStage(m) \/ PingReq(m)
         \/ \E h \in SessionCb \cup {"none"} : SessionHandler(m, h)
  PROVE  RestType' /\ PageStep(m)
<1>0. RestType /\ PageType
  BY TypeSplit DEF SoundInv
<1>1. CASE HsStage(m)
  <2> DEFINE h == IF cb[m] = "hs1" THEN "hs2" ELSE "hs3"
  <2>1. cb' = [cb EXCEPT ![m] = h]
    BY <1>0, <1>1 DEF HsStage, PageType
  <2>2. cb[m] \in HsCb /\ h \in HsCb
    BY <1>1 DEF HsStage, HsCb
  <2> HIDE DEF h
  <2>3. PageStep(m)
    BY <1>1, <2>1, <2>2, CallbackStep DEF HsStage
  <2> QED BY <1>0, <1>1, <2>3 DEF HsStage, RestType, nodeFlags, counters
<1>2. CASE PingReq(m)
  <2>1. PageStep(m)
    BY <1>2, CallbackStep DEF PingReq, PingCb
  <2> QED BY <1>0, <1>2, <2>1 DEF PingReq, RestType, nodeFlags, counters
<1>3. ASSUME NEW h \in SessionCb \cup {"none"}, SessionHandler(m, h)
      PROVE  RestType' /\ PageStep(m)
  <2>1. PageStep(m)
    BY <1>3, CallbackStep DEF SessionHandler
  <2> QED BY <1>0, <1>3, <2>1 DEF SessionHandler, RestType, nodeFlags, counters
<1> QED BY <1>1, <1>2, <1>3

\* The steps that move no page.
StillMoves ==
  \/ RegDone \/ RegFail
  \/ \E fn \in RetryKind \cup {"ping", "cleanup"} : StartLoop(fn)
  \/ RetryNextNode \/ PingNextNode \/ CleanupDone \/ CleanupSkip
  \/ \E n \in Node : my_unreg(n)
  \/ \E m \in My : Age(m)
  \/ UNCHANGED vars

\* The actions that touch no connection keep the invariant.
LEMMA StillMovesKeepInv ==
  ASSUME SoundInv, StillMoves
  PROVE  SoundInv' /\ (PlaceInv => PlaceInv')
<1>0. RestType /\ PageType /\ loop.node \in Node
  BY TypeSplit, LoopType DEF SoundInv, RestType
<1>1. CASE RegDone \/ CleanupDone
  <2>1. RestType'
    BY <1>0, <1>1, LoopType DEF RegDone, CleanupDone, RestType, counters
  <2>2. Still
    BY <1>0, <1>1 DEF RegDone, CleanupDone, Still, PageType
  <2> QED BY <2>1, <2>2, StillKeepsInv
<1>2. CASE RegFail \/ RetryNextNode \/ PingNextNode \/ CleanupSkip
  <2>0. NoLoop \in [fn : LoopName, node : Node, cnt : Nat]
    BY NodeAssumption DEF NoLoop, LoopName, Node
  <2>1. RestType'
    BY <1>0, <1>2, <2>0, LoopType
       DEF RegFail, RetryNextNode, PingNextNode, CleanupSkip, RestType, counters, nodeFlags
  <2>2. Still
    BY <1>0, <1>2
       DEF RegFail, RetryNextNode, PingNextNode, CleanupSkip, Still, PageType
  <2> QED BY <2>1, <2>2, StillKeepsInv
<1>3. ASSUME NEW fn \in RetryKind \cup {"ping", "cleanup"}, StartLoop(fn)
      PROVE  SoundInv' /\ (PlaceInv => PlaceInv')
  <2>1. 0 \in Node /\ fn \in LoopName
    BY NodeAssumption DEF Node, RetryKind, LoopName
  <2>2. loop' \in [fn : LoopName, node : Node, cnt : Nat]
    BY <1>3, <2>1 DEF StartLoop
  <2>3. RestType'
    BY <1>0, <1>3, <2>2 DEF StartLoop, RestType, counters, nodeFlags
  <2>4. Still
    BY <1>0, <1>3 DEF StartLoop, Still, PageType
  <2> QED BY <2>3, <2>4, StillKeepsInv
<1>4. ASSUME NEW n \in Node, my_unreg(n)
      PROVE  SoundInv' /\ (PlaceInv => PlaceInv')
  <2>1. RestType'
    BY <1>0, <1>4 DEF my_unreg, RestType, counters
  <2>2. Still
    BY <1>0, <1>4 DEF my_unreg, Still, PageType
  <2> QED BY <2>1, <2>2, StillKeepsInv
<1>5. ASSUME NEW m \in My, Age(m)
      PROVE  SoundInv' /\ (PlaceInv => PlaceInv')
  <2>1. RestType'
    BY <1>0, <1>5 DEF Age, RestType, counters, nodeFlags
  <2>2. Still
    BY <1>0, <1>5 DEF Age, Still, PageType
  <2> QED BY <2>1, <2>2, StillKeepsInv
<1>6. CASE UNCHANGED vars
  <2>1. RestType'
    BY <1>0, <1>6 DEF vars, RestType
  <2>2. Still
    BY <1>0, <1>6 DEF vars, Still, PageType
  <2> QED BY <2>1, <2>2, StillKeepsInv
<1> QED BY <1>1, <1>2, <1>3, <1>4, <1>5, <1>6 DEF StillMoves

\* Every step keeps the invariants.
LEMMA NextKeepsInv ==
  ASSUME SoundInv, [Next]_vars
  PROVE  SoundInv' /\ (PlaceInv => PlaceInv')
<1>1. ASSUME NEW m \in My, PageMoves(m)
      PROVE  SoundInv' /\ (PlaceInv => PlaceInv')
  <2>1. RestType' /\ PageStep(m)
    BY <1>1, ReconnectMoves, CloseMoves, ListMoves, CallbackMoves DEF PageMoves
  <2> QED BY <2>1, PageStepKeepsInv
<1>2. StillMoves \/ \E m \in My : PageMoves(m)
  BY DEF Next, Boot, Timers, Callbacks, Sessions, StillMoves, PageMoves
<1> QED BY <1>1, <1>2, StillMovesKeepInv

LEMMA NextKeepsPlace == PlaceInv /\ [Next]_vars => PlaceInv'
BY NextKeepsInv, PlaceIsSound

\* The inductive invariant holds of every behaviour.
THEOREM PlaceCorrect == Spec => []PlaceInv
  BY BootKeepsInv, NextKeepsPlace, PTL DEF Spec

\* Type correctness.
THEOREM TypeCorrect == Spec => []TypeOK
<1>1. PlaceInv => TypeOK
  BY DEF PlaceInv
<1> QED BY <1>1, PlaceCorrect, PTL

\* No allocated connection is lost or on two lists at once.
THEOREM NothingLostCorrect == Spec => []NothingLost
<1>1. PlaceInv => NothingLost
  BY DEF PlaceInv, PageInv, NothingLost
<1> QED BY <1>1, PlaceCorrect, PTL

\* What the pool hands out is connected, nobody's and unwatched.
THEOREM ReadyWhenAvailCorrect == Spec => []ReadyWhenAvail
<1>1. PlaceInv => ReadyWhenAvail
  BY DEF PlaceInv, PageInv, ReadyWhenAvail
<1> QED BY <1>1, PlaceCorrect, PTL

\* A connection has an owner exactly when it is in use, and no two share one.
THEOREM OwnedIffUsedCorrect == Spec => []OwnedIffUsed
<1>1. PlaceInv => OwnedIffUsed
  BY DEF PlaceInv, PageInv, OwnedIffUsed
<1> QED BY <1>1, PlaceCorrect, PTL

-----------------------------------------------------------------------------
(* What a step may do, from the invariant PlaceInv.                        *)

\* Every step is one of the groups of actions below.
LEMMA NextIsMoves ==
  ASSUME [Next]_vars
  PROVE  StillMoves \/ \E m \in My : PageMoves(m)
  BY DEF Next, Boot, Timers, Callbacks, Sessions, StillMoves, PageMoves

\* The actions of the last group touch no connection.
LEMMA StillMovesAreStill ==
  ASSUME SoundInv, StillMoves
  PROVE  UNCHANGED <<list, node, conn, cb, open>>
  BY DEF StillMoves, RegDone, RegFail, StartLoop, RetryNextNode, PingNextNode,
         CleanupDone, CleanupSkip, my_unreg, Age, vars

\* The other actions touch one connection.
LEMMA PageMovesArePageSteps ==
  ASSUME SoundInv, NEW m \in My, PageMoves(m)
  PROVE  RestType' /\ PageStep(m)
  BY ReconnectMoves, CloseMoves, ListMoves, CallbackMoves DEF PageMoves

-----------------------------------------------------------------------------
(* Releases.                                                               *)

\* Only the ping timer and the cleanup give a connection back to the system.
LEMMA ReleasedBy ==
  ASSUME SoundInv, [Next]_vars, NEW m \in My, node[m] # NULL, node'[m] = NULL
  PROVE  PingRelease(m) \/ Cleanup(m)
<1>0. PageType /\ NULL \notin Node /\ loop.node \in Node
  BY MyAssumption, TypeSplit, LoopType DEF SoundInv, RestType
<1>1. ~StillMoves
  BY StillMovesAreStill
<1>2. PICK o \in My : PageMoves(o)
  BY <1>1, NextIsMoves
<1>3. PageStep(o)
  BY <1>2, PageMovesArePageSteps
<1>4. o = m
  BY <1>3 DEF PageStep, Only
<1>5. ASSUME NEW n \in Node, my_conn_alloc(m, n) PROVE FALSE
  BY <1>0, <1>5 DEF my_conn_alloc, PageType
<1>6. node' # node
  OBVIOUS
<1>7. ~RegConnect(m)
  BY <1>0, <1>5 DEF RegConnect
<1>8. \A n \in Node : ~TryIncrease(m, n)
  BY <1>5 DEF TryIncrease
<1>9. CASE Retry(m) \/ PingPrepare(m) \/ HsStage(m) \/ HsDone(m) \/ HsFail(m)
           \/ PingReq(m) \/ PingResp(m) \/ PingFail(m) \/ Put(m) \/ Close(m)
  BY <1>6, <1>9 DEF Retry, PingPrepare, HsStage, HsDone, HsFail, PingReq, PingResp,
                    PingFail, Put, Close
<1>10. \A c \in Client, n \in Node : ~SlaveConnGet(c, m, n)
  BY <1>6 DEF SlaveConnGet
<1>11. \A h \in SessionCb \cup {"none"} : ~SessionHandler(m, h)
  BY <1>6 DEF SessionHandler
<1>12. \A n \in Node : ~PingTimeout(m, n)
  BY <1>6 DEF PingTimeout
<1> QED BY <1>2, <1>4, <1>7, <1>8, <1>9, <1>10, <1>11, <1>12 DEF PageMoves

\* The cleanup takes from one of the five lists, or is over.
LEMMA CleanupListKind ==
  ASSUME NEW n, CleanupList(n) # "none"
  PROVE  CleanupList(n) \in ListName /\ list[<<n, CleanupList(n)>>] # <<>>
<1> DEFINE left == {i \in 1 .. 5 : list[<<n, CleanupOrder[i]>>] # <<>>}
           k == CHOOSE i \in left : \A j \in left : i <= j
<1>1. left # {} /\ CleanupList(n) = CleanupOrder[k]
  BY DEF CleanupList
<1>2. \E i \in left : \A j \in left : i <= j
  <2>1. left \subseteq 1 .. 5 /\ \E i \in left : TRUE
    BY <1>1
  <2> HIDE DEF left
  <2>2. \A j \in left : j = 1 \/ j = 2 \/ j = 3 \/ j = 4 \/ j = 5
    BY <2>1
  <2>3. CASE 1 \in left
    BY <2>2, <2>3
  <2>4. CASE 1 \notin left /\ 2 \in left
    BY <2>2, <2>4
  <2>5. CASE 1 \notin left /\ 2 \notin left /\ 3 \in left
    BY <2>2, <2>5
  <2>6. CASE 1 \notin left /\ 2 \notin left /\ 3 \notin left /\ 4 \in left
    BY <2>2, <2>6
  <2>7. CASE 1 \notin left /\ 2 \notin left /\ 3 \notin left /\ 4 \notin left
    BY <2>1, <2>2, <2>7
  <2> QED BY <2>3, <2>4, <2>5, <2>6, <2>7
<1>3. k \in left
  BY <1>2
<1>4. k \in 1 .. 5 /\ list[<<n, CleanupOrder[k]>>] # <<>>
  BY <1>3
<1> HIDE DEF k
<1>5. CleanupOrder[k] \in ListName
  BY <1>4 DEF CleanupOrder, ListName
<1> QED BY <1>1, <1>4, <1>5

\* What the cleanup releases is on a list of its own, closing, node.
LEMMA CleanupFacts ==
  ASSUME SoundInv, NEW m \in My, Cleanup(m)
  PROVE  node[m] = loop.node /\ loop.node \in Node /\ closing[loop.node]
<1>1. loop.node \in Node
  BY LoopType DEF SoundInv, TypeOK
<1>2. CleanupList(loop.node) \in ListName /\ IsHead(m, loop.node, CleanupList(loop.node))
  BY CleanupListKind DEF Cleanup
<1> QED BY <1>1, <1>2, HeadOn DEF Cleanup, Cleanable

\* A connection is released only by the cleanup of its node, or surplus and
\* unused, at the hands of the ping timer.
SafelyReleased ==
  \A m \in My : node[m] # NULL /\ node'[m] = NULL =>
    \/ closing[node[m]]
    \/ /\ On(m, node[m], "avail") /\ m \in idle
       /\ curall_connection[node[m]] > MinConn[node[m]]

LEMMA ReleasesAreSafe ==
  ASSUME SoundInv, [Next]_vars
  PROVE  SafelyReleased
<1> SUFFICES ASSUME NEW m \in My, node[m] # NULL, node'[m] = NULL
             PROVE  \/ closing[node[m]]
                    \/ /\ On(m, node[m], "avail") /\ m \in idle
                       /\ curall_connection[node[m]] > MinConn[node[m]]
  BY DEF SafelyReleased
<1>1. PingRelease(m) \/ Cleanup(m)
  BY ReleasedBy
<1>2. CASE Cleanup(m)
  BY <1>2, CleanupFacts
<1>3. CASE PingRelease(m)
  <2>1. loop.node \in Node /\ IsHead(m, loop.node, "avail") /\ ~Keep(m, loop.node)
    BY <1>3, LoopType DEF PingRelease, SoundInv, TypeOK
  <2>2. On(m, loop.node, "avail") /\ node[m] = loop.node
    BY <2>1, HeadOn DEF ListName
  <2>3. /\ m \in idle
        /\ curall_connection[loop.node] \in Int /\ MinConn[loop.node] \in Nat
        /\ ~(curall_connection[loop.node] <= MinConn[loop.node])
    BY <2>1, NodeAssumption DEF Keep, SoundInv, TypeOK
  <2> QED BY <2>2, <2>3
<1> QED BY <1>1, <1>2, <1>3

THEOREM ReleaseCorrect == Spec => ReleaseIsSafe
<1>1. PlaceInv /\ [Next]_vars => [SafelyReleased]_vars
  BY PlaceIsSound, ReleasesAreSafe
<1>2. Spec => [][SafelyReleased]_vars
  BY <1>1, PlaceCorrect, PTL DEF Spec
<1> QED BY <1>2 DEF ReleaseIsSafe, SafelyReleased

-----------------------------------------------------------------------------
(* The pool implements ConnLease.                                          *)

\* How the status of one connection may change.
StatusStep(s, t) ==
  \/ s = t
  \/ s = "absent" /\ t = "pool"
  \/ s = "pool" /\ t \in {"ready", "absent"}
  \/ s = "ready" /\ t \in {"pool", "absent"}
  \/ s \in Client /\ t \in {"pool", "ready", "absent"}

\* A session that gets a connection gets a ready one, and had none.
LendStep(m) ==
  \E c \in Client : /\ \A o \in My : StatusOf(o) # c
                     /\ StatusOf(m) = "ready" /\ StatusOf(m)' = c

\* A change of status that ConnLease allows.
LEMMA LeaseStep ==
  ASSUME NEW m \in My, PlaceInv, PageStep(m),
         StatusStep(StatusOf(m), StatusOf(m)') \/ LendStep(m)
  PROVE  Lease!LeaseNext \/ UNCHANGED LeaseStatus
<1> DEFINE s == StatusOf(m)
           t == StatusOf(m)'
<1>1. ASSUME NEW o \in My \ {m} PROVE StatusOf(o)' = StatusOf(o)
  <2>1. /\ node'[o] = node[o] /\ conn'[o] = conn[o]
        /\ \A a \in Node, b \in ListName : On(o, a, b)' <=> On(o, a, b)
        /\ node[o] \in Node \cup {NULL}
    BY DEF PageStep, Only, PlaceInv, TypeOK
  <2>2. node[o] \in Node => (On(o, node[o], "avail")' <=> On(o, node[o], "avail"))
    <3> SUFFICES ASSUME node[o] \in Node
                 PROVE  On(o, node[o], "avail")' <=> On(o, node[o], "avail")
      OBVIOUS
    <3> PICK a \in Node : a = node[o] /\ a = node'[o]
      BY <2>1
    <3>1. On(o, a, "avail")' <=> On(o, a, "avail")
      BY <2>1 DEF ListName
    <3> QED BY <3>1 DEF On, ToSet
  <2> QED BY <2>1, <2>2 DEF StatusOf
<1>2. LeaseStatus' = [LeaseStatus EXCEPT ![m] = t]
  BY <1>1 DEF LeaseStatus
<1>3. LeaseStatus[m] = s /\ \A o \in My : LeaseStatus[o] = StatusOf(o)
  BY DEF LeaseStatus
<1>4. CASE s = t
  BY <1>2, <1>3, <1>4 DEF LeaseStatus
<1>5. CASE LendStep(m)
  <2> HIDE DEF s, t
  <2>1. PICK c \in Client : (\A o \in My : StatusOf(o) # c) /\ s = "ready" /\ t = c
    BY <1>5 DEF LendStep, s, t
  <2>2. Lease!Lend(m, c)
    BY <1>2, <1>3, <2>1 DEF Lease!Lend, Lease!Move
  <2> QED BY <2>2 DEF Lease!LeaseNext
<1>6. CASE StatusStep(s, t) /\ s # t
  <2> HIDE DEF s, t
  <2>1. \/ Lease!Allocate(m) \/ Lease!MakeReady(m) \/ Lease!Check(m)
        \/ Lease!Return(m) \/ Lease!Break(m) \/ Lease!Retire(m)
    BY <1>2, <1>3, <1>6
       DEF StatusStep, Lease!Allocate, Lease!MakeReady, Lease!Check,
           Lease!Return, Lease!Break, Lease!Retire, Lease!Move
  <2> QED BY <2>1 DEF Lease!LeaseNext
<1> QED BY <1>4, <1>5, <1>6

\* The status of a connection on a list, or on none.
StatusFacts(m) ==
  /\ node[m] = NULL => StatusOf(m) = "absent"
  /\ \A n \in Node : On(m, n, "avail") => StatusOf(m) = "ready"
  /\ \A n \in Node, k \in {"dead", "fail", "ping"} : On(m, n, k) => StatusOf(m) = "pool"
  /\ cb[m] \in HsCb \cup PingCb => StatusOf(m) = "pool"
  /\ conn[m] # NULL => StatusOf(m) = conn[m] /\ conn[m] \in Client
  /\ StatusOf(m) \in {"absent", "pool", "ready"} \cup Client
StatusInv == \A m \in My : StatusFacts(m)

\* The place of a page gives its lease status.
LEMMA PlaceGivesStatus == PlaceInv => StatusInv
<1> SUFFICES ASSUME PlaceInv, NEW m \in My PROVE StatusFacts(m)
  BY DEF StatusInv
<1>1. /\ PageInv(m) /\ conn[m] \in Client \cup {NULL} /\ NULL \notin Node
      /\ node[m] \in Node \cup {NULL}
  BY MyAssumption DEF PlaceInv, TypeOK
<1>2. \A n \in Node : On(m, n, "avail") => StatusOf(m) = "ready"
  BY <1>1, PlaceIsSound, OnOwnList DEF StatusOf, PageInv, FitsList, Unwatched, ListName
<1>3. ASSUME NEW n \in Node, NEW k \in {"dead", "fail", "ping"}, On(m, n, k)
      PROVE  StatusOf(m) = "pool"
  <2>1. node[m] = n /\ conn[m] = NULL
    BY <1>1, <1>3, PlaceIsSound, OnOwnList DEF PageInv, FitsList, Unwatched, ListName
  <2>2. ~On(m, n, "avail")
    BY <1>1, <1>3 DEF PageInv, FitsList, Unwatched, PingCb
  <2> QED BY <1>1, <2>1, <2>2 DEF StatusOf
<1>4. cb[m] \in PingCb => StatusOf(m) = "pool"
  BY <1>3, PlaceIsSound, PingedOpen, PingedListed
<1>5. ASSUME cb[m] \in HsCb PROVE StatusOf(m) = "pool"
  <2>1. node[m] \in Node /\ conn[m] = NULL /\ ~On(m, node[m], "avail")
    BY <1>1, <1>5, PlaceIsSound, OnOwnList DEF PageInv, FitsList, HsCb, ListName
  <2> QED BY <1>1, <2>1 DEF StatusOf
<1>6. conn[m] # NULL => StatusOf(m) = conn[m] /\ conn[m] \in Client
  BY <1>1, PlaceIsSound, OwnedOpen DEF StatusOf
<1>7. /\ node[m] = NULL => StatusOf(m) = "absent"
      /\ StatusOf(m) \in {"absent", "pool", "ready"} \cup Client
  BY <1>1 DEF StatusOf
<1> QED BY <1>2, <1>3, <1>4, <1>5, <1>6, <1>7 DEF StatusFacts

\* The same in the next state.
LEMMA PlaceGivesStatusPrime == PlaceInv' => StatusInv'
  BY PlaceGivesStatus, PTL

\* The status of a page by the list it is on.
LEMMA ListStatus ==
  ASSUME PlaceInv, PlaceInv', NEW m \in My, NEW n \in Node, NEW k \in ListName,
         list' = MoveTail(m, n, k) \/ list' = MoveHead(m, n, k)
  PROVE  /\ k = "avail" => StatusOf(m)' = "ready"
         /\ k \in {"dead", "fail", "ping"} => StatusOf(m)' = "pool"
<1>1. On(m, n, k)'
  BY PlaceIsSound, MovedOn
<1>2. StatusFacts(m)'
  BY PlaceGivesStatusPrime DEF StatusInv
<1> QED BY <1>1, <1>2 DEF StatusFacts

\* A connection that is being connected, or failed to be, is with the pool.
LEMMA ConnectStatus ==
  ASSUME PlaceInv, PlaceInv', NEW m \in My, NEW n \in Node, make_my_conn(m, n)
  PROVE  StatusOf(m)' = "pool"
<1>1. CASE cb' = [cb EXCEPT ![m] = "hs1"]
  <2>1. cb'[m] \in HsCb
    BY <1>1 DEF PlaceInv, TypeOK, HsCb
  <2>2. StatusFacts(m)'
    BY PlaceGivesStatusPrime DEF StatusInv
  <2> QED BY <2>1, <2>2 DEF StatusFacts
<1>2. CASE list' = MoveTail(m, n, "fail")
  BY <1>2, ListStatus DEF ListName
<1> QED BY <1>1, <1>2 DEF make_my_conn, my_conn_close_on_fail

\* The change of status each group of actions makes.
LEMMA MovesStatus ==
  ASSUME PlaceInv, PlaceInv', NEW m \in My, PageMoves(m)
  PROVE  StatusStep(StatusOf(m), StatusOf(m)') \/ LendStep(m)
<1>1. /\ StatusFacts(m) /\ StatusFacts(m)' /\ \A o \in My : StatusFacts(o)
      /\ loop.node \in Node /\ PageType /\ NULL \notin Node
  BY PlaceGivesStatus, PlaceGivesStatusPrime, TypeSplit, LoopType, MyAssumption
     DEF StatusInv, PlaceInv, RestType
<1>2. CASE RegConnect(m)
  <2>1. StatusOf(m)' = "pool" /\ node[m] = NULL
    BY <1>1, <1>2, ConnectStatus DEF RegConnect, my_conn_alloc
  <2> QED BY <1>1, <2>1 DEF StatusFacts, StatusStep
<1>3. CASE Retry(m)
  <2>1. loop.fn \in {"dead", "fail"} /\ loop.fn \in ListName
    BY <1>3 DEF Retry, RetryKind, ListName
  <2>2. On(m, loop.node, loop.fn)
    BY <1>1, <1>3, <2>1, PlaceIsSound, HeadOn DEF Retry
  <2>3. StatusOf(m)' = "pool"
    BY <1>1, <1>3, ConnectStatus DEF Retry
  <2> QED BY <1>1, <2>1, <2>2, <2>3 DEF StatusFacts, StatusStep
<1>4. CASE PingPrepare(m)
  <2>1. On(m, loop.node, "avail")
    BY <1>1, <1>4, PlaceIsSound, HeadOn DEF PingPrepare, ListName
  <2>2. StatusOf(m)' = "pool"
    BY <1>1, <1>4, ListStatus DEF PingPrepare, my_conn_set_ping, ListName
  <2> QED BY <1>1, <2>1, <2>2 DEF StatusFacts, StatusStep
<1>5. CASE PingRelease(m) \/ Cleanup(m)
  <2>1. node'[m] = NULL
    BY <1>1, <1>5 DEF PingRelease, Cleanup, my_conn_close_and_release, PageType
  <2> QED BY <1>1, <2>1 DEF StatusFacts, StatusStep
<1>6. CASE HsStage(m)
  <2>1. cb[m] \in HsCb /\ cb'[m] \in HsCb
    BY <1>1, <1>6 DEF HsStage, HsCb, PageType
  <2> QED BY <1>1, <2>1 DEF StatusFacts, StatusStep
<1>7. CASE HsDone(m)
  <2>1. cb[m] \in HsCb /\ node[m] \in Node
    BY <1>7, PlaceIsSound, OnOwnList DEF HsDone, HsCb
  <2>2. StatusOf(m)' = "ready"
    BY <1>7, <2>1, ListStatus DEF HsDone, my_conn_set_avail, ListName
  <2> QED BY <1>1, <2>1, <2>2 DEF StatusFacts, StatusStep
<1>8. CASE HsFail(m)
  <2>1. cb[m] \in HsCb /\ node[m] \in Node
    BY <1>8, PlaceIsSound, OnOwnList DEF HsFail, HsCb
  <2>2. StatusOf(m)' = "pool"
    BY <1>8, <2>1, ListStatus DEF HsFail, my_conn_close_on_fail, ListName
  <2> QED BY <1>1, <2>1, <2>2 DEF StatusFacts, StatusStep
<1>9. CASE PingReq(m)
  <2>1. cb[m] \in PingCb /\ cb'[m] \in PingCb
    BY <1>1, <1>9 DEF PingReq, PingCb, PageType
  <2> QED BY <1>1, <2>1 DEF StatusFacts, StatusStep
<1>10. CASE PingResp(m)
  <2>1. cb[m] \in PingCb /\ node[m] \in Node
    BY <1>10, PlaceIsSound, OnOwnList DEF PingResp, PingCb
  <2>2. StatusOf(m)' = "ready"
    BY <1>10, <2>1, ListStatus DEF PingResp, my_conn_put, my_conn_set_avail, ListName
  <2> QED BY <1>1, <2>1, <2>2 DEF StatusFacts, StatusStep
<1>11. CASE PingFail(m)
  <2>1. cb[m] \in PingCb /\ node[m] \in Node
    BY <1>11, PlaceIsSound, OnOwnList DEF PingFail, PingCb
  <2>2. StatusOf(m)' = "pool"
    BY <1>11, <2>1, ListStatus DEF PingFail, my_conn_close, my_conn_set_dead, ListName
  <2> QED BY <1>1, <2>1, <2>2 DEF StatusFacts, StatusStep
<1>12. CASE Put(m)
  <2>1. conn[m] # NULL /\ node[m] \in Node
    BY <1>12, PlaceIsSound, OwnedOpen DEF Put
  <2>2. StatusOf(m)' = "ready"
    BY <1>12, <2>1, ListStatus DEF Put, my_conn_put, my_conn_set_avail, ListName
  <2> QED BY <1>1, <2>1, <2>2 DEF StatusFacts, StatusStep
<1>13. CASE Close(m)
  <2>1. conn[m] # NULL /\ node[m] \in Node
    BY <1>13, PlaceIsSound, OwnedOpen DEF Close
  <2>2. StatusOf(m)' = "pool"
    BY <1>13, <2>1, ListStatus DEF Close, my_conn_close, my_conn_set_dead, ListName
  <2> QED BY <1>1, <2>1, <2>2 DEF StatusFacts, StatusStep
<1>14. ASSUME NEW c \in Client, NEW n \in Node, SlaveConnGet(c, m, n)
       PROVE  LendStep(m)
  <2>1. On(m, n, "avail")
    BY <1>14, PlaceIsSound, HeadOn DEF SlaveConnGet, ListName
  <2>2. conn'[m] = c /\ c # NULL
    BY <1>1, <1>14, MyAssumption DEF SlaveConnGet, my_conn_set_used, PageType
  <2>3. StatusOf(m) = "ready" /\ StatusOf(m)' = c
    BY <1>1, <2>1, <2>2 DEF StatusFacts
  <2>4. ASSUME NEW o \in My PROVE StatusOf(o) # c
    <3>1. conn[o] # c /\ c \notin {"absent", "pool", "ready"}
      BY <1>14, ClientAssumption DEF SlaveConnGet, NoConnection
    <3> QED BY <3>1 DEF StatusOf
  <2> QED BY <2>3, <2>4 DEF LendStep
<1>15. ASSUME NEW h \in SessionCb \cup {"none"}, SessionHandler(m, h)
       PROVE  StatusOf(m) = StatusOf(m)'
  <2>1. conn[m] # NULL /\ conn'[m] = conn[m]
    BY <1>15 DEF SessionHandler
  <2> QED BY <1>1, <2>1 DEF StatusFacts
<1>16. ASSUME NEW n \in Node, TryIncrease(m, n)
       PROVE  StatusStep(StatusOf(m), StatusOf(m)')
  <2>1. StatusOf(m)' = "pool" /\ node[m] = NULL
    BY <1>16, ConnectStatus DEF TryIncrease, my_conn_alloc
  <2> QED BY <1>1, <2>1 DEF StatusFacts, StatusStep
<1>17. ASSUME NEW n \in Node, PingTimeout(m, n)
       PROVE  StatusStep(StatusOf(m), StatusOf(m)')
  <2>1. On(m, n, "ping")
    BY <1>17, PlaceIsSound, HeadOn DEF PingTimeout, ListName
  <2>2. StatusOf(m)' = "pool"
    BY <1>17, ListStatus DEF PingTimeout, my_conn_close_on_fail, ListName
  <2> QED BY <1>1, <2>1, <2>2 DEF StatusFacts, StatusStep
<1>18. CASE \E c \in Client, n \in Node : SlaveConnGet(c, m, n)
  BY <1>14, <1>18
<1>19. CASE \E h \in SessionCb \cup {"none"} : SessionHandler(m, h)
  BY <1>15, <1>19 DEF StatusStep
<1>20. CASE \E n \in Node : TryIncrease(m, n) \/ PingTimeout(m, n)
  BY <1>16, <1>17, <1>20
<1> QED BY <1>2, <1>3, <1>4, <1>5, <1>6, <1>7, <1>8, <1>9, <1>10, <1>11, <1>12,
           <1>13, <1>18, <1>19, <1>20 DEF PageMoves

\* The pool implements ConnLease: a session gets only a connection that is
\* ready, and one at most, and only the pool passes it on.
THEOREM LeaseCorrect == Spec => ImplementsLease
<1>1. Init => Lease!LeaseInit
  BY DEF Init, my_pool_init, Lease!LeaseInit, LeaseStatus, StatusOf
<1>2. ASSUME PlaceInv, PlaceInv', [Next]_vars
      PROVE  Lease!LeaseNext \/ UNCHANGED LeaseStatus
  <2>1. CASE StillMoves
    <3>1. UNCHANGED <<list, node, conn, cb, open>>
      BY <1>2, <2>1, PlaceIsSound, StillMovesAreStill
    <3> QED BY <3>1 DEF LeaseStatus, StatusOf, On, ToSet
  <2>2. ASSUME NEW m \in My, PageMoves(m)
        PROVE  Lease!LeaseNext \/ UNCHANGED LeaseStatus
    <3>1. PageStep(m)
      BY <1>2, <2>2, PlaceIsSound, PageMovesArePageSteps
    <3> QED BY <1>2, <2>2, <3>1, MovesStatus, LeaseStep
  <2> QED BY <1>2, <2>1, <2>2, NextIsMoves
<1>3. PlaceInv /\ PlaceInv' /\ [Next]_vars => [Lease!LeaseNext]_LeaseStatus
  BY <1>2
<1> QED BY <1>1, <1>3, PlaceCorrect, PTL DEF Spec, ImplementsLease, Lease!LeaseSpec

-----------------------------------------------------------------------------
(* A node that was cleaned up stays deserted.                              *)

Serving == {"used", "ping", "dead"}

NobodyServes(n) == \A m \in My, k \in Serving : ~On(m, n, k)
DesertedByPages == \A n \in Node : Deserted(n) <=> NobodyServes(n)

\* A list is empty when no page is on it.
LEMMA DesertedOn == ListType => DesertedByPages
<1>1. ASSUME ListType, NEW n \in Node, NEW k \in Serving
      PROVE  list[<<n, k>>] = <<>> <=> \A m \in My : ~On(m, n, k)
  <2>1. list[<<n, k>>] \in Seq(My)
    BY <1>1 DEF ListType, Lists, Serving, ListName
  <2> DEFINE s == list[<<n, k>>]
  <2>2. CASE s = <<>>
    BY <2>2 DEF On, ToSet
  <2>3. CASE s # <<>>
    <3>1. 1 \in DOMAIN s /\ s[1] \in My
      BY <2>1, <2>3
    <3>2. On(s[1], n, k)
      BY <3>1 DEF On, ToSet
    <3> QED BY <2>3, <3>1, <3>2
  <2> QED BY <2>2, <2>3
<1> QED BY <1>1 DEF DesertedByPages, NobodyServes, Deserted, Serving

\* The same in the next state.
LEMMA DesertedOnPrime == ListType' => DesertedByPages'
  BY DesertedOn, PTL

\* Where a page goes: the lists it may be on after the move.
LEMMA MovedToOne ==
  ASSUME PlaceInv, NEW m \in My, NEW n \in Node, NEW k \in ListName, NEW a \in Node,
         NEW j \in ListName, list' = MoveTail(m, a, j) \/ list' = MoveHead(m, a, j),
         On(m, n, k)'
  PROVE  n = a /\ k = j
  BY PlaceIsSound, MovedOn

\* A connection of a closing node is used, pinged or dead only if it was before.
LEMMA ClosingGoes ==
  ASSUME PlaceInv, NEW m \in My, PageMoves(m), NEW n \in Node, closing[n],
         NEW k \in Serving, On(m, n, k)'
  PROVE  \E j \in Serving : On(m, n, j)
<1>0. /\ k \in ListName /\ loop.node \in Node
      /\ {"avail", "fail", "ping", "used", "dead"} \subseteq ListName
  BY LoopType DEF Serving, ListName, PlaceInv, TypeOK
<1>1. CASE UNCHANGED list
  BY <1>1 DEF On, Serving
<1>2. ASSUME NEW a \in Node, make_my_conn(m, a) PROVE FALSE
  <2>1. CASE list' = DelInit(m)
    BY <1>0, <2>1, PlaceIsSound, DeletedOn
  <2>2. CASE list' = MoveTail(m, a, "fail")
    BY <1>0, <2>2, MovedToOne DEF Serving
  <2> QED BY <1>2, <2>1, <2>2 DEF make_my_conn, my_conn_close_on_fail
<1>3. ~RegConnect(m) /\ ~Retry(m) /\ \A a \in Node : ~TryIncrease(m, a)
  BY <1>0, <1>2 DEF RegConnect, Retry, TryIncrease
<1>4. ~PingPrepare(m)
  BY <1>0, MovedToOne DEF PingPrepare, my_conn_set_ping, MoreToPing
<1>5. ~PingRelease(m) /\ ~Cleanup(m)
  BY <1>0, PlaceIsSound, DeletedOn DEF PingRelease, Cleanup, my_conn_close_and_release
<1>6. CASE HsStage(m) \/ PingReq(m) \/ \E h \in SessionCb \cup {"none"} : SessionHandler(m, h)
  BY <1>1, <1>6 DEF HsStage, PingReq, SessionHandler
<1>7. CASE HsDone(m) \/ HsFail(m)
  <2>1. node[m] \in Node
    BY <1>7, PlaceIsSound, OnOwnList DEF HsDone, HsFail, HsCb
  <2> QED BY <1>0, <1>7, <2>1, MovedToOne
          DEF HsDone, HsFail, my_conn_set_avail, my_conn_close_on_fail, Serving
<1>8. CASE PingResp(m) \/ PingFail(m)
  <2>1. node[m] \in Node /\ On(m, node[m], "ping")
    BY <1>8, PlaceIsSound, PingedOpen, PingedListed DEF PingResp, PingFail, PingCb
  <2>2. CASE PingResp(m)
    BY <1>0, <2>1, <2>2, MovedToOne DEF PingResp, my_conn_put, my_conn_set_avail, Serving
  <2>3. CASE PingFail(m)
    <3>1. n = node[m]
      BY <1>0, <2>1, <2>3, MovedToOne DEF PingFail, my_conn_close, my_conn_set_dead
    <3> QED BY <2>1, <3>1 DEF Serving
  <2> QED BY <1>8, <2>2, <2>3
<1>9. CASE Put(m) \/ Close(m)
  <2>1. node[m] \in Node /\ \E b \in Node : On(m, b, "used")
    BY <1>9, PlaceIsSound, OwnedOpen DEF Put, Close, PlaceInv, PageInv, Owned
  <2>2. On(m, node[m], "used")
    BY <1>0, <2>1, PlaceIsSound, OnOwnList
  <2>3. CASE Put(m)
    BY <1>0, <2>1, <2>3, MovedToOne DEF Put, my_conn_put, my_conn_set_avail, Serving
  <2>4. CASE Close(m)
    <3>1. n = node[m]
      BY <1>0, <2>1, <2>4, MovedToOne DEF Close, my_conn_close, my_conn_set_dead
    <3> QED BY <2>2, <3>1 DEF Serving
  <2> QED BY <1>9, <2>3, <2>4
<1>10. ASSUME NEW c \in Client, NEW a \in Node, SlaveConnGet(c, m, a) PROVE FALSE
  BY <1>0, <1>10, MovedToOne DEF SlaveConnGet, my_conn_set_used
<1>11. ASSUME NEW a \in Node, PingTimeout(m, a) PROVE FALSE
  BY <1>0, <1>11, MovedToOne DEF PingTimeout, my_conn_close_on_fail, Serving
<1> QED BY <1>3, <1>4, <1>5, <1>6, <1>7, <1>8, <1>9, <1>10, <1>11 DEF PageMoves

\* A set of numbers from one to five has a least.
LEMMA LeastOfFive ==
  ASSUME NEW left \in SUBSET (1 .. 5), left # {}
  PROVE  (CHOOSE i \in left : \A j \in left : i <= j) \in 1 .. 5
<1>1. \A j \in left : j = 1 \/ j = 2 \/ j = 3 \/ j = 4 \/ j = 5
  OBVIOUS
<1>0. \E j \in left : TRUE
  OBVIOUS
<1>2. \E i \in left : \A j \in left : i <= j
  <2>1. CASE 1 \in left
    BY <1>1, <2>1
  <2>2. CASE 1 \notin left /\ 2 \in left
    BY <1>1, <2>2
  <2>3. CASE 1 \notin left /\ 2 \notin left /\ 3 \in left
    BY <1>1, <2>3
  <2>4. CASE 1 \notin left /\ 2 \notin left /\ 3 \notin left /\ 4 \in left
    BY <1>1, <2>4
  <2>5. CASE 1 \notin left /\ 2 \notin left /\ 3 \notin left /\ 4 \notin left
    BY <1>0, <1>1, <2>5
  <2> QED BY <2>1, <2>2, <2>3, <2>4, <2>5
<1> QED BY <1>2

\* The end of the cleanup finds every list of the node empty.
LEMMA CleanupDoneDeserts ==
  ASSUME PlaceInv, NEW n \in Node, [Next]_vars, role[n] = 1, role'[n] = 0
  PROVE  Deserted(n)'
<1>1. role' # role
  OBVIOUS
<1>2. ~\E m \in My : PageMoves(m)
  BY <1>1 DEF PageMoves, RegConnect, Retry, PingPrepare, PingRelease, Cleanup,
       HsStage, HsDone, HsFail, PingReq, PingResp, PingFail, Put, Close, SlaveConnGet,
       SessionHandler, TryIncrease, PingTimeout, nodeFlags
<1>3. StillMoves
  BY <1>2, NextIsMoves
<1>4. /\ role \in [Node -> {0, 1}] /\ loop.node \in Node
  BY LoopType DEF PlaceInv, TypeOK
<1>5. CleanupDone /\ loop.node = n
  <2>1. CASE RegDone
    BY <1>4, <2>1 DEF RegDone
  <2>2. CASE CleanupDone
    BY <1>4, <2>2 DEF CleanupDone
  <2>3. ~RegFail /\ ~CleanupSkip /\ ~RetryNextNode /\ ~PingNextNode
    BY <1>1 DEF RegFail, CleanupSkip, RetryNextNode, PingNextNode, nodeFlags
  <2>4. ~\E fn \in RetryKind \cup {"ping", "cleanup"} : StartLoop(fn)
    BY <1>1 DEF StartLoop, nodeFlags
  <2>5. (~\E a \in Node : my_unreg(a)) /\ ~\E m \in My : Age(m)
    BY <1>1 DEF my_unreg, Age, nodeFlags
  <2>6. ~UNCHANGED vars
    BY <1>1 DEF vars
  <2> QED BY <1>3, <2>1, <2>2, <2>3, <2>4, <2>5, <2>6 DEF StillMoves
<1>6. CleanupList(n) = "none" /\ list' = list
  BY <1>5 DEF CleanupDone
<1> DEFINE left == {i \in 1 .. 5 : list[<<n, CleanupOrder[i]>>] # <<>>}
           k == CHOOSE i \in left : \A j \in left : i <= j
<1>7. left = {}
  <2>1. CASE left # {}
    <3>1. CleanupList(n) = CleanupOrder[k]
      BY <2>1 DEF CleanupList
    <3>2. k \in 1 .. 5
      BY <2>1, LeastOfFive
    <3> HIDE DEF k
    <3>3. CleanupOrder[k] # "none"
      BY <3>2 DEF CleanupOrder
    <3> QED BY <1>6, <3>1, <3>3
  <2> QED BY <2>1
<1>8. /\ list[<<n, CleanupOrder[1]>>] = <<>> /\ list[<<n, CleanupOrder[3]>>] = <<>>
      /\ list[<<n, CleanupOrder[5]>>] = <<>>
  BY <1>7
<1> QED BY <1>6, <1>8 DEF Deserted, CleanupOrder

\* Once the cleanup of a node is over it serves, pings and retries nothing again.
THEOREM CleanedCorrect == Spec => CleanedStaysClean
<1> DEFINE A == \A n \in Node :
                  \/ role[n] = 1 /\ role'[n] = 0
                  \/ closing[n] /\ role[n] = 0 /\ Deserted(n)
                  => Deserted(n)'
<1>1. ASSUME PlaceInv, PlaceInv', [Next]_vars PROVE A
  <2>1. ASSUME NEW n \in Node, closing[n], Deserted(n) PROVE Deserted(n)'
    <3>1. ListType /\ ListType'
      BY <1>1 DEF PlaceInv, TypeOK, ListType
    <3>2. CASE StillMoves
      BY <1>1, <2>1, <3>2, PlaceIsSound, StillMovesAreStill DEF Deserted
    <3>3. ASSUME NEW m \in My, PageMoves(m) PROVE Deserted(n)'
      <4>1. Only(m)
        BY <1>1, <3>3, PlaceIsSound, PageMovesArePageSteps DEF PageStep
      <4>2. ASSUME NEW o \in My, NEW k \in Serving, On(o, n, k)' PROVE FALSE
        <5>1. CASE o = m
          BY <1>1, <2>1, <3>1, <3>3, <4>2, <5>1, ClosingGoes, DesertedOn
             DEF DesertedByPages, NobodyServes
        <5>2. CASE o # m
          BY <2>1, <3>1, <4>1, <4>2, <5>2, DesertedOn
             DEF Only, Serving, ListName, DesertedByPages, NobodyServes
        <5> QED BY <5>1, <5>2
      <4> QED BY <3>1, <4>2, DesertedOnPrime DEF DesertedByPages, NobodyServes
    <3> QED BY <1>1, <3>2, <3>3, NextIsMoves
  <2> QED BY <1>1, <2>1, CleanupDoneDeserts
<1>2. PlaceInv /\ PlaceInv' /\ [Next]_vars => [A]_vars
  BY <1>1
<1> HIDE DEF A
<1>3. Spec => [][A]_vars
  BY <1>2, PlaceCorrect, PTL DEF Spec
<1> QED BY <1>3 DEF CleanedStaysClean, A

-----------------------------------------------------------------------------
(* The counters of connections.                                            *)

NodesCounted == \A n \in Node : curall_connection[n] = Cardinality(Allocated(n))

\* While the nodes are registered one after the other, the ones still to come
\* have no connection and no role.
RegInv ==
  loop.fn = "reg" =>
    /\ curall_connection[loop.node] = loop.cnt
    /\ loop.cnt <= MinConn[loop.node]
    /\ \A n \in Node : n >= loop.node => role[n] = 0
    /\ \A n \in Node : n > loop.node => curall_connection[n] = 0

CountInv == PlaceInv /\ CapacityOK /\ RegInv

\* The pages of a node, and those in a handshake, are finitely many.
LEMMA FinitePages ==
  ASSUME NEW n
  PROVE  /\ IsFiniteSet(Allocated(n)) /\ IsFiniteSet(Handshaking(n))
         /\ Cardinality(Allocated(n)) \in Nat /\ Cardinality(Handshaking(n)) \in Nat
<1>1. Allocated(n) \subseteq My /\ Handshaking(n) \subseteq My
  BY DEF Allocated, Handshaking
<1> QED BY <1>1, MyAssumption, FS_Subset, FS_CardinalityType

\* A page given to a node is one more, a page taken from it one less.
LEMMA AllocCounts ==
  ASSUME PlaceInv, NodesCounted, NEW m \in My, NEW n \in Node, my_conn_alloc(m, n)
  PROVE  NodesCounted'
<1>1. /\ node \in [My -> Node \cup {NULL}] /\ NULL \notin Node
      /\ curall_connection \in [Node -> Int]
  BY MyAssumption DEF PlaceInv, TypeOK
<1>2. Allocated(n)' = Allocated(n) \cup {m} /\ m \notin Allocated(n)
  BY <1>1 DEF Allocated, my_conn_alloc
<1>3. Cardinality(Allocated(n)') = Cardinality(Allocated(n)) + 1
  BY <1>2, FinitePages, FS_AddElement
<1>4. ASSUME NEW a \in Node, a # n PROVE Allocated(a)' = Allocated(a)
  BY <1>1, <1>4 DEF Allocated, my_conn_alloc
<1> QED BY <1>1, <1>3, <1>4 DEF NodesCounted, my_conn_alloc

LEMMA ReleaseCounts ==
  ASSUME PlaceInv, NodesCounted, NEW m \in My, NEW n \in Node, node[m] = n,
         NEW dec, my_conn_close_and_release(m, n, dec)
  PROVE  NodesCounted'
<1>1. /\ node \in [My -> Node \cup {NULL}] /\ NULL \notin Node
      /\ curall_connection \in [Node -> Int]
  BY MyAssumption DEF PlaceInv, TypeOK
<1>2. Allocated(n)' = Allocated(n) \ {m} /\ m \in Allocated(n)
  BY <1>1 DEF Allocated, my_conn_close_and_release
<1>3. Cardinality(Allocated(n)') = Cardinality(Allocated(n)) - 1
  BY <1>2, FinitePages, FS_RemoveElement
<1>4. ASSUME NEW a \in Node, a # n PROVE Allocated(a)' = Allocated(a)
  BY <1>1, <1>4 DEF Allocated, my_conn_close_and_release
<1> QED BY <1>1, <1>3, <1>4 DEF NodesCounted, my_conn_close_and_release

LEMMA SameCounts == UNCHANGED <<node, curall_connection>> /\ NodesCounted => NodesCounted'
  BY DEF NodesCounted, Allocated

LEMMA InitCounts == Init => CountInv
<1> SUFFICES ASSUME Init PROVE CountInv
  OBVIOUS
<1>1. NULL \notin Node /\ 0 \in Node /\ MinConn \in [Node -> Nat] /\ Node \subseteq Nat
  BY MyAssumption, NodeAssumption DEF Node
<1>2. \A n \in Node : Allocated(n) = {}
  BY <1>1 DEF Init, my_pool_init, Allocated
<1>3. Cardinality({}) = 0
  BY FS_EmptySet
<1>4. CapacityOK
  BY <1>1, <1>2, <1>3 DEF Init, my_pool_init, CapacityOK
<1>5. RegInv
  BY <1>1 DEF Init, my_pool_init, RegInv
<1> QED BY <1>4, <1>5, BootKeepsInv DEF CountInv

\* The steps that give a page to a node.
LEMMA AllocKeepsCounts ==
  ASSUME CountInv, NEW m \in My, RegConnect(m) \/ \E n \in Node : TryIncrease(m, n)
  PROVE  CapacityOK' /\ RegInv'
<1>0. /\ PlaceInv /\ NodesCounted /\ loop.node \in Node
      /\ loop \in [fn : LoopName, node : Node, cnt : Nat]
      /\ curall_connection \in [Node -> Int]
      /\ MinConn \in [Node -> Nat] /\ MaxConn \in [Node -> Nat]
      /\ closing \in [Node -> BOOLEAN] /\ role \in [Node -> {0, 1}]
  BY NodeAssumption, LoopType DEF CountInv, CapacityOK, NodesCounted, PlaceInv, TypeOK
<1>00. Node \subseteq Int
  BY DEF Node
<1>1. CASE RegConnect(m)
  <2> DEFINE n == loop.node
  <2>1. /\ my_conn_alloc(m, n) /\ n \in Node /\ UNCHANGED <<closing, role>>
        /\ loop.fn = "reg" /\ loop.cnt < MinConn[n]
        /\ loop' = [loop EXCEPT !.cnt = @ + 1]
    BY <1>0, <1>1 DEF RegConnect, Step, nodeFlags
  <2> HIDE DEF n
  <2>2. NodesCounted'
    BY <1>0, <2>1, AllocCounts
  <2>3. curall_connection' = [curall_connection EXCEPT ![n] = @ + 1]
    BY <2>1 DEF my_conn_alloc
  <2>4. /\ curall_connection[n] = loop.cnt /\ n = loop.node
        /\ \A a \in Node : a >= n => role[a] = 0
        /\ \A a \in Node : a > n => curall_connection[a] = 0
    BY <2>1 DEF CountInv, RegInv, n
  <2>5. loop'.fn = "reg" /\ loop'.node = n /\ loop'.cnt = loop.cnt + 1
    BY <1>0, <2>1, <2>4
  <2>6. RegInv'
    BY <1>0, <1>00, <2>1, <2>3, <2>4, <2>5 DEF RegInv
  <2>7. CapacityOK'
    BY <1>0, <2>1, <2>2, <2>3, <2>4 DEF CapacityOK, NodesCounted, CountInv
  <2> QED BY <2>6, <2>7
<1>2. ASSUME NEW n \in Node, TryIncrease(m, n) PROVE CapacityOK' /\ RegInv'
  <2>1. /\ my_conn_alloc(m, n) /\ UNCHANGED <<closing, role, loop>> /\ loop.fn = "none"
        /\ curall_connection[n] < MaxConn[n]
    BY <1>2 DEF TryIncrease, MayGrow, nodeFlags, NoLoop
  <2>2. NodesCounted'
    BY <1>0, <2>1, AllocCounts
  <2>3. curall_connection' = [curall_connection EXCEPT ![n] = @ + 1]
    BY <2>1 DEF my_conn_alloc
  <2> QED BY <1>0, <2>1, <2>2, <2>3 DEF CapacityOK, NodesCounted, CountInv, RegInv
<1> QED BY <1>1, <1>2

\* The steps that take a page from a node.
LEMMA ReleaseKeepsCounts ==
  ASSUME CountInv, NEW m \in My, PingRelease(m) \/ Cleanup(m)
  PROVE  CapacityOK' /\ RegInv'
<1>0. /\ PlaceInv /\ NodesCounted /\ loop.node \in Node
      /\ loop \in [fn : LoopName, node : Node, cnt : Nat]
      /\ curall_connection \in [Node -> Int]
      /\ MinConn \in [Node -> Nat] /\ MaxConn \in [Node -> Nat]
      /\ closing \in [Node -> BOOLEAN] /\ role \in [Node -> {0, 1}]
  BY NodeAssumption, LoopType DEF CountInv, CapacityOK, NodesCounted, PlaceInv, TypeOK
<1> PICK n \in Node : n = loop.node
  BY <1>0
<1>1. /\ UNCHANGED <<closing, role>> /\ loop.fn # "reg" /\ loop'.fn # "reg"
      /\ node[m] = n /\ \E dec : my_conn_close_and_release(m, n, dec)
      /\ closing[n] \/ ~(curall_connection[n] <= MinConn[n])
  <2>1. CASE Cleanup(m)
    BY <1>0, <2>1, PlaceIsSound, CleanupFacts DEF Cleanup, nodeFlags
  <2>2. CASE PingRelease(m)
    <3>1. node[m] = n
      BY <1>0, <2>2, PlaceIsSound, HeadOn DEF PingRelease, ListName
    <3> QED BY <1>0, <2>2, <3>1 DEF PingRelease, Keep, nodeFlags
  <2> QED BY <2>1, <2>2
<1>2. NodesCounted'
  BY <1>0, <1>1, ReleaseCounts
<1>3. curall_connection' = [curall_connection EXCEPT ![n] = @ - 1]
  BY <1>1 DEF my_conn_close_and_release
<1> QED BY <1>0, <1>1, <1>2, <1>3 DEF CapacityOK, NodesCounted, CountInv, RegInv

\* The steps that leave the pages of every node alone.
LEMMA OthersKeepCounts ==
  ASSUME CountInv, [Next]_vars, UNCHANGED <<node, curall_connection>>
  PROVE  CapacityOK' /\ RegInv'
<1>0. /\ PlaceInv /\ NodesCounted /\ loop.node \in Node
      /\ loop \in [fn : LoopName, node : Node, cnt : Nat]
      /\ curall_connection \in [Node -> Int]
      /\ MinConn \in [Node -> Nat] /\ MaxConn \in [Node -> Nat]
      /\ closing \in [Node -> BOOLEAN] /\ role \in [Node -> {0, 1}]
  BY NodeAssumption, LoopType DEF CountInv, CapacityOK, NodesCounted, PlaceInv, TypeOK
<1>00. Node \subseteq Int /\ \A n \in Node : n + 1 < NumNode => n + 1 \in Node
  BY NodeAssumption DEF Node
<1>1. NodesCounted'
  BY <1>0, SameCounts
<1>2. CASE RegDone
  <2> PICK n \in Node : n = loop.node
    BY <1>0
  <2>1. /\ loop.fn = "reg" /\ loop.cnt = MinConn[n] /\ closing' = closing
        /\ role' = [role EXCEPT ![n] = 1]
        /\ loop' = IF n + 1 < NumNode THEN [loop EXCEPT !.node = @ + 1, !.cnt = 0]
                                      ELSE NoLoop
    BY <1>2 DEF RegDone, NextNode
  <2>2. /\ curall_connection[n] = loop.cnt
        /\ \A a \in Node : a >= n => role[a] = 0
        /\ \A a \in Node : a > n => curall_connection[a] = 0
    BY <2>1 DEF CountInv, RegInv
  <2>3. CapacityOK'
    BY <1>0, <1>1, <2>1, <2>2 DEF CapacityOK, NodesCounted, CountInv
  <2>4. CASE n + 1 < NumNode
    <3>1. n + 1 \in Node
      BY <1>00, <2>4
    <3>2. loop'.fn = "reg" /\ loop'.node = n + 1 /\ loop'.cnt = 0
      BY <1>0, <2>1, <2>4
    <3>3. /\ curall_connection[n + 1] = 0 /\ 0 <= MinConn[n + 1]
      BY <1>0, <1>00, <2>2, <3>1
    <3>4. \A a \in Node : a >= n + 1 => role'[a] = 0
      BY <1>0, <1>00, <2>1, <2>2
    <3>5. \A a \in Node : a > n + 1 => curall_connection[a] = 0
      BY <1>0, <1>00, <2>2
    <3>6. RegInv'
      BY <3>2, <3>3, <3>4, <3>5 DEF RegInv
    <3> QED BY <2>3, <3>6
  <2>5. CASE ~(n + 1 < NumNode)
    BY <2>1, <2>3, <2>5 DEF RegInv, NoLoop
  <2> QED BY <2>4, <2>5
<1>3. CASE CleanupDone
  <2>1. /\ loop.fn = "cleanup" /\ closing' = closing
        /\ role' = [role EXCEPT ![loop.node] = 0] /\ loop'.fn # "reg"
    BY <1>0, <1>3 DEF CleanupDone, NextNode, NoLoop
  <2> QED BY <1>0, <1>1, <2>1 DEF CapacityOK, NodesCounted, CountInv, RegInv
<1>4. CASE \E n \in Node : my_unreg(n)
  <2>1. PICK n \in Node : my_unreg(n)
    BY <1>4
  <2>2. /\ closing' = [closing EXCEPT ![n] = TRUE] /\ role' = role
        /\ loop.fn = "none" /\ loop' = loop
    BY <2>1 DEF my_unreg, NoLoop
  <2> QED BY <1>0, <1>1, <2>2 DEF CapacityOK, NodesCounted, CountInv, RegInv
<1>5. CASE UNCHANGED <<closing, role>> /\ (loop'.fn = "reg" => loop' = loop)
  BY <1>0, <1>1, <1>5 DEF CapacityOK, NodesCounted, CountInv, RegInv
<1>6. ASSUME NEW m \in My PROVE ~RegConnect(m) /\ \A n \in Node : ~TryIncrease(m, n)
  <2>1. ASSUME NEW n \in Node, my_conn_alloc(m, n) PROVE FALSE
    BY <1>0, <2>1 DEF my_conn_alloc
  <2> QED BY <1>0, <2>1 DEF RegConnect, TryIncrease
<1>7. ASSUME NEW m \in My, PageMoves(m)
      PROVE  UNCHANGED <<closing, role>> /\ (loop'.fn = "reg" => loop' = loop)
  <2>1. CASE Retry(m)
    <3>1. loop'.fn = loop.fn /\ loop.fn # "reg"
      BY <1>0, <2>1 DEF Retry, RetryKind
    <3> QED BY <2>1, <3>1 DEF Retry, nodeFlags
  <2>2. CASE PingPrepare(m) \/ PingRelease(m) \/ Cleanup(m)
    BY <1>0, <2>2 DEF PingPrepare, PingRelease, Cleanup, Step, nodeFlags
  <2>3. CASE HsStage(m) \/ HsDone(m) \/ HsFail(m) \/ PingReq(m) \/ PingResp(m)
             \/ PingFail(m) \/ Put(m) \/ Close(m)
    BY <2>3 DEF HsStage, HsDone, HsFail, PingReq, PingResp, PingFail, Put, Close, nodeFlags
  <2>4. CASE \/ \E c \in Client, n \in Node : SlaveConnGet(c, m, n)
             \/ \E h \in SessionCb \cup {"none"} : SessionHandler(m, h)
             \/ \E n \in Node : PingTimeout(m, n)
    BY <2>4 DEF SlaveConnGet, SessionHandler, PingTimeout, nodeFlags
  <2> QED BY <1>6, <1>7, <2>1, <2>2, <2>3, <2>4 DEF PageMoves
<1>8. CASE \/ RegFail \/ RetryNextNode \/ PingNextNode \/ CleanupSkip
           \/ \E fn \in RetryKind \cup {"ping", "cleanup"} : StartLoop(fn)
           \/ \E m \in My : Age(m)
           \/ UNCHANGED vars
  <2>1. UNCHANGED <<closing, role>>
    BY <1>8 DEF RegFail, RetryNextNode, PingNextNode, CleanupSkip, StartLoop, Age, vars,
                nodeFlags
  <2>2. loop'.fn = "reg" => loop' = loop
    <3>1. CASE RegFail \/ (\E m \in My : Age(m)) \/ UNCHANGED vars
      BY <3>1 DEF RegFail, Age, vars, NoLoop
    <3>2. CASE \E fn \in RetryKind \cup {"ping", "cleanup"} : StartLoop(fn)
      BY <3>2 DEF StartLoop, RetryKind
    <3>3. CASE RetryNextNode \/ PingNextNode \/ CleanupSkip
      <4>1. loop.fn # "reg" /\ NextNode
        BY <3>3 DEF RetryNextNode, PingNextNode, CleanupSkip, RetryKind
      <4>2. loop'.fn # "reg"
        BY <1>0, <4>1 DEF NextNode, NoLoop
      <4> QED BY <4>2
    <3> QED BY <1>8, <3>1, <3>2, <3>3
  <2> QED BY <1>5, <2>1, <2>2
<1> QED BY <1>2, <1>3, <1>4, <1>5, <1>7, <1>8, NextIsMoves DEF StillMoves

LEMMA NextKeepsCounts == CountInv /\ [Next]_vars => CountInv'
<1> SUFFICES ASSUME CountInv, [Next]_vars PROVE CountInv'
  OBVIOUS
<1>1. PlaceInv'
  BY NextKeepsPlace DEF CountInv
<1>2. CASE \E m \in My : \/ RegConnect(m) \/ PingRelease(m) \/ Cleanup(m)
                         \/ \E n \in Node : TryIncrease(m, n)
  BY <1>1, <1>2, AllocKeepsCounts, ReleaseKeepsCounts DEF CountInv
<1>3. CASE ~\E m \in My : \/ RegConnect(m) \/ PingRelease(m) \/ Cleanup(m)
                          \/ \E n \in Node : TryIncrease(m, n)
  <2>1. UNCHANGED <<node, curall_connection>>
    BY <1>3 DEF Next, Boot, Timers, Callbacks, Sessions, RegDone, RegFail, StartLoop, Retry,
         PingPrepare, RetryNextNode, PingNextNode, CleanupDone, CleanupSkip, PingTimeout,
         HsStage, HsDone, HsFail, PingReq, PingResp, PingFail, SlaveConnGet, SessionHandler,
         Put, Close, my_unreg, Age, vars, counters
  <2> QED BY <1>1, <2>1, OthersKeepCounts DEF CountInv
<1> QED BY <1>2, <1>3

\* The counter of connections is the number of pages the node holds; growth and
\* release keep it between min_connection and max_connection.
THEOREM CapacityCorrect == Spec => []CapacityOK
<1>1. CountInv => CapacityOK
  BY DEF CountInv
<1> QED BY <1>1, InitCounts, NextKeepsCounts, PTL DEF Spec

-----------------------------------------------------------------------------
(* cur_connecting_cnt counts modulo CountMod.                              *)

LEMMA DivMod ==
  ASSUME NEW N \in Nat, N > 0, NEW a \in Int
  PROVE  /\ a = N * (a \div N) + (a % N)
         /\ a % N \in 0 .. N - 1 /\ a \div N \in Int
  OBVIOUS

\* A remainder is unique.
LEMMA DivUnique ==
  ASSUME NEW N \in Nat, N > 0, NEW q \in Int, NEW p \in Int, NEW r \in Int, NEW s \in Int,
         0 <= r, r < N, 0 <= s, s < N, N * q + r = N * p + s
  PROVE  r = s
<1>1. ASSUME NEW x \in Int, NEW y \in Int, x < y PROVE N * y >= N * x + N
  <2>1. PICK d \in Nat : y = x + 1 + d
    <3>1. y - x - 1 \in Nat /\ y = x + 1 + (y - x - 1)
      BY <1>1
    <3> QED BY <3>1
  <2>2. N * y = N * x + N + N * d /\ N * d >= 0
    BY <2>1
  <2> QED BY <2>2
<1>2. (q < p => N * p >= N * q + N) /\ (p < q => N * q >= N * p + N)
  BY <1>1
<1> QED BY <1>2

\* To add before or after taking the remainder is the same.
LEMMA ModStep ==
  ASSUME NEW N \in Nat, N > 0, NEW a \in Int, NEW d \in Int
  PROVE  ((a % N) + d) % N = (a + d) % N
<1> DEFINE r == a % N
           q == a \div N
           s == (r + d) % N
           p == (r + d) \div N
           t == (a + d) % N
           u == (a + d) \div N
<1>1. a = N * q + r /\ r \in 0 .. N - 1 /\ q \in Int
  BY DivMod
<1>2. r + d = N * p + s /\ s \in 0 .. N - 1 /\ p \in Int
  BY <1>1, DivMod
<1>3. a + d = N * u + t /\ t \in 0 .. N - 1 /\ u \in Int
  BY <1>1, DivMod
<1> HIDE DEF r, q, s, p, t, u
<1>4. N * (q + p) = N * q + N * p /\ q + p \in Int
  BY <1>1, <1>2
<1>5. N * u + t = N * (q + p) + s
  BY <1>1, <1>2, <1>3, <1>4
<1>6. /\ t \in Int /\ s \in Int /\ u \in Int /\ q + p \in Int
      /\ 0 <= t /\ t < N /\ 0 <= s /\ s < N
  BY <1>2, <1>3, <1>4
<1>7. \A x, y \in Int : N * x + t = N * y + s => t = s
  BY <1>6, DivUnique
<1>8. t = s
  BY <1>5, <1>6, <1>7
<1> QED BY <1>8 DEF s, t, r

\* By how many the handshakes of the nodes change: d for n, nothing for the others.
HandshakesChange(n, d) ==
  \A a \in Node : Cardinality(Handshaking(a)') =
                  Cardinality(Handshaking(a)) + (IF a = n THEN d ELSE 0)

\* The counter stays exact when it changes with the handshakes.
LEMMA CountedStep ==
  ASSUME SoundInv, ConnectingExact, NEW n \in Node, NEW d \in Int, indet' = indet,
         cur_connecting_cnt' = Connecting(n, d), HandshakesChange(n, d)
  PROVE  ConnectingExact'
<1>1. /\ CountMod \in Nat /\ CountMod > 0
      /\ cur_connecting_cnt \in [Node -> 0 .. CountMod - 1] /\ indet \in [Node -> Int]
  BY BoundAssumption DEF SoundInv, TypeOK
<1>2. ASSUME NEW a \in Node
      PROVE  cur_connecting_cnt'[a] = (indet'[a] + Cardinality(Handshaking(a)')) % CountMod
  <2> DEFINE h == Cardinality(Handshaking(a))
             g == Cardinality(Handshaking(a)')
             b == indet[a] + h
  <2>1. h \in Nat /\ indet[a] \in Int /\ b \in Int
    BY <1>1, FinitePages
  <2>2. cur_connecting_cnt[a] = b % CountMod /\ g = h + (IF a = n THEN d ELSE 0)
    BY DEF ConnectingExact, HandshakesChange
  <2> HIDE DEF h, g
  <2>3. CASE a = n
    <3>1. cur_connecting_cnt'[a] = ((b % CountMod) + d) % CountMod
      BY <1>1, <2>2, <2>3 DEF Connecting
    <3>2. ((b % CountMod) + d) % CountMod = (b + d) % CountMod
      BY <1>1, <2>1, ModStep
    <3>3. b + d = indet'[a] + g
      BY <2>1, <2>2, <2>3
    <3> QED BY <3>1, <3>2, <3>3 DEF g
  <2>4. CASE a # n
    <3>1. g = h
      BY <2>1, <2>2, <2>4
    <3> QED BY <1>1, <2>2, <2>4, <3>1 DEF Connecting, g
  <2> QED BY <2>3, <2>4
<1> QED BY <1>2 DEF ConnectingExact

\* A step on the page m, seen from the handshakes of a node.
LEMMA HandshakingOthers ==
  ASSUME NEW m \in My, Only(m), NEW a
  PROVE  Handshaking(a)' \ {m} = Handshaking(a) \ {m}
  BY DEF Only, Handshaking, Allocated

LEMMA HandshakeJoins ==
  ASSUME NEW m \in My, NEW n \in Node, Only(m), cb[m] \notin HsCb,
         node'[m] = n, cb'[m] \in HsCb
  PROVE  HandshakesChange(n, 1)
<1> SUFFICES ASSUME NEW a \in Node
             PROVE  Cardinality(Handshaking(a)') =
                    Cardinality(Handshaking(a)) + (IF a = n THEN 1 ELSE 0)
  BY DEF HandshakesChange
<1>1. m \notin Handshaking(a) /\ (m \in Handshaking(a)' <=> a = n)
  BY DEF Handshaking, Allocated
<1>2. Handshaking(a)' \ {m} = Handshaking(a)
  BY <1>1, HandshakingOthers
<1>3. CASE a = n
  <2>1. Handshaking(a)' = Handshaking(a) \cup {m}
    BY <1>1, <1>2, <1>3
  <2>2. Cardinality(Handshaking(a)') = Cardinality(Handshaking(a)) + 1
    BY <1>1, <2>1, FinitePages, FS_AddElement
  <2> QED BY <1>3, <2>2
<1>4. CASE a # n
  <2>1. Handshaking(a)' = Handshaking(a)
    BY <1>1, <1>2, <1>4
  <2> QED BY <1>4, <2>1, FinitePages
<1> QED BY <1>3, <1>4

LEMMA HandshakeLeaves ==
  ASSUME NEW m \in My, NEW n \in Node, Only(m), cb[m] \in HsCb, node[m] = n,
         cb'[m] \notin HsCb
  PROVE  HandshakesChange(n, -1)
<1> SUFFICES ASSUME NEW a \in Node
             PROVE  Cardinality(Handshaking(a)') =
                    Cardinality(Handshaking(a)) + (IF a = n THEN -1 ELSE 0)
  BY DEF HandshakesChange
<1>1. m \notin Handshaking(a)' /\ (m \in Handshaking(a) <=> a = n)
  BY DEF Handshaking, Allocated
<1>2. Handshaking(a)' = Handshaking(a) \ {m}
  BY <1>1, HandshakingOthers
<1>3. CASE a = n
  <2>1. Cardinality(Handshaking(a)') = Cardinality(Handshaking(a)) - 1
    BY <1>1, <1>2, <1>3, FinitePages, FS_RemoveElement
  <2>2. Cardinality(Handshaking(a)) \in Nat
    BY FinitePages
  <2> QED BY <1>3, <2>1, <2>2
<1>4. CASE a # n
  <2>1. Handshaking(a)' = Handshaking(a)
    BY <1>1, <1>2, <1>4
  <2> QED BY <1>4, <2>1, FinitePages
<1> QED BY <1>3, <1>4

LEMMA HandshakeStays ==
  ASSUME SoundInv, ConnectingExact, NEW m \in My, Only(m),
         UNCHANGED <<cur_connecting_cnt, indet>>,
         \/ cb[m] \notin HsCb /\ cb'[m] \notin HsCb
         \/ cb[m] \in HsCb /\ cb'[m] \in HsCb /\ node'[m] = node[m]
  PROVE  ConnectingExact'
<1>1. ASSUME NEW a \in Node PROVE Handshaking(a)' = Handshaking(a)
  <2>1. m \in Handshaking(a)' <=> m \in Handshaking(a)
    BY DEF Handshaking, Allocated
  <2> QED BY <2>1, HandshakingOthers
<1> QED BY <1>1 DEF ConnectingExact

\* A connection attempt starts a handshake, or fails and starts none.
LEMMA ConnectCounted ==
  ASSUME SoundInv, ConnectingExact, NEW m \in My, NEW n \in Node, Only(m),
         cb[m] \notin HsCb, make_my_conn(m, n), node'[m] = n, indet' = indet
  PROVE  ConnectingExact'
<1>0. cb \in [My -> HsCb \cup PingCb \cup SessionCb \cup {"none"}] /\ "none" \notin HsCb
  BY DEF SoundInv, TypeOK, HsCb
<1>1. CASE cb' = [cb EXCEPT ![m] = "hs1"] /\ cur_connecting_cnt' = Connecting(n, 1)
  <2>1. cb'[m] \in HsCb
    BY <1>0, <1>1 DEF HsCb
  <2> QED BY <1>1, <2>1, HandshakeJoins, CountedStep
<1>2. CASE Closed(m) /\ UNCHANGED cur_connecting_cnt
  <2>1. cb'[m] \notin HsCb
    BY <1>0, <1>2 DEF Closed
  <2> QED BY <1>2, <2>1, HandshakeStays
<1> QED BY <1>1, <1>2 DEF make_my_conn, my_conn_close_on_fail

\* No page in a handshake is on a list, and a page on a list is in no handshake.
LEMMA ListedNotHandshaking ==
  ASSUME SoundInv, NEW m \in My, NEW n \in Node, NEW k \in ListName, IsHead(m, n, k)
  PROVE  cb[m] \notin HsCb /\ node[m] = n
  BY HeadOn, OnOwnList

LEMMA MovesCounted ==
  ASSUME SoundInv, ConnectingExact, NEW m \in My, PageMoves(m)
  PROVE  ConnectingExact'
<1>0. /\ loop.node \in Node /\ NULL \notin Node /\ PageType /\ Only(m)
      /\ "none" \notin HsCb /\ PingCb \cap HsCb = {} /\ SessionCb \cap HsCb = {}
  BY LoopType, TypeSplit, MyAssumption, PageMovesArePageSteps, CbAssumption
     DEF SoundInv, RestType, PageStep, HsCb, PingCb
<1>1. ASSUME NEW n \in Node, my_conn_alloc(m, n)
      PROVE  cb[m] \notin HsCb /\ node'[m] = n
  <2>1. cb[m] = "none"
    BY <1>1 DEF my_conn_alloc, SoundInv, SoundPage, FitsList, Unwatched
  <2> QED BY <1>0, <1>1, <2>1 DEF my_conn_alloc, PageType
<1>2. CASE RegConnect(m)
  BY <1>0, <1>1, <1>2, ConnectCounted DEF RegConnect
<1>3. CASE Retry(m)
  <2>1. loop.fn \in ListName
    BY <1>3 DEF Retry, RetryKind, ListName
  <2>2. cb[m] \notin HsCb /\ node[m] = loop.node
    BY <1>0, <1>3, <2>1, ListedNotHandshaking DEF Retry
  <2> QED BY <1>0, <1>3, <2>2, ConnectCounted DEF Retry
<1>4. ASSUME NEW n \in Node, TryIncrease(m, n) PROVE ConnectingExact'
  BY <1>0, <1>1, <1>4, ConnectCounted DEF TryIncrease
<1>5. CASE PingPrepare(m) \/ PingRelease(m)
  <2>1. cb[m] \notin HsCb
    BY <1>0, <1>5, ListedNotHandshaking DEF PingPrepare, PingRelease, ListName
  <2>2. cb'[m] \in {"ping_req", "none"}
    BY <1>0, <1>5 DEF PingPrepare, PingRelease, my_conn_close_and_release, Closed, PageType
  <2> QED BY <1>0, <1>5, <2>1, <2>2, HandshakeStays
          DEF PingPrepare, PingRelease, PingCb, counters
<1>6. CASE Cleanup(m)
  <2>1. cb[m] \notin HsCb
    BY <1>0, <1>6, CleanupListKind, ListedNotHandshaking DEF Cleanup
  <2>2. cb'[m] = "none"
    BY <1>0, <1>6 DEF Cleanup, my_conn_close_and_release, Closed, PageType
  <2> QED BY <1>0, <1>6, <2>1, <2>2, HandshakeStays DEF Cleanup
<1>7. CASE HsStage(m)
  <2>1. cb[m] \in HsCb /\ cb'[m] \in HsCb
    BY <1>0, <1>7 DEF HsStage, HsCb, PageType
  <2> QED BY <1>0, <1>7, <2>1, HandshakeStays DEF HsStage, counters
<1>8. CASE HsDone(m) \/ HsFail(m)
  <2>1. cb[m] \in HsCb /\ node[m] \in Node /\ cb'[m] = "none"
    BY <1>0, <1>8, OnOwnList
       DEF HsDone, HsFail, HsCb, my_conn_close_on_fail, Closed, PageType
  <2>2. HandshakesChange(node[m], -1)
    BY <1>0, <2>1, HandshakeLeaves
  <2>3. cur_connecting_cnt' = Connecting(node[m], -1) /\ indet' = indet
    BY <1>8 DEF HsDone, HsFail
  <2> PICK n \in Node : n = node[m]
    BY <2>1
  <2>4. cur_connecting_cnt' = Connecting(n, -1) /\ HandshakesChange(n, -1) /\ -1 \in Int
    BY <2>2, <2>3
  <2> QED BY <2>3, <2>4, CountedStep
<1>9. CASE PingReq(m) \/ PingResp(m) \/ PingFail(m)
  <2>1. cb[m] \in PingCb /\ cb'[m] \in PingCb \cup {"none"}
    BY <1>0, <1>9
       DEF PingReq, PingResp, PingFail, PingCb, my_conn_put, my_conn_close, Closed, PageType
  <2> QED BY <1>0, <1>9, <2>1, HandshakeStays DEF PingReq, PingResp, PingFail, counters
<1>10. ASSUME conn[m] # NULL PROVE cb[m] \notin HsCb
  BY <1>10 DEF SoundInv, SoundPage, FitsList
<1>11. CASE Put(m) \/ Close(m)
  <2>1. cb[m] \notin HsCb /\ cb'[m] = "none"
    BY <1>0, <1>10, <1>11 DEF Put, Close, my_conn_put, my_conn_close, Closed, PageType
  <2> QED BY <1>0, <1>11, <2>1, HandshakeStays DEF Put, Close, counters
<1>12. ASSUME NEW c \in Client, NEW n \in Node, SlaveConnGet(c, m, n) PROVE ConnectingExact'
  <2>1. cb[m] \notin HsCb /\ cb'[m] = "none"
    BY <1>0, <1>12, ListedNotHandshaking DEF SlaveConnGet, my_conn_set_used, ListName, PageType
  <2> QED BY <1>0, <1>12, <2>1, HandshakeStays DEF SlaveConnGet, counters
<1>13. ASSUME NEW h \in SessionCb \cup {"none"}, SessionHandler(m, h) PROVE ConnectingExact'
  <2>1. cb[m] \notin HsCb /\ cb'[m] = h
    BY <1>0, <1>10, <1>13 DEF SessionHandler, PageType
  <2> QED BY <1>0, <1>13, <2>1, HandshakeStays DEF SessionHandler, counters
<1>14. ASSUME NEW n \in Node, PingTimeout(m, n) PROVE ConnectingExact'
  <2>1. cb[m] \notin HsCb /\ cb'[m] = "none"
    BY <1>0, <1>14, ListedNotHandshaking
       DEF PingTimeout, my_conn_close_on_fail, Closed, ListName, PageType
  <2> QED BY <1>0, <1>14, <2>1, HandshakeStays DEF PingTimeout, counters
<1> QED BY <1>2, <1>3, <1>4, <1>5, <1>6, <1>7, <1>8, <1>9, <1>11, <1>12, <1>13, <1>14
        DEF PageMoves

LEMMA StillMovesCounted ==
  ASSUME SoundInv, ConnectingExact, StillMoves
  PROVE  ConnectingExact'
<1>1. UNCHANGED <<node, cb>>
  BY StillMovesAreStill
<1>2. UNCHANGED <<cur_connecting_cnt, indet>>
  BY DEF StillMoves, RegDone, RegFail, StartLoop, RetryNextNode, PingNextNode, CleanupDone,
         CleanupSkip, my_unreg, Age, counters, vars
<1> QED BY <1>1, <1>2 DEF ConnectingExact, Handshaking, Allocated

LEMMA InitCounted == my_pool_init => ConnectingExact
<1> SUFFICES ASSUME my_pool_init, NEW n \in Node
             PROVE  cur_connecting_cnt[n] =
                    (indet[n] + Cardinality(Handshaking(n))) % CountMod
  BY DEF ConnectingExact
<1>1. Handshaking(n) = {}
  BY DEF my_pool_init, Handshaking, Allocated, HsCb
<1>2. Cardinality({}) = 0
  BY FS_EmptySet
<1>3. indet[n] \in 0 .. CountMod - 1 /\ cur_connecting_cnt[n] = indet[n]
  BY BoundAssumption DEF my_pool_init
<1> QED BY <1>1, <1>2, <1>3, BoundAssumption

\* cur_connecting_cnt is, modulo its width, what it was before boot and one for
\* every handshake under way: every way out of a handshake counts once.
THEOREM ConnectingCorrect == Spec => []ConnectingExact
<1>1. ASSUME PlaceInv, ConnectingExact, [Next]_vars PROVE ConnectingExact'
  BY <1>1, PlaceIsSound, NextIsMoves, MovesCounted, StillMovesCounted
<1>2. Init => ConnectingExact
  BY InitCounted DEF Init
<1> QED BY <1>1, <1>2, PlaceCorrect, PTL DEF Spec

=============================================================================
