-------------------------------- MODULE Lists --------------------------------
(***************************************************************************)
(* Sequences with elements taken out: what stays of a list of oplib        *)
(* (list.h) when some of its nodes are unlinked, and of a table of servers *)
(* when some of them are left out.                                         *)
(***************************************************************************)
EXTENDS SequencesExt, SequenceTheorems, FiniteSetTheorems, TLAPS

\* The place of i among the places K.
Rank(K, i) == Cardinality({j \in K : j <= i})

\* The elements of s at the places K, in the order of s.
Picked(s, K) == [r \in 1 .. Cardinality(K) |-> s[CHOOSE i \in K : Rank(K, i) = r]]

\* s without the elements of X.
Without(s, X) == Picked(s, {i \in DOMAIN s : s[i] \notin X})

-----------------------------------------------------------------------------
(* What they keep.                                                         *)

\* No two places have the same rank, and every rank is that of a place.
LEMMA RankFacts ==
  ASSUME NEW n \in Nat, NEW K \in SUBSET (1 .. n)
  PROVE  /\ IsFiniteSet(K) /\ Cardinality(K) \in Nat
         /\ \A i \in K : Rank(K, i) \in 1 .. Cardinality(K)
         /\ \A i, j \in K : i < j => Rank(K, i) < Rank(K, j)
         /\ \A r \in 1 .. Cardinality(K) : \E i \in K : Rank(K, i) = r
<1> DEFINE Below(i) == {j \in K : j <= i}
           c == Cardinality(K)
<1>1. IsFiniteSet(K) /\ c \in Nat
  <2>1. IsFiniteSet(1 .. n)
    BY FS_Interval
  <2>2. IsFiniteSet(K)
    BY <2>1, FS_Subset
  <2> QED BY <2>2, FS_CardinalityType
<1>2. ASSUME NEW i \in K
      PROVE  /\ IsFiniteSet(Below(i)) /\ Cardinality(Below(i)) \in 1 .. c
  <2>1. /\ IsFiniteSet(Below(i)) /\ Cardinality(Below(i)) <= c
    BY <1>1, FS_Subset
  <2>2. Cardinality(Below(i)) \in Nat
    BY <2>1, FS_CardinalityType
  <2>3. i \in Below(i)
    OBVIOUS
  <2>4. Cardinality(Below(i)) # 0
    BY <2>1, <2>3, FS_EmptySet
  <2> QED BY <1>1, <2>1, <2>2, <2>4
<1>3. ASSUME NEW i \in K, NEW j \in K, i < j
      PROVE  Cardinality(Below(i)) < Cardinality(Below(j))
  <2>1. Below(i) \in SUBSET Below(j) /\ j \in Below(j) /\ j \notin Below(i)
    <3>1. \A k \in K : k <= i => k <= j
      BY <1>3
    <3>2. j <= j /\ ~(j <= i)
      BY <1>3
    <3> QED BY <3>1, <3>2
  <2>2. Below(i) # Below(j)
    BY <2>1, Zenon
  <2> HIDE DEF Below
  <2>3. Cardinality(Below(i)) <= Cardinality(Below(j))
        /\ Cardinality(Below(i)) # Cardinality(Below(j))
    BY <1>2, <2>1, <2>2, FS_Subset
  <2> QED BY <1>1, <1>2, <2>3
<1>4. ASSUME NEW r \in 1 .. c
      PROVE  \E i \in K : Cardinality(Below(i)) = r
  <2> DEFINE f == [i \in K |-> Cardinality(Below(i))]
  <2>1. f \in [K -> 1 .. c]
    BY <1>2
  <2>2. ASSUME NEW i \in K, NEW j \in K, f[i] = f[j]
        PROVE  i = j
    <3>1. ~(Cardinality(Below(i)) < Cardinality(Below(j)))
          /\ ~(Cardinality(Below(j)) < Cardinality(Below(i)))
      BY <1>1, <1>2, <2>2
    <3>2. ~(i < j) /\ ~(j < i)
      BY <1>3, <3>1
    <3> QED BY <3>2
  <2>3. \A i \in K : f[i] = Cardinality(Below(i))
    OBVIOUS
  <2> HIDE DEF f
  <2>4. f \in Injection(K, 1 .. c)
    BY <2>1, <2>2 DEF Injection, IsInjective
  <2>5. IsFiniteSet(1 .. c) /\ Cardinality(1 .. c) = c
    BY <1>1, FS_Interval
  <2>6. f \in Surjection(K, 1 .. c)
    BY <2>4, <2>5, FS_Injection
  <2> QED BY <2>3, <2>6 DEF Surjection
<1> QED BY <1>1, <1>2, <1>3, <1>4 DEF Rank

\* t has the elements of s at the places K, in their order: the r-th was at
\* place[r].
Places(place, t, s, K) ==
  /\ place \in [DOMAIN t -> K]
  /\ \A r \in DOMAIN t : t[r] = s[place[r]]
  /\ \A i \in K : \E r \in DOMAIN t : place[r] = i
  /\ \A q, r \in DOMAIN t : q < r => place[q] < place[r]

\* Picking keeps the order.
LEMMA PickedFacts ==
  ASSUME NEW S, NEW s \in Seq(S), NEW K \in SUBSET DOMAIN s
  PROVE  Picked(s, K) \in Seq(S) /\ \E place : Places(place, Picked(s, K), s, K)
<1> DEFINE c == Cardinality(K)
           p(r) == CHOOSE i \in K : Rank(K, i) = r
           place == [r \in 1 .. c |-> p(r)]
<1>1. K \in SUBSET (1 .. Len(s)) /\ Len(s) \in Nat /\ DOMAIN s = 1 .. Len(s)
  BY LenProperties
<1>2. /\ c \in Nat
      /\ \A i \in K : Rank(K, i) \in 1 .. c
      /\ \A i, j \in K : i < j => Rank(K, i) < Rank(K, j)
      /\ \A r \in 1 .. c : \E i \in K : Rank(K, i) = r
  BY <1>1, RankFacts
<1>3. \A r \in 1 .. c : p(r) \in K /\ Rank(K, p(r)) = r
  BY <1>2
<1>4. Picked(s, K) = [r \in 1 .. c |-> s[p(r)]]
  BY DEF Picked
<1> HIDE DEF c, p
<1>5. /\ place \in [1 .. c -> K]
      /\ \A r \in 1 .. c : place[r] = p(r)
  BY <1>3
<1>6. /\ Picked(s, K) \in Seq(S) /\ DOMAIN Picked(s, K) = 1 .. c
      /\ \A r \in 1 .. c : Picked(s, K)[r] = s[place[r]]
  <2>1. \A i \in DOMAIN s : s[i] \in S
    BY ElementOfSeq, <1>1
  <2> QED BY <1>1, <1>2, <1>3, <1>4, <2>1
<1>7. ASSUME NEW i \in K
      PROVE  \E r \in 1 .. c : place[r] = i
  <2> DEFINE r == Rank(K, i)
  <2>1. r \in 1 .. c
    BY <1>2
  <2>2. p(r) \in K /\ Rank(K, p(r)) = Rank(K, i)
    BY <1>3, <2>1
  <2> HIDE DEF r
  <2>3. p(r) = i
    <3>1. ~(p(r) < i) /\ ~(i < p(r))
      BY <1>2, <2>2
    <3> QED BY <1>1, <2>2, <3>1
  <2> QED BY <1>5, <2>1, <2>3
<1>8. ASSUME NEW q \in 1 .. c, NEW r \in 1 .. c, q < r
      PROVE  place[q] < place[r]
  <2>1. /\ place[q] \in K /\ Rank(K, place[q]) = q
        /\ place[r] \in K /\ Rank(K, place[r]) = r
    BY <1>3, <1>5
  <2> HIDE DEF place
  <2>2. ~(place[r] < place[q]) /\ place[r] # place[q]
    BY <1>2, <1>8, <2>1
  <2> QED BY <1>1, <2>1, <2>2
<1>9. Places(place, Picked(s, K), s, K)
  BY <1>5, <1>6, <1>7, <1>8 DEF Places
<1> QED BY <1>6, <1>9

\* Without takes out the elements of X and keeps the others, once each where
\* they were there once, in their order.
LEMMA WithoutFacts ==
  ASSUME NEW S, NEW s \in Seq(S), NEW X
  PROVE  /\ Without(s, X) \in Seq(S)
         /\ ToSet(Without(s, X)) = ToSet(s) \ X
         /\ IsInjective(s) => IsInjective(Without(s, X))
         /\ \A q, r \in DOMAIN Without(s, X) :
              q < r => \E i, j \in DOMAIN s :
                         /\ i < j
                         /\ Without(s, X)[q] = s[i] /\ Without(s, X)[r] = s[j]
<1> DEFINE K == {i \in DOMAIN s : s[i] \notin X}
           t == Without(s, X)
<1>0. \A i : i \in K <=> i \in DOMAIN s /\ s[i] \notin X
  OBVIOUS
<1>1. K \in SUBSET DOMAIN s
  OBVIOUS
<1>3. t = Picked(s, K)
  BY DEF Without
<1> HIDE DEF t, K
<1>2. PICK place : t \in Seq(S) /\ Places(place, t, s, K)
  BY <1>1, <1>3, PickedFacts
<1>4. /\ t \in Seq(S) /\ \A r \in DOMAIN t : place[r] \in K /\ t[r] = s[place[r]]
      /\ \A i \in K : \E r \in DOMAIN t : place[r] = i
      /\ \A q, r \in DOMAIN t : q < r => place[q] < place[r]
      /\ DOMAIN t \subseteq Nat /\ K \subseteq Nat
  <2>1. K \subseteq Nat
    BY <1>1, LenProperties
  <2> QED BY <1>2, <2>1, LenProperties DEF Places
<1>5. ToSet(t) = ToSet(s) \ X
  <2>1. ASSUME NEW r \in DOMAIN t
        PROVE  t[r] \in ToSet(s) \ X
    BY <1>0, <1>4 DEF ToSet
  <2>2. ASSUME NEW i \in DOMAIN s, s[i] \notin X
        PROVE  s[i] \in ToSet(t)
    <3>1. PICK r \in DOMAIN t : place[r] = i
      BY <1>0, <1>4, <2>2
    <3> QED BY <1>4, <3>1 DEF ToSet
  <2> QED BY <2>1, <2>2 DEF ToSet
<1>6. ASSUME IsInjective(s), NEW q \in DOMAIN t, NEW r \in DOMAIN t, t[q] = t[r]
      PROVE  q = r
  <2>1. place[q] = place[r]
    BY <1>1, <1>4, <1>6 DEF IsInjective
  <2>2. place[q] \in K /\ K \subseteq Nat
    BY <1>4
  <2>4. ~(place[q] < place[r]) /\ ~(place[r] < place[q])
    <3>1. \A a, b \in Nat : a = b => ~(a < b) /\ ~(b < a)
      OBVIOUS
    <3> QED BY <2>1, <2>2, <3>1
  <2>3. ~(q < r) /\ ~(r < q)
    BY <1>4, <2>4
  <2> QED BY <1>4, <2>3
<1>7. IsInjective(s) => IsInjective(t)
  BY <1>6 DEF IsInjective
<1>8. \A q, r \in DOMAIN t :
        q < r => \E i, j \in DOMAIN s : i < j /\ t[q] = s[i] /\ t[r] = s[j]
  BY <1>1, <1>4
<1> QED BY <1>4, <1>5, <1>7, <1>8 DEF t

\* The first element of a sequence without repetitions is not in the rest.
LEMMA TailFacts ==
  ASSUME NEW S, NEW s \in Seq(S), s # <<>>, IsInjective(s)
  PROVE  /\ Tail(s) \in Seq(S) /\ IsInjective(Tail(s))
         /\ Head(s) \in ToSet(s) /\ ToSet(Tail(s)) = ToSet(s) \ {Head(s)}
<1> DEFINE t == Tail(s)
<1>1. /\ Len(s) \in Nat \ {0} /\ DOMAIN s = 1 .. Len(s) /\ Head(s) = s[1]
      /\ t \in Seq(S) /\ DOMAIN t = 1 .. Len(s) - 1
      /\ \A i \in 1 .. Len(s) - 1 : t[i] = s[i + 1]
  BY HeadTailProperties, EmptySeq, LenProperties
<1> HIDE DEF t
<1>2. IsInjective(t)
  <2> SUFFICES ASSUME NEW i \in DOMAIN t, NEW j \in DOMAIN t, t[i] = t[j]
               PROVE  i = j
    BY DEF IsInjective
  <2>1. s[i + 1] = s[j + 1] /\ i + 1 \in DOMAIN s /\ j + 1 \in DOMAIN s
    BY <1>1
  <2>2. i + 1 = j + 1
    BY <2>1 DEF IsInjective
  <2> QED BY <1>1, <2>2
<1>3. ASSUME NEW i \in DOMAIN t
      PROVE  t[i] \in ToSet(s) \ {Head(s)}
  <2>1. t[i] = s[i + 1] /\ i + 1 \in DOMAIN s /\ 1 \in DOMAIN s /\ i + 1 # 1
    BY <1>1
  <2> QED BY <1>1, <2>1 DEF IsInjective, ToSet
<1>4. ASSUME NEW i \in DOMAIN s, s[i] # Head(s)
      PROVE  s[i] \in ToSet(t)
  <2>1. i # 1 /\ i - 1 \in DOMAIN t /\ t[i - 1] = s[i]
    BY <1>1, <1>4
  <2> QED BY <2>1 DEF ToSet
<1>5. ToSet(t) = ToSet(s) \ {Head(s)}
  BY <1>3, <1>4 DEF ToSet
<1>6. Head(s) \in ToSet(s)
  BY <1>1 DEF ToSet
<1> QED BY <1>1, <1>2, <1>5, <1>6 DEF t
=============================================================================
