---------------------------- MODULE Oplib_proofs ----------------------------
(***************************************************************************)
(* Theorems about the two parts of oplib whose state the relay shares.     *)
(*                                                                         *)
(* The pool of pages, for any number of addresses, pages of a chunk, free  *)
(* chunks kept and pages asked for: the counters are those of the lists, a *)
(* page that is out is backed by a chunk of the pool, and the pool         *)
(* implements PageSet.                                                     *)
(*                                                                         *)
(* The event loop, for any number of descriptors, sessions and callbacks   *)
(* and batches of any length, as long as the table has an entry for every  *)
(* descriptor (NumFd <= hccount).                                          *)
(***************************************************************************)
EXTENDS GenPool, EventLoop, FiniteSetTheorems, TLAPS

-----------------------------------------------------------------------------
(* The pool of pages.                                                      *)

PoolInv == PoolTypeOK /\ CountersExact /\ ChunksFit /\ HeldIsBacked

LEMMA ConstantFacts ==
  /\ PagesPerChunk \in Nat \ {0} /\ MaxFree \in Nat /\ Prealloc \in Nat
  /\ MaxTotal \in Nat /\ Prealloc <= MaxFree
BY SizeAssumption DEF MaxTotal

\* Sets of chunks have a cardinality.
LEMMA ChunksFinite ==
  ASSUME NEW s \in SUBSET Chunk
  PROVE  IsFiniteSet(s) /\ Cardinality(s) \in Nat
BY ChunkAssumption, FS_Subset, FS_CardinalityType

LEMMA AddOne ==
  ASSUME NEW s \in SUBSET Chunk, NEW c \in Chunk \ s
  PROVE  Cardinality(s \cup {c}) = Cardinality(s) + 1
BY ChunksFinite, FS_AddElement

LEMMA RemoveOne ==
  ASSUME NEW s \in SUBSET Chunk, NEW c \in s
  PROVE  Cardinality(s \ {c}) = Cardinality(s) - 1
BY ChunksFinite, FS_RemoveElement

LEMMA AddDisjoint ==
  ASSUME NEW s \in SUBSET Chunk, NEW t \in SUBSET Chunk, s \cap t = {}
  PROVE  Cardinality(s \cup t) = Cardinality(s) + Cardinality(t)
<1>1. Cardinality(s \cap t) = 0
  BY FS_EmptySet
<1>2. Cardinality(s \cup t) = Cardinality(s) + Cardinality(t) - Cardinality(s \cap t)
  BY ChunksFinite, FS_Union
<1> QED BY <1>1, <1>2, ChunksFinite

LEMMA RemovePart ==
  ASSUME NEW s \in SUBSET Chunk, NEW t \in SUBSET s
  PROVE  Cardinality(s \ t) = Cardinality(s) - Cardinality(t)
<1>1. s \cap t = t
  OBVIOUS
<1> QED BY <1>1, ChunksFinite, FS_Difference

\* One chunk at most is being used up, so there is one or none.
LEMMA UsedIsOne ==
  ASSUME PoolInv
  PROVE  /\ used = {} => Cardinality(used) = 0
         /\ \A c \in used : used = {c} /\ Cardinality(used) = 1
<1>1. \A c \in used : used = {c}
  BY DEF PoolInv, ChunksFit, OneUsed
<1> QED BY <1>1, FS_EmptySet, FS_Singleton

LEMMA PoolInitEstablishes ==
  ASSUME GenpoolInit PROVE PoolInv
<1>1. free \subseteq Chunk /\ Cardinality(free) \in Nat
  BY ChunksFinite DEF GenpoolInit
<1>2. PoolTypeOK
  BY <1>1 DEF GenpoolInit, PoolTypeOK, Mem, Index
<1>3. CountersExact
  BY <1>1, FS_EmptySet DEF GenpoolInit, CountersExact
<1>4. ChunksFit
  BY DEF GenpoolInit, ChunksFit, OneList, OneUsed, PagesFit, Owned
<1>5. HeldIsBacked
  BY DEF GenpoolInit, HeldIsBacked, Mem
<1> QED BY <1>2, <1>3, <1>4, <1>5 DEF PoolInv

-----------------------------------------------------------------------------
(* Allocation.                                                             *)

LEMMA AllocPreserves ==
  ASSUME PoolInv, NEW s \in SUBSET Chunk, NEW c \in Chunk, NEW p \in Index,
         genpool_alloc_page(s, c, p)
  PROVE  PoolInv' /\ holders[<<c, p>>] = 0
<1> USE ConstantFacts DEF PoolInv
<1>1. /\ used \subseteq Chunk /\ free \subseteq Chunk /\ full \subseteq Chunk
      /\ used_pages \in [Chunk -> SUBSET Index] /\ free_pages \in [Chunk -> SUBSET Index]
      /\ holders \in [Mem -> Nat] /\ <<c, p>> \in Mem
  BY DEF PoolTypeOK, Mem
<1>2. /\ s \cap Owned = {} /\ Cardinality(s) \in Nat
      /\ free_chunks + Cardinality(s) <= MaxFree
      /\ total_chunks + Cardinality(s) <= MaxTotal
  BY ChunksFinite, FS_EmptySet
     DEF genpool_alloc_page, Grows, AllocChunks, PoolTypeOK, CountersExact
<1>3. /\ FreePages(s) \in [Chunk -> SUBSET Index]
      /\ UsedPages(s) \in [Chunk -> SUBSET Index]
      /\ \A d \in Owned \cup s : FreePages(s)[d] = Index \ UsedPages(s)[d]
      /\ \A d \in free \cup s : UsedPages(s)[d] = {}
      /\ \A d \in used \cup full : UsedPages(s)[d] = used_pages[d]
  BY <1>1, <1>2 DEF FreePages, UsedPages, ChunksFit, PagesFit, Owned
<1>4. /\ p \in FreePages(s)[c]
      /\ free_pages' = [FreePages(s) EXCEPT ![c] = @ \ {p}]
      /\ used_pages' = [UsedPages(s) EXCEPT ![c] = @ \cup {p}]
      /\ free' = (free \cup s) \ {c}
      /\ free_chunks' = free_chunks + Cardinality(s) - Taken
      /\ total_chunks' = total_chunks + Cardinality(s)
      /\ holders' = [holders EXCEPT ![<<c, p>>] = @ + 1]
      /\ live' = live
  BY DEF genpool_alloc_page
<1>5. \/ /\ used = {c} /\ c \notin free \cup s /\ c \notin full
      \/ /\ used = {} /\ c \in free \cup s /\ c \notin full
  <2>1. Current(c, s)
    BY DEF genpool_alloc_page
  <2> QED BY <2>1, <1>2, UsedIsOne DEF Current, ChunksFit, OneList, Owned
<1>6. \/ used' = {} /\ full' = full \cup {c} /\ free_pages'[c] = {}
      \/ used' = {c} /\ full' = full /\ free_pages'[c] # {}
  BY <1>5 DEF genpool_alloc_page, Filled
<1>7. holders[<<c, p>>] = 0
  <2>1. CASE used = {c}
    BY <1>3, <1>4, <1>5, <2>1 DEF HeldIsBacked, Owned
  <2>2. CASE used = {}
    BY <1>2, <1>5, <2>2 DEF HeldIsBacked, ChunksFit, OneList, Owned
  <2> QED BY <1>5, <2>1, <2>2
<1>8. /\ Cardinality(used') + Cardinality(full') = Cardinality(used) + Cardinality(full) + Taken
      /\ Cardinality(free') = Cardinality(free) + Cardinality(s) - Taken
  <2>1. free \cup s \in SUBSET Chunk
        /\ Cardinality(free \cup s) = Cardinality(free) + Cardinality(s)
    BY <1>1, <1>2, AddDisjoint DEF Owned
  <2>2. Cardinality(full \cup {c}) = Cardinality(full) + 1
    BY <1>1, <1>5, AddOne
  <2>3. Cardinality({}) = 0 /\ Cardinality({c}) = 1
    BY FS_EmptySet, FS_Singleton
  <2>4. /\ Cardinality(free) \in Nat /\ Cardinality(full) \in Nat
    BY <1>1, ChunksFinite
  <2>5. Cardinality(used') + Cardinality(full') = 1 + Cardinality(full)
    <3>1. CASE used' = {} /\ full' = full \cup {c}
      <4>1. Cardinality(used') = 0
        BY <2>3, <3>1
      <4>2. Cardinality(full') = Cardinality(full) + 1
        BY <2>2, <3>1
      <4> QED BY <2>4, <4>1, <4>2
    <3>2. CASE used' = {c} /\ full' = full
      <4>1. Cardinality(used') = 1
        BY <2>3, <3>2
      <4>2. Cardinality(full') = Cardinality(full)
        BY <3>2
      <4> QED BY <2>4, <4>1, <4>2
    <3> QED BY <1>6, <3>1, <3>2
  <2>6. CASE used = {c}
    <3>1. Taken = 0 /\ free' = free \cup s
      BY <1>4, <1>5, <2>6 DEF Taken
    <3>2. Cardinality(used) = 1
      BY <2>3, <2>6
    <3> QED BY <1>2, <2>1, <2>4, <2>5, <3>1, <3>2
  <2>7. CASE used = {} /\ c \in free \cup s
    <3>1. Taken = 1
      BY <2>7 DEF Taken
    <3>2. Cardinality((free \cup s) \ {c}) = Cardinality(free \cup s) - 1
      BY <2>1, <2>7, RemoveOne
    <3>3. Cardinality(free') = Cardinality(free) + Cardinality(s) - 1
      BY <1>2, <1>4, <2>1, <2>4, <3>2
    <3>4. Cardinality(used) = 0
      BY <2>3, <2>7
    <3> QED BY <1>2, <2>4, <2>5, <3>1, <3>3, <3>4
  <2> QED BY <1>5, <2>6, <2>7
<1>9. PoolTypeOK'
  <2>1. used' \subseteq Chunk /\ free' \subseteq Chunk /\ full' \subseteq Chunk
    BY <1>1, <1>4, <1>6
  <2>2. used_pages' \in [Chunk -> SUBSET Index] /\ free_pages' \in [Chunk -> SUBSET Index]
    BY <1>3, <1>4
  <2>3. holders' \in [Mem -> Nat]
    BY <1>1, <1>4
  <2>4. free_chunks' = Cardinality(free') /\ total_chunks' \in Nat
    BY <1>2, <1>4, <1>8 DEF CountersExact, PoolTypeOK
  <2> QED BY <1>4, <2>1, <2>2, <2>3, <2>4, ChunksFinite DEF PoolTypeOK
<1>10. CountersExact'
  <2>1. free_chunks' = Cardinality(free')
    BY <1>2, <1>4, <1>8 DEF CountersExact, PoolTypeOK
  <2>2. /\ Cardinality(used') \in Nat /\ Cardinality(full') \in Nat /\ Cardinality(free') \in Nat
        /\ Cardinality(used) \in Nat /\ Cardinality(full) \in Nat /\ Cardinality(free) \in Nat
    BY <1>1, <1>9, ChunksFinite DEF PoolTypeOK
  <2>3. Taken \in {0, 1}
    BY DEF Taken
  <2>4. total_chunks = Cardinality(used) + Cardinality(free) + Cardinality(full)
    BY DEF CountersExact
  <2>5. total_chunks' = Cardinality(used') + Cardinality(free') + Cardinality(full')
    BY <1>2, <1>4, <1>8, <2>2, <2>3, <2>4
  <2>6. free_chunks' <= MaxFree /\ total_chunks' <= MaxTotal
    BY <1>2, <1>4, <2>3 DEF PoolTypeOK
  <2> QED BY <2>1, <2>5, <2>6 DEF CountersExact
<1>11. ChunksFit'
  <2>1. OneList' /\ OneUsed'
    BY <1>2, <1>4, <1>5, <1>6 DEF ChunksFit, OneList, OneUsed, Owned
  <2>2. Owned' = Owned \cup s
    BY <1>4, <1>5, <1>6 DEF Owned
  <2>3. \A d \in Owned' : free_pages'[d] = Index \ used_pages'[d]
    BY <1>1, <1>3, <1>4, <2>2 DEF Owned
  <2>4. \A d \in used' : free_pages'[d] # {}
    BY <1>6
  <2>5. \A d \in used' \cup full' : used_pages'[d] # {}
    BY <1>1, <1>3, <1>4, <1>5, <1>6 DEF ChunksFit, PagesFit
  <2>6. \A d \in free' : used_pages'[d] = {}
    BY <1>1, <1>3, <1>4
  <2> QED BY <2>1, <2>3, <2>4, <2>5, <2>6 DEF ChunksFit, PagesFit
<1>12. HeldIsBacked'
  <2>1. SUFFICES ASSUME NEW d \in Chunk, NEW q \in Index
                 PROVE  holders'[<<d, q>>] =
                          IF d \in used' \cup full' /\ q \in used_pages'[d] THEN 1 ELSE 0
    BY DEF HeldIsBacked
  <2>2. CASE d = c
    <3>1. c \in used' \cup full'
      BY <1>6
    <3>2. used_pages'[c] = UsedPages(s)[c] \cup {p}
      BY <1>3, <1>4
    <3>3. holders[<<c, q>>] = IF q \in UsedPages(s)[c] THEN 1 ELSE 0
      BY <1>2, <1>3, <1>5 DEF HeldIsBacked, ChunksFit, OneList, Owned
    <3>4. holders'[<<c, q>>] = IF q = p THEN 1 ELSE holders[<<c, q>>]
      BY <1>1, <1>4, <1>7 DEF Mem
    <3> QED BY <2>2, <3>1, <3>2, <3>3, <3>4
  <2>3. CASE d # c
    <3>1. d \in used' \cup full' <=> d \in used \cup full
      BY <1>5, <1>6, <2>3
    <3>2. d \in used \cup full => used_pages'[d] = used_pages[d]
      BY <1>3, <1>4, <2>3
    <3>3. holders'[<<d, q>>] = holders[<<d, q>>]
      BY <1>1, <1>4, <2>3 DEF Mem
    <3> QED BY <3>1, <3>2, <3>3 DEF HeldIsBacked
  <2> QED BY <2>2, <2>3
<1> QED BY <1>7, <1>9, <1>10, <1>11, <1>12

-----------------------------------------------------------------------------
(* Release.                                                                *)

\* A page that is out is on the pages used of a chunk of the pool.
LEMMA HeldFacts ==
  ASSUME PoolInv, NEW c \in Chunk, NEW p \in Index, holders[<<c, p>>] > 0
  PROVE  /\ c \in used \cup full /\ c \notin free /\ p \in used_pages[c]
         /\ holders[<<c, p>>] = 1
BY DEF PoolInv, HeldIsBacked, ChunksFit, OneList

\* The chunk is kept as a free one, or given back to the system at once.
LEMMA ReleaseChunkFacts ==
  ASSUME PoolInv, NEW c \in used \cup full, ReleaseChunk(c)
  PROVE  /\ used' = used \ {c} /\ full' = full \ {c}
         /\ \/ /\ free' = free \cup {c} /\ free_chunks' = free_chunks + 1
               /\ free_chunks + 1 <= MaxFree /\ total_chunks' = total_chunks
            \/ /\ free' = free /\ free_chunks' = free_chunks
               /\ total_chunks' = total_chunks - 1
<1> USE ConstantFacts DEF PoolInv
<1>1. /\ free \subseteq Chunk /\ c \in Chunk \ free
      /\ free_chunks \in Nat /\ total_chunks \in Nat /\ free_chunks <= MaxFree
  BY DEF PoolTypeOK, ChunksFit, OneList, CountersExact
<1>2. PICK gone \in SUBSET (free \cup {c}) :
        /\ Cardinality(gone) =
             IF free_chunks + 1 > MaxFree THEN free_chunks + 1 - MaxFree ELSE 0
        /\ gone # {} => c \in gone
        /\ used' = used \ {c} /\ full' = full \ {c}
        /\ free' = (free \cup {c}) \ gone
        /\ free_chunks' = free_chunks + 1 - Cardinality(gone)
        /\ total_chunks' = total_chunks - Cardinality(gone)
  BY DEF ReleaseChunk, SurplusFreed
<1>3. IsFiniteSet(gone)
  BY <1>1, ChunksFinite
<1>4. CASE free_chunks + 1 > MaxFree
  <2>1. Cardinality(gone) = 1
    BY <1>1, <1>2, <1>4
  <2>2. gone # {}
    BY <2>1, FS_EmptySet
  <2>3. gone = {c}
    BY <1>2, <1>3, <2>1, <2>2, FS_Singleton
  <2> QED BY <1>1, <1>2, <2>1, <2>3
<1>5. CASE ~(free_chunks + 1 > MaxFree)
  <2>1. Cardinality(gone) = 0
    BY <1>2, <1>5
  <2>2. gone = {}
    BY <1>3, <2>1, FS_EmptySet
  <2> QED BY <1>1, <1>2, <1>5, <2>1, <2>2
<1> QED BY <1>4, <1>5

LEMMA ReleasePreserves ==
  ASSUME PoolInv, NEW c \in Chunk, NEW p \in Index, genpool_release_page(c, p)
  PROVE  PoolInv'
<1> USE ConstantFacts DEF PoolInv
<1>1. /\ used \subseteq Chunk /\ free \subseteq Chunk /\ full \subseteq Chunk
      /\ used_pages \in [Chunk -> SUBSET Index] /\ free_pages \in [Chunk -> SUBSET Index]
      /\ free_chunks \in Nat /\ total_chunks \in Nat
      /\ holders \in [Mem -> Nat] /\ <<c, p>> \in Mem
      /\ live \in BOOLEAN
  BY DEF PoolTypeOK, Mem
<1>2. /\ used_pages' = [used_pages EXCEPT ![c] = @ \ {p}]
      /\ free_pages' = [free_pages EXCEPT ![c] = @ \cup {p}]
      /\ holders' = [holders EXCEPT ![<<c, p>>] = @ - 1]
      /\ live' = live /\ holders[<<c, p>>] > 0
  BY DEF genpool_release_page
<1>3. /\ c \in used \cup full /\ c \notin free /\ p \in used_pages[c]
      /\ holders[<<c, p>>] = 1
  BY <1>2, HeldFacts
<1>4. /\ used_pages' \in [Chunk -> SUBSET Index] /\ free_pages' \in [Chunk -> SUBSET Index]
      /\ holders' \in [Mem -> Nat]
  BY <1>1, <1>2, <1>3
<1>5. \A d \in Owned : free_pages'[d] = Index \ used_pages'[d]
  BY <1>1, <1>2 DEF ChunksFit, PagesFit, Owned
<1>6. \A d \in Chunk, q \in Index :
        holders'[<<d, q>>] = IF d \in used \cup full /\ q \in used_pages'[d] THEN 1 ELSE 0
  <2>1. ASSUME NEW d \in Chunk, NEW q \in Index, d # c \/ q # p
        PROVE  /\ holders'[<<d, q>>] = holders[<<d, q>>]
               /\ q \in used_pages'[d] <=> q \in used_pages[d]
    BY <1>1, <1>2, <2>1 DEF Mem
  <2>2. holders'[<<c, p>>] = 0 /\ p \notin used_pages'[c]
    BY <1>1, <1>2, <1>3
  <2>3. ASSUME NEW d \in Chunk, NEW q \in Index
        PROVE  holders'[<<d, q>>] =
                 IF d \in used \cup full /\ q \in used_pages'[d] THEN 1 ELSE 0
    <3>1. CASE d = c /\ q = p
      BY <2>2, <3>1
    <3>2. CASE d # c \/ q # p
      BY <2>1, <3>2 DEF HeldIsBacked
    <3> QED BY <3>1, <3>2
  <2> QED BY <2>3
<1>7. CASE ~LastPage(c, p)
  <2>1. UNCHANGED <<lists, counts>>
    BY <1>7 DEF genpool_release_page
  <2>2. used_pages'[c] # {}
    BY <1>1, <1>2, <1>7 DEF LastPage
  <2>3. PoolTypeOK' /\ CountersExact'
    BY <1>1, <1>2, <1>4, <2>1 DEF lists, counts, PoolTypeOK, CountersExact
  <2>4. ChunksFit'
    <3>1. OneList' /\ OneUsed'
      BY <2>1 DEF lists, ChunksFit, OneList, OneUsed
    <3>2. \A d \in used' : free_pages'[d] # {}
      BY <1>1, <1>2, <2>1 DEF lists, ChunksFit, PagesFit
    <3>3. \A d \in used' \cup full' : used_pages'[d] # {}
      BY <1>1, <1>2, <2>1, <2>2 DEF lists, ChunksFit, PagesFit
    <3>4. \A d \in free' : used_pages'[d] = {}
      BY <1>1, <1>2, <1>3, <2>1 DEF lists, ChunksFit, PagesFit
    <3> QED BY <1>5, <2>1, <3>1, <3>2, <3>3, <3>4 DEF lists, ChunksFit, PagesFit, Owned
  <2>5. HeldIsBacked'
    BY <1>6, <2>1 DEF lists, HeldIsBacked
  <2> QED BY <2>3, <2>4, <2>5
<1>8. CASE LastPage(c, p)
  <2>1. ReleaseChunk(c)
    BY <1>8 DEF genpool_release_page
  <2>2. /\ used' = used \ {c} /\ full' = full \ {c}
        /\ \/ /\ free' = free \cup {c} /\ free_chunks' = free_chunks + 1
              /\ free_chunks + 1 <= MaxFree /\ total_chunks' = total_chunks
           \/ /\ free' = free /\ free_chunks' = free_chunks
              /\ total_chunks' = total_chunks - 1
    BY <1>3, <2>1, ReleaseChunkFacts
  <2>3. used_pages'[c] = {}
    BY <1>1, <1>2, <1>8 DEF LastPage
  <2>4. /\ Cardinality(used') + Cardinality(full') = Cardinality(used) + Cardinality(full) - 1
        /\ Cardinality(used) \in Nat /\ Cardinality(full) \in Nat /\ Cardinality(free) \in Nat
        /\ Cardinality(used') \in Nat /\ Cardinality(full') \in Nat
    <3>1. used' \in SUBSET Chunk /\ full' \in SUBSET Chunk
      BY <1>1, <2>2
    <3>2. CASE c \in used
      <4>1. full' = full
        BY <2>2, <3>2 DEF ChunksFit, OneList
      <4>2. Cardinality(used') = Cardinality(used) - 1
        BY <1>1, <2>2, <3>2, RemoveOne
      <4> QED BY <1>1, <3>1, <4>1, <4>2, ChunksFinite
    <3>3. CASE c \in full
      <4>1. used' = used
        BY <2>2, <3>3 DEF ChunksFit, OneList
      <4>2. Cardinality(full') = Cardinality(full) - 1
        BY <1>1, <2>2, <3>3, RemoveOne
      <4> QED BY <1>1, <3>1, <4>1, <4>2, ChunksFinite
    <3> QED BY <1>3, <3>2, <3>3
  <2>5. Cardinality(free \cup {c}) = Cardinality(free) + 1
    BY <1>1, <1>3, AddOne
  <2>6. /\ free_chunks = Cardinality(free) /\ free_chunks <= MaxFree
        /\ total_chunks = Cardinality(used) + Cardinality(free) + Cardinality(full)
        /\ total_chunks <= MaxTotal
    BY DEF CountersExact
  <2>7. /\ free_chunks' = Cardinality(free') /\ free_chunks' <= MaxFree
        /\ free_chunks' \in Nat
    <3>1. CASE free' = free \cup {c} /\ free_chunks' = free_chunks + 1
               /\ free_chunks + 1 <= MaxFree
      <4>1. Cardinality(free') = free_chunks + 1
        BY <2>5, <2>6, <3>1
      <4> QED BY <1>1, <3>1, <4>1
    <3>2. CASE free' = free /\ free_chunks' = free_chunks
      BY <1>1, <2>6, <3>2
    <3> QED BY <2>2, <3>1, <3>2
  <2>8. /\ total_chunks' = Cardinality(used') + Cardinality(free') + Cardinality(full')
        /\ total_chunks' <= MaxTotal /\ total_chunks' \in Nat
    <3>1. CASE free' = free \cup {c} /\ total_chunks' = total_chunks
      BY <1>1, <2>4, <2>5, <2>6, <3>1
    <3>2. CASE free' = free /\ total_chunks' = total_chunks - 1
      BY <1>1, <2>4, <2>6, <3>2
    <3> QED BY <2>2, <3>1, <3>2
  <2>9. PoolTypeOK' /\ CountersExact'
    BY <1>1, <1>2, <1>4, <2>2, <2>7, <2>8 DEF PoolTypeOK, CountersExact
  <2>10. ChunksFit'
    <3>1. OneList' /\ OneUsed'
      BY <2>2 DEF ChunksFit, OneList, OneUsed
    <3>2. Owned' \subseteq Owned
      BY <1>3, <2>2 DEF Owned
    <3>3. \A d \in used' : free_pages'[d] # {}
      BY <1>1, <1>2, <2>2 DEF ChunksFit, PagesFit
    <3>4. \A d \in used' \cup full' : used_pages'[d] # {}
      BY <1>1, <1>2, <2>2 DEF ChunksFit, PagesFit
    <3>5. \A d \in free' : used_pages'[d] = {}
      BY <1>1, <1>2, <2>2, <2>3 DEF ChunksFit, PagesFit
    <3> QED BY <1>5, <3>1, <3>2, <3>3, <3>4, <3>5 DEF ChunksFit, PagesFit
  <2>11. HeldIsBacked'
    BY <1>6, <2>2, <2>3 DEF HeldIsBacked
  <2> QED BY <2>9, <2>10, <2>11
<1> QED BY <1>7, <1>8

LEMMA DestroyPreserves ==
  ASSUME PoolInv, genpool_destroy
  PROVE  PoolInv'
<1> USE ConstantFacts DEF PoolInv
<1>1. /\ used' = {} /\ free' = {} /\ full' = {} /\ free_chunks' = 0
      /\ total_chunks' = 0
      /\ holders' = [x \in Mem |-> 0]
      /\ UNCHANGED pages /\ live' = FALSE
  <2>1. total_chunks' = total_chunks
                          - (Cardinality(used) + Cardinality(free) + Cardinality(full))
    BY DEF genpool_destroy
  <2> QED BY <2>1, ChunksFinite DEF genpool_destroy, CountersExact, PoolTypeOK
<1>2. PoolTypeOK'
  BY <1>1 DEF PoolTypeOK, pages
<1>3. CountersExact'
  BY <1>1, FS_EmptySet DEF CountersExact
<1>4. ChunksFit'
  BY <1>1 DEF ChunksFit, OneList, OneUsed, PagesFit, Owned
<1>5. HeldIsBacked'
  BY <1>1 DEF HeldIsBacked, Mem
<1> QED BY <1>2, <1>3, <1>4, <1>5

LEMMA PoolStepPreserves ==
  ASSUME PoolInv, [PoolNext]_poolVars
  PROVE  PoolInv'
<1>1. CASE UNCHANGED poolVars
  BY <1>1 DEF poolVars, lists, pages, counts, PoolInv, PoolTypeOK, CountersExact, ChunksFit,
              OneList, OneUsed, PagesFit, Owned, HeldIsBacked
<1>2. CASE PoolNext
  BY <1>2, AllocPreserves, ReleasePreserves, DestroyPreserves DEF PoolNext
<1> QED BY <1>1, <1>2

-----------------------------------------------------------------------------
\* The inductive invariant: the lists, the counters and the pages out agree.
THEOREM PoolInvCorrect == PoolSpec => []PoolInv
<1>1. GenpoolInit => PoolInv
  BY PoolInitEstablishes
<1>2. PoolInv /\ [PoolNext]_poolVars => PoolInv'
  BY PoolStepPreserves
<1> QED BY <1>1, <1>2, PTL DEF PoolSpec

\* Type correctness of the pool of pages; its unsigned counters never wrap.
THEOREM PoolTypeCorrect == PoolSpec => []PoolTypeOK
<1>1. PoolInv => PoolTypeOK
  BY DEF PoolInv
<1> QED BY <1>1, PoolInvCorrect, PTL

\* The counters that decide about growing and giving back (genpool.c:63, 117,
\* 221) are those of the lists, within their limits.
THEOREM CountersCorrect == PoolSpec => []CountersExact
<1>1. PoolInv => CountersExact
  BY DEF PoolInv
<1> QED BY <1>1, PoolInvCorrect, PTL

\* A chunk is on one list, and its pages are where that list says.
THEOREM ChunksFitCorrect == PoolSpec => []ChunksFit
<1>1. PoolInv => ChunksFit
  BY DEF PoolInv
<1> QED BY <1>1, PoolInvCorrect, PTL

\* A page that is out lies in a chunk the pool keeps, once.
THEOREM HeldIsBackedCorrect == PoolSpec => []HeldIsBacked
<1>1. PoolInv => HeldIsBacked
  BY DEF PoolInv
<1> QED BY <1>1, PoolInvCorrect, PTL

-----------------------------------------------------------------------------
(* Refinement.                                                             *)

\* With a page to hand out, fewer are out than the chunks allowed hold.
LEMMA RoomLeft ==
  ASSUME PoolInv, PoolInv', NEW x \in Mem, holders[x] = 0, holders'[x] > 0,
         \A y \in Mem : holders[y] > 0 => holders'[y] > 0
  PROVE  Cardinality(Held) < MaxTotal * PagesPerChunk
<1> USE ConstantFacts
<1>1. used' \cup full' \in SUBSET Chunk /\ Index = 1 .. PagesPerChunk
  BY DEF PoolInv, PoolTypeOK, Index
<1>2. IsFiniteSet(Index) /\ Cardinality(Index) = PagesPerChunk
  BY FS_Interval DEF Index
<1>3. Held' \subseteq (used' \cup full') \X Index
  BY DEF Held, Mem, PoolInv, HeldIsBacked
<1>4. Held \in SUBSET Held' /\ x \in Held' \ Held
  BY DEF Held
<1>5. /\ IsFiniteSet((used' \cup full') \X Index)
      /\ Cardinality((used' \cup full') \X Index)
           = Cardinality(used' \cup full') * PagesPerChunk
  BY <1>1, <1>2, ChunksFinite, FS_Product
<1>6. Cardinality(used' \cup full') \in Nat /\ Cardinality(used' \cup full') <= MaxTotal
  <2>1. Cardinality(used' \cup full') = Cardinality(used') + Cardinality(full')
    BY AddDisjoint DEF PoolInv, PoolTypeOK, ChunksFit, OneList
  <2> QED BY <1>1, <2>1, ChunksFinite DEF PoolInv, PoolTypeOK, CountersExact
<1>7. Cardinality(used' \cup full') * PagesPerChunk <= MaxTotal * PagesPerChunk
  BY <1>6
<1>8. IsFiniteSet(Held') /\ Cardinality(Held') <= MaxTotal * PagesPerChunk
      /\ Cardinality(Held') \in Nat
  BY <1>3, <1>5, <1>6, <1>7, FS_Subset, FS_CardinalityType
<1>9. Cardinality(Held) < Cardinality(Held') /\ Cardinality(Held) \in Nat
  BY <1>4, <1>8, FS_Subset, FS_CardinalityType
<1> QED BY <1>6, <1>8, <1>9

LEMMA StepRefines ==
  ASSUME PoolInv, [PoolNext]_poolVars
  PROVE  [\/ PageSet!Discard
          \/ \E x \in Mem : PageSet!HandOut(x) \/ PageSet!GiveBack(x)]_holders
<1>1. PoolInv'
  BY PoolStepPreserves
<1>2. holders \in [Mem -> Nat]
  BY DEF PoolInv, PoolTypeOK
<1>3. ASSUME NEW s \in SUBSET Chunk, NEW c \in Chunk, NEW p \in Index,
             genpool_alloc_page(s, c, p)
      PROVE  \E x \in Mem : PageSet!HandOut(x)
  <2>1. holders[<<c, p>>] = 0 /\ <<c, p>> \in Mem
    BY <1>3, AllocPreserves DEF Mem
  <2>2. holders' = [holders EXCEPT ![<<c, p>>] = 1]
    BY <1>2, <1>3, <2>1 DEF genpool_alloc_page
  <2>3. Cardinality(Held) < MaxTotal * PagesPerChunk
    BY <1>1, <1>2, <2>1, <2>2, RoomLeft
  <2>4. PageSet!Held = Held
    BY DEF Held, PageSet!Held
  <2>5. PageSet!HandOut(<<c, p>>)
    <3>1. PageSet!Cardinality(PageSet!Held) = Cardinality(PageSet!Held)
      BY DEF PageSet!Cardinality, Cardinality, PageSet!IsFiniteSet, IsFiniteSet
    <3> QED BY <2>1, <2>2, <2>3, <2>4, <3>1 DEF PageSet!HandOut
  <2> QED BY <2>1, <2>5
<1>4. ASSUME NEW c \in Chunk, NEW p \in Index, genpool_release_page(c, p)
      PROVE  \E x \in Mem : PageSet!GiveBack(x)
  <2>1. holders[<<c, p>>] = 1 /\ <<c, p>> \in Mem
    BY <1>4, HeldFacts DEF genpool_release_page, Mem
  <2>2. holders' = [holders EXCEPT ![<<c, p>>] = 0]
    BY <1>2, <1>4, <2>1 DEF genpool_release_page
  <2> QED BY <2>1, <2>2 DEF PageSet!GiveBack
<1>5. CASE genpool_destroy
  BY <1>5 DEF genpool_destroy, PageSet!Discard
<1>6. CASE UNCHANGED poolVars
  BY <1>6 DEF poolVars
<1> QED BY <1>3, <1>4, <1>5, <1>6 DEF PoolNext

\* The pool implements PageSet: a page is one holder's until it is given back.
THEOREM ImplementsPageSetCorrect == PoolSpec => ImplementsPageSet
<1>1. GenpoolInit => PageSet!HeldInit
  BY DEF GenpoolInit, PageSet!HeldInit
<1>2. PoolInv /\ [PoolNext]_poolVars
        => [\/ PageSet!Discard
            \/ \E x \in Mem : PageSet!HandOut(x) \/ PageSet!GiveBack(x)]_holders
  BY StepRefines
<1> QED BY <1>1, <1>2, PoolInvCorrect, PTL
        DEF PoolSpec, ImplementsPageSet, PageSet!PageSetSpec

-----------------------------------------------------------------------------
(* The event loop.                                                         *)

Entries == [callback : Callback \cup {NULL}, arg : Arg \cup {NULL}, fd : Fd \cup {-1}]

\* Each event of the batch points into the table.
EventInv ==
  /\ EventTypeOK
  /\ TableExact
  /\ events \in Seq([fd : Fd, was : Entries])

LEMMA FunctionIsSeq ==
  ASSUME NEW S, NEW n \in Nat, NEW f \in [1 .. n -> S]
  PROVE  f \in Seq(S) /\ Len(f) = n
OBVIOUS

LEMMA HeadInSet ==
  ASSUME NEW S, NEW s \in Seq(S), s # <<>>
  PROVE  Head(s) \in S
OBVIOUS

LEMMA LoopInitEstablishes ==
  ASSUME NumFd <= hccount, EventInit
  PROVE  EventInv
<1> USE FdAssumption, ArgAssumption
<1>1. \A fd \in Fd : hcptr[fd] = Empty
  BY DEF EventInit, Fd
<1>2. hcptr \in [Fd -> Entries]
  BY <1>1 DEF EventInit, Entries, Empty
<1>3. EventTypeOK
  BY <1>2 DEF EventInit, EventTypeOK, Entries
<1>4. TableExact
  BY <1>1 DEF EventInit, TableExact, Empty, Fd
<1> QED BY <1>3, <1>4 DEF EventInit, EventInv

LEMMA LoopStepPreserves ==
  ASSUME EventInv, [EventNext]_loopVars
  PROVE  EventInv'
<1> USE FdAssumption, ArgAssumption
<1>1. /\ owner \in [Fd -> Arg \cup {NULL}] /\ hcptr \in [Fd -> Entries]
      /\ interest \subseteq Fd
      /\ Len(events) <= MaxEvent
      /\ phase \in {"wait", "batch", "callback", "timer"}
      /\ events \in Seq([fd : Fd, was : Entries])
  BY DEF EventInv, EventTypeOK, Entries
<1>2. Empty \in Entries
  BY DEF Empty, Entries
<1>3. SUFFICES /\ owner' \in [Fd -> Arg \cup {NULL}] /\ hcptr' \in [Fd -> Entries]
               /\ interest' \subseteq Fd
               /\ Len(events') <= MaxEvent
               /\ phase' \in {"wait", "batch", "callback", "timer"}
               /\ events' \in Seq([fd : Fd, was : Entries])
               /\ TableExact'
  BY DEF EventInv, EventTypeOK, Entries
<1>4. CASE UNCHANGED loopVars
  BY <1>1, <1>4 DEF loopVars, TableExact, EventInv
<1>5. ASSUME NEW fd \in Fd, NEW o \in Arg, OpenSocket(o, fd)
      PROVE  <1>3!1
  BY <1>1, <1>5 DEF OpenSocket, LowestFree, TableExact, EventInv
<1>6. ASSUME NEW fd \in Fd, NEW cb \in Callback, add_handler(fd, cb)
      PROVE  <1>3!1
  <2>1. [callback |-> cb, arg |-> owner[fd], fd |-> fd] \in Entries
    BY <1>1 DEF Entries
  <2>2. TableExact'
    BY <1>1, <1>6, <2>1 DEF add_handler, TableExact, EventInv, Entries
  <2> QED BY <1>1, <1>6, <2>1, <2>2 DEF add_handler
<1>7. ASSUME NEW fd \in Fd, AddFails(fd) \/ del_handler(fd)
      PROVE  <1>3!1
  <2>1. TableExact'
    BY <1>1, <1>2, <1>7 DEF AddFails, del_handler, Cleared, TableExact, EventInv, Empty, Fd
  <2> QED BY <1>1, <1>2, <1>7, <2>1 DEF AddFails, del_handler, Cleared
<1>8. ASSUME NEW fd \in Fd, CloseSocket(fd)
      PROVE  <1>3!1
  <2>1. TableExact'
    BY <1>1, <1>2, <1>8 DEF CloseSocket, Cleared, TableExact, EventInv, Empty, Fd
  <2> QED BY <1>1, <1>2, <1>8, <2>1 DEF CloseSocket, Cleared
<1>9. ASSUME NEW s \in SeqOf(Fd, NumFd), EpollWait(s)
      PROVE  <1>3!1
  <2>1. PICK n \in Nat : s \in [1 .. n -> Fd]
    BY DEF SeqOf
  <2>2. DOMAIN s = 1 .. n /\ Len(s) = n
    BY <2>1
  <2>3. \A i \in 1 .. n : [fd |-> s[i], was |-> hcptr[s[i]]] \in [fd : Fd, was : Entries]
    BY <1>1, <2>1
  <2>4. events' \in [1 .. n -> [fd : Fd, was : Entries]]
    BY <1>9, <2>2, <2>3 DEF EpollWait
  <2>5. /\ events' \in Seq([fd : Fd, was : Entries])
        /\ Len(events') = Len(s)
    BY <2>1, <2>2, <2>4, FunctionIsSeq
  <2> QED BY <1>1, <1>9, <2>5 DEF EpollWait, Fits, TableExact, EventInv
<1>10. CASE Deliver
  <2>1. events' \in Seq([fd : Fd, was : Entries]) /\ Len(events') <= Len(events)
    BY <1>1, <1>10 DEF Deliver
  <2> QED BY <1>1, <1>10, <2>1 DEF Deliver, TableExact, EventInv
<1>11. CASE Return \/ RunTimers \/ TimersDone
  BY <1>1, <1>11 DEF Return, RunTimers, TimersDone, TableExact, EventInv
<1> QED BY <1>4, <1>5, <1>6, <1>7, <1>8, <1>9, <1>10, <1>11 DEF EventNext

-----------------------------------------------------------------------------
\* The inductive invariant: the table, the kernel and the sockets agree after
\* every add_handler, del_handler and close (handler.c:76-147).
THEOREM EventInvCorrect ==
  ASSUME NumFd <= hccount PROVE EventSpec => []EventInv
<1>1. EventInit => EventInv
  BY LoopInitEstablishes
<1>2. EventInv /\ [EventNext]_loopVars => EventInv'
  BY LoopStepPreserves
<1> QED BY <1>1, <1>2, PTL DEF EventSpec

\* The batch fits its array and every variable has its type.
THEOREM EventTypeCorrect ==
  ASSUME NumFd <= hccount PROVE EventSpec => []EventTypeOK
<1>1. EventInv => EventTypeOK
  BY DEF EventInv
<1> QED BY <1>1, EventInvCorrect, PTL

\* What is watched is the open socket of the one who registered; an entry that
\* is not watched is empty.
THEOREM TableCorrect ==
  ASSUME NumFd <= hccount PROVE EventSpec => []TableExact
<1>1. EventInv => TableExact
  BY DEF EventInv
<1> QED BY <1>1, EventInvCorrect, PTL

\* A callback is called with the owner of an open socket, whatever earlier
\* callbacks of the batch closed and opened (handler.c:229).
THEOREM CallsOwnerCorrect ==
  ASSUME NumFd <= hccount PROVE EventSpec => CallsOwner
<1> DEFINE Right == Deliver /\ phase' = "callback" =>
             LET e == Entry(Head(events)) IN
             e.fd # -1 /\ owner[e.fd] # NULL /\ e.arg = owner[e.fd]
<1>1. ASSUME EventInv, Deliver, phase' = "callback"
      PROVE  LET e == Entry(Head(events)) IN
             e.fd # -1 /\ owner[e.fd] # NULL /\ e.arg = owner[e.fd]
  <2>0. Head(events) \in [fd : Fd, was : Entries]
    <3>1. events \in Seq([fd : Fd, was : Entries]) /\ events # <<>>
      BY <1>1 DEF EventInv, Deliver
    <3> QED BY <3>1, HeadInSet
  <2>1. PICK fd \in Fd : Head(events).fd = fd
    BY <2>0
  <2>2. hcptr[fd].callback # NULL
    BY <1>1, <2>1 DEF Deliver, Entry
  <2>3. fd \in interest
    BY <1>1, <2>2 DEF EventInv, TableExact, Empty
  <2> QED BY <1>1, <2>1, <2>3, FdAssumption DEF EventInv, TableExact, Entry, Fd
<1>2. EventInv /\ [EventNext]_loopVars => [Right]_loopVars
  BY <1>1
<1> QED BY <1>2, EventInvCorrect, PTL DEF EventSpec, CallsOwner

=============================================================================
