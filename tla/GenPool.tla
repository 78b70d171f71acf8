------------------------------ MODULE GenPool --------------------------------
(***************************************************************************)
(* The pool of pages of oplib (genpool.c) from which the relay takes its   *)
(* my_conn_t, conn_t and cli_conn_t.  Pages are allocated from the system  *)
(* by chunks; a chunk is on the list of free, used or full chunks.         *)
(*                                                                         *)
(* A list is a set here: its order decides which chunk or page is taken,   *)
(* and any is as good.  A page is a chunk and an index; holders counts who *)
(* was handed a page and has not yet released it: the users of the pool.   *)
(***************************************************************************)
EXTENDS Naturals, FiniteSets

CONSTANTS
  Chunk,          \* addresses malloc may return for a chunk
  PagesPerChunk,  \* PAGES_PER_CHUNK
  MaxFree,        \* MAX_FREE_CHUNKS
  Prealloc,       \* PREALLOC_CHUNKS
  MaxPages        \* the argument of genpool_init

ASSUME ChunkAssumption == IsFiniteSet(Chunk)
ASSUME SizeAssumption == /\ PagesPerChunk \in Nat \ {0}
                         /\ MaxFree \in Nat /\ Prealloc \in Nat
                         /\ MaxPages \in Nat
                         /\ Prealloc <= MaxFree

VARIABLES
  used, free, full,             \* chunks on each of the three lists
  used_pages, free_pages,       \* the two lists of pages of each chunk
  free_chunks, total_chunks,    \* counters of genpool_handler_t
  holders,                      \* those who hold each page
  live                          \* the pool exists

lists == <<used, free, full>>
pages == <<used_pages, free_pages>>
counts == <<free_chunks, total_chunks>>
poolVars == <<lists, pages, counts, holders, live>>

Index == 1 .. PagesPerChunk
Mem == Chunk \X Index
Held == {x \in Mem : holders[x] > 0}
Owned == used \cup free \cup full
MaxTotal == MaxPages \div PagesPerChunk + 1

\* Up to n calls of _alloc_a_chunk, each into an address malloc does not use;
\* malloc may fail, and then, as at max_total_chunks, there are fewer.
AllocChunks(s, n) ==
  /\ s \subseteq Chunk \ Owned /\ Cardinality(s) <= n
  /\ s # {} => total_chunks + Cardinality(s) <= MaxTotal

\* The pages of the chunks, those of s being initialised.
FreePages(s) == [c \in Chunk |-> IF c \in s THEN Index ELSE free_pages[c]]
UsedPages(s) == [c \in Chunk |-> IF c \in s THEN {} ELSE used_pages[c]]

\* genpool_init: NULL, and no pool, when not one chunk can be allocated.
GenpoolInit ==
  /\ used = {} /\ full = {} /\ live = TRUE
  /\ free \in SUBSET Chunk \ {{}}
  /\ Cardinality(free) <= MaxFree /\ Cardinality(free) <= MaxTotal
  /\ free_chunks = Cardinality(free) /\ total_chunks = Cardinality(free)
  /\ used_pages = [c \in Chunk |-> {}]
  /\ holders = [x \in Mem |-> 0]
  /\ free_pages = [c \in Chunk |-> IF c \in free THEN Index ELSE {}]

\* Chunks are added when no free one is left, even if the used one has room.
Grows(s) == IF free_chunks = 0 THEN AllocChunks(s, Prealloc) ELSE s = {}

\* The chunk pages are taken from: the used one, or else a free one.
Current(c, s) == IF used # {} THEN c \in used ELSE c \in free \cup s

\* Variant with a bug: the chunk without free pages stays on its list.
FilledStays(c, left) == used' = used \cup {c} /\ UNCHANGED full

Filled(c, left) ==
  IF left = {} THEN used' = used \ {c} /\ full' = full \cup {c}
               ELSE used' = used \cup {c} /\ UNCHANGED full

\* A free chunk becomes the used one.
Taken == IF used = {} THEN 1 ELSE 0

\* genpool_alloc_page.  It returns NULL, and changes nothing, when no chunk is
\* used or free and none can be allocated.
genpool_alloc_page(s, c, p) ==
  /\ live
  /\ Grows(s) /\ Current(c, s)
  /\ p \in FreePages(s)[c]
  /\ free_pages' = [FreePages(s) EXCEPT ![c] = @ \ {p}]
  /\ used_pages' = [UsedPages(s) EXCEPT ![c] = @ \cup {p}]
  /\ Filled(c, free_pages'[c])
  /\ free' = (free \cup s) \ {c}
  /\ free_chunks' =
       free_chunks + Cardinality(s) - Taken
  /\ total_chunks' = total_chunks + Cardinality(s)
  /\ holders' = [holders EXCEPT ![<<c, p>>] = @ + 1]
  /\ UNCHANGED live

\* Variant with a bug: a chunk that is too much is not counted out.
SurplusUncounted(gone) == UNCHANGED total_chunks

SurplusFreed(gone) == total_chunks' = total_chunks - Cardinality(gone)

\* _release_a_chunk: the chunk goes to the head of the free chunks; while there
\* are too many, the first one is given back to the system.
ReleaseChunk(c) ==
  \E gone \in SUBSET (free \cup {c}) :
    /\ Cardinality(gone) =
         IF free_chunks + 1 > MaxFree THEN free_chunks + 1 - MaxFree ELSE 0
    /\ gone # {} => c \in gone
    /\ used' = used \ {c} /\ full' = full \ {c}
    /\ free' = (free \cup {c}) \ gone
    /\ free_chunks' = free_chunks + 1 - Cardinality(gone)
    /\ SurplusFreed(gone)

\* Variant with a bug: a chunk is released when it has a free page again.
LastPageAny(c, p) == TRUE

LastPage(c, p) == used_pages[c] \ {p} = {}

\* genpool_release_page.  A full chunk with a page free again stays full.
genpool_release_page(c, p) ==
  /\ live /\ holders[<<c, p>>] > 0
  /\ used_pages' = [used_pages EXCEPT ![c] = @ \ {p}]
  /\ free_pages' = [free_pages EXCEPT ![c] = @ \cup {p}]
  /\ holders' = [holders EXCEPT ![<<c, p>>] = @ - 1]
  /\ IF LastPage(c, p) THEN ReleaseChunk(c) ELSE UNCHANGED <<lists, counts>>
  /\ UNCHANGED live

\* genpool_destroy: the chunks of the three lists, pages in use or not.
genpool_destroy ==
  /\ live /\ live' = FALSE
  /\ used' = {} /\ free' = {} /\ full' = {}
  /\ total_chunks' = total_chunks
       - (Cardinality(used) + Cardinality(free) + Cardinality(full))
  /\ free_chunks' = 0
  /\ holders' = [x \in Mem |-> 0]
  /\ UNCHANGED pages

PoolNext ==
  \/ \E s \in SUBSET Chunk, c \in Chunk, p \in Index : genpool_alloc_page(s, c, p)
  \/ \E c \in Chunk, p \in Index : genpool_release_page(c, p)
  \/ genpool_destroy

PoolSpec == GenpoolInit /\ [][PoolNext]_poolVars

-----------------------------------------------------------------------------
(* Properties.                                                             *)

\* The values of the variables; the counters are unsigned in the code and must
\* not go below zero.
PoolTypeOK ==
  /\ used \subseteq Chunk /\ free \subseteq Chunk /\ full \subseteq Chunk
  /\ used_pages \in [Chunk -> SUBSET Index]
  /\ free_pages \in [Chunk -> SUBSET Index]
  /\ free_chunks \in Nat /\ total_chunks \in Nat
  /\ holders \in [Mem -> Nat]
  /\ live \in BOOLEAN

\* The counters, which alone decide about growing (genpool.c:63, 221) and about
\* giving memory back (:117), agree with the lists through every order of
\* allocations and releases, and keep their limits.
CountersExact ==
  /\ free_chunks = Cardinality(free)
  /\ total_chunks = Cardinality(used) + Cardinality(free) + Cardinality(full)
  /\ free_chunks <= MaxFree /\ total_chunks <= MaxTotal

\* A chunk is on one list, and its pages are where that list says: one chunk at
\* most is being used up and it has a free page, so genpool.c:254 never returns
\* NULL with a chunk at hand; a free chunk has all its pages; a full one is
\* kept by a page still out.
OneList == used \cap free = {} /\ used \cap full = {} /\ free \cap full = {}
OneUsed == \A c, d \in used : c = d
PagesFit ==
  /\ \A c \in Owned : free_pages[c] = Index \ used_pages[c]
  /\ \A c \in used : free_pages[c] # {}
  /\ \A c \in used \cup full : used_pages[c] # {}
  /\ \A c \in free : used_pages[c] = {}
ChunksFit == OneList /\ OneUsed /\ PagesFit

\* Every page its holder still uses lies in a chunk the pool has not given back
\* to the system and does not offer to anybody else.
HeldIsBacked ==
  \A c \in Chunk, p \in Index :
    holders[<<c, p>>] =
      IF c \in used \cup full /\ p \in used_pages[c] THEN 1 ELSE 0

\* The pool implements PageSet: a page handed out is nobody else's until it is
\* given back, and never are more out than the chunks allowed hold.
PageSet == INSTANCE PageSet
           WITH Capacity <- MaxTotal * PagesPerChunk
ImplementsPageSet == PageSet!PageSetSpec

\* genpool.c:133: "max page": fewer pages than that are out, so there is one
\* to hand out.  Not so when the chunks allowed have all been full: the pages
\* released since are not found again before a whole chunk is.
RoomMeansPage ==
  live /\ total_chunks = MaxTotal /\ Cardinality(Held) < MaxPages
    => used \cup free # {}
=============================================================================
