---------------------------- MODULE KernelHeap -----------------------------
(***************************************************************************)
(* The heap of the cubicles as it is built: the hooks and libukalloc       *)
(* (KHeap) over the binary buddy allocator (Buddy).  Clients use the       *)
(* blocks they hold as they please: the first word of user data of every   *)
(* page of a block is arbitrary.                                           *)
(***************************************************************************)
EXTENDS KHeap, Buddy

CONSTANT Words        \* what a client may leave in the order word of a page

VARIABLE buddy       \* struct uk_bbpalloc, and the order words of the pages

vars == <<heap_cfg, meta, blocks, stuck, buddy>>

(* The client fills the pages of a new block. *)
Filled(b, base, n, word) ==
  [b EXCEPT !.level = [p \in DOMAIN @ |-> IF p \in base .. (base + n - 1) THEN word ELSE @[p]]]

(* uk_free_ifpages finds the header with uk_get_metadata. *)
Pfreed(b, blk) == bbuddy_pfree(b, Header(blk).base, Header(blk).num_pages)

Init ==
  /\ KHeapInit
  /\ buddy = uk_allocbbuddy_init(FirstPage, LastPage + 1)

Malloc(c, size, word) ==
  LET n == MallocPages(size)
      r == bbuddy_palloc(buddy, n)
  IN
  /\ r.page # NoPage
  /\ uk_malloc_ifpages(c, size, r.page)
  /\ buddy' = Filled(r.b, r.page, n, word)

PosixMemalign(c, align, size, word) ==
  LET n == MemalignPages(align, size)
      r == bbuddy_palloc(buddy, n)
  IN
  /\ r.page # NoPage
  /\ uk_posix_memalign_ifpages(c, align, size, r.page)
  /\ buddy' = Filled(r.b, r.page, n, word)

FreeBlock(b) ==
  /\ uk_free_ifpages(b)
  /\ buddy' = IF stuck' # 0 THEN buddy ELSE Pfreed(buddy, b)

Realloc(c, b, size, word) ==
  LET n == MallocPages(size)
      r == bbuddy_palloc(buddy, n)
  IN
  \/ ReallocSpins(b) /\ UNCHANGED buddy
  \/ size = 0 /\ ReallocToZero(b) /\ buddy' = Pfreed(buddy, b)
  \/ size # 0 /\ r.page = NoPage /\ ReallocFails(b) /\ UNCHANGED buddy
  \/ /\ r.page # NoPage
     /\ ReallocMoves(c, b, size, r.page)
     /\ buddy' = Pfreed(Filled(r.b, r.page, n, word), b)

Next ==
  /\ stuck = 0
  /\ \/ \E c \in Cubicles, size \in Sizes, word \in Words :
          \/ Malloc(c, size, word)
          \/ \E align \in Aligns : PosixMemalign(c, align, size, word)
          \/ \E b \in blocks : Realloc(c, b, size, word)
     \/ \E b \in blocks : FreeBlock(b)

Spec == Init /\ [][Next]_vars

-----------------------------------------------------------------------------
(* Properties.                                                             *)

FreeChunks == {<<ch, i>> \in HeapPages \X Orders : Contains(buddy.free_head[i], ch)}

RegionOf == UNION {r.first_page .. (r.first_page + r.nr_pages - 1) : r \in buddy.memr}

(* The pages that palloc gave out with a block: the next power of two. *)
ChunkOfBlock(b) ==
  ChunkSpan(Header(b).base, num_pages_to_order(Header(b).num_pages))

(* The bitmap, the free lists and the blocks the clients hold agree: a bit *)
(* is clear exactly on the pages of the free chunks and set exactly on     *)
(* those of blocks, every free chunk is in one list once, is aligned to    *)
(* its size and overlaps no other, and nr_free_pages counts the clear      *)
(* bits.                                                                   *)
FreeListsSound ==
  /\ \A i \in Orders : IsInjective(buddy.free_head[i])
  /\ \A x, y \in FreeChunks :
       x # y => ChunkSpan(x[1], x[2]) \cap ChunkSpan(y[1], y[2]) = {}
  /\ \A x \in FreeChunks : x[1] % 2^x[2] = 0
  /\ UNION {ChunkSpan(x[1], x[2]) : x \in FreeChunks} = RegionOf \ buddy.bitmap
  /\ UNION {ChunkOfBlock(b) : b \in blocks} = buddy.bitmap
  /\ buddy.nr_free_pages = Cardinality(RegionOf \ buddy.bitmap)

(* Two free buddies are always merged, whatever the order of the frees, so *)
(* a request fails only when no aligned run of free pages is left.         *)
FullyMerged ==
  \A x, y \in FreeChunks : ~ (x[2] = y[2] /\ y[1] = BuddyOf(x[1], x[2]))

(* The assertions of map_alloc and map_free never fail, and a chunk that   *)
(* is unlinked was linked: the order word of a buddy is only trusted when  *)
(* the allocator wrote it, not a client.                                   *)
AssertionsHold == buddy.asserts

(* Whatever was allocated, split, freed and merged, the pages palloc would *)
(* answer with are pages of the heap that no block is on.  This is all     *)
(* that KHeap asks of the allocator below it, so every call over the buddy *)
(* allocator is a step of KHeap, and what is proved of KHeap holds of the  *)
(* heap as it is built.                                                    *)
PallocAnswersFreePages ==
  \A n \in {MallocPages(size) : size \in Sizes}
           \cup {MemalignPages(align, size) : align \in Aligns, size \in Sizes} :
    LET page == bbuddy_palloc(buddy, n).page
    IN  page # NoPage => page \in HeapPages /\ Free(n, page)

=============================================================================
