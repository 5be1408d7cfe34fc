------------------------------- MODULE KHeap -------------------------------
(***************************************************************************)
(* The heap the cubicles share: malloc, free, realloc and posix_memalign   *)
(* of libukalloc (alloc.c), which keep a header on a page of every block,  *)
(* and the code kernel/fig.py puts around them in the hooks, which reads   *)
(* that header to move the pages of the block from one cubicle to another. *)
(*                                                                         *)
(* The page allocator below is any one that returns pages nobody holds;    *)
(* KernelHeap puts the binary buddy allocator there.  One action is one    *)
(* call through a hook: pre_wrap, the function, post_wrap.  A call that    *)
(* fails leaves everything as it was, except realloc.  Sizes are such that *)
(* size + align + 4096 does not wrap.                                      *)
(***************************************************************************)
EXTENDS Integers, FiniteSets

CONSTANTS
  Cubicles,          \* the modules that call the allocator
  UKALLOC,           \* the allocator's own module, E_UKALLOC
  FirstPage, LastPage,   \* page numbers of the heap: heap_start, heap_end
  Sizes, Aligns,     \* arguments of the calls
  MaxBlocks          \* bound on the blocks held at one time

PAGE_SIZE == 4096

METADATA_IFPAGES_SIZE_POW2 == 16     \* and sizeof(struct metadata_ifpages)

HeapPages == FirstPage .. LastPage

ASSUME HeapAssumption ==
  /\ UKALLOC \notin Cubicles
  /\ FirstPage \in Nat \ {0} /\ LastPage \in Nat
  /\ Sizes \subseteq Nat
  /\ MaxBlocks \in Nat

(* posix_memalign returns EINVAL for any other alignment. *)
ASSUME AlignAssumption ==
  /\ Aligns \subseteq Nat
  /\ \A a \in Aligns :
        \/ a \in {8, 16, 32, 64, 128, 256, 512, 1024, 2048}
        \/ a >= PAGE_SIZE /\ a % PAGE_SIZE = 0

VARIABLES
  heap_cfg,   \* the module each heap page belongs to (loader.c)
  meta,       \* struct metadata_ifpages at the start of each heap page
  blocks,     \* what the clients hold: [ptr, size, holder]
  stuck       \* the block whose hook spins in cmp_attach, as pkey_mprotect
              \* has failed, or 0

kheapVars == <<heap_cfg, meta, blocks, stuck>>

ALIGN_DOWN(x, a) == (x \div a) * a
ALIGN_UP(x, a) == ALIGN_DOWN(x + a - 1, a)

PageOf(addr) == addr \div PAGE_SIZE

size_to_num_pages(size) == ALIGN_UP(size, PAGE_SIZE) \div PAGE_SIZE

(* Mutant: no special case for a page-aligned block. *)
uk_get_metadata_simple(ptr) == ALIGN_DOWN(ptr, PAGE_SIZE)

uk_get_metadata(ptr) ==
  IF ALIGN_DOWN(ptr, PAGE_SIZE) = ptr THEN ptr - PAGE_SIZE
  ELSE ALIGN_DOWN(ptr, PAGE_SIZE)

(* The header of a block, and the pages the allocator gave out for it. *)
Header(b) == meta[PageOf(uk_get_metadata(b.ptr))]

Span(h) == h.base .. (h.base + h.num_pages - 1)

Held == UNION {Span(Header(b)) : b \in blocks}

(* The pages of the bytes the client asked for. *)
UserPages(b) == PageOf(b.ptr) .. PageOf(b.ptr + b.size - 1)

(* pkey_mprotect takes only page-aligned addresses. *)
Attachable(addr) == addr % PAGE_SIZE = 0

heap_attach(cfg, mid, first, n) ==
  [p \in HeapPages |-> IF p \in first .. (first + n - 1) THEN mid ELSE cfg[p]]

(* What a free page allocator may answer to uk_palloc(n). *)
Free(n, base) ==
  base .. (base + n - 1) \subseteq HeapPages \ Held

-----------------------------------------------------------------------------
(* uk_malloc_ifpages, uk_calloc_compat, and uk_realloc_ifpages(NULL).      *)

MallocPages(size) == size_to_num_pages(METADATA_IFPAGES_SIZE_POW2 + size)

NewBlock(c, size, base) ==
  [ptr |-> base * PAGE_SIZE + METADATA_IFPAGES_SIZE_POW2, size |-> size, holder |-> c]

WithHeader(m, page, n, base) == [m EXCEPT ![page] = [num_pages |-> n, base |-> base]]

NoHeader == [num_pages |-> 0, base |-> 0]

(* The header dies with its block: its bytes are the page allocator's. *)
WithoutHeader(m, b) == [m EXCEPT ![PageOf(uk_get_metadata(b.ptr))] = NoHeader]

(* Mutant: a request for nothing gets a block. *)
uk_malloc_ifpages_zero(c, size, base) ==
  LET n == MallocPages(size) IN
  /\ Cardinality(blocks) < MaxBlocks
  /\ blocks' = blocks \cup {NewBlock(c, size, base)}
  /\ meta' = WithHeader(meta, base, n, base)
  /\ heap_cfg' = heap_attach(heap_cfg, c, base, n)
  /\ UNCHANGED stuck

uk_malloc_ifpages(c, size, base) ==
  LET n == MallocPages(size) IN
  /\ size # 0
  /\ Cardinality(blocks) < MaxBlocks
  /\ blocks' = blocks \cup {NewBlock(c, size, base)}
  /\ meta' = WithHeader(meta, base, n, base)
  /\ heap_cfg' = heap_attach(heap_cfg, c, base, n)
  /\ UNCHANGED stuck

-----------------------------------------------------------------------------
(* uk_posix_memalign_ifpages.                                              *)

(* align, raised to the size of a header. *)
Raised(align) ==
  IF align < METADATA_IFPAGES_SIZE_POW2 THEN METADATA_IFPAGES_SIZE_POW2 ELSE align

padding(align) ==
  IF align >= PAGE_SIZE THEN PAGE_SIZE
  ELSE IF align < METADATA_IFPAGES_SIZE_POW2 THEN 0
  ELSE METADATA_IFPAGES_SIZE_POW2

MemalignPages(align, size) ==
  size_to_num_pages(size + padding(align) + Raised(align))

AlignedPtr(align, base) ==
  ALIGN_UP(base * PAGE_SIZE + METADATA_IFPAGES_SIZE_POW2, Raised(align))

(* Mutant: two pages too few are attached. *)
fixTwo(ptr) == IF ptr % PAGE_SIZE = 0 THEN 2 ELSE 0

fix(ptr) == IF ptr % PAGE_SIZE = 0 THEN 1 ELSE 0

uk_posix_memalign_ifpages(c, align, size, base) ==
  LET n == MemalignPages(align, size)
      ptr == AlignedPtr(align, base)
  IN
  /\ size # 0
  /\ Cardinality(blocks) < MaxBlocks
  /\ blocks' = blocks \cup {[ptr |-> ptr, size |-> size, holder |-> c]}
  /\ meta' = WithHeader(meta, PageOf(uk_get_metadata(ptr)), n, base)
  /\ heap_cfg' = heap_attach(heap_cfg, c, base, n - fix(ptr))
  /\ UNCHANGED stuck

-----------------------------------------------------------------------------
(* uk_free_ifpages.  pre_wrap looks for the header by itself.              *)

(* Mutant: the two cases the other way round. *)
FreeHookHeader_swapped(ptr) ==
  IF ptr % PAGE_SIZE = 0 THEN ptr - METADATA_IFPAGES_SIZE_POW2 ELSE ptr - PAGE_SIZE

FreeHookHeader(ptr) ==
  IF ptr % PAGE_SIZE # 0 THEN ptr - METADATA_IFPAGES_SIZE_POW2 ELSE ptr - PAGE_SIZE

Spin(b) == stuck' = b.ptr /\ UNCHANGED <<heap_cfg, meta, blocks>>

(* pre_wrap: the pages the header at tmp names go to the allocator.        *)
Returned(tmp) ==
  LET h == meta[PageOf(tmp)] IN heap_attach(heap_cfg, UKALLOC, h.base, h.num_pages)

(* Mutant: free without a pre_wrap. *)
uk_free_ifpages_bare(b) ==
  /\ blocks' = blocks \ {b}
  /\ meta' = WithoutHeader(meta, b)
  /\ UNCHANGED <<heap_cfg, stuck>>

uk_free_ifpages(b) ==
  LET tmp == FreeHookHeader(b.ptr) IN
  \/ ~ Attachable(tmp) /\ Spin(b)
  \/ /\ Attachable(tmp)
     /\ heap_cfg' = Returned(tmp)
     /\ blocks' = blocks \ {b}
     /\ meta' = WithoutHeader(meta, b)
     /\ UNCHANGED stuck

-----------------------------------------------------------------------------
(* uk_realloc_ifpages of a block.  Its pre_wrap looks for the header in    *)
(* one place only, and gives the block to the allocator before it is known *)
(* whether the call succeeds.                                              *)

ReallocHookHeader(ptr) == ptr - METADATA_IFPAGES_SIZE_POW2

ReallocSpins(b) == ~ Attachable(ReallocHookHeader(b.ptr)) /\ Spin(b)

ReallocToZero(b) ==
  /\ Attachable(ReallocHookHeader(b.ptr))
  /\ heap_cfg' = Returned(ReallocHookHeader(b.ptr))
  /\ blocks' = blocks \ {b}
  /\ meta' = WithoutHeader(meta, b)
  /\ UNCHANGED stuck

ReallocFails(b) ==
  /\ Attachable(ReallocHookHeader(b.ptr))
  /\ heap_cfg' = Returned(ReallocHookHeader(b.ptr))
  /\ UNCHANGED <<meta, blocks, stuck>>

ReallocMoves(c, b, size, base) ==
  LET n == MallocPages(size) IN
  /\ Attachable(ReallocHookHeader(b.ptr))
  /\ size # 0
  /\ blocks' = (blocks \ {b}) \cup {NewBlock(c, size, base)}
  /\ heap_cfg' = heap_attach(Returned(ReallocHookHeader(b.ptr)), c, base, n)
  /\ meta' = WithHeader(WithoutHeader(meta, b), base, n, base)
  /\ UNCHANGED stuck

-----------------------------------------------------------------------------
KHeapInit ==
  /\ heap_cfg = [p \in HeapPages |-> UKALLOC]
  /\ meta = [p \in HeapPages |-> NoHeader]
  /\ blocks = {}
  /\ stuck = 0

Allocate(c, size, base) ==
  \/ uk_malloc_ifpages(c, size, base) /\ Free(MallocPages(size), base)
  \/ \E align \in Aligns :
       /\ uk_posix_memalign_ifpages(c, align, size, base)
       /\ Free(MemalignPages(align, size), base)

Reallocate(c, b) ==
  \/ ReallocSpins(b)
  \/ ReallocToZero(b)
  \/ ReallocFails(b)
  \/ \E size \in Sizes, base \in HeapPages :
       ReallocMoves(c, b, size, base) /\ Free(MallocPages(size), base)

KHeapNext ==
  /\ stuck = 0
  /\ \/ \E c \in Cubicles, size \in Sizes, base \in HeapPages : Allocate(c, size, base)
     \/ \E b \in blocks : uk_free_ifpages(b)
     \/ \E c \in Cubicles, b \in blocks : Reallocate(c, b)

KHeapSpec == KHeapInit /\ [][KHeapNext]_kheapVars

-----------------------------------------------------------------------------
(* Properties.                                                             *)

Blocks == [ptr : Nat, size : Nat \ {0}, holder : Cubicles]

(* The state between calls: an owner for every page, headers, the blocks   *)
(* that clients hold, and the pointer on which a hook spins, if one does.  *)
KHeapTypeOK ==
  /\ heap_cfg \in [HeapPages -> Cubicles \cup {UKALLOC}]
  /\ meta \in [HeapPages -> [num_pages : Nat, base : Nat]]
  /\ blocks \subseteq Blocks
  /\ stuck \in Nat

(* The header of every block names pages of the heap that hold the header  *)
(* and the whole block, no two blocks share a page, and no client's bytes  *)
(* cover a header: uk_get_metadata, which has only the pointer to go by,   *)
(* finds what malloc and posix_memalign wrote, for every alignment.        *)
HeadersIntact ==
  \A b \in blocks :
    LET m == uk_get_metadata(b.ptr) IN
    /\ Span(Header(b)) \subseteq HeapPages
    /\ Header(b).base * PAGE_SIZE <= m
    /\ m + METADATA_IFPAGES_SIZE_POW2 <= b.ptr
    /\ b.ptr + b.size <= (Header(b).base + Header(b).num_pages) * PAGE_SIZE
    /\ \A c \in blocks : c # b => Span(Header(b)) \cap Span(Header(c)) = {}

(* A page that no block is on belongs to the allocator: free and realloc   *)
(* take every page back from the cubicle that held it, so that no cubicle  *)
(* keeps a page the allocator may hand to another one.                     *)
FreePagesReturned ==
  \A p \in HeapPages \ Held : heap_cfg[p] = UKALLOC

(* A block changes hands as a whole.  The pages of its bytes all belong to *)
(* its holder, or, after a realloc that failed, all its pages belong to    *)
(* the allocator; and no page of it ever belongs to a third cubicle,       *)
(* although posix_memalign leaves the last page of an aligned block where  *)
(* it was.                                                                 *)
BlockMovesWhole ==
  \A b \in blocks :
    /\ \/ \A p \in UserPages(b) : heap_cfg[p] = b.holder
       \/ \A p \in Span(Header(b)) : heap_cfg[p] = UKALLOC
    /\ \A p \in Span(Header(b)) : heap_cfg[p] \in {b.holder, UKALLOC}

(* The hooks of free and realloc find the header of every block that       *)
(* malloc, calloc or realloc returned, also after posix_memalign, other    *)
(* frees and reallocs that failed: if one spins, the block is one that     *)
(* posix_memalign placed elsewhere than right behind a header that starts  *)
(* its page.                                                               *)
HooksReturn ==
  stuck # 0 => /\ stuck % PAGE_SIZE # METADATA_IFPAGES_SIZE_POW2
               /\ \E b \in blocks : b.ptr = stuck

(* What the clients see of the heap. *)
ClientBlocks == {[ptr |-> b.ptr, size |-> b.size] : b \in blocks}

A == INSTANCE Allocator WITH Low <- FirstPage * PAGE_SIZE,
                             High <- (LastPage + 1) * PAGE_SIZE,
                             live <- ClientBlocks

(* malloc, free, realloc and posix_memalign through the hooks implement    *)
(* the abstract allocator: the bytes clients hold are disjoint and lie in  *)
(* the heap.                                                               *)
IsAllocator == A!Spec

=============================================================================
