---------------------------- MODULE KHeapProofs ----------------------------
(***************************************************************************)
(* The heap of the cubicles (KHeap) for every heap, every set of sizes and *)
(* alignments and every page allocator that returns free pages: headers    *)
(* stay intact, pages go back to the allocator, blocks change hands as a   *)
(* whole, the hooks return for blocks of malloc, and the clients see the   *)
(* abstract Allocator.                                                     *)
(***************************************************************************)
EXTENDS KHeap, TLAPS

-----------------------------------------------------------------------------
(* Addresses.                                                              *)

LEMMA PageFacts ==
  ASSUME NEW x \in Nat
  PROVE  /\ PageOf(x) \in Nat
         /\ PageOf(x) * 4096 <= x
         /\ x < PageOf(x) * 4096 + 4096
         /\ ALIGN_DOWN(x, 4096) = PageOf(x) * 4096
         /\ x % 4096 = x - PageOf(x) * 4096
BY DEF PageOf, ALIGN_DOWN, PAGE_SIZE

LEMMA PageUnique ==
  ASSUME NEW x \in Nat, NEW p \in Nat, p * 4096 <= x, x < p * 4096 + 4096
  PROVE  PageOf(x) = p
BY DEF PageOf, PAGE_SIZE

(* size_to_num_pages rounds up. *)
LEMMA SizeFacts ==
  ASSUME NEW size \in Nat
  PROVE  /\ size_to_num_pages(size) \in Nat
         /\ size <= size_to_num_pages(size) * 4096
         /\ size > 0 => size_to_num_pages(size) > 0
BY DEF size_to_num_pages, ALIGN_UP, ALIGN_DOWN, PAGE_SIZE

(* Where uk_get_metadata looks.                                            *)
LEMMA MetadataFacts ==
  ASSUME NEW ptr \in Nat, ptr >= 4096
  PROVE  /\ uk_get_metadata(ptr) \in Nat
         /\ uk_get_metadata(ptr) = PageOf(uk_get_metadata(ptr)) * 4096
         /\ PageOf(uk_get_metadata(ptr)) \in Nat
         /\ uk_get_metadata(ptr) < ptr
         /\ uk_get_metadata(ptr) >= ptr - 4096
BY DEF uk_get_metadata, PageOf, ALIGN_DOWN, PAGE_SIZE

(* The hooks look in the same place if they do not spin.                   *)
LEMMA HookFacts ==
  ASSUME NEW ptr \in Nat, ptr >= 4096
  PROVE  /\ Attachable(FreeHookHeader(ptr)) => FreeHookHeader(ptr) = uk_get_metadata(ptr)
         /\ Attachable(ReallocHookHeader(ptr)) => ReallocHookHeader(ptr) = uk_get_metadata(ptr)
         /\ ~ Attachable(FreeHookHeader(ptr)) => ptr % PAGE_SIZE # METADATA_IFPAGES_SIZE_POW2
         /\ ~ Attachable(ReallocHookHeader(ptr)) => ptr % PAGE_SIZE # METADATA_IFPAGES_SIZE_POW2
BY DEF Attachable, FreeHookHeader, ReallocHookHeader, uk_get_metadata, ALIGN_DOWN, PAGE_SIZE,
       METADATA_IFPAGES_SIZE_POW2

(* A block of size bytes at ptr, with its header, lies in n pages from     *)
(* base on, and all of it but the last last pages.                         *)
Fits(ptr, size, base, n, last) ==
  /\ n \in Nat /\ n > 0
  /\ ptr \in Nat /\ last \in Nat
  /\ base * 4096 <= uk_get_metadata(ptr)
  /\ uk_get_metadata(ptr) + 16 <= ptr
  /\ ptr + size <= (base + n - last) * 4096

LEMMA MallocFits ==
  ASSUME NEW base \in Nat \ {0}, NEW size \in Nat \ {0}
  PROVE  /\ Fits(base * PAGE_SIZE + METADATA_IFPAGES_SIZE_POW2, size, base, MallocPages(size), 0)
         /\ PageOf(uk_get_metadata(base * PAGE_SIZE + METADATA_IFPAGES_SIZE_POW2)) = base
<1> DEFINE ptr == base * 4096 + 16
           n == MallocPages(size)
<1>1. n \in Nat /\ n > 0 /\ size + 16 <= n * 4096
  BY SizeFacts, 16 + size \in Nat DEF MallocPages, METADATA_IFPAGES_SIZE_POW2
<1>2. uk_get_metadata(ptr) = base * 4096
  BY DEF uk_get_metadata, ALIGN_DOWN, PAGE_SIZE
<1>3. PageOf(base * 4096) = base
  BY PageUnique
<1> QED
  BY <1>1, <1>2, <1>3 DEF Fits, PAGE_SIZE, METADATA_IFPAGES_SIZE_POW2

LEMMA AlignUpFacts ==
  ASSUME NEW x \in Nat, NEW a \in Nat \ {0}
  PROVE  /\ ALIGN_UP(x, a) \in Nat
         /\ x <= ALIGN_UP(x, a)
         /\ ALIGN_UP(x, a) <= x + a - 1
         /\ (x + a - 1) \div a \in Nat
         /\ ALIGN_UP(x, a) = ((x + a - 1) \div a) * a
<1> DEFINE y == x + a - 1
           q == y \div a
<1>1. y \in Nat /\ q \in Nat
  OBVIOUS
<1>2. q * a <= y /\ y < q * a + a
  BY <1>1
<1> QED
  BY <1>1, <1>2 DEF ALIGN_UP, ALIGN_DOWN

(* Alignments below a page: the block starts behind the header, on the     *)
(* first page.                                                             *)
LEMMA SmallAlignFits ==
  ASSUME NEW base \in Nat \ {0}, NEW size \in Nat \ {0},
         NEW align \in {8, 16, 32, 64, 128, 256, 512, 1024, 2048}
  PROVE  Fits(AlignedPtr(align, base), size, base, MemalignPages(align, size),
              fix(AlignedPtr(align, base)))
<1> DEFINE r == Raised(align)
           ptr == AlignedPtr(align, base)
           n == MemalignPages(align, size)
<1>1. r \in {16, 32, 64, 128, 256, 512, 1024, 2048}
  BY DEF Raised, METADATA_IFPAGES_SIZE_POW2
<1>2. padding(align) \in Nat /\ padding(align) + r >= 16 /\ (r > 16 => padding(align) = 16)
  BY DEF padding, Raised, METADATA_IFPAGES_SIZE_POW2, PAGE_SIZE
<1>3. ptr = base * 4096 + r
  <2>1. ptr = ((base * 4096 + 16 + r - 1) \div r) * r
    BY DEF AlignedPtr, ALIGN_UP, ALIGN_DOWN, PAGE_SIZE, METADATA_IFPAGES_SIZE_POW2
  <2> HIDE DEF r, ptr
  <2> QED
    BY <2>1, <1>1
<1>4. n \in Nat /\ size + padding(align) + r <= n * 4096 /\ n > 0
  BY SizeFacts, <1>1, <1>2, size + padding(align) + r \in Nat DEF MemalignPages
<1> HIDE DEF r, ptr, n
<1>5. uk_get_metadata(ptr) = base * 4096
  BY <1>1, <1>3 DEF uk_get_metadata, ALIGN_DOWN, PAGE_SIZE
<1>6. fix(ptr) = 0
  BY <1>1, <1>3 DEF fix, PAGE_SIZE
<1>7. Fits(ptr, size, base, n, fix(ptr))
  BY <1>1, <1>2, <1>3, <1>4, <1>5, <1>6 DEF Fits
<1> QED
  BY <1>7 DEF ptr, n

(* Whole pages: the header is on the page before the block, and at least   *)
(* one page is left over at the end.                                       *)
LEMMA PageAlignFits ==
  ASSUME NEW base \in Nat \ {0}, NEW size \in Nat \ {0},
         NEW align \in Nat, align >= 4096, align % 4096 = 0
  PROVE  Fits(AlignedPtr(align, base), size, base, MemalignPages(align, size),
              fix(AlignedPtr(align, base)))
<1> DEFINE ptr == AlignedPtr(align, base)
           n == MemalignPages(align, size)
<1>1. Raised(align) = align /\ padding(align) = 4096
  BY DEF Raised, padding, METADATA_IFPAGES_SIZE_POW2, PAGE_SIZE
<1>2. ptr = ALIGN_UP(base * 4096 + 16, align)
  BY <1>1 DEF AlignedPtr, PAGE_SIZE, METADATA_IFPAGES_SIZE_POW2
<1>a. base * 4096 + 16 \in Nat /\ align \in Nat \ {0}
  OBVIOUS
<1> HIDE DEF ptr
<1> DEFINE q == (base * 4096 + 16 + align - 1) \div align
<1>3. q \in Nat /\ ptr = q * align
  BY ONLY <1>2, <1>a, AlignUpFacts
<1>4. ptr \in Nat /\ base * 4096 + 16 <= ptr /\ ptr <= base * 4096 + 16 + align - 1
  BY ONLY <1>2, <1>a, AlignUpFacts
<1>5. n \in Nat /\ size + 4096 + align <= n * 4096 /\ n > 0
  BY <1>1, SizeFacts, size + 4096 + align \in Nat DEF MemalignPages
<1> HIDE DEF n
<1>6. PICK k \in Nat : align = k * 4096
  BY align = (align \div 4096) * 4096, align \div 4096 \in Nat
<1>7. ptr % 4096 = 0
  <2> HIDE DEF q
  <2>1. ptr = (q * k) * 4096
    BY <1>3, <1>6
  <2>2. q * k \in Nat
    BY <1>3
  <2> QED
    BY <2>1, <2>2
<1>8. uk_get_metadata(ptr) = ptr - 4096
  BY <1>4, <1>7 DEF uk_get_metadata, ALIGN_DOWN, PAGE_SIZE
<1>9. fix(ptr) = 1
  BY <1>7 DEF fix, PAGE_SIZE
<1>10. ptr <= base * 4096 + align /\ ptr >= base * 4096 + 4096
  BY <1>4, <1>6, <1>7
<1>11. Fits(ptr, size, base, n, fix(ptr))
  BY <1>4, <1>5, <1>8, <1>9, <1>10 DEF Fits
<1> QED
  BY <1>11 DEF ptr, n

LEMMA MemalignFits ==
  ASSUME NEW base \in Nat \ {0}, NEW size \in Nat \ {0}, NEW align \in Aligns
  PROVE  Fits(AlignedPtr(align, base), size, base, MemalignPages(align, size),
              fix(AlignedPtr(align, base)))
BY AlignAssumption, SmallAlignFits, PageAlignFits DEF PAGE_SIZE

-----------------------------------------------------------------------------
(* The invariant, as a predicate of heap_cfg, meta and blocks, so that it  *)
(* can be stated of the state within a realloc too: b's header is h.       *)

HeaderPage(b) == PageOf(uk_get_metadata(b.ptr))

HeaderIn(m, b) == m[HeaderPage(b)]

BlockInv(cfg, h, b) ==
  /\ b.ptr >= 4096
  /\ Span(h) \subseteq HeapPages
  /\ HeaderPage(b) \in Span(h)
  /\ UserPages(b) \subseteq Span(h)
  /\ h.base * 4096 <= uk_get_metadata(b.ptr)
  /\ uk_get_metadata(b.ptr) + 16 <= b.ptr
  /\ b.ptr + b.size <= (h.base + h.num_pages) * 4096
  /\ \/ \A p \in UserPages(b) : cfg[p] = b.holder
     \/ \A p \in Span(h) : cfg[p] = UKALLOC
  /\ \A p \in Span(h) : cfg[p] \in {b.holder, UKALLOC}

HeapInv(cfg, m, B) ==
  /\ cfg \in [HeapPages -> Cubicles \cup {UKALLOC}]
  /\ m \in [HeapPages -> [num_pages : Nat, base : Nat]]
  /\ B \subseteq Blocks
  /\ \A b \in B : BlockInv(cfg, HeaderIn(m, b), b)
  /\ \A b, c \in B : b # c => Span(HeaderIn(m, b)) \cap Span(HeaderIn(m, c)) = {}
  /\ \A p \in HeapPages : (\A b \in B : p \notin Span(HeaderIn(m, b))) => cfg[p] = UKALLOC

(* A block keeps its part of the invariant if its pages keep their owners. *)
LEMMA BlockFrame ==
  ASSUME NEW cfg, NEW cfg2, NEW h, NEW b,
         BlockInv(cfg, h, b),
         \A p \in Span(h) : cfg2[p] = cfg[p]
  PROVE  BlockInv(cfg2, h, b)
<1>1. \A p \in UserPages(b) : cfg2[p] = cfg[p]
  BY DEF BlockInv
<1> QED
  BY <1>1 DEF BlockInv

(* free and realloc find the header and give all of the block's pages to   *)
(* the allocator.                                                          *)
LEMMA AttachBlock ==
  ASSUME NEW cfg, NEW m, NEW B, NEW b \in B, HeapInv(cfg, m, B)
  PROVE  LET h == HeaderIn(m, b)
             cfg2 == heap_attach(cfg, UKALLOC, h.base, h.num_pages)
         IN  /\ cfg2 \in [HeapPages -> Cubicles \cup {UKALLOC}]
             /\ \A p \in Span(h) : cfg2[p] = UKALLOC
             /\ \A p \in HeapPages : p \notin Span(h) => cfg2[p] = cfg[p]
             /\ h \in [num_pages : Nat, base : Nat]
             /\ Span(h) \subseteq HeapPages
<1> DEFINE h == HeaderIn(m, b)
<1>1. Span(h) \subseteq HeapPages /\ HeaderPage(b) \in Span(h)
  BY DEF HeapInv, BlockInv
<1>2. h \in [num_pages : Nat, base : Nat]
  BY <1>1 DEF HeapInv, HeaderIn
<1>3. h.base \in Nat /\ h.num_pages \in Int
  BY <1>2
<1>4. cfg \in [HeapPages -> Cubicles \cup {UKALLOC}] /\ UKALLOC \in Cubicles \cup {UKALLOC}
  BY Zenon DEF HeapInv
<1> HIDE DEF h
<1>5. /\ heap_attach(cfg, UKALLOC, h.base, h.num_pages) \in [HeapPages -> Cubicles \cup {UKALLOC}]
      /\ \A p \in HeapPages : p \in Span(h) =>
           heap_attach(cfg, UKALLOC, h.base, h.num_pages)[p] = UKALLOC
      /\ \A p \in HeapPages : p \notin Span(h) =>
           heap_attach(cfg, UKALLOC, h.base, h.num_pages)[p] = cfg[p]
  BY ONLY <1>3, <1>4 DEF Span, heap_attach
<1> QED
  BY <1>1, <1>2, <1>5, Zenon DEF h

(* realloc that fails: the block stays, its pages are the allocator's.     *)
LEMMA FailStep ==
  ASSUME NEW cfg, NEW m, NEW B, NEW b \in B, HeapInv(cfg, m, B)
  PROVE  LET h == HeaderIn(m, b)
         IN  HeapInv(heap_attach(cfg, UKALLOC, h.base, h.num_pages), m, B)
<1> DEFINE h == HeaderIn(m, b)
           cfg2 == heap_attach(cfg, UKALLOC, h.base, h.num_pages)
<1>1. /\ cfg2 \in [HeapPages -> Cubicles \cup {UKALLOC}]
      /\ \A p \in Span(h) : cfg2[p] = UKALLOC
      /\ \A p \in HeapPages : p \notin Span(h) => cfg2[p] = cfg[p]
  BY AttachBlock
<1> HIDE DEF cfg2
<1>2. BlockInv(cfg2, h, b)
  <2>1. BlockInv(cfg, h, b)
    BY DEF HeapInv
  <2> HIDE DEF h
  <2> QED
    BY <2>1, <1>1 DEF BlockInv
<1>3. ASSUME NEW c \in B, c # b PROVE BlockInv(cfg2, HeaderIn(m, c), c)
  <2>1. BlockInv(cfg, HeaderIn(m, c), c) /\ Span(h) \cap Span(HeaderIn(m, c)) = {}
    BY <1>3 DEF HeapInv
  <2>2. Span(HeaderIn(m, c)) \subseteq HeapPages
    BY <2>1 DEF BlockInv
  <2>3. \A p \in Span(HeaderIn(m, c)) : cfg2[p] = cfg[p]
    BY <1>1, <2>1, <2>2, Zenon
  <2> QED
    BY <2>1, <2>3, BlockFrame
<1>4. \A p \in HeapPages : (\A c \in B : p \notin Span(HeaderIn(m, c))) => cfg2[p] = UKALLOC
  BY <1>1, Zenon DEF HeapInv
<1>5. HeapInv(cfg2, m, B)
  BY <1>1, <1>2, <1>3, <1>4 DEF HeapInv
<1> QED
  BY <1>5 DEF cfg2

(* The header that goes with a block is no other block's.                  *)
LEMMA HeaderKept ==
  ASSUME NEW cfg, NEW m, NEW B, NEW b \in B, NEW c \in B \ {b}, HeapInv(cfg, m, B)
  PROVE  HeaderIn(WithoutHeader(m, b), c) = HeaderIn(m, c)
<1> DEFINE h == HeaderIn(m, b)
           m2 == WithoutHeader(m, b)
<1>1. /\ Span(h) \cap Span(HeaderIn(m, c)) = {}
      /\ HeaderPage(b) \in Span(h) /\ HeaderPage(c) \in Span(HeaderIn(m, c))
  BY DEF HeapInv, BlockInv
<1>2. HeaderPage(b) # HeaderPage(c)
  BY <1>1, Zenon
<1>3. m \in [HeapPages -> [num_pages : Nat, base : Nat]]
  BY DEF HeapInv
<1>4. m2 = [m EXCEPT ![HeaderPage(b)] = NoHeader]
  BY DEF WithoutHeader, HeaderPage
<1>5. HeaderPage(c) \in HeapPages
  BY <1>1 DEF HeapInv, BlockInv
<1> HIDE DEF m2
<1>6. HeaderIn(m2, c) = HeaderIn(m, c)
  BY ONLY <1>2, <1>3, <1>4, <1>5 DEF HeaderIn
<1> QED
  BY <1>6 DEF m2

(* free: the block and its header go.                                      *)
LEMMA RemoveStep ==
  ASSUME NEW cfg, NEW m, NEW B, NEW b \in B, HeapInv(cfg, m, B)
  PROVE  LET h == HeaderIn(m, b)
             m2 == WithoutHeader(m, b)
         IN  HeapInv(heap_attach(cfg, UKALLOC, h.base, h.num_pages), m2, B \ {b})
<1> DEFINE h == HeaderIn(m, b)
           cfg2 == heap_attach(cfg, UKALLOC, h.base, h.num_pages)
           m2 == WithoutHeader(m, b)
<1>1. \A p \in Span(h) : cfg2[p] = UKALLOC
  BY AttachBlock
<1>2. HeapInv(cfg2, m, B)
  BY FailStep, Zenon
<1> HIDE DEF cfg2
<1>3. \A c \in B \ {b} : HeaderIn(m2, c) = HeaderIn(m, c)
  BY HeaderKept
<1>4. m2 \in [HeapPages -> [num_pages : Nat, base : Nat]]
  BY DEF HeapInv, WithoutHeader, NoHeader
<1> HIDE DEF m2
<1>5. \A p \in HeapPages :
        (\A c \in B \ {b} : p \notin Span(HeaderIn(m2, c))) => cfg2[p] = UKALLOC
  <2> SUFFICES ASSUME NEW p \in HeapPages,
                      \A c \in B \ {b} : p \notin Span(HeaderIn(m, c))
               PROVE  cfg2[p] = UKALLOC
    BY <1>3, Zenon
  <2>1. CASE p \in Span(h)
    BY <2>1, <1>1, Zenon
  <2>2. CASE p \notin Span(h)
    <3>1. \A c \in B : p \notin Span(HeaderIn(m, c))
      BY <2>2, Zenon
    <3> QED
      BY <3>1, <1>2 DEF HeapInv
  <2> QED
    BY <2>1, <2>2, Zenon
<1>6. HeapInv(cfg2, m2, B \ {b})
  BY <1>2, <1>3, <1>4, <1>5 DEF HeapInv
<1> QED
  BY <1>6, Zenon DEF cfg2, m2

(* The pages of a block that fits are among the ones it was given. *)
LEMMA FitsPages ==
  ASSUME NEW ptr \in Nat, NEW size \in Nat \ {0}, NEW base \in Nat \ {0},
         NEW n \in Nat, NEW last \in Nat, Fits(ptr, size, base, n, last)
  PROVE  /\ ptr >= 4096
         /\ PageOf(uk_get_metadata(ptr)) \in Nat
         /\ base <= PageOf(uk_get_metadata(ptr))
         /\ PageOf(uk_get_metadata(ptr)) <= base + n - 1
         /\ PageOf(ptr) \in Nat /\ PageOf(ptr + size - 1) \in Nat
         /\ base <= PageOf(ptr)
         /\ PageOf(ptr + size - 1) <= base + (n - last) - 1
         /\ ptr + size <= (base + n) * 4096
<1>1. /\ n \in Nat /\ n > 0 /\ last \in Nat
      /\ base * 4096 <= uk_get_metadata(ptr)
      /\ uk_get_metadata(ptr) + 16 <= ptr
      /\ ptr + size <= (base + n - last) * 4096
  BY DEF Fits
<1>2. uk_get_metadata(ptr) \in Int
  BY DEF uk_get_metadata, ALIGN_DOWN, PAGE_SIZE
<1>3. ptr >= 4096 /\ uk_get_metadata(ptr) \in Nat
  BY ONLY <1>1, <1>2, ptr \in Nat, base \in Nat \ {0}
<1>4. uk_get_metadata(ptr) = PageOf(uk_get_metadata(ptr)) * 4096
      /\ PageOf(uk_get_metadata(ptr)) \in Nat
  BY <1>3, MetadataFacts
<1>5. ptr + size - 1 \in Nat
  OBVIOUS
<1>6. /\ PageOf(ptr) \in Nat /\ PageOf(ptr) * 4096 <= ptr /\ ptr < PageOf(ptr) * 4096 + 4096
      /\ PageOf(ptr + size - 1) \in Nat /\ PageOf(ptr + size - 1) * 4096 <= ptr + size - 1
  BY ONLY <1>5, PageFacts, ptr \in Nat
<1>7. PageOf(uk_get_metadata(ptr)) >= base /\ PageOf(uk_get_metadata(ptr)) <= base + n - 1
  BY ONLY <1>1, <1>3, <1>4, base \in Nat, size \in Nat
<1>8. PageOf(ptr) >= base /\ PageOf(ptr + size - 1) <= base + (n - last) - 1
  BY ONLY <1>1, <1>3, <1>6, base \in Nat, size \in Nat, ptr \in Nat
<1>9. ptr + size <= (base + n) * 4096
  BY ONLY <1>1, base \in Nat, size \in Nat, ptr \in Nat
<1> QED
  BY ONLY <1>1, <1>3, <1>4, <1>6, <1>7, <1>8, <1>9, base \in Nat

(* n free pages from base on, all of them but the last last attached to c, *)
(* for a block of c at ptr.                                                *)
Given(cfg, m, B, c, ptr, size, base, n, last) ==
  /\ HeapInv(cfg, m, B)
  /\ c \in Cubicles /\ ptr \in Nat /\ size \in Nat \ {0}
  /\ base \in Nat \ {0} /\ n \in Nat /\ last \in Nat
  /\ Fits(ptr, size, base, n, last)
  /\ base .. (base + n - 1) \subseteq HeapPages
  /\ \A b \in B : base .. (base + n - 1) \cap Span(HeaderIn(m, b)) = {}

Added(cfg, m, B, c, ptr, size, base, n, last) ==
  LET nb == [ptr |-> ptr, size |-> size, holder |-> c]
      m2 == WithHeader(m, PageOf(uk_get_metadata(ptr)), n, base)
  IN  /\ HeapInv(heap_attach(cfg, c, base, n - last), m2, B \cup {nb})
      /\ nb \notin B

(* malloc and posix_memalign: free pages become a block of cubicle c.      *)
LEMMA AddStep ==
  ASSUME NEW cfg, NEW m, NEW B, NEW c, NEW ptr, NEW size, NEW base, NEW n, NEW last,
         Given(cfg, m, B, c, ptr, size, base, n, last)
  PROVE  Added(cfg, m, B, c, ptr, size, base, n, last)
<1> USE DEF Given
<1> DEFINE nb == [ptr |-> ptr, size |-> size, holder |-> c]
           hp == PageOf(uk_get_metadata(ptr))
           m2 == WithHeader(m, hp, n, base)
           cfg2 == heap_attach(cfg, c, base, n - last)
           h == [num_pages |-> n, base |-> base]
           S == base .. (base + n - 1)
<1>1. /\ ptr >= 4096 /\ hp \in S
      /\ PageOf(ptr) .. PageOf(ptr + size - 1) \subseteq base .. (base + (n - last) - 1)
      /\ ptr + size <= (base + n) * 4096
  <2>1. /\ ptr >= 4096
        /\ hp \in Nat /\ base <= hp /\ hp <= base + n - 1
        /\ PageOf(ptr) \in Nat /\ PageOf(ptr + size - 1) \in Nat
        /\ base <= PageOf(ptr) /\ PageOf(ptr + size - 1) <= base + (n - last) - 1
        /\ ptr + size <= (base + n) * 4096
    BY FitsPages
  <2> HIDE DEF hp
  <2> QED
    BY ONLY <2>1, base \in Nat, n \in Nat, last \in Nat
<1>2. /\ cfg \in [HeapPages -> Cubicles \cup {UKALLOC}]
      /\ m \in [HeapPages -> [num_pages : Nat, base : Nat]]
      /\ B \subseteq Blocks
  BY DEF HeapInv
<1>3. Span(h) = S /\ h \in [num_pages : Nat, base : Nat]
  BY DEF Span
<1>4. nb.ptr = ptr /\ nb.size = size /\ nb.holder = c /\ nb \in Blocks
  BY DEF Blocks
<1>5. HeaderPage(nb) = hp /\ UserPages(nb) = PageOf(ptr) .. PageOf(ptr + size - 1)
  BY <1>4 DEF HeaderPage, UserPages
<1>6. m2 \in [HeapPages -> [num_pages : Nat, base : Nat]] /\ m2[hp] = h
      /\ \A p \in HeapPages : p # hp => m2[p] = m[p]
  BY <1>1, <1>2 DEF WithHeader
<1>7. HeaderIn(m2, nb) = h
  BY ONLY <1>5, <1>6 DEF HeaderIn
<1>8. /\ cfg2 \in [HeapPages -> Cubicles \cup {UKALLOC}]
      /\ \A p \in base .. (base + (n - last) - 1) : p \in HeapPages => cfg2[p] = c
      /\ \A p \in HeapPages : cfg2[p] \in {c, cfg[p]}
      /\ \A p \in HeapPages : p \notin S => cfg2[p] = cfg[p]
  <2>1. base .. (base + (n - last) - 1) \subseteq S
    OBVIOUS
  <2>2. cfg2 = [p \in HeapPages |-> IF p \in base .. (base + (n - last) - 1) THEN c ELSE cfg[p]]
    BY DEF heap_attach
  <2> HIDE DEF cfg2, S
  <2> QED
    BY ONLY <1>2, <2>1, <2>2, c \in Cubicles
<1> HIDE DEF nb, hp, m2, cfg2, h, S
<1>9. ASSUME NEW b \in B
      PROVE  /\ HeaderIn(m2, b) = HeaderIn(m, b) /\ b # nb
             /\ BlockInv(cfg2, HeaderIn(m, b), b)
             /\ S \cap Span(HeaderIn(m, b)) = {}
  <2>1. BlockInv(cfg, HeaderIn(m, b), b) /\ S \cap Span(HeaderIn(m, b)) = {}
    BY DEF HeapInv, S
  <2>2. HeaderPage(b) \in Span(HeaderIn(m, b)) /\ Span(HeaderIn(m, b)) \subseteq HeapPages
    BY <2>1 DEF BlockInv
  <2>3. HeaderPage(b) # hp
    BY <2>1, <2>2, <1>1
  <2>4. HeaderIn(m2, b) = HeaderIn(m, b)
    BY <2>2, <2>3, <1>6, Zenon DEF HeaderIn
  <2>5. b # nb
    BY <2>3, <1>5
  <2>6. \A p \in Span(HeaderIn(m, b)) : cfg2[p] = cfg[p]
    BY <2>1, <2>2, <1>8, Zenon
  <2> QED
    BY <2>1, <2>4, <2>5, <2>6, BlockFrame
<1>10. \A p \in S : p \in HeapPages /\ cfg[p] = UKALLOC
  <2>1. S \subseteq HeapPages
    BY DEF S
  <2>2. \A p \in S : \A b \in B : p \notin Span(HeaderIn(m, b))
    BY <1>9, Zenon
  <2> QED
    BY <2>1, <2>2 DEF HeapInv
<1>11. BlockInv(cfg2, h, nb)
  <2>1. \A p \in UserPages(nb) : p \in S /\ cfg2[p] = c
    <3>1. base .. (base + (n - last) - 1) \subseteq S
      BY DEF S
    <3> QED
      BY <3>1, <1>1, <1>5, <1>8, <1>10
  <2>2. \A p \in S : cfg2[p] \in {c, UKALLOC}
    BY <1>8, <1>10
  <2>3. /\ h.base * 4096 <= uk_get_metadata(nb.ptr)
        /\ uk_get_metadata(nb.ptr) + 16 <= nb.ptr
        /\ nb.ptr + nb.size <= (h.base + h.num_pages) * 4096
    BY <1>1, <1>4 DEF Fits, h
  <2> QED
    BY <1>1, <1>3, <1>4, <1>5, <1>10, <2>1, <2>2, <2>3 DEF BlockInv
<1>12. \A p \in HeapPages :
         (\A b \in B \cup {nb} : p \notin Span(HeaderIn(m2, b))) => cfg2[p] = UKALLOC
  <2> SUFFICES ASSUME NEW p \in HeapPages,
                      \A b \in B \cup {nb} : p \notin Span(HeaderIn(m2, b))
               PROVE  cfg2[p] = UKALLOC
    OBVIOUS
  <2>1. p \notin S
    BY <1>3, <1>7, Zenon
  <2>2. \A b \in B : p \notin Span(HeaderIn(m, b))
    BY <1>9, Zenon
  <2>3. cfg[p] = UKALLOC
    BY <2>2 DEF HeapInv
  <2> QED
    BY <2>1, <2>3, <1>8
<1>13. \A b, d \in B \cup {nb} :
         b # d => Span(HeaderIn(m2, b)) \cap Span(HeaderIn(m2, d)) = {}
  <2>1. \A b, d \in B : b # d => Span(HeaderIn(m2, b)) \cap Span(HeaderIn(m2, d)) = {}
    BY <1>9 DEF HeapInv
  <2>2. \A b \in B : Span(HeaderIn(m2, b)) \cap Span(HeaderIn(m2, nb)) = {}
    BY <1>3, <1>7, <1>9
  <2> QED
    BY <2>1, <2>2, Zenon
<1>14. HeapInv(cfg2, m2, B \cup {nb})
  BY <1>2, <1>4, <1>6, <1>7, <1>8, <1>9, <1>11, <1>12, <1>13 DEF HeapInv
<1> QED
  BY <1>9, <1>14 DEF Added, nb, hp, m2, cfg2

-----------------------------------------------------------------------------
(* The steps.                                                              *)

IInv == HeapInv(heap_cfg, meta, blocks) /\ stuck \in Nat /\ HooksReturn

LEMMA HeaderIsHeaderIn == ASSUME NEW b PROVE Header(b) = HeaderIn(meta, b)
BY DEF Header, HeaderIn, HeaderPage

(* Pages that Free allows are on no block.                                 *)
LEMMA FreeFacts ==
  ASSUME NEW n, NEW base, Free(n, base)
  PROVE  /\ base .. (base + n - 1) \subseteq HeapPages
         /\ \A b \in blocks : base .. (base + n - 1) \cap Span(HeaderIn(meta, b)) = {}
BY HeaderIsHeaderIn, Zenon DEF Free, Held

(* Where the hook looks, if it does not spin, is the header, and the block *)
(* goes back to the allocator.                                             *)
LEMMA ReturnedFacts ==
  ASSUME IInv, NEW b \in blocks
  PROVE  LET h == HeaderIn(meta, b)
             back == heap_attach(heap_cfg, UKALLOC, h.base, h.num_pages)
         IN  /\ Attachable(FreeHookHeader(b.ptr)) => Returned(FreeHookHeader(b.ptr)) = back
             /\ Attachable(ReallocHookHeader(b.ptr)) => Returned(ReallocHookHeader(b.ptr)) = back
             /\ ~ Attachable(FreeHookHeader(b.ptr)) => b.ptr % PAGE_SIZE # METADATA_IFPAGES_SIZE_POW2
             /\ ~ Attachable(ReallocHookHeader(b.ptr)) => b.ptr % PAGE_SIZE # METADATA_IFPAGES_SIZE_POW2
             /\ b.ptr \in Nat /\ b.ptr # 0
<1>1. b.ptr \in Nat /\ b.ptr >= 4096
  BY DEF IInv, HeapInv, BlockInv, Blocks
<1>2. HeaderIn(meta, b) = meta[PageOf(uk_get_metadata(b.ptr))]
  BY DEF HeaderIn, HeaderPage
<1> QED
  BY <1>1, <1>2, HookFacts DEF Returned

LEMMA MallocStep ==
  ASSUME IInv, stuck = 0, NEW c \in Cubicles, NEW size \in Sizes, NEW base \in HeapPages,
         Free(MallocPages(size), base), uk_malloc_ifpages(c, size, base)
  PROVE  IInv' /\ NewBlock(c, size, base) \notin blocks
<1> DEFINE ptr == base * PAGE_SIZE + METADATA_IFPAGES_SIZE_POW2
           n == MallocPages(size)
<1>1. base \in Nat \ {0} /\ size \in Nat \ {0}
  BY HeapAssumption DEF HeapPages, uk_malloc_ifpages
<1>2. Fits(ptr, size, base, n, 0) /\ PageOf(uk_get_metadata(ptr)) = base
  BY <1>1, MallocFits
<1>3. ptr \in Nat /\ n \in Nat
  BY <1>2 DEF Fits
<1>4. /\ base .. (base + n - 1) \subseteq HeapPages
      /\ \A b \in blocks : base .. (base + n - 1) \cap Span(HeaderIn(meta, b)) = {}
  BY FreeFacts
<1>5. HeapInv(heap_cfg, meta, blocks)
  BY DEF IInv
<1>6. /\ blocks' = blocks \cup {[ptr |-> ptr, size |-> size, holder |-> c]}
      /\ meta' = WithHeader(meta, PageOf(uk_get_metadata(ptr)), n, base)
      /\ heap_cfg' = heap_attach(heap_cfg, c, base, n - 0)
      /\ stuck' = 0
      /\ NewBlock(c, size, base) = [ptr |-> ptr, size |-> size, holder |-> c]
  BY <1>2, <1>3 DEF uk_malloc_ifpages, NewBlock
<1> HIDE DEF ptr, n
<1>7. Given(heap_cfg, meta, blocks, c, ptr, size, base, n, 0)
  BY <1>1, <1>2, <1>3, <1>4, <1>5 DEF Given
<1>8. Added(heap_cfg, meta, blocks, c, ptr, size, base, n, 0)
  BY <1>7, AddStep
<1>9. HeapInv(heap_cfg', meta', blocks') /\ NewBlock(c, size, base) \notin blocks
  BY ONLY <1>6, <1>8 DEF Added
<1> QED
  BY <1>6, <1>9 DEF IInv, HooksReturn

LEMMA MemalignStep ==
  ASSUME IInv, stuck = 0, NEW c \in Cubicles, NEW size \in Sizes, NEW base \in HeapPages,
         NEW align \in Aligns, Free(MemalignPages(align, size), base),
         uk_posix_memalign_ifpages(c, align, size, base)
  PROVE  IInv' /\ [ptr |-> AlignedPtr(align, base), size |-> size, holder |-> c] \notin blocks
<1> DEFINE ptr == AlignedPtr(align, base)
           n == MemalignPages(align, size)
           last == fix(ptr)
<1>1. base \in Nat \ {0} /\ size \in Nat \ {0}
  BY HeapAssumption DEF HeapPages, uk_posix_memalign_ifpages
<1>2. Fits(ptr, size, base, n, last)
  BY <1>1, MemalignFits
<1>3. ptr \in Nat /\ n \in Nat /\ last \in Nat
  BY <1>2 DEF Fits
<1>4. /\ base .. (base + n - 1) \subseteq HeapPages
      /\ \A b \in blocks : base .. (base + n - 1) \cap Span(HeaderIn(meta, b)) = {}
  BY FreeFacts
<1>5. HeapInv(heap_cfg, meta, blocks)
  BY DEF IInv
<1>6. /\ blocks' = blocks \cup {[ptr |-> ptr, size |-> size, holder |-> c]}
      /\ meta' = WithHeader(meta, PageOf(uk_get_metadata(ptr)), n, base)
      /\ heap_cfg' = heap_attach(heap_cfg, c, base, n - last)
      /\ stuck' = 0
  BY DEF uk_posix_memalign_ifpages
<1> HIDE DEF ptr, n, last
<1>7. Given(heap_cfg, meta, blocks, c, ptr, size, base, n, last)
  BY <1>1, <1>2, <1>3, <1>4, <1>5 DEF Given
<1>8. Added(heap_cfg, meta, blocks, c, ptr, size, base, n, last)
  BY <1>7, AddStep
<1>9. /\ HeapInv(heap_cfg', meta', blocks')
      /\ [ptr |-> ptr, size |-> size, holder |-> c] \notin blocks
  BY ONLY <1>6, <1>8 DEF Added
<1> QED
  BY <1>6, <1>9 DEF IInv, HooksReturn, ptr

LEMMA SpinStep ==
  ASSUME IInv, NEW b \in blocks, Spin(b),
         b.ptr % PAGE_SIZE # METADATA_IFPAGES_SIZE_POW2
  PROVE  IInv' /\ blocks' = blocks
<1>1. b.ptr \in Nat
  BY ReturnedFacts
<1> QED
  BY <1>1 DEF IInv, Spin, HooksReturn

LEMMA FreeStep ==
  ASSUME IInv, stuck = 0, NEW b \in blocks, uk_free_ifpages(b)
  PROVE  IInv' /\ blocks' \in {blocks, blocks \ {b}}
<1> DEFINE h == HeaderIn(meta, b)
           back == heap_attach(heap_cfg, UKALLOC, h.base, h.num_pages)
<1>1. CASE ~ Attachable(FreeHookHeader(b.ptr))
  BY <1>1, SpinStep, ReturnedFacts DEF uk_free_ifpages
<1>2. CASE Attachable(FreeHookHeader(b.ptr))
  <2>1. /\ heap_cfg' = back
        /\ blocks' = blocks \ {b} /\ meta' = WithoutHeader(meta, b) /\ stuck' = 0
    BY <1>2, ReturnedFacts DEF uk_free_ifpages
  <2>2. HeapInv(back, WithoutHeader(meta, b), blocks \ {b})
    BY RemoveStep DEF IInv
  <2> QED
    BY <2>1, <2>2 DEF IInv, HooksReturn
<1> QED
  BY <1>1, <1>2

LEMMA ReallocMovesStep ==
  ASSUME IInv, stuck = 0, NEW c \in Cubicles, NEW b \in blocks, NEW size \in Sizes,
         NEW base \in HeapPages, Free(MallocPages(size), base), ReallocMoves(c, b, size, base)
  PROVE  /\ IInv' /\ NewBlock(c, size, base) \notin blocks \ {b}
         /\ blocks' = (blocks \ {b}) \cup {NewBlock(c, size, base)}
<1> DEFINE ptr == base * PAGE_SIZE + METADATA_IFPAGES_SIZE_POW2
           n == MallocPages(size)
           h == HeaderIn(meta, b)
           back == heap_attach(heap_cfg, UKALLOC, h.base, h.num_pages)
           m1 == WithoutHeader(meta, b)
<1>1. base \in Nat \ {0} /\ size \in Nat \ {0}
  BY HeapAssumption DEF HeapPages, ReallocMoves
<1>2. Fits(ptr, size, base, n, 0) /\ PageOf(uk_get_metadata(ptr)) = base
  BY <1>1, MallocFits
<1>3. ptr \in Nat /\ n \in Nat
  BY <1>2 DEF Fits
<1>4. HeapInv(back, m1, blocks \ {b})
      /\ \A d \in blocks \ {b} : HeaderIn(m1, d) = HeaderIn(meta, d)
  <2>1. HeapInv(heap_cfg, meta, blocks)
    BY DEF IInv
  <2>2. HeapInv(back, m1, blocks \ {b})
    BY ONLY <2>1, RemoveStep, b \in blocks
  <2>3. \A d \in blocks \ {b} : HeaderIn(m1, d) = HeaderIn(meta, d)
    BY ONLY <2>1, HeaderKept, b \in blocks
  <2> QED
    BY <2>2, <2>3
<1>5. /\ base .. (base + n - 1) \subseteq HeapPages
      /\ \A d \in blocks : base .. (base + n - 1) \cap Span(HeaderIn(meta, d)) = {}
  BY FreeFacts
<1>6. /\ blocks' = (blocks \ {b}) \cup {[ptr |-> ptr, size |-> size, holder |-> c]}
      /\ meta' = WithHeader(m1, PageOf(uk_get_metadata(ptr)), n, base)
      /\ heap_cfg' = heap_attach(back, c, base, n - 0)
      /\ stuck' = 0
      /\ NewBlock(c, size, base) = [ptr |-> ptr, size |-> size, holder |-> c]
  BY <1>2, <1>3, ReturnedFacts DEF ReallocMoves, NewBlock
<1> HIDE DEF ptr, n, back, m1
<1>7. Given(back, m1, blocks \ {b}, c, ptr, size, base, n, 0)
  BY <1>1, <1>2, <1>3, <1>4, <1>5 DEF Given
<1>8. Added(back, m1, blocks \ {b}, c, ptr, size, base, n, 0)
  BY <1>7, AddStep
<1>9. /\ HeapInv(heap_cfg', meta', blocks')
      /\ NewBlock(c, size, base) \notin blocks \ {b}
  BY ONLY <1>6, <1>8 DEF Added
<1> QED
  BY <1>6, <1>9 DEF IInv, HooksReturn

LEMMA ReallocStaysStep ==
  ASSUME IInv, stuck = 0, NEW b \in blocks,
         ReallocSpins(b) \/ ReallocToZero(b) \/ ReallocFails(b)
  PROVE  IInv' /\ blocks' \in {blocks, blocks \ {b}}
<1> DEFINE h == HeaderIn(meta, b)
           back == heap_attach(heap_cfg, UKALLOC, h.base, h.num_pages)
<1>1. CASE ReallocSpins(b)
  BY <1>1, SpinStep, ReturnedFacts DEF ReallocSpins
<1>2. CASE ReallocToZero(b)
  <2>1. /\ heap_cfg' = back
        /\ blocks' = blocks \ {b} /\ meta' = WithoutHeader(meta, b) /\ stuck' = 0
    BY <1>2, ReturnedFacts DEF ReallocToZero
  <2>2. HeapInv(back, WithoutHeader(meta, b), blocks \ {b})
    BY RemoveStep DEF IInv
  <2> QED
    BY <2>1, <2>2 DEF IInv, HooksReturn
<1>3. CASE ReallocFails(b)
  <2>1. heap_cfg' = back /\ blocks' = blocks /\ meta' = meta /\ stuck' = 0
    BY <1>3, ReturnedFacts DEF ReallocFails
  <2>2. HeapInv(back, meta, blocks)
    BY FailStep DEF IInv
  <2> QED
    BY <2>1, <2>2 DEF IInv, HooksReturn
<1> QED
  BY <1>1, <1>2, <1>3

LEMMA IInvInit == KHeapInit => IInv
BY HeapAssumption DEF KHeapInit, IInv, HeapInv, HooksReturn, NoHeader, HeapPages

LEMMA IInvStep == IInv /\ [KHeapNext]_kheapVars => IInv'
<1> SUFFICES ASSUME IInv, [KHeapNext]_kheapVars PROVE IInv'
  OBVIOUS
<1>1. CASE UNCHANGED kheapVars
  BY <1>1 DEF IInv, HooksReturn, kheapVars
<1>2. ASSUME stuck = 0, NEW c \in Cubicles, NEW size \in Sizes, NEW base \in HeapPages,
             Allocate(c, size, base)
      PROVE  IInv'
  BY <1>2, MallocStep, MemalignStep DEF Allocate
<1>3. ASSUME stuck = 0, NEW b \in blocks, uk_free_ifpages(b) PROVE IInv'
  BY <1>3, FreeStep
<1>4. ASSUME stuck = 0, NEW c \in Cubicles, NEW b \in blocks, Reallocate(c, b) PROVE IInv'
  BY <1>4, ReallocStaysStep, ReallocMovesStep DEF Reallocate
<1> QED
  BY <1>1, <1>2, <1>3, <1>4 DEF KHeapNext

-----------------------------------------------------------------------------
(* The theorems.                                                           *)

THEOREM IInvHolds == KHeapSpec => []IInv
BY IInvInit, IInvStep, PTL DEF KHeapSpec

(* No sequence of calls leaves the state space.                            *)
THEOREM KHeapTypeCorrect == KHeapSpec => []KHeapTypeOK
<1>1. IInv => KHeapTypeOK
  BY DEF IInv, HeapInv, KHeapTypeOK
<1> QED
  BY <1>1, IInvHolds, PTL

(* uk_get_metadata finds the header of every block, for every alignment,   *)
(* no two blocks share a page and no block covers a header.                *)
THEOREM HeadersIntactHolds == KHeapSpec => []HeadersIntact
<1>1. IInv => HeadersIntact
  BY HeaderIsHeaderIn DEF IInv, HeapInv, BlockInv, HeadersIntact, PAGE_SIZE,
                          METADATA_IFPAGES_SIZE_POW2
<1> QED
  BY <1>1, IInvHolds, PTL

(* Every page that is on no block belongs to the allocator.                *)
THEOREM FreePagesReturnedHolds == KHeapSpec => []FreePagesReturned
<1>1. IInv => FreePagesReturned
  BY HeaderIsHeaderIn DEF IInv, HeapInv, FreePagesReturned, Held
<1> QED
  BY <1>1, IInvHolds, PTL

(* A block belongs to its holder, or after a realloc that failed to the    *)
(* allocator, as a whole.                                                  *)
THEOREM BlockMovesWholeHolds == KHeapSpec => []BlockMovesWhole
<1>1. IInv => BlockMovesWhole
  BY HeaderIsHeaderIn DEF IInv, HeapInv, BlockInv, BlockMovesWhole
<1> QED
  BY <1>1, IInvHolds, PTL

(* The hooks of free and realloc return for every block of malloc.         *)
THEOREM HooksReturnHolds == KHeapSpec => []HooksReturn
<1>1. IInv => HooksReturn
  BY DEF IInv
<1> QED
  BY <1>1, IInvHolds, PTL

-----------------------------------------------------------------------------
(* The refinement of Allocator.                                            *)

View(b) == [ptr |-> b.ptr, size |-> b.size]

Views(B) == {View(b) : b \in B}

(* Blocks that are on different pages lie apart.                           *)
LEMMA BlocksApart ==
  ASSUME NEW cfg, NEW m, NEW B, NEW b \in B, NEW c \in B, b # c, HeapInv(cfg, m, B)
  PROVE  ~ A!Overlap(View(b), View(c)) /\ b.ptr # c.ptr
<1> DEFINE h == HeaderIn(m, b)
           k == HeaderIn(m, c)
<1>1. b \in Blocks /\ c \in Blocks
  BY DEF HeapInv
<1>2. BlockInv(cfg, h, b) /\ BlockInv(cfg, k, c) /\ Span(h) \cap Span(k) = {}
  BY DEF HeapInv
<1>3. HeaderPage(b) \in HeapPages /\ HeaderPage(c) \in HeapPages
  <2>1. HeaderPage(b) \in Span(h) /\ Span(h) \subseteq HeapPages
    BY ONLY <1>2 DEF BlockInv
  <2>2. HeaderPage(c) \in Span(k) /\ Span(k) \subseteq HeapPages
    BY ONLY <1>2 DEF BlockInv
  <2> QED
    BY ONLY <2>1, <2>2, Zenon
<1>4. h \in [num_pages : Nat, base : Nat] /\ k \in [num_pages : Nat, base : Nat]
  BY <1>3 DEF HeapInv, HeaderIn
<1>5. h.base \in Nat /\ h.num_pages \in Nat /\ k.base \in Nat /\ k.num_pages \in Nat
  BY <1>4
<1> HIDE DEF h, k
<1>6. h.num_pages > 0 /\ k.num_pages > 0
  BY <1>2, <1>5 DEF BlockInv, Span
<1>7. h.base + h.num_pages <= k.base \/ k.base + k.num_pages <= h.base
  <2>1. h.base \notin Span(k) /\ k.base \notin Span(h)
    <3>1. h.base \in Span(h) /\ k.base \in Span(k)
      BY <1>5, <1>6 DEF Span
    <3> QED
      BY <3>1, <1>2
  <2> QED
    BY ONLY <2>1, <1>5, <1>6 DEF Span
<1>8. /\ b.ptr \in Nat /\ b.size \in Nat \ {0} /\ c.ptr \in Nat /\ c.size \in Nat \ {0}
      /\ h.base * 4096 + 16 <= b.ptr /\ b.ptr + b.size <= (h.base + h.num_pages) * 4096
      /\ k.base * 4096 + 16 <= c.ptr /\ c.ptr + c.size <= (k.base + k.num_pages) * 4096
  <2>1. /\ b.ptr \in Nat /\ b.size \in Nat \ {0} /\ c.ptr \in Nat /\ c.size \in Nat \ {0}
    BY <1>1 DEF Blocks
  <2>2. b.ptr >= 4096 /\ c.ptr >= 4096
    BY <1>2 DEF BlockInv
  <2>3. uk_get_metadata(b.ptr) \in Nat /\ uk_get_metadata(c.ptr) \in Nat
    BY <2>1, <2>2, MetadataFacts
  <2> QED
    BY <1>2, <1>5, <2>1, <2>3 DEF BlockInv
<1>9. /\ ~ (b.ptr < c.ptr + c.size /\ c.ptr < b.ptr + b.size)
      /\ b.ptr # c.ptr
  BY ONLY <1>5, <1>7, <1>8
<1> QED
  BY <1>9 DEF A!Overlap, View

(* A block lies in the heap.                                               *)
LEMMA BlockInHeap ==
  ASSUME NEW cfg, NEW m, NEW B, NEW b \in B, HeapInv(cfg, m, B)
  PROVE  FirstPage * PAGE_SIZE <= b.ptr /\ b.ptr + b.size <= (LastPage + 1) * PAGE_SIZE
<1> DEFINE first == PageOf(b.ptr)
           last == PageOf(b.ptr + b.size - 1)
<1>1. b.ptr \in Nat /\ b.size \in Nat \ {0} /\ b.ptr + b.size - 1 \in Nat
  <2>1. b \in Blocks
    BY Zenon DEF HeapInv
  <2>2. b.ptr \in Nat /\ b.size \in Nat \ {0}
    BY ONLY <2>1 DEF Blocks
  <2> QED
    BY ONLY <2>2
<1>2. UserPages(b) \subseteq HeapPages
  <2>1. BlockInv(cfg, HeaderIn(m, b), b)
    BY Zenon DEF HeapInv
  <2> QED
    BY ONLY <2>1 DEF BlockInv
<1>3. /\ first \in Nat /\ first * 4096 <= b.ptr /\ b.ptr < first * 4096 + 4096
      /\ last \in Nat /\ last * 4096 <= b.ptr + b.size - 1
      /\ b.ptr + b.size - 1 < last * 4096 + 4096
  <2> DEFINE start == b.ptr
             end == b.ptr + b.size - 1
  <2>1. start \in Nat /\ end \in Nat
    BY <1>1
  <2> HIDE DEF start, end
  <2>2. PageOf(end) \in Nat /\ PageOf(end) * 4096 <= end /\ end < PageOf(end) * 4096 + 4096
    BY ONLY <2>1, PageFacts
  <2>3. /\ PageOf(start) \in Nat /\ PageOf(start) * 4096 <= start
        /\ start < PageOf(start) * 4096 + 4096
    BY ONLY <2>1, PageFacts
  <2> QED
    BY ONLY <2>2, <2>3 DEF start, end
<1>4. UserPages(b) = first .. last
  BY DEF UserPages
<1> HIDE DEF first, last
<1>5. first <= last
  BY ONLY <1>1, <1>3
<1>6. first \in HeapPages /\ last \in HeapPages
  BY <1>2, <1>3, <1>4, <1>5
<1>7. FirstPage <= first /\ last <= LastPage /\ FirstPage \in Nat /\ LastPage \in Nat
  BY <1>6, HeapAssumption DEF HeapPages
<1> QED
  BY ONLY <1>1, <1>3, <1>7 DEF PAGE_SIZE

LEMMA BlockPlaced ==
  ASSUME NEW cfg, NEW m, NEW B, NEW b \in B, HeapInv(cfg, m, B)
  PROVE  /\ A!Placed(View(b), Views(B \ {b}))
         /\ View(b) \notin Views(B \ {b})
<1>1. \A c \in B \ {b} : ~ A!Overlap(View(b), View(c)) /\ b.ptr # c.ptr
  BY BlocksApart
<1>2. FirstPage * PAGE_SIZE <= b.ptr /\ b.ptr + b.size <= (LastPage + 1) * PAGE_SIZE
  BY BlockInHeap
<1>3. \A c : View(c).ptr = c.ptr /\ View(c).size = c.size
  BY DEF View
<1>4. \A v \in Views(B \ {b}) : ~ A!Overlap(View(b), v) /\ View(b).ptr # v.ptr
  BY <1>1, <1>3 DEF Views
<1>5. A!Placed(View(b), Views(B \ {b}))
  BY <1>2, <1>3, <1>4 DEF A!Placed
<1> QED
  BY <1>4, <1>5

LEMMA ViewsFacts ==
  /\ ClientBlocks = Views(blocks)
  /\ ClientBlocks' = Views(blocks')
  /\ \A B, b : Views(B \cup {b}) = Views(B) \cup {View(b)}
BY DEF ClientBlocks, Views, View

(* What is left of the views without one block.                            *)
LEMMA ViewsWithout ==
  ASSUME NEW cfg, NEW m, NEW B, NEW b \in B, HeapInv(cfg, m, B)
  PROVE  Views(B \ {b}) = Views(B) \ {View(b)} /\ View(b) \in Views(B)
<1>1. View(b) \notin Views(B \ {b})
  BY BlockPlaced
<1> QED
  BY <1>1 DEF Views

LEMMA MallocRefines ==
  ASSUME IInv', NEW nb, nb \notin blocks, blocks' = blocks \cup {nb}
  PROVE  A!Malloc
<1>1. HeapInv(heap_cfg', meta', blocks')
  BY DEF IInv
<1>2. nb \in blocks' /\ blocks' \ {nb} = blocks
  OBVIOUS
<1>3. A!Placed(View(nb), Views(blocks)) /\ View(nb) \notin Views(blocks)
  BY <1>1, <1>2, BlockPlaced
<1>4. /\ View(nb) \in ClientBlocks' /\ View(nb) \notin ClientBlocks
      /\ A!Placed(View(nb), ClientBlocks)
      /\ ClientBlocks' = ClientBlocks \cup {View(nb)}
  BY <1>3, ViewsFacts
<1> QED
  BY <1>4 DEF A!Malloc

LEMMA FreeRefines ==
  ASSUME IInv, NEW b \in blocks, blocks' = blocks \ {b}
  PROVE  A!Free
<1>1. Views(blocks \ {b}) = Views(blocks) \ {View(b)} /\ View(b) \in Views(blocks)
  BY ViewsWithout DEF IInv
<1>2. View(b) \in ClientBlocks /\ ClientBlocks' = ClientBlocks \ {View(b)}
  BY <1>1, ViewsFacts
<1> QED
  BY <1>2 DEF A!Free

LEMMA ReallocRefines ==
  ASSUME IInv, IInv', NEW b \in blocks, NEW nb, nb \notin blocks \ {b},
         blocks' = (blocks \ {b}) \cup {nb}
  PROVE  A!Realloc
<1>1. HeapInv(heap_cfg, meta, blocks) /\ HeapInv(heap_cfg', meta', blocks')
  BY DEF IInv
<1>2. Views(blocks \ {b}) = Views(blocks) \ {View(b)} /\ View(b) \in Views(blocks)
  BY <1>1, ViewsWithout
<1>3. nb \in blocks' /\ blocks' \ {nb} = blocks \ {b}
  OBVIOUS
<1>4. A!Placed(View(nb), Views(blocks \ {b}))
  BY <1>1, <1>3, BlockPlaced
<1>5. /\ View(b) \in ClientBlocks /\ View(nb) \in ClientBlocks'
      /\ A!Placed(View(nb), ClientBlocks \ {View(b)})
      /\ ClientBlocks' = (ClientBlocks \ {View(b)}) \cup {View(nb)}
  BY <1>2, <1>4, ViewsFacts
<1> QED
  BY <1>5 DEF A!Realloc

LEMMA StepRefines == IInv /\ IInv' /\ [KHeapNext]_kheapVars => [A!Next]_ClientBlocks
<1> SUFFICES ASSUME IInv, IInv', [KHeapNext]_kheapVars PROVE A!Next \/ ClientBlocks' = ClientBlocks
  OBVIOUS
<1>a. blocks' = blocks => ClientBlocks' = ClientBlocks
  BY DEF ClientBlocks
<1>1. CASE UNCHANGED kheapVars
  BY <1>1, <1>a DEF kheapVars
<1>2. ASSUME stuck = 0, NEW c \in Cubicles, NEW size \in Sizes, NEW base \in HeapPages,
             Allocate(c, size, base)
      PROVE  A!Malloc
  <2>1. CASE Free(MallocPages(size), base) /\ uk_malloc_ifpages(c, size, base)
    <3>1. NewBlock(c, size, base) \notin blocks
      BY <1>2, <2>1, MallocStep
    <3>2. blocks' = blocks \cup {NewBlock(c, size, base)}
      BY <2>1 DEF uk_malloc_ifpages
    <3> QED
      BY <3>1, <3>2, MallocRefines
  <2>2. ASSUME NEW align \in Aligns, Free(MemalignPages(align, size), base),
               uk_posix_memalign_ifpages(c, align, size, base)
        PROVE  A!Malloc
    <3> DEFINE nb == [ptr |-> AlignedPtr(align, base), size |-> size, holder |-> c]
    <3>1. nb \notin blocks
      BY <1>2, <2>2, MemalignStep
    <3>2. blocks' = blocks \cup {nb}
      BY <2>2 DEF uk_posix_memalign_ifpages
    <3> HIDE DEF nb
    <3> QED
      BY <3>1, <3>2, MallocRefines
  <2> QED
    BY <1>2, <2>1, <2>2 DEF Allocate
<1>3. ASSUME stuck = 0, NEW b \in blocks, uk_free_ifpages(b)
      PROVE  A!Free \/ ClientBlocks' = ClientBlocks
  BY <1>3, <1>a, FreeStep, FreeRefines
<1>4. ASSUME stuck = 0, NEW c \in Cubicles, NEW b \in blocks, Reallocate(c, b)
      PROVE  A!Free \/ A!Realloc \/ ClientBlocks' = ClientBlocks
  <2>1. CASE ReallocSpins(b) \/ ReallocToZero(b) \/ ReallocFails(b)
    BY <1>4, <2>1, <1>a, ReallocStaysStep, FreeRefines
  <2>2. ASSUME NEW size \in Sizes, NEW base \in HeapPages,
               Free(MallocPages(size), base), ReallocMoves(c, b, size, base)
        PROVE  A!Realloc
    BY <1>4, <2>2, ReallocMovesStep, ReallocRefines
  <2> QED
    BY <1>4, <2>1, <2>2 DEF Reallocate
<1> QED
  BY <1>1, <1>2, <1>3, <1>4 DEF KHeapNext, A!Next

(* malloc, calloc, free, realloc and posix_memalign, behind their hooks    *)
(* and over any page allocator that returns free pages, implement the      *)
(* abstract allocator.                                                     *)
THEOREM KHeapRefines == KHeapSpec => IsAllocator
<1>1. KHeapInit => A!Init
  BY DEF KHeapInit, A!Init, ClientBlocks
<1> QED
  BY <1>1, IInvHolds, StepRefines, PTL DEF KHeapSpec, IsAllocator, A!Spec

=============================================================================
