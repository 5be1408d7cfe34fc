------------------------------- MODULE Buddy -------------------------------
(***************************************************************************)
(* The binary buddy page allocator, libukallocbbuddy (bbuddy.c), as        *)
(* operators on its state: free lists of chunks of 2^i pages, one bit per  *)
(* page, and the word of each page where a free chunk keeps its order.     *)
(* That word is the client's while the page is allocated, so it may hold   *)
(* anything when the allocator looks at it.                                *)
(*                                                                         *)
(* Pages are page numbers; a chunk is named by its first page.             *)
(***************************************************************************)
EXTENDS Integers, Sequences, SequencesExt, FiniteSetsExt

CONSTANTS
  FREELIST_SIZE,     \* 52: larger than the order of any chunk
  NoPage             \* what palloc returns when it fails

LOCAL PAGE_BYTES == 4096

sizeof_memr == 40    \* struct uk_bbpalloc_memr

DIV_ROUND_UP(x, y) == (x + y - 1) \div y

Orders == 0 .. (FREELIST_SIZE - 1)

ChunkSpan(ch, order) == ch .. (ch + 2^order - 1)

num_pages_to_order(n) == CHOOSE i \in 0..n : 2^i >= n /\ (i = 0 \/ 2^(i-1) < n)

Covers(memr, page) ==
  memr.first_page <= page /\ page < memr.first_page + memr.nr_pages

(* Pages outside of every region count as allocated. *)
allocated_in_map(b, page) ==
  ~ (\E r \in b.memr : Covers(r, page)) \/ page \in b.bitmap

(* The UK_ASSERTs of map_alloc and map_free. *)
InOneRegion(b, pages) ==
  \E r \in b.memr : \A p \in pages : Covers(r, p)

map_alloc(b, pages) ==
  [b EXCEPT !.bitmap = @ \cup pages,
            !.nr_free_pages = @ - Cardinality(pages),
            !.asserts = @ /\ InOneRegion(b, pages)]

map_free(b, pages) ==
  [b EXCEPT !.bitmap = @ \ pages,
            !.nr_free_pages = @ + Cardinality(pages),
            !.asserts = @ /\ InOneRegion(b, pages)]

(* A free chunk is put at the head of its list and its order on its page.  *)
Link(b, ch, order) ==
  [b EXCEPT !.free_head[order] = <<ch>> \o @, !.level[ch] = order]

(* Unlinking follows the pointers on the page of ch: they are good only if *)
(* ch heads a chunk of that list.                                          *)
Unlink(b, ch, order) ==
  [b EXCEPT !.free_head[order] = Remove(@, ch),
            !.asserts = @ /\ Contains(b.free_head[order], ch)]

-----------------------------------------------------------------------------
(* bbuddy_palloc: a chunk of the smallest order there is, split in halves  *)
(* whose upper ones are linked.                                            *)

(* Mutant: only the last upper half is linked. *)
SplitLast(b, ch, i, order) ==
  IF i = order THEN b ELSE Link(b, ch + 2^order, order)

RECURSIVE Split(_, _, _, _)
Split(b, ch, i, order) ==
  IF i = order THEN b
  ELSE Split(Link(b, ch + 2^(i-1), i - 1), ch, i - 1, order)

bbuddy_palloc(b, num_pages) ==
  LET order == num_pages_to_order(num_pages)
      fitting == {i \in Orders : i >= order /\ b.free_head[i] # <<>>}
  IN
  IF fitting = {} THEN [page |-> NoPage, b |-> b]
  ELSE LET i == Min(fitting)
           ch == Head(b.free_head[i])
       IN [page |-> ch,
           b |-> map_alloc(Split(Unlink(b, ch, i), ch, i, order), ChunkSpan(ch, order))]

-----------------------------------------------------------------------------
(* bbuddy_pfree: the chunk is merged with its buddy as long as that one is *)
(* free and has the same order.                                            *)

BuddyOf(ch, order) ==
  IF (ch \div 2^order) % 2 = 1 THEN ch - 2^order ELSE ch + 2^order

(* Mutant: the order of the buddy is not compared. *)
MergeableAnyLevel(b, ch, order) == ~ allocated_in_map(b, BuddyOf(ch, order))

(* Mutant: the bit of the buddy is not tested. *)
MergeableByLevel(b, ch, order) ==
  /\ \E r \in b.memr : Covers(r, BuddyOf(ch, order))
  /\ b.level[BuddyOf(ch, order)] = order

Mergeable(b, ch, order) ==
  /\ ~ allocated_in_map(b, BuddyOf(ch, order))
  /\ b.level[BuddyOf(ch, order)] = order

(* Mutant: one merge at most. *)
MergeOnce(b, ch, order) ==
  IF Mergeable(b, ch, order)
  THEN Link(Unlink(b, BuddyOf(ch, order), order), Min({ch, BuddyOf(ch, order)}), order + 1)
  ELSE Link(b, ch, order)

RECURSIVE Merge(_, _, _)
Merge(b, ch, order) ==
  IF order < FREELIST_SIZE /\ Mergeable(b, ch, order)
  THEN Merge(Unlink(b, BuddyOf(ch, order), order),
             Min({ch, BuddyOf(ch, order)}), order + 1)
  ELSE Link(b, ch, order)

bbuddy_pfree(b, page, num_pages) ==
  LET order == num_pages_to_order(num_pages) IN
  Merge(map_free(b, ChunkSpan(page, order)), page, order)

-----------------------------------------------------------------------------
(* bbuddy_addmem: the region's own descriptor and bitmap come first, the   *)
(* rest is cut into chunks limited by alignment and by what is left.       *)

RECURSIVE Carve(_, _, _)
Carve(b, min, range) ==
  IF range = 0 THEN b
  ELSE LET i == CHOOSE k \in 0..range :
                  /\ 2^(k+1) > range \/ (min \div 2^k) % 2 = 1
                  /\ \A j \in 0..(k-1) : 2^(j+1) <= range /\ (min \div 2^j) % 2 = 0
       IN Carve(Link(b, min, i), min + 2^i, range - 2^i)

(* nr_pages for a region of that many pages. *)
RegionPages(pages) ==
  (8 * (pages * PAGE_BYTES - sizeof_memr)) \div (8 * PAGE_BYTES + 1)

bbuddy_addmem(b, min, max) ==
  LET nr == RegionPages(max - min)
      memr_pages == DIV_ROUND_UP(sizeof_memr + DIV_ROUND_UP(nr, 8), PAGE_BYTES)
      first == min + memr_pages
      b1 == [b EXCEPT !.memr = @ \cup {[first_page |-> first, nr_pages |-> nr]},
                      !.bitmap = @ \cup (first .. (first + nr - 1))]
  IN
  IF max - min < 2 THEN b
  ELSE Carve(map_free(b1, first .. (first + nr - 1)), first, max - first)

(* The allocator's descriptor takes a page, and the page after it is left  *)
(* out as well.                                                            *)
metalen == 1

uk_allocbbuddy_init(min, max) ==
  LET b == [free_head |-> [i \in Orders |-> <<>>],
            level |-> [p \in min .. (max - 1) |-> 0],
            memr |-> {}, bitmap |-> {}, nr_free_pages |-> 0, asserts |-> TRUE]
  IN
  IF max > min + metalen + metalen
  THEN bbuddy_addmem(b, min + metalen + metalen, max)
  ELSE b

=============================================================================
