------------------------------ MODULE DlMalloc -----------------------------
(***************************************************************************)
(* The private heap of a library: dlmalloc.c as libramfs and libuknetdev   *)
(* build it (no locks, no footers, no mmap, no trimming; 64 bits), over    *)
(* the arena of dlmemreq.c that it takes memory from.                      *)
(*                                                                         *)
(* Memory is cut into chunks that carry their own boundary tags: size, own *)
(* in-use bit and the bit of the chunk before; a chunk that follows a free *)
(* one has the size of that one in its prev_foot.  head has an entry for   *)
(* every address where a chunk begins, and none for the dead tags inside   *)
(* chunks, so looking at one of those is an error.  Which of several       *)
(* binned chunks of the same size is used depends on list and tree order,  *)
(* and is left open.  Requests are far below 2^32 bytes.                   *)
(***************************************************************************)
EXTENDS Integers, FiniteSets, FiniteSetsExt, TLC

CONSTANTS
  ch_start,          \* where the arena begins: malloc(ch_size)
  ch_size,           \* bytes in the arena
  Granularity,       \* mparams.granularity and page_size, 4096
  Requests,          \* sizes clients ask for
  Alignments,        \* arguments of memalign, powers of two above 16
  MaxLive            \* bound on the blocks held at one time

MALLOC_ALIGNMENT == 16
CHUNK_OVERHEAD == 8
MIN_CHUNK_SIZE == 32
MIN_LARGE_SIZE == 256
TOP_FOOT_SIZE == 80
SYS_ALLOC_PADDING == TOP_FOOT_SIZE + MALLOC_ALIGNMENT
MAX_SMALL_REQUEST == MIN_LARGE_SIZE - 1 - (MALLOC_ALIGNMENT - 1) - CHUNK_OVERHEAD

ASSUME ArenaAssumption ==
  /\ ch_start \in Nat \ {0} /\ ch_start % MALLOC_ALIGNMENT = 0
  /\ ch_size \in Nat /\ Granularity \in Nat \ {0}
  /\ Requests \subseteq Nat /\ Alignments \subseteq Nat \ {0}

VARIABLES
  gm,       \* struct malloc_state, and the boundary tags
  ch_ctr,   \* bytes of the arena handed to dlmalloc so far
  live,     \* what the clients hold: [ptr, size]
  spinning  \* get_memory has run out of arena and loops forever

vars == <<gm, ch_ctr, live, spinning>>

RoundUp(x, a) == ((x + a - 1) \div a) * a

chunk2mem(p) == p + 16
mem2chunk(mem) == mem - 16

(* Mutant: room for the data only. *)
request2size_bare(req) == Max({MIN_CHUNK_SIZE, RoundUp(req, MALLOC_ALIGNMENT)})

request2size(req) ==
  Max({MIN_CHUNK_SIZE, RoundUp(req + CHUNK_OVERHEAD, MALLOC_ALIGNMENT)})

is_small(s) == s < MIN_LARGE_SIZE

-----------------------------------------------------------------------------
(* Boundary tags.  m is a state [head, binned, dv, dvsize, top, topsize,   *)
(* ok]; ok turns FALSE when a run-time check would call ABORT.             *)

(* Writing the head of a chunk makes dead what lies inside it. *)
SetHead(m, p, s, c, pin, foot) ==
  LET alive == {q \in DOMAIN m.head : q <= p \/ q >= p + s} \cup {p} IN
  [m EXCEPT !.head =
     [q \in alive |-> IF q = p THEN [size |-> s, cinuse |-> c, pinuse |-> pin, prev_foot |-> foot]
                      ELSE m.head[q]]]

chunksize(m, p) == m.head[p].size
cinuse(m, p) == m.head[p].cinuse
pinuse(m, p) == m.head[p].pinuse

(* n->head |= PINUSE_BIT, which may be the first thing known of n. *)
SetPinuse(m, n) ==
  IF n \in DOMAIN m.head
  THEN [m EXCEPT !.head[n].pinuse = TRUE, !.head[n].prev_foot = 0]
  ELSE SetHead(m, n, 0, FALSE, TRUE, 0)

set_inuse(m, p, s) ==
  LET keep == p \in DOMAIN m.head
      pin == keep /\ m.head[p].pinuse
      foot == IF keep THEN m.head[p].prev_foot ELSE 0
  IN SetPinuse(SetHead(m, p, s, TRUE, pin, foot), p + s)

set_inuse_and_pinuse(m, p, s) == SetPinuse(SetHead(m, p, s, TRUE, TRUE, 0), p + s)

set_size_and_pinuse_of_inuse_chunk(m, p, s) == SetHead(m, p, s, TRUE, TRUE, 0)

set_size_and_pinuse_of_free_chunk(m, p, s) ==
  LET m1 == SetHead(m, p, s, FALSE, TRUE, 0) IN
  [m1 EXCEPT !.head[p + s].prev_foot = s]

clear_pinuse(m, n) == [m EXCEPT !.head[n].pinuse = FALSE]

(* Mutant: the next chunk is not told. *)
set_free_without_pinuse(m, p, s, n) == set_size_and_pinuse_of_free_chunk(m, p, s)

set_free_with_pinuse(m, p, s, n) ==
  set_size_and_pinuse_of_free_chunk(clear_pinuse(m, n), p, s)

SetTop(m, p, s) ==
  [SetHead(m, p, s, FALSE, TRUE, 0) EXCEPT !.top = p, !.topsize = s]

-----------------------------------------------------------------------------
(* Bins, smallbins and treebins alike.                                     *)

(* Mutant: the chunk is forgotten. *)
insert_nothing(m, p) == m

insert_chunk(m, p) == [m EXCEPT !.binned = @ \cup {p}]

(* CORRUPTION_ERROR_ACTION if the links of p are not those of a bin. *)
unlink_chunk(m, p) == [m EXCEPT !.binned = @ \ {p}, !.ok = @ /\ p \in m.binned]

(* A designated victim goes to a smallbin: it has to be small. *)
replace_dv(m, p, s) ==
  [(IF m.dvsize # 0 THEN insert_chunk(m, m.dv) ELSE m)
     EXCEPT !.dv = p, !.dvsize = s, !.ok = @ /\ (m.dvsize # 0 => is_small(m.dvsize))]

SmallBinned(m) == {p \in m.binned : is_small(chunksize(m, p))}
LargeBinned(m) == m.binned \ SmallBinned(m)

(* The smallest chunks of a set that hold nb bytes. *)
BestFit(m, chunks, nb) ==
  {p \in chunks : /\ chunksize(m, p) >= nb
                  /\ \A q \in chunks : chunksize(m, q) >= nb =>
                                          chunksize(m, p) <= chunksize(m, q)}

-----------------------------------------------------------------------------
(* dlmalloc.  An operator that allocates returns the set of its outcomes   *)
(* [m, ctr, p]: the new state, the arena counter and the chunk.            *)

(* A binned chunk is used; what is left of it, if it can be a chunk,       *)
(* becomes the designated victim (dv) or is binned.                        *)
UseBinned(m, p, nb, dv) ==
  LET m1 == unlink_chunk(m, p)
      s == chunksize(m, p)
      m2 == set_size_and_pinuse_of_free_chunk(
              set_size_and_pinuse_of_inuse_chunk(m1, p, nb), p + nb, s - nb)
  IN
  IF s - nb < MIN_CHUNK_SIZE THEN set_inuse_and_pinuse(m1, p, s)
  ELSE IF dv THEN replace_dv(m2, p + nb, s - nb)
  ELSE insert_chunk(m2, p + nb)

UseDv(m, nb) ==
  LET m1 == set_size_and_pinuse_of_inuse_chunk(
              set_size_and_pinuse_of_free_chunk(m, m.dv + nb, m.dvsize - nb), m.dv, nb)
  IN
  IF m.dvsize - nb >= MIN_CHUNK_SIZE
  THEN [m1 EXCEPT !.dv = m.dv + nb, !.dvsize = m.dvsize - nb]
  ELSE [set_inuse_and_pinuse(m, m.dv, m.dvsize) EXCEPT !.dv = 0, !.dvsize = 0]

UseTop(m, nb) ==
  SetTop(set_size_and_pinuse_of_inuse_chunk(m, m.top, nb), m.top + nb, m.topsize - nb)

(* sys_alloc: the arena only ever grows by its end, so after the first     *)
(* time the new memory is always appended to top.  get_memory spins when   *)
(* the arena is used up (p = 0).                                           *)
FirstSize(nb) ==
  RoundUp(nb + SYS_ALLOC_PADDING, Granularity) + RoundUp(ch_start, Granularity) - ch_start

MoreSize(m, nb) == RoundUp(nb - m.topsize + SYS_ALLOC_PADDING, Granularity)

(* Mutant: the end of the arena is not looked at. *)
sys_alloc_endless(m, ctr, nb) ==
  LET ssize == IF m.top = 0 THEN FirstSize(nb) ELSE MoreSize(m, nb)
      m1 == IF m.top = 0 THEN SetTop(m, ch_start, ssize - TOP_FOOT_SIZE)
            ELSE SetTop(m, m.top, m.topsize + ssize)
  IN [m |-> UseTop(m1, nb), ctr |-> ctr + ssize, p |-> m1.top]

sys_alloc(m, ctr, nb) ==
  LET ssize == IF m.top = 0 THEN FirstSize(nb) ELSE MoreSize(m, nb)
      m1 == IF m.top = 0 THEN SetTop(m, ch_start, ssize - TOP_FOOT_SIZE)
            ELSE SetTop(m, m.top, m.topsize + ssize)
  IN
  IF ctr + ssize > ch_size THEN [m |-> m, ctr |-> ctr, p |-> 0]
  ELSE [m |-> UseTop(m1, nb), ctr |-> ctr + ssize, p |-> m1.top]

dlmalloc(m, ctr, bytes) ==
  LET nb == request2size(bytes)
      small == bytes <= MAX_SMALL_REQUEST
      exact == {p \in SmallBinned(m) : chunksize(m, p) = nb}
      smallFit == BestFit(m, SmallBinned(m), nb)
      largeFit == BestFit(m, LargeBinned(m), nb)
      Result(m1, p) == [m |-> m1, ctr |-> ctr, p |-> p]
  IN
  IF small /\ exact # {}
    THEN {Result(UseBinned(m, p, nb, TRUE), p) : p \in exact}
  ELSE IF small /\ nb > m.dvsize /\ smallFit # {}
    THEN {Result(UseBinned(m, p, nb, TRUE), p) : p \in smallFit}
  ELSE IF small /\ nb > m.dvsize /\ largeFit # {}              \* tmalloc_small
    THEN {Result(UseBinned(m, p, nb, TRUE), p) : p \in largeFit}
  ELSE IF ~ small /\ largeFit # {}
            /\ (m.dvsize < nb \/ \E p \in largeFit : chunksize(m, p) < m.dvsize)
    THEN {Result(UseBinned(m, p, nb, FALSE), p) : p \in largeFit}   \* tmalloc_large
  ELSE IF nb <= m.dvsize THEN {Result(UseDv(m, nb), m.dv)}
  ELSE IF nb < m.topsize THEN {Result(UseTop(m, nb), m.top)}
  ELSE {sys_alloc(m, ctr, nb)}

-----------------------------------------------------------------------------
(* dlfree and dispose_chunk: the chunk is merged with the free chunks      *)
(* before and after it, which are top, dv or binned.                       *)

Consolidate(m, p, psize) ==
  LET next == p + psize
      back == ~ pinuse(m, p)
      p1 == IF back THEN p - m.head[p].prev_foot ELSE p
      s1 == next - p1
      m1 == IF back /\ p1 # m.dv THEN unlink_chunk(m, p1) ELSE m
      s2 == s1 + chunksize(m, next)
      m2 == set_size_and_pinuse_of_free_chunk(unlink_chunk(m1, next), p1, s2)
  IN
  IF cinuse(m, next) THEN
    IF back /\ p1 = m.dv
    THEN [set_free_with_pinuse(m1, p1, s1, next) EXCEPT !.dvsize = s1]
    ELSE insert_chunk(set_free_with_pinuse(m1, p1, s1, next), p1)
  ELSE IF next = m.top THEN
    LET m3 == SetTop(m1, p1, m.topsize + s1) IN
    IF p1 = m.dv THEN [m3 EXCEPT !.dv = 0, !.dvsize = 0] ELSE m3
  ELSE IF next = m.dv THEN
    [set_size_and_pinuse_of_free_chunk(m1, p1, m.dvsize + s1)
       EXCEPT !.dv = p1, !.dvsize = m.dvsize + s1]
  ELSE IF p1 = m.dv THEN [m2 EXCEPT !.dvsize = s2]
  ELSE insert_chunk(m2, p1)

(* The RTCHECKs of free and realloc. *)
Usable(m, p) ==
  /\ p \in DOMAIN m.head /\ p >= ch_start
  /\ cinuse(m, p)
  /\ p + chunksize(m, p) \in DOMAIN m.head /\ pinuse(m, p + chunksize(m, p))

dlfree(m, p) ==
  IF Usable(m, p) THEN Consolidate(m, p, chunksize(m, p)) ELSE [m EXCEPT !.ok = FALSE]

-----------------------------------------------------------------------------
(* try_realloc_chunk: [m, done], in place.                                 *)

(* Chunk p takes nb of the s bytes that begin at it. *)
SplitInuse(m, p, nb, s) ==
  Consolidate(set_inuse(set_inuse(m, p, nb), p + nb, s - nb), p + nb, s - nb)

(* Mutant: the next chunk is taken whether it is free or not. *)
CanExtendAlways(m, next, total, nb) == total >= nb

CanExtend(m, next, total, nb) == ~ cinuse(m, next) /\ total >= nb

try_realloc_chunk(m, p, nb) ==
  LET old == chunksize(m, p)
      next == p + old
      total == old + chunksize(m, next)
      Done(m1) == [m |-> m1, done |-> TRUE]
      No == [m |-> m, done |-> FALSE]
      m1 == unlink_chunk(m, next)
  IN
  IF ~ Usable(m, p) THEN [m |-> [m EXCEPT !.ok = FALSE], done |-> FALSE]
  ELSE IF old >= nb THEN
    Done(IF old - nb >= MIN_CHUNK_SIZE THEN SplitInuse(m, p, nb, old) ELSE m)
  ELSE IF next = m.top THEN
    IF total > nb THEN Done(SetTop(set_inuse(m, p, nb), p + nb, total - nb)) ELSE No
  ELSE IF next = m.dv THEN
    IF total < nb THEN No
    ELSE IF total - nb >= MIN_CHUNK_SIZE
    THEN Done([clear_pinuse(set_size_and_pinuse_of_free_chunk(
                              set_inuse(m, p, nb), p + nb, total - nb), p + total)
                 EXCEPT !.dv = p + nb, !.dvsize = total - nb])
    ELSE Done([set_inuse(m, p, total) EXCEPT !.dv = 0, !.dvsize = 0])
  ELSE IF ~ CanExtend(m, next, total, nb) THEN No
  ELSE IF total - nb < MIN_CHUNK_SIZE THEN Done(set_inuse(m1, p, total))
  ELSE Done(SplitInuse(m1, p, nb, total))

-----------------------------------------------------------------------------
(* internal_memalign, on the chunk that malloc has returned for it.        *)

AlignedChunk(p, alignment) ==
  LET br == mem2chunk(RoundUp(chunk2mem(p), alignment)) IN
  IF br = p \/ br - p >= MIN_CHUNK_SIZE THEN br ELSE br + alignment

GiveBackLeader(m, p, newp) ==
  IF newp = p THEN m
  ELSE Consolidate(set_inuse(set_inuse(m, newp, p + chunksize(m, p) - newp), p, newp - p),
                   p, newp - p)

GiveBackTail(m, p, nb) ==
  IF chunksize(m, p) > nb + MIN_CHUNK_SIZE THEN SplitInuse(m, p, nb, chunksize(m, p)) ELSE m

MemalignRequest(alignment, bytes) ==
  request2size(bytes) + alignment + MIN_CHUNK_SIZE - CHUNK_OVERHEAD

-----------------------------------------------------------------------------
(* The calls.                                                              *)

Init ==
  /\ gm = [head |-> <<>>, binned |-> {}, dv |-> 0, dvsize |-> 0,
           top |-> 0, topsize |-> 0, ok |-> TRUE]
  /\ ch_ctr = 0
  /\ live = {}
  /\ spinning = FALSE

Running == gm.ok /\ ~ spinning

Block(p, bytes) == [ptr |-> chunk2mem(p), size |-> bytes]

Spin == spinning' = TRUE /\ UNCHANGED <<gm, ch_ctr, live>>

Malloc(bytes) ==
  /\ Running /\ Cardinality(live) < MaxLive
  /\ \E r \in dlmalloc(gm, ch_ctr, bytes) :
       \/ r.p = 0 /\ Spin
       \/ /\ r.p # 0
          /\ gm' = r.m /\ ch_ctr' = r.ctr
          /\ live' = live \cup {Block(r.p, bytes)}
          /\ UNCHANGED spinning

Free(b) ==
  /\ Running
  /\ gm' = dlfree(gm, mem2chunk(b.ptr))
  /\ live' = live \ {b}
  /\ UNCHANGED <<ch_ctr, spinning>>

ReallocInPlace(b, bytes) ==
  LET t == try_realloc_chunk(gm, mem2chunk(b.ptr), request2size(bytes)) IN
  /\ Running /\ t.done
  /\ gm' = t.m
  /\ live' = (live \ {b}) \cup {[b EXCEPT !.size = bytes]}
  /\ UNCHANGED <<ch_ctr, spinning>>

(* dlrealloc, when the block cannot stay. *)
ReallocMoves(b, bytes) ==
  LET t == try_realloc_chunk(gm, mem2chunk(b.ptr), request2size(bytes)) IN
  /\ Running /\ ~ t.done
  /\ \E r \in dlmalloc(t.m, ch_ctr, bytes) :
       \/ r.p = 0 /\ Spin
       \/ /\ r.p # 0
          /\ gm' = dlfree(r.m, mem2chunk(b.ptr)) /\ ch_ctr' = r.ctr
          /\ live' = (live \ {b}) \cup {Block(r.p, bytes)}
          /\ UNCHANGED spinning

Memalign(alignment, bytes) ==
  /\ Running /\ Cardinality(live) < MaxLive
  /\ \E r \in dlmalloc(gm, ch_ctr, MemalignRequest(alignment, bytes)) :
       LET p == AlignedChunk(r.p, alignment) IN
       \/ r.p = 0 /\ Spin
       \/ /\ r.p # 0
          /\ gm' = GiveBackTail(GiveBackLeader(r.m, r.p, p), p, request2size(bytes))
          /\ ch_ctr' = r.ctr
          /\ live' = live \cup {Block(p, bytes)}
          /\ UNCHANGED spinning

Next ==
  \/ \E bytes \in Requests :
       \/ Malloc(bytes)
       \/ \E alignment \in Alignments : Memalign(alignment, bytes)
       \/ \E b \in live : ReallocInPlace(b, bytes) \/ ReallocMoves(b, bytes)
  \/ \E b \in live : Free(b)

Spec == Init /\ [][Next]_vars

-----------------------------------------------------------------------------
(* Properties.                                                             *)

(* Every chunk lies in the arena and has a size, what is binned, dv and    *)
(* top are chunks, and get_memory has handed out no more than the arena.   *)
TypeOK ==
  /\ \A p \in DOMAIN gm.head :
       /\ p \in ch_start .. (ch_start + ch_size)
       /\ gm.head[p] \in [size : Nat \ {0}, cinuse : BOOLEAN, pinuse : BOOLEAN, prev_foot : Nat]
  /\ gm.binned \subseteq DOMAIN gm.head
  /\ {gm.dv, gm.top} \subseteq DOMAIN gm.head \cup {0}
  /\ {gm.dvsize, gm.topsize, ch_ctr} \subseteq Nat /\ ch_ctr <= ch_size
  /\ \A b \in live : b \in [ptr : Nat, size : Nat]
  /\ gm.ok \in BOOLEAN /\ spinning \in BOOLEAN

Chunks == DOMAIN gm.head
FreeChunks == {p \in Chunks : ~ cinuse(gm, p)}
After(p) == p + chunksize(gm, p)

(* do_check_malloc_state: the chunks tile the memory taken from the arena, *)
(* up to the foot of top; the tags agree with the neighbours; no two free  *)
(* chunks are adjacent; and every free chunk is top, the designated victim *)
(* or in one bin.                                                          *)
HeapTiled ==
  gm.top # 0 =>
    /\ ch_start \in Chunks /\ pinuse(gm, ch_start)
    /\ After(gm.top) = ch_start + ch_ctr - TOP_FOOT_SIZE
    /\ \A p \in Chunks \ {gm.top} :
         /\ After(p) \in Chunks
         /\ chunksize(gm, p) >= MIN_CHUNK_SIZE
         /\ pinuse(gm, After(p)) = cinuse(gm, p)
         /\ ~ cinuse(gm, p) => /\ gm.head[After(p)].prev_foot = chunksize(gm, p)
                               /\ cinuse(gm, After(p))
         /\ \A q \in Chunks : ~ (p < q /\ q < After(p))
    /\ FreeChunks = gm.binned \cup ({gm.dv, gm.top} \ {0})
    /\ gm.dv \notin gm.binned /\ gm.top \notin gm.binned /\ gm.top # gm.dv
    /\ gm.topsize = chunksize(gm, gm.top)
    /\ gm.dvsize = IF gm.dv = 0 THEN 0 ELSE chunksize(gm, gm.dv)

(* The chunks in use are those of the blocks that clients hold, no more    *)
(* (nothing leaks when realloc and memalign cut chunks up) and no fewer,   *)
(* and each has room for what was asked for below the next chunk's head.   *)
InUseIsHeld ==
  /\ {p \in Chunks : cinuse(gm, p)} = {mem2chunk(b.ptr) : b \in live}
  /\ \A b \in live : b.size + CHUNK_OVERHEAD <= chunksize(gm, mem2chunk(b.ptr))
  /\ \A b, c \in live : b.ptr = c.ptr => b = c

(* No check of free, realloc or the bins calls ABORT, and the designated   *)
(* victim that is replaced is small, for clients that free what they hold. *)
NeverAborts == gm.ok

A == INSTANCE Allocator WITH Low <- ch_start, High <- ch_start + ch_size

(* The library implements the abstract allocator. *)
IsAllocator == A!Spec

=============================================================================
