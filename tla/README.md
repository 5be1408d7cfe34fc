# CubicleOS in TLA+

CubicleOS splits a Unikraft library OS into *cubicles*: modules with a memory
protection key (Intel MPK) each. Three mechanisms hold it together, and this
project models them first:

* **cross-cubicle calls** go through hooks that `kernel/fig.py` generates. A
  hook moves to the callee's stack, enables the callee's key and disables the
  caller's;
* **windows** are entries `{begin, size, mask}` in tables that a cubicle keeps
  in its own memory. They say which other cubicles may touch which object;
* **trap-and-map**: an access to a page under a foreign key raises SIGSEGV. The
  handler in `kernel/loader.c` moves the page to the key of the cubicle that
  touched it, if the owner's windows allow it. Closing a window moves nothing:
  the page comes back when its owner touches it.

`src/README.md` promises that these give "spatial memory isolation, temporal
memory isolation, and control flow integrity".

Around the monitor the project models the libraries that move memory between
cubicles: the heap they share, the heaps they keep for themselves, the file
system and the network path.

## The system's parts

| Part | State | Operations | What is hard about it |
|---|---|---|---|
| Hooks (`fig.py`, `coro.h`) | `layer`, `prev_module[16]`, one coroutine object per function, PKRU | call, entry, return; early return for friends | global bookkeeping moved by every nested call; one coroutine for all calls of a function |
| Fault handler (`loader.c`) | key of every page | `sig_handler` with `should_map`, `should_map_stack`, `should_map_heap` | decides from `rip`, `rsp` and the table of another cubicle; lazy revocation |
| Keys and heap (`loader.c`) | `pmap[].pkey`, `heap_cfg` | `cmp_lock`, `cmp_unlock`, `heap_attach` | pages change owner in the wraps around malloc and free, while old windows still name them |
| Window tables (seven `ipc.c`) | stack, globals and heap tables | add, remove | four different searches; full tables; stale entries |
| libukalloc with its hooks | a header on a page of each block, `heap_cfg` | malloc, free, realloc, posix_memalign | the header is found from the pointer alone, in one way by the library and in two by the hooks |
| bbuddy | bitmap, free lists, tags on free pages | palloc, pfree | merging trusts words on pages that clients have written |
| dlmalloc (private heaps) | boundary tags, bins, designated victim, top | malloc, free, realloc, memalign | stale tags; splitting near the minimum size; an arena that ends |
| vfscore over ramfs | descriptors, files, dentries, vnodes; nodes, buffers, windows | the system calls | reference counts on error paths; caches that renames make stale |
| lwip glue, uknetdev | packet buffers, socket files, windows, the tap | poll, input, output, free, open, close | pages used again under windows left behind; frames arrive at any moment |
| Loader (`loader.c`) | `pmap`, `stacks[500]`, `mmap_cfg` | scan, create cubicles, memory map, merge keys | fixed tables; keys merged after pages were tagged |

Every part of the repository is in `PROJECT.json` under `components`, with the
reason where it is not modelled; `hazards` lists what can go wrong at which
line.

## Modules

| Module | Models | Uses |
|---|---|---|
| `Cubicle` | the monitor at run time: hooks, faults, keys, window tables | |
| `KHeap` | libukalloc's `ifpages` functions with their wraps, over any page allocator | |
| `Buddy` | the binary buddy allocator, as operators on its state | |
| `KernelHeap` | the shared heap as it is built, with clients that write on their pages | `KHeap`, `Buddy` |
| `DlMalloc` | the private heap of a library | |
| `RamFs` | ramfs, as operators on nodes, buffers and windows | |
| `Vfs` | vfscore's system calls over ramfs | `RamFs` |
| `NetPath` | lwip's glue and the tap driver of uknetdev | |
| `Allocator` | abstract: blocks that are held lie in the memory and never overlap | implemented by `KHeap`, `KernelHeap` and `DlMalloc` |
| `Link` | abstract: frames arrive whole, once and in order, or get lost | implemented by `NetPath` |
| `CubicleProofs`, `CubiclePrivilege`, `CubicleIsolation`, `CubicleHeap` | proofs about `Cubicle`: types and call stack, keys, memory, heap pages | each extends one before it |
| `KHeapProofs`, `NetPathProofs` | proofs about `KHeap` and `NetPath`, refinements included | |
| `MCCubicle`, `MCKernelHeap`, `MCVfs` | the instances TLC checks | |

The models meet in the state they share in the code. `heap_cfg` is a variable of
`Cubicle` and of `KHeap`: the first sees blocks of one page moved by any nesting
of calls, the second whole blocks with headers moved by one call at a time. The
windows of `RamFs` and `NetPath` are entries of the tables that `Cubicle` has for
any cubicle; there the question is who may move a page through an entry, here
whether the library keeps the entries it needs.

### State of `Cubicle`

| Variable | Code |
|---|---|
| `pkru` | the PKRU register, as the set of keys it enables |
| `layer`, `prev_module` | the globals of the same names |
| `act` | locals of the hook and the entry point at each layer: function, `prev`, argument, result |
| `code` | modules whose code is on the stack of a layer (direct calls push) |
| `coro` | `{name}_coro->thread`, as the layer of the hook frame it points to |
| `phase` | the body of a cubicle, or the half of the trampoline that runs |
| `pageKey` | the key in the page table |
| `heap_cfg`, `block` | the monitor's owner of a heap page, and the allocator's |
| `tab`, `nr_real` | the window tables and the counter of vfscore and ukboot |
| `opened` | history: whom the owner has opened a page to since it got it |
| `halted` | `while(1)` in the monitor or in an `ipc.c` |

`Init` is the state in which `main()` calls `_liblinuxuplat_entry`. Keys are
already merged (constants `pkey`, `flist`), but stacks still have the key
`pkey_alloc` that `create_cubicles` gave them. `Unlocked` holds the keys that a
merge orphaned: `pkey_alloc(2)` enables a key, and `main()` disables only keys
that `pmap` still holds.

### Actions

| Action | Code |
|---|---|
| `HookedCall` | `hooked_{name}` up to `coro_resume`, with its pre_wrap |
| `HookSpins` | the same, when writing the callee's stack ends in "cannot remap LOADER's stack" |
| `EntryStart`, `EntryReturn` | the entry point before and after the call |
| `HookReturn` | the hook after `coro_resume`, with its post_wrap |
| `WildReturn` | `coro_yield` through a frame that no longer exists |
| `DirectCall`, `DirectReturn` | calls to shared libraries and to friends |
| `DirectMalloc`, `DirectFree` | the allocator called by a friend, without wraps |
| `FaultMap`, `FaultSpin` | `sig_handler` moves the page, or spins |
| `AddIndexed` | `*_ipc_add_stack` and `*_ipc_add_globals` |
| `AddHeap`, `RemoveHeap` | the heap table; `ipc` says which of the four searches |

An access that does not fault changes nothing here and is no action. Stack pages
that the trampoline touches are taken back inside its actions (`OnStack`), since
those accesses always happen.

`ipc` distinguishes the searches of the heap table. "strict" (ramfs, uknetdev,
linuxuplat): first free entry, spin when a remove finds nothing. "silent"
(libnginx, and sqlite with its patches): the same without the spin. "counted" (vfscore, ukboot):
remove looks below `nr_real` only. "reuse" (lwip): add also takes an entry with
the same begin.

External facts, taken from how the code relies on Linux: a signal handler starts
with a PKRU of its own, which `sigreturn` discards; `pkey_alloc(0, 0)` enables
the key.

### The shared heap: `KHeap`, `Buddy`, `KernelHeap`

| Variable | Code |
|---|---|
| `heap_cfg` | the monitor's owner of each page |
| `meta` | the `metadata_ifpages` headers, by the page they lie on |
| `blocks` | what clients hold: pointer, size, holder |
| `stuck` | the block on which a hook spins in `cmp_attach`, since `pkey_mprotect` refuses an address that does not start a page |
| `buddy` | `struct uk_bbpalloc`: bitmap, free lists, page count, and the order word on every page |

One action is one call through its hook: pre_wrap, function, post_wrap. In
`KHeap` the page allocator is any that answers free pages, and the theorems are
about this module; in `KernelHeap` it is `Buddy`, and clients write what they
like into the word of a page in which `Buddy` keeps its order.
`PallocAnswersFreePages` links the two: it is all that `KHeap` asks.

### The private heaps: `DlMalloc`

`gm` is `struct malloc_state` with the boundary tags (`head`, `prev_foot`), `ch_ctr`
how much of the arena of `dlmemreq.c` is used, `live` what clients hold; `spinning`
says that the arena ran out and `get_memory` loops. `Malloc`,
`Free`, `ReallocInPlace`, `ReallocMoves` and `Memalign` are the entry points,
with the splitting, binning and consolidation of the source. The order within a
bin is left open; sizes are real bytes, with the constants of a 64-bit build.
Looking at a tag that is not a chunk's any more sets `gm.ok` to FALSE, as does a
check of the code that would call ABORT.

### The file system: `RamFs`, `Vfs`

One action of `Vfs` is one system call, since nothing preempts them and the locks
are compiled out. Its helpers are functions from state to state with the names of
the code (`namei`, `drele`, `dentry_move`, `fdrop`, `ramfs_rename`, ...), composed
in the order of the code, error paths included. A path is a sequence of names and
a size a number of half pages. A call that would follow a dangling pointer,
unlink a list entry twice, spin or run past a buffer sets `fault` and is the last.
Three fields are history: `opened` of a dentry, `skew` of a file and `by` of a node
say what the code's known imbalances account for, so that the properties can say
that there are no others. A vnode's `v_flags` is not initialised by
`vfscore_vget`; what `sys_unlink` and `sys_rmdir` read there is a free choice.

### The network path: `NetPath`

`use` says what each page holds, `LWIP_ipc_tab_heap` is the window table, `dev` the
state of the device, `pkt`, `frame` and `psize` the buffer being received into, and
`tap`, `sent`, `received` the frames. `pc` is where the guest is: in its own code, in
`pull_rx`, in lwIP's input, or halted, with the reason in `why`. lwIP and the host
are external: lwIP takes or refuses a frame and may send and free at any time,
also while it is handed a frame; the host sends at any time. A sent page and a
freed one do not become free again, because the code never gives them back to
`uk_malloc`.

## Runs

| Run | Question | Result |
|---|---|---|
| `friends` | Where the allocator and vfscore share a key: do `layer`, `prev_module`, PKRU, pages and heap ownership agree through nested, re-entrant, direct and library calls and faults? | holds |
| `isolation` | Without friends, with lwip's three tables: do pages move only through open windows of their present owner, is every block under a key, do calls return to their hook? | holds |
| `kernelheap` | Do headers, hooks, bitmap and free lists agree, whatever clients write, and do clients see an `Allocator`? | holds |
| `dlmalloc` | Do tags, bins and top always describe the memory, does no check abort, and do clients see an `Allocator`? | holds |
| `vfs` | Are files, dentries and vnodes counted exactly on every path, and does the cache agree with ramfs? | holds, with the imbalances the properties name |
| `ramfs` | Are sizes, buffers and windows consistent under reads, writes, truncations, renames and unlinks? | holds, with the exceptions the properties name |
| `netpath` | Do the cubicles reach what they must touch, do frames arrive as `Link` promises, is every queued frame read? | holds |
| `friends_heap` | Is every block in use under some key? | violated with friends |
| `reentry` | Do calls return to their hook when a function is re-entered? | violated |
| `spill` | Does a window move only pages of its object? | violated |
| `highest` | Does remove find every window that is there? | violated for vfscore and ukboot |
| `dup2` | Does every descriptor hold a reference on its file? | violated by `dup3` |

The five violations are described in `findings`, with the lines that disagree.

**Bounds.**

* `Cubicle`: `MaxLayer` = 3 calls deep, so that platform, application, file system
  and allocator are all active at once and a nested call runs inside every kind of
  caller. `MaxNest` bounds direct calls within a layer; 2 gives a library or a friend
  on top of a cubicle. `friends` has `Slots` = 2, so that a table can be full, have a
  hole and hold duplicates; `isolation` has one slot for each of three tables and two
  heap pages, so that one can be freed while the other is in use. `PageSize` = 2 has
  objects on and off the start of a page. `Reentry` is FALSE in `isolation`, because
  a re-entered function ends the model in `WildReturn`. `MaxLayer` stays below the 16
  entries of `prev_module`; the code does not test that bound.
* `KernelHeap`: ten pages, of which the allocator keeps some for itself, three
  orders, three blocks; sizes 0, one that fills a page to the last byte and one byte
  more; alignments below, at and above the header's and of a page. `Words` has
  orders that are wrong for the page.
* `DlMalloc`: an arena of 752 bytes taken in steps of 256, so that top is extended
  and then runs out; requests that are smallest, small and large; three blocks, which
  gives every pattern of free and used neighbours.
* `Vfs`: two names, one of which can be a directory with an entry; four dentries and
  vnodes, so that allocation fails; `vfs` has two files and descriptors, `ramfs` one
  with two buffers and sizes inside and past a page. `MaxOpens` bounds the calls of
  `sys_open` that succeed (each leaves a reference for good) and `MaxCount` the count
  of a file.
* `NetPath`: four pages and three entries, so that either runs out first; three
  frames, one too long, and a tap that holds two, so that one is lost.

`CHECK_DEADLOCK FALSE` is set because the code does stop: `halted`, `stuck`,
`spinning` and `fault` are its `while(1)` and failed assertions.

**Fairness.** Only `NetPath` has any: weak fairness of `net_add` and
`uknetdev_init`, which the boot code runs in a straight line; of
`virtio_netdev_recv` and `InputReturns`, a call in a single thread that goes on when
it can; and of `uknetdev_poll_all`, which `select()` calls first (`sockets.c:592`)
and a server's main loop comes back to. The host need not send, and lwIP need not
free or send. Elsewhere whether a call is made or returns is up to the application,
and no liveness is claimed.

## Proofs

For all constants that satisfy `ModuleAssumption`, `KeyAssumption` and
`LayoutAssumption` (any number of cubicles, functions, pages, slots and layers):

| Theorem | Statement |
|---|---|
| `TypeCorrect` | `Spec => []TypeOK` |
| `CallStackWellFormed` | `Spec => []CallStack` |
| `LeastPrivilegeHolds` | `Spec => []LeastPrivilege` |
| `SpatialIsolationHolds` | `Spec => []SpatialIsolation` |
| `OnlyOpenWindowsMapHolds` | `Spec => OnlyOpenWindowsMap` |
| `HeapOwnershipHolds` | `Spec => []HeapOwnership` |
| `BlockProtectedHolds` | `Spec => []BlockProtected`, if no other cubicle is a friend of the allocator |

`LeastPrivilege` is not inductive: the key that a return locks is the one
`prev_module[layer]` names, so the proof needs `CallStack` (what is recorded at
each layer, and that no two adjacent layers are friends, or a lock would take
the key away from the cubicle that goes on running) and `KeysByLayer`, which
says of each phase which keys PKRU holds in terms of `prev_module`.
`SpatialIsolation` needs `WindowsRecorded`: what a table opens now has been
recorded in `opened` for the page's present owner. `heap_attach` re-establishes
it for a new owner, and removing a window only shrinks one side.
`HeapOwnership` needs `HeapInv`, over the calls that are active: the block that a
`uk_free` in progress was given is still allocated but already the allocator's
(`FreesOK`), no block is freed by two of them (`DistinctArgs`), and only the call
that is about to return has a result, which nobody frees (`MallocsOK`). Without
these a nested `uk_malloc` could hand out a block whose wrap is still to come.
`BlockProtected` then follows from `HeapInv` and `SpatialIsolation`; the
`friends_heap` run shows why its hypothesis is needed.
`KeyAssumption` says that keys are merged exactly as `friends()` is written;
a build in which `main()` and `friends()` disagree is outside the theorems.

About `KHeap`, for every heap, every set of cubicles, sizes, and alignments that
are powers of two (`HeapAssumption`, `AlignAssumption`):

| Theorem | Statement |
|---|---|
| `KHeapTypeCorrect` | `KHeapSpec => []KHeapTypeOK` |
| `HeadersIntactHolds` | `KHeapSpec => []HeadersIntact` |
| `FreePagesReturnedHolds` | `KHeapSpec => []FreePagesReturned` |
| `BlockMovesWholeHolds` | `KHeapSpec => []BlockMovesWhole` |
| `HooksReturnHolds` | `KHeapSpec => []HooksReturn` |
| `KHeapRefines` | `KHeapSpec => IsAllocator`, the refinement of `Allocator` |

The invariant `IInv` says of every block at once where its header is, which pages
it names, that the block fits them, that no other block's pages meet them and who
owns them (`HeapInv`). The arithmetic is in lemmas of its own: `MallocFits`,
`SmallAlignFits` and `PageAlignFits` show that each way of placing a block leaves
room for it behind a header that `uk_get_metadata` finds from the pointer, and
`HookFacts` when the hooks find the same one. Each call removes a block
(`RemoveStep`), adds one (`AddStep`) or both, and the refinement follows from
`BlocksApart`: blocks on disjoint pages do not overlap.

About `NetPath`, for every set of pages, table size and number of frames
(`PagesAssumption`, `BoundsAssumption`):

| Theorem | Statement |
|---|---|
| `NetTypeCorrect` | `Spec => []NetTypeOK` |
| `HoldersReachHolds` | `Spec => []HoldersReach` |
| `WindowsLeftHolds` | `Spec => []WindowsLeft` |
| `StopsOnlyWhenExhaustedHolds` | `Spec => []StopsOnlyWhenExhausted` |
| `NetPathRefinesLink` | `Spec => IsLink`, the refinement of `Link` |

`HoldersReach` is about the *first* entry for a page, and closed sockets leave
entries behind, so that a page can have several. `NetInv` says which entries each use
of a page admits; the table lemmas (`OpenDriver`, `OpenFile`, `CloseDriver`) show
that adding an entry, which takes the first that is free or has the same begin, and
removing the first one keep it. The refinement maps the queue of `Link` to the frames
at the tap, after the one that lwIP is being handed.

Only model-checked: `ReturnsToItsHook` (without re-entry); the properties of
`Buddy`, `DlMalloc` and `Vfs`, which recurse over chunks, orders and paths, with the
refinements of `Allocator` by `KernelHeap` and `DlMalloc`; and the liveness property
`FramesAreTaken`. Liveness under fairness, `ENABLED` and what a recursive definition
computes for every input are out of the prover's reach.

## Not modelled

* **Threads, locks, mailboxes.** They do not run: the sqlite configuration has no
  scheduler, `ukboot` does not start one (`uk_sched_start` is commented out) and the
  locks of vfscore are compiled in only under `CONFIG_LIBUKSCHED1`.
* **The loader's passes** over ELF files and `/proc/self/maps`. `Cubicle` starts in the
  state they leave; three hazards of their fixed tables have no property for this
  reason. The depth of calls against the 16 entries of `prev_module` is the fourth: no
  code bounds it, and the model does.
* **In `Cubicle`**: the configurations `NOMPK`, `ALLOW_APP` and `ALLOW_ALL`; blocks of
  more than a page, which are in `KHeap`.
* **In `Vfs`**: symbolic links, mounts other than the root, permissions, attributes,
  pipes, and the windows of vfscore (their table is in `Cubicle`). Paths are at most
  two names deep. devfs is a list that is filled at boot.
* **In `NetPath`**: the protocols, which are lwIP's, a separate project; the socket
  calls that only pass their arguments on; chains of netbufs.
* **In `DlMalloc`**: mmap, trimming, footers, mspaces and locks, which the builds
  switch off.
* **The rest of the tree** is not part of the system the monitor loads: the kvm and xen
  platforms and their drivers, 9p, block devices, other architectures. Much of the
  remainder is headers, C library glue and third-party code without state that the
  cubicles share. This is most of the repository's lines; what CubicleOS adds to
  Unikraft is in the parts above.
