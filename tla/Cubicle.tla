------------------------------ MODULE Cubicle ------------------------------
(***************************************************************************)
(* The run-time half of the CubicleOS monitor: cross-cubicle calls through *)
(* the hooks that kernel/fig.py generates, the protection keys that        *)
(* kernel/loader.c enables and disables around them, the windows through   *)
(* which a cubicle shares its memory, and the SIGSEGV handler that moves a *)
(* page to the key of the cubicle that touches it (trap-and-map).          *)
(*                                                                         *)
(* One thread runs.  Loading is over: the memory map is fixed, except for  *)
(* the heap, whose pages change hands in uk_malloc and uk_free.            *)
(* An address is a number, a page PageSize consecutive addresses.  A       *)
(* memory access matters only when it faults.                              *)
(***************************************************************************)
EXTENDS Integers, Sequences, FiniteSets

CONSTANTS
  Cubicles,     \* modules with pmap[].must = 1, each under a protection key
  SharedLibs,   \* modules with must = 0, run under the key of their caller
  LINUXUPLAT, APP, VFSCORE, LWIP, UKALLOC,   \* modules the code names
  pkey,         \* pmap[].pkey of every cubicle once main() has merged keys
  pkey_alloc,   \* the key scan_modules allocated for it
  flist,        \* the cubicles merged by friends() and by main()
  Funcs,        \* exported functions that have a hook
  module,       \* E_{module} of a function
  mallocs,      \* functions with the post_wrap of uk_malloc_ifpages
  frees,        \* functions with the pre_wrap of uk_free_ifpages
  sp,           \* the page of a function's coroutine stack the hook writes
  PageSize,     \* 4096
  Pages,        \* page numbers
  kind,         \* mmap_cfg and the heap bounds: what lies on a page
  home,         \* mmap_cfg: the module of a page that is not heap
  HasTab,       \* cubicles that export window tables (an ipc.c)
  ipc,          \* how the ipc.c of each of them searches its heap table
  Slots,        \* entries of a window table
  Objects,      \* the [begin, size] a cubicle may pass to ipc_add_*
  Masks,        \* the masks it may pass
  Reentry,      \* may a function be called while it has a live activation?
  MaxLayer,     \* bound on layer, below the 16 entries of prev_module
  MaxNest,      \* bound on direct calls within one layer
  NULL,         \* no block, no activation
  Free          \* the user of a block that is not allocated

Kinds == {"global", "stack", "heap"}

HeapPages == {p \in Pages : kind[p] = "heap"}

AddrsOf(p) == (p * PageSize) .. (p * PageSize + PageSize - 1)

(* fig.py friends(): a == b, or both are in flist. *)
friends(a, b) == a = b \/ {a, b} \subseteq flist

Layers == 0 .. MaxLayer

ASSUME ModuleAssumption ==
  /\ {LINUXUPLAT, APP, UKALLOC} \subseteq Cubicles
  /\ Cubicles \cap SharedLibs = {}
  /\ flist \subseteq Cubicles /\ HasTab \subseteq Cubicles
  /\ ipc \in [HasTab -> {"strict", "silent", "counted", "reuse"}]
  /\ module \in [Funcs -> Cubicles]
  /\ mallocs \subseteq Funcs /\ frees \subseteq Funcs
  /\ mallocs \cap frees = {}
  /\ \A f \in mallocs \cup frees : module[f] = UKALLOC
  /\ Free \notin Cubicles

(* scan_modules gives each cubicle a key of its own and main() merges the  *)
(* keys of exactly the modules that friends() calls directly               *)
(* (loader.c 1175-1187, fig.py 454-493).                                   *)
ASSUME KeyAssumption ==
  /\ pkey \in [Cubicles -> Nat \ {0}]
  /\ pkey_alloc \in [Cubicles -> Nat \ {0}]
  /\ \A a, b \in Cubicles : pkey[a] = pkey[b] <=> friends(a, b)
  /\ \A a, b \in Cubicles : pkey_alloc[a] = pkey_alloc[b] => a = b
  /\ \A a \in Cubicles : \E b \in Cubicles : friends(a, b) /\ pkey[a] = pkey_alloc[b]

ASSUME LayoutAssumption ==
  /\ PageSize \in Nat \ {0} /\ Pages \subseteq Nat
  /\ kind \in [Pages -> Kinds] /\ home \in [Pages -> Cubicles]
  /\ NULL \notin Pages
  /\ sp \in [Funcs -> Pages]
  /\ \A f \in Funcs : kind[sp[f]] = "stack" /\ home[sp[f]] = module[f]
  /\ Objects \subseteq [begin : Nat, size : Nat \ {0}]
  /\ Masks \subseteq SUBSET Cubicles
  /\ Reentry \in BOOLEAN
  /\ Slots \in Nat /\ MaxLayer \in Nat /\ MaxNest \in Nat \ {0}

(* Keys that are enabled all the time: key 0, and the keys that no module  *)
(* has any more after the merge.  pkey_alloc enables a key and main()      *)
(* disables only those that pmap still holds (loader.c 1199-1203).         *)
Unlocked == {0} \cup ({pkey_alloc[c] : c \in Cubicles} \ {pkey[c] : c \in Cubicles})

Keys == Unlocked \cup {pkey[c] : c \in Cubicles}

Windows == [begin : Nat, size : Nat, mask : SUBSET Cubicles]

NoWindow == [begin |-> 0, size |-> 0, mask |-> {}]

Activations == [func : Funcs, prev : Cubicles,
                arg : HeapPages \cup {NULL}, ret : HeapPages \cup {NULL}]

Activation(f, prev, arg, ret) ==
  [func |-> f, prev |-> prev, arg |-> arg, ret |-> ret]

VARIABLES
  pkru,         \* the keys the PKRU register enables
  layer,        \* int layer
  prev_module,  \* enum modules prev_module[16]
  act,          \* locals of the hook and entry point active at each layer
  code,         \* the modules whose code is on the stack of each layer
  coro,         \* {name}_coro->thread: the layer of its hook, 0 once that is gone
  phase,        \* "body", or the half of the trampoline that is running
  pageKey,      \* the key each page is tagged with
  heap_cfg,     \* owner of each heap page
  block,        \* the cubicle a heap page is allocated for (libukalloc)
  tab,          \* {module}_ipc_tab_{stack,globals,heap}
  nr_real,      \* {module}_ipc_tab_heap_nr_real, where ipc is "counted"
  opened,       \* history: cubicles a page has been opened to by its owner
  halted        \* the monitor or a library spins in while(1)

vars == <<pkru, layer, prev_module, act, code, coro, phase, pageKey,
          heap_cfg, block, tab, nr_real, opened, halted>>

callVars == <<pkru, layer, prev_module, act, code, coro, phase>>
memVars == <<pageKey, heap_cfg, block>>

-----------------------------------------------------------------------------
(* Who owns a page, and who is accessing it.                               *)

Owner(p) == IF kind[p] = "heap" THEN heap_cfg[p] ELSE home[p]

Top == code[layer][Len(code[layer])]

(* get_state: the module of rip, or for a shared library that of the stack. *)
Accessor == IF Top \in Cubicles THEN Top ELSE prev_module[layer]

(* ipc->begin <= addr < ipc->begin + ipc->size; on stacks and heaps also    *)
(* addr < ipc->begin + 4096.                                                *)
Reaches(w, a, k) ==
  /\ w.begin <= a
  /\ \/ a < w.begin + w.size
     \/ k \in {"stack", "heap"} /\ a < w.begin + PageSize

(* Mutant: the mask is not tested. *)
WindowForNoMask(caller, callee, a, k) ==
  callee \in HasTab /\ \E i \in 1..Slots : Reaches(tab[callee][k][i], a, k)

WindowFor(caller, callee, a, k) ==
  /\ callee \in HasTab
  /\ \E i \in 1..Slots : /\ caller \in tab[callee][k][i].mask
                         /\ Reaches(tab[callee][k][i], a, k)

should_map(caller, callee, a) ==
  caller = VFSCORE \/ callee = LWIP \/ WindowFor(caller, callee, a, "global")

should_map_stack(caller, callee, a) ==
  caller = callee \/ WindowFor(caller, callee, a, "stack")

(* Mutant: the workaround for the application's heap forgets the caller. *)
should_map_heap_app(caller, callee, a) ==
  \/ callee = caller \/ pkey[callee] = pkey[caller]
  \/ callee = APP
  \/ WindowFor(caller, callee, a, "heap")

should_map_heap(caller, callee, a) ==
  \/ callee = caller \/ pkey[callee] = pkey[caller]
  \/ callee = APP /\ caller = LINUXUPLAT
  \/ WindowFor(caller, callee, a, "heap")

(* sig_handler: the check that the kind of the page calls for. *)
MayMap(caller, a, p) ==
  \/ kind[p] = "global" /\ should_map(caller, Owner(p), a)
  \/ kind[p] = "stack"  /\ should_map_stack(caller, Owner(p), a)
  \/ kind[p] = "heap"   /\ should_map_heap(caller, Owner(p), a)

(* RET_STACK_TO_WRAP: trampoline code that runs on the stack of m and finds *)
(* a page of that stack under another key takes it back.                    *)
Reclaimed(tags, p, m, enabled) ==
  IF tags[p] \in enabled THEN tags ELSE [tags EXCEPT ![p] = pkey[m]]

(* The page of the stack that layer l runs on, with the code of the hooks it *)
(* calls; _liblinuxuplat_entry, layer 0, runs on the process stack, which   *)
(* has key 0.                                                               *)
OnStack(tags, l, enabled) ==
  IF l = 0 THEN tags
           ELSE Reclaimed(tags, sp[act[l].func], prev_module[l], enabled)

(* History: the cubicles that table t of owner m opens page p to.           *)
OpenTo(t, m, p) ==
  {c \in Cubicles : \E i \in 1..Slots :
     /\ m \in HasTab
     /\ c \in t[m][kind[p]][i].mask
     /\ \E a \in AddrsOf(p) : Reaches(t[m][kind[p]][i], a, kind[p])}

(* Mutant: the key is recorded in place of the module. *)
heap_attach_key(m, p, tags) ==
  /\ heap_cfg' = [heap_cfg EXCEPT ![p] = pkey[m]]
  /\ pageKey' = [tags EXCEPT ![p] = pkey[m]]
  /\ opened' = [opened EXCEPT ![p] = OpenTo(tab, m, p)]

(* heap_attach(m, p, 4096): m becomes the owner and p gets its key.         *)
heap_attach(m, p, tags) ==
  /\ heap_cfg' = [heap_cfg EXCEPT ![p] = m]
  /\ pageKey' = [tags EXCEPT ![p] = pkey[m]]
  /\ opened' = [opened EXCEPT ![p] = OpenTo(tab, m, p)]

no_attach(tags) == pageKey' = tags /\ UNCHANGED <<heap_cfg, opened>>

(* Mutant: the key stays enabled. *)
cmp_lock_skipped(m) == m \in Cubicles /\ UNCHANGED pkru

cmp_lock(m) == pkru' = pkru \ {pkey[m]}

cmp_unlock(m) == pkru' = pkru \cup {pkey[m]}

-----------------------------------------------------------------------------
(* main() has loaded the modules, tagged their pages, disabled every key   *)
(* and enabled that of liblinuxuplat.so, whose entry point now runs.  The  *)
(* stacks were tagged before keys were merged, in create_cubicles.         *)
Init ==
  /\ pkru = Unlocked \cup {pkey[LINUXUPLAT]}
  /\ layer = 0
  /\ prev_module = [l \in Layers |-> IF l = 0 THEN LINUXUPLAT ELSE APP]
  /\ act = [l \in Layers |-> NULL]
  /\ code = [l \in Layers |-> IF l = 0 THEN <<LINUXUPLAT>> ELSE <<>>]
  /\ coro = [f \in Funcs |-> 0]
  /\ phase = "body"
  /\ pageKey = [p \in Pages |-> IF kind[p] = "heap" THEN 0
                                ELSE IF kind[p] = "stack" THEN pkey_alloc[home[p]]
                                ELSE pkey[home[p]]]
  /\ heap_cfg = [p \in HeapPages |-> UKALLOC]
  /\ block = [p \in HeapPages |-> Free]
  /\ tab = [c \in Cubicles |-> [k \in Kinds |-> [i \in 1..Slots |-> NoWindow]]]
  /\ nr_real = [c \in Cubicles |-> 0]
  /\ opened = [p \in Pages |-> {}]
  /\ halted = FALSE

Running == ~halted /\ phase = "body"

Live(f) == \E l \in 1..layer : act[l].func = f

BeingFreed(p) == \E l \in 1..layer : act[l].arg = p

(* A cubicle frees a block it was given, once. *)
Args(f) ==
  {NULL} \cup {p \in HeapPages : /\ f \in frees
                                 /\ block[p] = prev_module[layer]
                                 /\ ~BeingFreed(p)}

(* The hook up to makecontext: the memcpy to the callee's stack faults when *)
(* a third cubicle still has that page.                                     *)
HookReaches(f) ==
  OnStack(pageKey, layer, pkru)[sp[f]] \in pkru \cup {pkey[module[f]]}

(* Mutant: no early return for friends. *)
CanCallFriend(f) ==
  Running /\ layer < MaxLayer /\ (Reentry \/ ~Live(f))

CanCall(f) ==
  /\ Running
  /\ ~friends(prev_module[layer], module[f])
  /\ layer < MaxLayer
  /\ Reentry \/ ~Live(f)

(* Mutant: the coroutine keeps the frame of its last call. *)
coro_kept(f) == f \in Funcs /\ UNCHANGED coro

(* {name}_coro->thread = &t: the frame of this hook, at layer + 1. *)
coro_new(f) == coro' = [coro EXCEPT ![f] = layer + 1]

(* Mutant: uk_free without its pre_wrap. *)
pre_wrap_missing(f, arg, tags) == f \in Funcs /\ arg \in Args(f) /\ no_attach(tags)

(* uk_free_ifpages: the block goes to the allocator before it is called. *)
pre_wrap(f, arg, tags) ==
  IF arg # NULL THEN heap_attach(module[f], arg, tags) ELSE no_attach(tags)

(* Mutants: the block goes to the callee; no post_wrap at all. *)
post_wrap_callee(ret, tags) ==
  IF ret # NULL THEN heap_attach(prev_module[layer], ret, tags) ELSE no_attach(tags)

post_wrap_missing(ret, tags) == ret \in HeapPages \cup {NULL} /\ no_attach(tags)

(* uk_malloc_ifpages, uk_calloc_compat: the block goes to the caller. *)
post_wrap(ret, tags) ==
  IF ret # NULL THEN heap_attach(prev_module[layer - 1], ret, tags) ELSE no_attach(tags)

(* hooked_{name}, from layer++ to coro_resume. *)
HookedCall(f, arg) ==
  /\ CanCall(f) /\ arg \in Args(f) /\ HookReaches(f)
  /\ layer' = layer + 1
  /\ prev_module' = [prev_module EXCEPT ![layer + 1] = module[f]]
  /\ coro_new(f)
  /\ act' = [act EXCEPT ![layer + 1] = Activation(f, prev_module[layer], arg, NULL)]
  /\ code' = [code EXCEPT ![layer + 1] = <<module[f]>>]
  /\ cmp_unlock(module[f])
  /\ pre_wrap(f, arg, OnStack(pageKey, layer, pkru))
  /\ phase' = "calling"
  /\ UNCHANGED <<block, tab, nr_real, halted>>

(* "cannot remap LOADER's stack" *)
HookSpins(f) ==
  /\ CanCall(f) /\ ~HookReaches(f)
  /\ halted' = TRUE
  /\ UNCHANGED <<callVars, memVars, tab, nr_real, opened>>

(* _{name}_entry_point up to the call: lock the caller's key, then push the *)
(* return address of fptr on the callee's stack.                            *)
EntryStart ==
  /\ ~halted /\ phase = "calling"
  /\ LET prev == prev_module[layer - 1]
     IN /\ act' = [act EXCEPT ![layer] = Activation(@.func, prev, @.arg, NULL)]
        /\ cmp_lock(prev)
  /\ pageKey' = OnStack(pageKey, layer, pkru')
  /\ phase' = "body"
  /\ UNCHANGED <<layer, prev_module, code, coro, heap_cfg, block, tab, nr_real,
                 opened, halted>>

(* What the allocator's function did by the time it returns ret. *)
Allocated(f, arg, ret, user) ==
  block' = [p \in HeapPages |-> IF f \in mallocs /\ p = ret THEN user
                                ELSE IF f \in frees /\ p = arg THEN Free
                                ELSE block[p]]

Results(f) == {NULL} \cup {p \in HeapPages : f \in mallocs /\ block[p] = Free}

(* _{name}_entry_point after the call: unlock the caller's key, yield. *)
EntryReturn(ret) ==
  /\ Running /\ layer > 0 /\ Len(code[layer]) = 1
  /\ LET f == act[layer].func
     IN /\ ret \in Results(f)
        /\ Allocated(f, act[layer].arg, ret, act[layer].prev)
        /\ act' = [act EXCEPT ![layer] = Activation(f, @.prev, @.arg, ret)]
        /\ pageKey' = OnStack(pageKey, layer, pkru)
  /\ cmp_unlock(act[layer].prev)
  /\ phase' = "returned"
  /\ UNCHANGED <<layer, prev_module, code, coro, heap_cfg, tab, nr_real, opened,
                 halted>>

(* hooked_{name} after coro_resume, when coro_yield came back to it. *)
HookReturn ==
  /\ ~halted /\ phase = "returned"
  /\ coro[act[layer].func] = layer
  /\ cmp_lock(module[act[layer].func])
  /\ post_wrap(act[layer].ret, OnStack(pageKey, layer - 1, pkru'))
  /\ layer' = layer - 1
  /\ act' = [act EXCEPT ![layer] = NULL]
  /\ code' = [code EXCEPT ![layer] = <<>>]
  /\ coro' = [coro EXCEPT ![act[layer].func] = 0]
  /\ phase' = "body"
  /\ UNCHANGED <<prev_module, block, tab, nr_real, halted>>

(* coro->thread is the dead frame of a later call of the same function:    *)
(* control goes to whatever its caller context now holds.                  *)
WildReturn ==
  /\ ~halted /\ phase = "returned"
  /\ coro[act[layer].func] # layer
  /\ halted' = TRUE
  /\ UNCHANGED <<callVars, memVars, tab, nr_real, opened>>

-----------------------------------------------------------------------------
(* Calls that no hook intercepts: into a shared library, or a friend.      *)

DirectCall(m) ==
  /\ Running /\ layer > 0 /\ Len(code[layer]) < MaxNest
  /\ m \in SharedLibs \/ (m \in Cubicles /\ friends(prev_module[layer], m))
  /\ code' = [code EXCEPT ![layer] = Append(@, m)]
  /\ UNCHANGED <<pkru, layer, prev_module, act, coro, phase, memVars, tab, nr_real,
                 opened, halted>>

DirectReturn ==
  /\ Running /\ Len(code[layer]) > 1
  /\ code' = [code EXCEPT ![layer] = SubSeq(@, 1, Len(@) - 1)]
  /\ UNCHANGED <<pkru, layer, prev_module, act, coro, phase, memVars, tab, nr_real,
                 opened, halted>>

(* A friend of the allocator calls it directly: no pre_wrap, no post_wrap. *)
DirectMalloc(p) ==
  /\ Running /\ prev_module[layer] # UKALLOC
  /\ friends(prev_module[layer], UKALLOC) /\ block[p] = Free
  /\ block' = [block EXCEPT ![p] = prev_module[layer]]
  /\ UNCHANGED <<callVars, pageKey, heap_cfg, tab, nr_real, opened, halted>>

DirectFree(p) ==
  /\ Running /\ prev_module[layer] # UKALLOC
  /\ friends(prev_module[layer], UKALLOC)
  /\ block[p] = prev_module[layer] /\ ~BeingFreed(p)
  /\ block' = [block EXCEPT ![p] = Free]
  /\ UNCHANGED <<callVars, pageKey, heap_cfg, tab, nr_real, opened, halted>>

-----------------------------------------------------------------------------
(* Memory accesses that fault, and the SIGSEGV handler.  The handler's own *)
(* cmp_unlock and cmp_lock act on the PKRU of the signal frame, which      *)
(* sigreturn discards.                                                     *)

Faults(p) == Running /\ pageKey[p] \notin pkru

FaultMap(p, a) ==
  /\ Faults(p) /\ MayMap(Accessor, a, p)
  /\ pageKey' = [pageKey EXCEPT ![p] = pkey[Accessor]]
  /\ UNCHANGED <<callVars, heap_cfg, block, tab, nr_real, opened, halted>>

FaultSpin(p, a) ==
  /\ Faults(p) /\ ~MayMap(Accessor, a, p)
  /\ halted' = TRUE
  /\ UNCHANGED <<callVars, memVars, tab, nr_real, opened>>

-----------------------------------------------------------------------------
(* Window tables, written by the cubicle that owns them.                   *)

Opening(k, i, w) ==
  /\ tab' = [tab EXCEPT ![Top][k][i] = w]
  /\ opened' = [p \in Pages |->
                  IF kind[p] = k /\ Owner(p) = Top
                    THEN opened[p] \cup OpenTo(tab', Top, p) ELSE opened[p]]

(* A cubicle opens windows on objects of its own. *)
OwnObjects(k) ==
  {o \in Objects : \E p \in Pages : /\ kind[p] = k /\ Owner(p) = Top
                                    /\ o.begin \in AddrsOf(p)}

Window(o, mask) == [begin |-> o.begin, size |-> o.size, mask |-> mask]

(* ipc_add_stack, ipc_add_globals: entry i is overwritten. *)
AddIndexed(k, i, o, mask) ==
  /\ Running /\ Top \in HasTab /\ o \in OwnObjects(k)
  /\ Opening(k, i, Window(o, mask))
  /\ UNCHANGED <<callVars, memVars, nr_real, halted>>

First(S) == {i \in S : \A j \in S : i <= j}

(* The entry that ipc_add_heap fills: the first of size 0, or for lwip with *)
(* this begin.                                                              *)
AddSlot(m, begin) ==
  First({i \in 1..Slots : LET w == tab[m]["heap"][i]
                          IN w.size = 0 \/ (ipc[m] = "reuse" /\ w.begin = begin)})

(* The entry that ipc_remove_heap clears: the first with this begin, which  *)
(* vfscore and ukboot seek below nr_real only.                              *)
RemoveSlot(m, begin) ==
  First({i \in 1..Slots : /\ tab[m]["heap"][i].begin = begin
                          /\ ipc[m] = "counted" => i <= nr_real[m]})

(* ipc_add_heap, which spins when the table is full.  nr_real becomes the   *)
(* index, from 0, of the highest entry ever used.                           *)
AddHeap(o, mask) ==
  /\ Running /\ Top \in HasTab /\ o \in OwnObjects("heap")
  /\ \/ \E i \in AddSlot(Top, o.begin) :
          /\ Opening("heap", i, Window(o, mask))
          /\ nr_real' = IF ipc[Top] = "counted" /\ i - 1 >= nr_real[Top]
                          THEN [nr_real EXCEPT ![Top] = i - 1] ELSE nr_real
          /\ UNCHANGED halted
     \/ /\ AddSlot(Top, o.begin) = {}
        /\ halted' = TRUE
        /\ UNCHANGED <<tab, nr_real, opened>>
  /\ UNCHANGED <<callVars, memVars>>

(* ipc_remove_heap.  "Entry with begin %p doesn exist": ramfs, uknetdev,    *)
(* linuxuplat and lwip then spin, the others carry on.                      *)
RemoveHeap(begin) ==
  /\ Running /\ Top \in HasTab
  /\ \/ \E i \in RemoveSlot(Top, begin) :
          tab' = [tab EXCEPT ![Top]["heap"][i] = NoWindow] /\ UNCHANGED halted
     \/ /\ RemoveSlot(Top, begin) = {}
        /\ halted' = (ipc[Top] \in {"strict", "reuse"})
        /\ UNCHANGED tab
  /\ UNCHANGED <<callVars, memVars, nr_real, opened>>

Next ==
  \/ \E f \in Funcs : \E arg \in HeapPages \cup {NULL} : HookedCall(f, arg)
  \/ \E f \in Funcs : HookSpins(f)
  \/ EntryStart
  \/ \E ret \in HeapPages \cup {NULL} : EntryReturn(ret)
  \/ HookReturn
  \/ WildReturn
  \/ \E m \in Cubicles \cup SharedLibs : DirectCall(m)
  \/ DirectReturn
  \/ \E p \in HeapPages : DirectMalloc(p)
  \/ \E p \in HeapPages : DirectFree(p)
  \/ \E p \in Pages : \E a \in AddrsOf(p) : FaultMap(p, a)
  \/ \E p \in Pages : \E a \in AddrsOf(p) : FaultSpin(p, a)
  \/ \E k \in {"stack", "global"}, i \in 1..Slots, o \in Objects, m \in Masks :
       AddIndexed(k, i, o, m)
  \/ \E o \in Objects, m \in Masks : AddHeap(o, m)
  \/ \E o \in Objects : RemoveHeap(o.begin)

Spec == Init /\ [][Next]_vars

-----------------------------------------------------------------------------
(* The monitor's and the cubicles' variables hold keys, layers, modules,   *)
(* activations and windows of the build.                                   *)
TypeOK ==
  /\ pkru \subseteq Keys
  /\ layer \in Layers
  /\ prev_module \in [Layers -> Cubicles]
  /\ act \in [Layers -> Activations \cup {NULL}]
  /\ code \in [Layers -> Seq(Cubicles \cup SharedLibs)]
  /\ coro \in [Funcs -> Layers]
  /\ phase \in {"body", "calling", "returned"}
  /\ pageKey \in [Pages -> Keys]
  /\ heap_cfg \in [HeapPages -> Cubicles]
  /\ block \in [HeapPages -> Cubicles \cup {Free}]
  /\ tab \in [Cubicles -> [Kinds -> [1..Slots -> Windows]]]
  /\ nr_real \in [Cubicles -> Nat]
  /\ opened \in [Pages -> SUBSET Cubicles]
  /\ halted \in BOOLEAN

(* The bookkeeping of nested calls: every layer up to the current one has   *)
(* an activation whose callee and caller are the modules that prev_module   *)
(* names at that layer and the one below, no hook has put a layer between   *)
(* two friends, and the code on a layer's stack is that of shared libraries *)
(* and of friends of its callee.                                            *)
CallStack ==
  /\ prev_module[0] = LINUXUPLAT
  /\ layer = 0 => phase = "body"
  /\ \A l \in 0..layer :
       /\ Len(code[l]) > 0
       /\ \A i \in 1..Len(code[l]) :
            code[l][i] \in SharedLibs \/ friends(prev_module[l], code[l][i])
  /\ \A l \in 1..layer :
       /\ act[l] \in Activations
       /\ module[act[l].func] = prev_module[l]
       /\ act[l].prev = prev_module[l - 1]
       /\ ~friends(prev_module[l - 1], prev_module[l])

(* Cubicle code runs with its own key and those that are never locked, at  *)
(* whatever depth of calls and returns, and also in a shared library or a  *)
(* friend; the trampoline alone holds two keys, those of the two cubicles  *)
(* it connects (cmp_lock and cmp_unlock in hooked_{name} and its entry     *)
(* point).  The handler tags a page with the accessor's key, so this also  *)
(* says that the access it mapped succeeds when it is retried.             *)
LeastPrivilege ==
  IF phase = "body"
    THEN pkru = Unlocked \cup {pkey[Accessor]}
    ELSE pkru = Unlocked \cup {pkey[prev_module[layer - 1]], pkey[prev_module[layer]]}

(* coro_yield resumes the hook that started the call, however calls nest:  *)
(* {name}_coro is one object per function, not per call.                   *)
ReturnsToItsHook ==
  phase = "returned" => coro[act[layer].func] = layer

(* The exceptions written into should_map and should_map_heap. *)
Exempt(p) ==
  {c \in Cubicles :
     \/ kind[p] = "global" /\ (c = VFSCORE \/ Owner(p) = LWIP)
     \/ kind[p] = "heap" /\ Owner(p) = APP /\ c = LINUXUPLAT}

(* A page is never under the key of a cubicle that is not its owner and    *)
(* that its owner has not opened it to, by a window it had in its table    *)
(* since it got the page.  Only heap pages that are still the allocator's  *)
(* can be under key 0, where setup_heap leaves them, and only stacks of    *)
(* merged cubicles under a key that the merge left behind.                 *)
SpatialIsolation ==
  \A p \in Pages :
    \/ \E c \in {Owner(p)} \cup opened[p] \cup Exempt(p) : pageKey[p] = pkey[c]
    \/ kind[p] = "heap" /\ heap_cfg[p] = UKALLOC /\ pageKey[p] = 0
    \/ kind[p] = "stack" /\ pageKey[p] = pkey_alloc[home[p]]

InTransfer(p) == BeingFreed(p) \/ (phase = "returned" /\ act[layer].ret = p)

(* The monitor's record of who owns a heap page follows the allocator: a   *)
(* free page is UKALLOC's, an allocated one is under the key of the        *)
(* cubicle it was allocated for, except inside the call that moves it.     *)
HeapOwnership ==
  \A p \in HeapPages :
    IF block[p] = Free
      THEN heap_cfg[p] = UKALLOC
      ELSE InTransfer(p) \/ pkey[heap_cfg[p]] = pkey[block[p]]

(* A block that a cubicle uses is protected by some key: post_wrap tags    *)
(* what the allocator returned.                                            *)
BlockProtected ==
  \A p \in HeapPages :
    block[p] # Free => InTransfer(p) \/ pageKey[p] # 0

(* Revocation: a page moves to a cubicle that is not its owner only while  *)
(* the owner has a window open to that cubicle; a window that was closed,  *)
(* or belonged to the page's former owner, moves nothing any more.         *)
OnlyOpenWindowsMap ==
  [][\A p \in Pages :
       pageKey'[p] # pageKey[p] =>
         \E c \in Cubicles :
           /\ pageKey'[p] = pkey[c]
           /\ \/ pkey[c] = pkey[Owner(p)'] \/ c \in Exempt(p)
              \/ c \in OpenTo(tab, Owner(p), p)]_vars

OnPageOfObject(c, m, p) ==
  \E i \in 1..Slots :
    LET w == tab[m][kind[p]][i]
    IN c \in w.mask /\ \E a \in AddrsOf(p) : w.begin <= a /\ a < w.begin + w.size

(* A window moves only pages its object lies on: "the pointer is outside   *)
(* of the object but within its page" (should_map_stack, should_map_heap). *)
WindowMovesItsPages ==
  [][\A p \in Pages :
       pageKey'[p] # pageKey[p] =>
         \E c \in Cubicles :
           /\ pageKey'[p] = pkey[c]
           /\ \/ pkey[c] = pkey[Owner(p)'] \/ c \in Exempt(p)
              \/ OnPageOfObject(c, Owner(p), p)]_vars

(* ipc_remove_heap finds every window that is in the table: "Entry with    *)
(* begin %p doesn exist" is reported of absent ones only.                  *)
WindowsCanBeClosed ==
  \A c \in HasTab : \A i \in 1..Slots :
    tab[c]["heap"][i].size # 0 => RemoveSlot(c, tab[c]["heap"][i].begin) # {}
=============================================================================
