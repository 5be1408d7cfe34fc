------------------------- MODULE CubicleIsolation -------------------------
(***************************************************************************)
(* Isolation of the cubicles' memory: which pages can be under which keys, *)
(* and which steps move a page.  It builds on the call stack and the types *)
(* that CubicleProofs establishes.                                         *)
(***************************************************************************)
EXTENDS CubicleProofs

USE DEF Layers, Kinds, cmp_lock, cmp_unlock, coro_new, pre_wrap, post_wrap

(* The history variable opened must cover the windows that are open now,   *)
(* or a fault could map through a window that the history missed.          *)
WindowsRecorded == \A p \in Pages : OpenTo(tab, Owner(p), p) \subseteq opened[p]

(* SpatialIsolation at one page.                                           *)
Isolated(p) ==
  \/ \E c \in {Owner(p)} \cup opened[p] \cup Exempt(p) : pageKey[p] = pkey[c]
  \/ kind[p] = "heap" /\ heap_cfg[p] = UKALLOC /\ pageKey[p] = 0
  \/ kind[p] = "stack" /\ pageKey[p] = pkey_alloc[home[p]]

IsolationInv == WindowsRecorded /\ SpatialIsolation

(* tags differs from pageKey only on stack pages given back to their owner. *)
OnlyReclaims(tags) ==
  \A p \in Pages : tags[p] = pageKey[p] \/ (kind[p] = "stack" /\ tags[p] = pkey[home[p]])

(* RET_STACK_TO_WRAP gives a page of a stack to the stack's owner.         *)
LEMMA OnStackReclaims ==
  ASSUME TypeOK, CallStack, NEW l \in 0..layer, NEW enabled
  PROVE  OnlyReclaims(OnStack(pageKey, l, enabled))
<1>1. CASE l = 0
  BY <1>1, Zenon DEF OnlyReclaims, OnStack
<1>2. CASE l # 0
  <2>1. /\ act[l].func \in Funcs /\ module[act[l].func] = prev_module[l]
    BY <1>2, LayerFacts DEF CallStack, Activations
  <2> DEFINE s == sp[act[l].func]
  <2>2. s \in Pages /\ kind[s] = "stack" /\ home[s] = prev_module[l]
    BY <2>1, LayoutAssumption
  <2> QED
    BY <1>2, <2>2 DEF OnlyReclaims, OnStack, Reclaimed, TypeOK
<1> QED
  BY <1>1, <1>2

(* A window in the table of a page's owner that reaches an address of the  *)
(* page opens the page.                                                    *)
LEMMA WindowOpens ==
  ASSUME NEW p \in Pages, NEW a \in AddrsOf(p), NEW c \in Cubicles,
         WindowFor(c, Owner(p), a, kind[p])
  PROVE  c \in OpenTo(tab, Owner(p), p)
BY DEF WindowFor, OpenTo

(* The handler's checks let through the owner, a friend of the owner of a  *)
(* heap page, the cubicles the code exempts and those with a window.       *)
LEMMA MayMapSound ==
  ASSUME TypeOK, NEW p \in Pages, NEW a \in AddrsOf(p), NEW c \in Cubicles,
         MayMap(c, a, p)
  PROVE  \/ pkey[c] = pkey[Owner(p)]
         \/ c \in Exempt(p)
         \/ c \in OpenTo(tab, Owner(p), p)
<1>1. CASE kind[p] = "global" /\ should_map(c, Owner(p), a)
  BY <1>1, WindowOpens DEF should_map, Exempt
<1>2. CASE kind[p] = "stack" /\ should_map_stack(c, Owner(p), a)
  BY <1>2, WindowOpens DEF should_map_stack
<1>3. CASE kind[p] = "heap" /\ should_map_heap(c, Owner(p), a)
  BY <1>3, WindowOpens DEF should_map_heap, Exempt
<1> QED
  BY <1>1, <1>2, <1>3 DEF MayMap

(* Reclaiming stacks and attaching a heap page keep isolation.             *)
LEMMA AttachIsolates ==
  ASSUME TypeOK, IsolationInv, NEW tags \in [Pages -> Keys], OnlyReclaims(tags),
         tab' = tab,
         \/ no_attach(tags)
         \/ \E m \in Cubicles, q \in HeapPages : heap_attach(m, q, tags)
  PROVE  IsolationInv'
<1> SUFFICES ASSUME NEW p \in Pages
             PROVE  OpenTo(tab', Owner(p)', p) \subseteq opened'[p] /\ Isolated(p)'
  BY DEF IsolationInv, WindowsRecorded, SpatialIsolation, Isolated
<1>a. OpenTo(tab, Owner(p), p) \subseteq opened[p] /\ Isolated(p)
  BY DEF IsolationInv, WindowsRecorded, SpatialIsolation, Isolated
<1>1. ASSUME pageKey'[p] = tags[p], opened'[p] = opened[p], Owner(p)' = Owner(p),
             kind[p] = "heap" => heap_cfg'[p] = heap_cfg[p]
      PROVE  OpenTo(tab', Owner(p)', p) \subseteq opened'[p] /\ Isolated(p)'
  <2>1. Exempt(p)' = Exempt(p)
    BY <1>1 DEF Exempt
  <2>2. CASE tags[p] = pageKey[p]
    BY <1>1, <1>a, <2>1, <2>2 DEF Isolated
  <2>3. CASE kind[p] = "stack" /\ tags[p] = pkey[home[p]]
    BY <1>1, <1>a, <2>3 DEF Isolated, Owner
  <2> QED
    BY <2>2, <2>3 DEF OnlyReclaims
<1>2. CASE no_attach(tags)
  BY <1>1, <1>2, Zenon DEF no_attach, Owner
<1>3. ASSUME NEW m \in Cubicles, NEW q \in HeapPages, heap_attach(m, q, tags)
      PROVE  OpenTo(tab', Owner(p)', p) \subseteq opened'[p] /\ Isolated(p)'
  <2>1. CASE p # q
    BY <1>1, <1>3, <2>1 DEF heap_attach, Owner, TypeOK, HeapPages
  <2>2. CASE p = q
    <3>1. Owner(p)' = m /\ opened'[p] = OpenTo(tab, m, p) /\ pageKey'[p] = pkey[m]
      BY <1>3, <2>2, Zenon DEF heap_attach, Owner, TypeOK, HeapPages
    <3> QED
      BY <3>1, Zenon DEF Isolated
  <2> QED
    BY <2>1, <2>2, Zenon
<1> QED
  BY <1>2, <1>3

(* A fault maps a page only to someone it is, or has been, opened to.      *)
LEMMA FaultIsolates ==
  ASSUME TypeOK, CallStack, IsolationInv, NEW q \in Pages, NEW a \in AddrsOf(q),
         FaultMap(q, a)
  PROVE  IsolationInv'
<1> SUFFICES ASSUME NEW p \in Pages
             PROVE  OpenTo(tab', Owner(p)', p) \subseteq opened'[p] /\ Isolated(p)'
  BY DEF IsolationInv, WindowsRecorded, SpatialIsolation, Isolated
<1>1. OpenTo(tab, Owner(p), p) \subseteq opened[p] /\ Isolated(p)
  BY DEF IsolationInv, WindowsRecorded, SpatialIsolation, Isolated
<1>2. /\ tab' = tab /\ opened' = opened /\ heap_cfg' = heap_cfg
      /\ pageKey' = [pageKey EXCEPT ![q] = pkey[Accessor]]
      /\ MayMap(Accessor, a, q)
  BY DEF FaultMap
<1>3. Owner(p)' = Owner(p) /\ Exempt(p)' = Exempt(p)
  BY <1>2 DEF Owner, Exempt
<1>4. CASE p # q
  <2>1. pageKey'[p] = pageKey[p]
    BY <1>2, <1>4 DEF TypeOK
  <2> QED
    BY <1>1, <1>2, <1>3, <2>1 DEF Isolated
<1>5. CASE p = q
  <2>1. pageKey'[p] = pkey[Accessor] /\ Accessor \in Cubicles
    BY <1>2, <1>5, AccessorKey DEF TypeOK
  <2>2. \/ pkey[Accessor] = pkey[Owner(p)]
        \/ Accessor \in Exempt(p)
        \/ Accessor \in OpenTo(tab, Owner(p), p)
    BY <1>2, <1>5, <2>1, MayMapSound
  <2> QED
    BY <1>1, <1>2, <1>3, <2>1, <2>2 DEF Isolated
<1> QED
  BY <1>4, <1>5, Zenon

(* Opening a window adds it to the history of the pages it reaches.        *)
LEMMA OpeningIsolates ==
  ASSUME TypeOK, IsolationInv, Top \in Cubicles, NEW k \in Kinds, NEW i \in 1..Slots,
         NEW w, Opening(k, i, w), UNCHANGED memVars
  PROVE  IsolationInv'
<1> SUFFICES ASSUME NEW p \in Pages
             PROVE  OpenTo(tab', Owner(p)', p) \subseteq opened'[p] /\ Isolated(p)'
  BY Zenon DEF IsolationInv, WindowsRecorded, SpatialIsolation, Isolated
<1>1. OpenTo(tab, Owner(p), p) \subseteq opened[p] /\ Isolated(p)
  BY Zenon DEF IsolationInv, WindowsRecorded, SpatialIsolation, Isolated
<1>2. /\ tab' = [tab EXCEPT ![Top][k][i] = w]
      /\ opened'[p] = IF kind[p] = k /\ Owner(p) = Top
                        THEN opened[p] \cup OpenTo(tab', Top, p) ELSE opened[p]
      /\ pageKey' = pageKey /\ heap_cfg' = heap_cfg
  BY DEF Opening, memVars
<1>3. Owner(p)' = Owner(p) /\ Exempt(p)' = Exempt(p)
  BY <1>2 DEF Owner, Exempt
<1>4. Isolated(p)'
  BY <1>1, <1>2, <1>3 DEF Isolated
<1>5. CASE kind[p] = k /\ Owner(p) = Top
  BY <1>2, <1>3, <1>4, <1>5
<1>6. CASE ~(kind[p] = k /\ Owner(p) = Top)
  <2>1. Owner(p) \in Cubicles /\ kind[p] \in Kinds
    BY LayoutAssumption DEF Owner, TypeOK, HeapPages
  <2>2. tab'[Owner(p)][kind[p]] = tab[Owner(p)][kind[p]]
    BY <1>2, <1>6, <2>1, Zenon DEF TypeOK
  <2>3. OpenTo(tab', Owner(p), p) = OpenTo(tab, Owner(p), p)
    BY <2>2 DEF OpenTo
  <2> QED
    BY <1>1, <1>2, <1>3, <1>4, <1>6, <2>3
<1> QED
  BY <1>5, <1>6

(* Closing a window opens nothing.                                         *)
LEMMA ClosingIsolates ==
  ASSUME TypeOK, IsolationInv, NEW begin, RemoveHeap(begin)
  PROVE  IsolationInv'
<1> SUFFICES ASSUME NEW p \in Pages
             PROVE  OpenTo(tab', Owner(p)', p) \subseteq opened'[p] /\ Isolated(p)'
  BY DEF IsolationInv, WindowsRecorded, SpatialIsolation, Isolated
<1>1. OpenTo(tab, Owner(p), p) \subseteq opened[p] /\ Isolated(p)
  BY DEF IsolationInv, WindowsRecorded, SpatialIsolation, Isolated
<1>2. /\ \/ \E i \in 1..Slots : tab' = [tab EXCEPT ![Top]["heap"][i] = NoWindow]
         \/ tab' = tab
      /\ opened' = opened /\ pageKey' = pageKey /\ heap_cfg' = heap_cfg
      /\ Top \in Cubicles
  BY ModuleAssumption, SlotRange DEF RemoveHeap, memVars
<1>3. Owner(p)' = Owner(p) /\ Exempt(p)' = Exempt(p)
  BY <1>2 DEF Owner, Exempt
<1>4. Isolated(p)'
  BY <1>1, <1>2, <1>3 DEF Isolated
<1>5. Owner(p) \in Cubicles /\ kind[p] \in Kinds
  BY LayoutAssumption DEF Owner, TypeOK, HeapPages
<1>6. \A j \in 1..Slots : \/ tab'[Owner(p)][kind[p]][j] = tab[Owner(p)][kind[p]][j]
                          \/ tab'[Owner(p)][kind[p]][j] = NoWindow
  <2>1. CASE tab' = tab
    BY <2>1
  <2>2. ASSUME NEW i \in 1..Slots, tab' = [tab EXCEPT ![Top]["heap"][i] = NoWindow],
               NEW j \in 1..Slots
        PROVE  \/ tab'[Owner(p)][kind[p]][j] = tab[Owner(p)][kind[p]][j]
               \/ tab'[Owner(p)][kind[p]][j] = NoWindow
    <3>1. tab \in [Cubicles -> [Kinds -> [1..Slots -> Windows]]] /\ "heap" \in Kinds
      BY DEF TypeOK
    <3>2. Top \in Cubicles /\ Owner(p) \in Cubicles /\ kind[p] \in Kinds
      BY <1>2, <1>5
    <3> DEFINE t == [tab EXCEPT ![Top]["heap"][i] = NoWindow]
    <3>3. \/ t[Owner(p)][kind[p]][j] = tab[Owner(p)][kind[p]][j]
          \/ t[Owner(p)][kind[p]][j] = NoWindow
      BY ONLY <3>1, <3>2, TabEntry
    <3> QED
      BY ONLY <2>2, <3>3, Zenon
  <2> QED
    BY <1>2, <2>1, <2>2
<1>7. OpenTo(tab', Owner(p), p) \subseteq OpenTo(tab, Owner(p), p)
  BY <1>6 DEF OpenTo, NoWindow
<1> QED
  BY <1>1, <1>2, <1>3, <1>4, <1>7

(* The memory half of a call and of a return: what the trampoline leaves.  *)
LEMMA TrampolineMemory ==
  ASSUME TypeOK, CallStack,
         \/ \E f \in Funcs : \E arg \in HeapPages \cup {NULL} : HookedCall(f, arg)
         \/ EntryStart
         \/ \E ret \in HeapPages \cup {NULL} : EntryReturn(ret)
         \/ HookReturn
  PROVE  /\ tab' = tab
         /\ \E tags \in [Pages -> Keys] :
              /\ OnlyReclaims(tags)
              /\ \/ no_attach(tags)
                 \/ \E m \in Cubicles, q \in HeapPages : heap_attach(m, q, tags)
<1> USE LayerFacts
<1>a. ASSUME NEW l \in 0..layer, NEW e
      PROVE  /\ OnStack(pageKey, l, e) \in [Pages -> Keys]
             /\ OnlyReclaims(OnStack(pageKey, l, e))
  <2>1. layer \in Nat /\ prev_module[l] \in Cubicles
    BY LayerFacts
  <2>2. \A k \in 1..layer : act[k] \in Activations
    BY DEF CallStack
  <2>3. l # 0 => act[l] \in Activations
    BY ONLY <2>1, <2>2, l \in 0..layer
  <2> QED
    BY <2>1, <2>3, OnStackType, OnStackReclaims, Zenon DEF TypeOK
<1>1. ASSUME NEW f \in Funcs, NEW arg \in HeapPages \cup {NULL}, HookedCall(f, arg)
      PROVE  /\ tab' = tab
             /\ \E tags \in [Pages -> Keys] :
                  /\ OnlyReclaims(tags)
                  /\ \/ no_attach(tags)
                     \/ \E m \in Cubicles, q \in HeapPages : heap_attach(m, q, tags)
  <2> DEFINE tags == OnStack(pageKey, layer, pkru)
  <2>1. tags \in [Pages -> Keys] /\ OnlyReclaims(tags)
    BY <1>a
  <2>2. no_attach(tags) \/ (arg \in HeapPages /\ heap_attach(module[f], arg, tags))
    BY <1>1, Zenon DEF HookedCall
  <2>3. module[f] \in Cubicles /\ tab' = tab
    BY <1>1, ModuleAssumption, Zenon DEF HookedCall
  <2> HIDE DEF tags
  <2> QED
    BY <2>1, <2>2, <2>3, Zenon
<1>2. CASE EntryStart
  <2> DEFINE tags == OnStack(pageKey, layer, pkru')
  <2>1. tags \in [Pages -> Keys] /\ OnlyReclaims(tags)
    BY <1>a
  <2>2. no_attach(tags) /\ tab' = tab
    BY <1>2, Zenon DEF EntryStart, no_attach
  <2> HIDE DEF tags
  <2> QED
    BY <2>1, <2>2
<1>3. ASSUME NEW ret \in HeapPages \cup {NULL}, EntryReturn(ret)
      PROVE  /\ tab' = tab
             /\ \E tags \in [Pages -> Keys] : OnlyReclaims(tags) /\ no_attach(tags)
  <2> DEFINE tags == OnStack(pageKey, layer, pkru)
  <2>1. tags \in [Pages -> Keys] /\ OnlyReclaims(tags)
    BY <1>a
  <2>2. no_attach(tags) /\ tab' = tab
    BY <1>3, Zenon DEF EntryReturn, no_attach
  <2> HIDE DEF tags
  <2> QED
    BY <2>1, <2>2
<1>4. CASE HookReturn
  <2> DEFINE tags == OnStack(pageKey, layer - 1, pkru')
             ret == act[layer].ret
             caller == prev_module[layer - 1]
  <2>1. layer # 0 /\ caller \in Cubicles /\ ret \in HeapPages \cup {NULL}
    BY <1>4, Zenon DEF HookReturn, CallStack, Activations
  <2>2. tags \in [Pages -> Keys] /\ OnlyReclaims(tags)
    BY <1>a, <2>1
  <2>3. no_attach(tags) \/ (ret \in HeapPages /\ heap_attach(caller, ret, tags))
    BY <1>4, <2>1, Zenon DEF HookReturn
  <2>4. tab' = tab
    BY <1>4, Zenon DEF HookReturn
  <2> HIDE DEF tags, ret, caller
  <2> QED
    BY <2>1, <2>2, <2>3, <2>4
<1> QED
  BY <1>1, <1>2, <1>3, <1>4

(* Every action preserves isolation.                                       *)
LEMMA IsolationStep ==
  ASSUME TypeOK, CallStack, IsolationInv, [Next]_vars
  PROVE  IsolationInv'
<1>1. CASE \/ \E f \in Funcs : \E arg \in HeapPages \cup {NULL} : HookedCall(f, arg)
           \/ EntryStart
           \/ \E ret \in HeapPages \cup {NULL} : EntryReturn(ret)
           \/ HookReturn
  BY <1>1, TrampolineMemory, AttachIsolates
<1>2. ASSUME NEW p \in Pages, NEW a \in AddrsOf(p), FaultMap(p, a) PROVE IsolationInv'
  BY <1>2, FaultIsolates
<1>3. ASSUME NEW k \in {"stack", "global"}, NEW i \in 1..Slots, NEW o \in Objects,
             NEW m \in Masks, AddIndexed(k, i, o, m)
      PROVE  IsolationInv'
  BY <1>3, OpeningIsolates, ModuleAssumption DEF AddIndexed
<1>4. ASSUME UNCHANGED <<pageKey, heap_cfg, tab, opened>> PROVE IsolationInv'
  BY <1>4, Zenon DEF IsolationInv, WindowsRecorded, SpatialIsolation, Owner, Exempt
<1>5. ASSUME NEW o \in Objects, NEW m \in Masks, AddHeap(o, m) PROVE IsolationInv'
  <2>1. CASE UNCHANGED <<tab, opened>>
    BY <1>4, <1>5, <2>1 DEF AddHeap, memVars
  <2>2. ASSUME NEW i \in 1..Slots, Opening("heap", i, Window(o, m)) PROVE IsolationInv'
    <3>1. Top \in Cubicles /\ "heap" \in Kinds /\ UNCHANGED memVars
      BY <1>5, ModuleAssumption, Zenon DEF AddHeap
    <3> QED
      BY <2>2, <3>1, OpeningIsolates
  <2> QED
    BY <1>5, <2>1, <2>2, SlotRange DEF AddHeap
<1>6. ASSUME NEW o \in Objects, RemoveHeap(o.begin) PROVE IsolationInv'
  BY <1>6, ClosingIsolates
<1> QED
  BY <1>1, <1>2, <1>3, <1>4, <1>5, <1>6, Zenon
  DEF Next, HookSpins, WildReturn, DirectCall, DirectReturn, DirectMalloc, DirectFree,
      FaultSpin, callVars, memVars, vars

(* main() has tagged every page with its owner's key and no window is open. *)
LEMMA InitIsolated == Init => IsolationInv
<1> SUFFICES ASSUME Init, NEW p \in Pages
             PROVE  OpenTo(tab, Owner(p), p) \subseteq opened[p] /\ Isolated(p)
  BY DEF IsolationInv, WindowsRecorded, SpatialIsolation, Isolated
<1>1. Owner(p) \in Cubicles /\ kind[p] \in Kinds
  BY ModuleAssumption, LayoutAssumption DEF Init, Owner, HeapPages
<1>2. \A i \in 1..Slots : tab[Owner(p)][kind[p]][i] = NoWindow
  BY <1>1 DEF Init
<1>3. OpenTo(tab, Owner(p), p) = {}
  BY <1>2 DEF OpenTo, NoWindow
<1>4. Isolated(p)
  BY DEF Init, Isolated, Owner, HeapPages
<1> QED
  BY <1>3, <1>4

(* A page is never under the key of a cubicle that is neither its owner,   *)
(* nor exempted by should_map, nor one its owner opened it to.             *)
THEOREM SpatialIsolationHolds == Spec => []SpatialIsolation
<1>1. IsolationInv /\ TypeOK /\ CallStack /\ [Next]_vars => IsolationInv'
  BY IsolationStep
<1>2. IsolationInv => SpatialIsolation
  BY DEF IsolationInv
<1> QED
  BY <1>1, <1>2, InitIsolated, TypeCorrect, CallStackWellFormed, PTL DEF Spec

(* What one step may do to the key of one page.                            *)
LEMMA MapStep ==
  ASSUME TypeOK, CallStack, [Next]_vars, NEW p \in Pages, pageKey'[p] # pageKey[p]
  PROVE  \E c \in Cubicles :
           /\ pageKey'[p] = pkey[c]
           /\ \/ pkey[c] = pkey[Owner(p)'] \/ c \in Exempt(p)
              \/ c \in OpenTo(tab, Owner(p), p)
<1> DEFINE Goal == \E c \in Cubicles :
                     /\ pageKey'[p] = pkey[c]
                     /\ \/ pkey[c] = pkey[Owner(p)'] \/ c \in Exempt(p)
                        \/ c \in OpenTo(tab, Owner(p), p)
<1>1. CASE \/ \E f \in Funcs : \E arg \in HeapPages \cup {NULL} : HookedCall(f, arg)
           \/ EntryStart
           \/ \E ret \in HeapPages \cup {NULL} : EntryReturn(ret)
           \/ HookReturn
  <2>1. PICK tags \in [Pages -> Keys] :
          /\ OnlyReclaims(tags)
          /\ \/ no_attach(tags)
             \/ \E m \in Cubicles, q \in HeapPages : heap_attach(m, q, tags)
    BY <1>1, TrampolineMemory
  <2>2. CASE pageKey'[p] = tags[p]
    <3>1. kind[p] = "stack" /\ pageKey'[p] = pkey[home[p]] /\ home[p] \in Cubicles
      BY <2>1, <2>2, LayoutAssumption DEF OnlyReclaims
    <3>2. Owner(p)' = home[p]
      BY <3>1 DEF Owner
    <3> QED
      BY <3>1, <3>2
  <2>3. ASSUME NEW m \in Cubicles, heap_attach(m, p, tags), p \in HeapPages PROVE Goal
    <3>1. pageKey'[p] = pkey[m] /\ Owner(p)' = m
      BY <2>1, <2>3, Zenon DEF heap_attach, Owner, TypeOK, HeapPages
    <3> QED
      BY <3>1
  <2>4. pageKey'[p] = tags[p]
          \/ \E m \in Cubicles : p \in HeapPages /\ heap_attach(m, p, tags)
    BY <2>1, Zenon DEF heap_attach, no_attach
  <2> QED
    BY <2>2, <2>3, <2>4, Zenon
<1>2. ASSUME NEW q \in Pages, NEW a \in AddrsOf(q), FaultMap(q, a) PROVE Goal
  <2>1. /\ pageKey' = [pageKey EXCEPT ![q] = pkey[Accessor]] /\ heap_cfg' = heap_cfg
        /\ MayMap(Accessor, a, q)
    BY <1>2 DEF FaultMap
  <2>2. p = q /\ pageKey'[p] = pkey[Accessor] /\ Accessor \in Cubicles
    BY <2>1, AccessorKey DEF TypeOK
  <2>3. Owner(p)' = Owner(p)
    BY <2>1, Zenon DEF Owner
  <2> QED
    BY <2>1, <2>2, <2>3, MayMapSound
<1>3. pageKey' = pageKey => Goal
  OBVIOUS
<1> QED
  BY <1>1, <1>2, <1>3, Zenon
  DEF Next, HookSpins, WildReturn, DirectCall, DirectReturn, DirectMalloc, DirectFree,
      FaultSpin, AddIndexed, AddHeap, RemoveHeap, callVars, memVars, vars

(* Revocation: no step moves a page to a cubicle whose window is closed,   *)
(* or was opened by a former owner of the page.                            *)
THEOREM OnlyOpenWindowsMapHolds == Spec => OnlyOpenWindowsMap
<1> DEFINE Mapped == \A p \in Pages :
                       pageKey'[p] # pageKey[p] =>
                         \E c \in Cubicles :
                           /\ pageKey'[p] = pkey[c]
                           /\ \/ pkey[c] = pkey[Owner(p)'] \/ c \in Exempt(p)
                              \/ c \in OpenTo(tab, Owner(p), p)
<1>1. TypeOK /\ CallStack /\ [Next]_vars => [Mapped]_vars
  BY MapStep
<1> QED
  BY <1>1, TypeCorrect, CallStackWellFormed, PTL DEF Spec, OnlyOpenWindowsMap
=============================================================================
