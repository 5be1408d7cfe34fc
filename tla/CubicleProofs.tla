--------------------------- MODULE CubicleProofs ---------------------------
(***************************************************************************)
(* Safety of the monitor for every set of cubicles, functions, pages,      *)
(* windows and keys that satisfies the assumptions of Cubicle.  Each part  *)
(* of the inductive invariant has one lemma, with one step per action.     *)
(***************************************************************************)
EXTENDS Cubicle, TLAPS

USE DEF Layers, Kinds, cmp_lock, cmp_unlock, coro_new, pre_wrap, post_wrap

(* Every cubicle has a key that is not always enabled, and friends alone   *)
(* share one; its stacks are under a key of the machine too.               *)
LEMMA KeyFacts ==
  /\ \A c \in Cubicles : pkey[c] \in Keys /\ pkey[c] \notin Unlocked
  /\ \A c \in Cubicles : pkey_alloc[c] \in Keys
  /\ \A a, b \in Cubicles : pkey[a] = pkey[b] <=> friends(a, b)
  /\ 0 \in Unlocked /\ Unlocked \subseteq Keys
BY KeyAssumption DEF Keys, Unlocked

(* get_state names a cubicle, and one under the key of the layer it runs   *)
(* on: the code on a layer's stack is a shared library's or a friend's.    *)
LEMMA AccessorKey ==
  TypeOK /\ CallStack => /\ Accessor \in Cubicles
                         /\ pkey[Accessor] = pkey[prev_module[layer]]
                         /\ Top \in Cubicles \cup SharedLibs
<1> SUFFICES ASSUME TypeOK, CallStack
             PROVE  /\ Accessor \in Cubicles
                    /\ pkey[Accessor] = pkey[prev_module[layer]]
                    /\ Top \in Cubicles \cup SharedLibs
  OBVIOUS
<1>1. /\ layer \in 0..MaxLayer /\ layer \in Nat /\ prev_module[layer] \in Cubicles
      /\ code[layer] \in Seq(Cubicles \cup SharedLibs) /\ Len(code[layer]) > 0
  BY LayoutAssumption DEF TypeOK, CallStack
<1>2. Len(code[layer]) \in 1..Len(code[layer])
  BY <1>1
<1>3. /\ Top \in Cubicles \cup SharedLibs
      /\ Top \in SharedLibs \/ friends(prev_module[layer], Top)
  BY <1>1, <1>2 DEF Top, CallStack
<1>4. CASE Top \in Cubicles
  BY <1>1, <1>3, <1>4, KeyFacts, ModuleAssumption DEF Accessor
<1>5. CASE Top \notin Cubicles
  BY <1>1, <1>3, <1>5 DEF Accessor
<1> QED
  BY <1>4, <1>5, <1>3

(* Trampoline code that takes a stack page back tags it with a key.        *)
LEMMA OnStackType ==
  ASSUME NEW tags \in [Pages -> Keys], NEW l \in Nat, NEW enabled,
         l # 0 => act[l] \in Activations /\ prev_module[l] \in Cubicles
  PROVE  OnStack(tags, l, enabled) \in [Pages -> Keys]
BY KeyFacts, LayoutAssumption DEF OnStack, Reclaimed, Activations

(* Windows a table holds are open to cubicles.                             *)
LEMMA OpenToType ==
  ASSUME NEW t, NEW m, NEW p PROVE OpenTo(t, m, p) \in SUBSET Cubicles
BY DEF OpenTo

(* The state every action starts from: the layer that runs is typed.       *)
LEMMA LayerFacts ==
  ASSUME TypeOK, CallStack
  PROVE  /\ layer \in Nat /\ layer \in Layers /\ MaxLayer \in Nat
         /\ \A l \in 0..layer : /\ l \in Layers /\ l \in Nat
                                /\ prev_module[l] \in Cubicles
                                /\ code[l] \in Seq(Cubicles \cup SharedLibs)
         /\ layer # 0 => /\ act[layer] \in Activations
                         /\ layer - 1 \in 0..layer /\ layer - 1 \in Layers
                         /\ layer - 1 # 0 => act[layer - 1] \in Activations
<1>1. MaxLayer \in Nat /\ layer \in Layers
  BY LayoutAssumption DEF TypeOK
<1>2. \A l \in 0..layer : /\ l \in Layers /\ l \in Nat
                          /\ prev_module[l] \in Cubicles
                          /\ code[l] \in Seq(Cubicles \cup SharedLibs)
  BY <1>1 DEF TypeOK
<1>3. \A l \in 1..layer : act[l] \in Activations
  BY DEF CallStack
<1> QED
  BY <1>1, <1>2, <1>3

(* heap_attach and its absence leave the memory state typed.               *)
LEMMA AttachType ==
  ASSUME TypeOK, NEW tags \in [Pages -> Keys], NEW m \in Cubicles, NEW p \in HeapPages,
         heap_attach(m, p, tags) \/ no_attach(tags)
  PROVE  /\ pageKey' \in [Pages -> Keys]
         /\ heap_cfg' \in [HeapPages -> Cubicles]
         /\ opened' \in [Pages -> SUBSET Cubicles]
<1>1. CASE heap_attach(m, p, tags)
  BY <1>1, KeyFacts, OpenToType, Zenon DEF heap_attach, TypeOK
<1>2. CASE no_attach(tags)
  BY <1>2 DEF no_attach, TypeOK
<1> QED
  BY <1>1, <1>2

(* Writing one entry of one table leaves tables.                           *)
LEMMA TabUpdate ==
  ASSUME NEW t \in [Cubicles -> [Kinds -> [1..Slots -> Windows]]], NEW c \in Cubicles,
         NEW k \in Kinds, NEW i \in 1..Slots, NEW w \in Windows
  PROVE  [t EXCEPT ![c][k][i] = w] \in [Cubicles -> [Kinds -> [1..Slots -> Windows]]]
OBVIOUS

(* It changes that entry and no other.                                     *)
LEMMA TabEntry ==
  ASSUME NEW t \in [Cubicles -> [Kinds -> [1..Slots -> Windows]]],
         NEW c \in Cubicles, NEW k \in Kinds, NEW i \in 1..Slots, NEW w,
         NEW d \in Cubicles, NEW e \in Kinds, NEW j \in 1..Slots
  PROVE  \/ [t EXCEPT ![c][k][i] = w][d][e][j] = t[d][e][j]
         \/ /\ d = c /\ e = k /\ j = i
            /\ [t EXCEPT ![c][k][i] = w][d][e][j] = w
OBVIOUS

(* ipc_add_heap and ipc_remove_heap choose an entry of the table.          *)
LEMMA SlotRange ==
  \A m, begin : AddSlot(m, begin) \subseteq 1..Slots /\ RemoveSlot(m, begin) \subseteq 1..Slots
BY DEF AddSlot, RemoveSlot, First

(* So does an entry that its owner writes into its own table.              *)
LEMMA OpeningType ==
  ASSUME TypeOK, Top \in HasTab, NEW k \in Kinds, NEW i \in 1..Slots,
         NEW o \in Objects, NEW mask \in Masks, Opening(k, i, Window(o, mask))
  PROVE  /\ tab' \in [Cubicles -> [Kinds -> [1..Slots -> Windows]]]
         /\ opened' \in [Pages -> SUBSET Cubicles]
<1>1. Top \in Cubicles /\ Window(o, mask) \in Windows
  BY ModuleAssumption, LayoutAssumption DEF Window, Windows
<1>2. tab' \in [Cubicles -> [Kinds -> [1..Slots -> Windows]]]
  BY <1>1, TabUpdate DEF Opening, TypeOK
<1>3. opened' \in [Pages -> SUBSET Cubicles]
  BY OpenToType DEF Opening, TypeOK
<1> QED
  BY <1>2, <1>3

(* Every action preserves the type invariant.                              *)
LEMMA TypeStep ==
  ASSUME TypeOK, CallStack, [Next]_vars
  PROVE  TypeOK'
<1> USE LayerFacts
<1>1. ASSUME NEW f \in Funcs, NEW arg \in HeapPages \cup {NULL}, HookedCall(f, arg)
      PROVE  TypeOK'
  <2> DEFINE tags == OnStack(pageKey, layer, pkru)
  <2>1. layer + 1 \in Layers /\ module[f] \in Cubicles
    BY <1>1, ModuleAssumption DEF HookedCall, CanCall
  <2>2. tags \in [Pages -> Keys]
    BY OnStackType, Zenon DEF TypeOK
  <2>3. /\ pageKey' \in [Pages -> Keys]
        /\ heap_cfg' \in [HeapPages -> Cubicles]
        /\ opened' \in [Pages -> SUBSET Cubicles]
    <3>1. CASE arg # NULL
      BY <1>1, <2>1, <2>2, <3>1, AttachType DEF HookedCall
    <3>2. CASE arg = NULL
      BY <1>1, <2>2, <3>2 DEF HookedCall, no_attach, TypeOK
    <3> QED
      BY <3>1, <3>2
  <2>4. act' \in [Layers -> Activations \cup {NULL}]
    BY <1>1, <2>1 DEF HookedCall, TypeOK, Activation, Activations
  <2>5. code' \in [Layers -> Seq(Cubicles \cup SharedLibs)]
    BY <1>1, <2>1 DEF HookedCall, TypeOK
  <2>6. pkru' \subseteq Keys
    BY <1>1, <2>1, KeyFacts DEF HookedCall, TypeOK
  <2> QED
    BY <1>1, <2>1, <2>3, <2>4, <2>5, <2>6 DEF HookedCall, TypeOK
<1>2. ASSUME NEW f \in Funcs, HookSpins(f) PROVE TypeOK'
  BY <1>2 DEF HookSpins, callVars, memVars, TypeOK
<1>3. CASE EntryStart
  <2>1. layer # 0
    BY <1>3 DEF EntryStart, CallStack
  <2>2. pageKey' \in [Pages -> Keys]
    BY <1>3, <2>1, OnStackType, Zenon DEF EntryStart, TypeOK
  <2>3. act' \in [Layers -> Activations \cup {NULL}]
    BY <1>3, <2>1, Zenon DEF EntryStart, TypeOK, Activation, Activations
  <2> QED
    BY <1>3, <2>2, <2>3, Zenon DEF EntryStart, TypeOK
<1>4. ASSUME NEW ret \in HeapPages \cup {NULL}, EntryReturn(ret) PROVE TypeOK'
  <2>1. layer # 0 /\ act[layer].prev \in Cubicles /\ act[layer].func \in Funcs
    BY <1>4 DEF EntryReturn, Activations
  <2>2. pageKey' \in [Pages -> Keys]
    BY <1>4, <2>1, OnStackType, Zenon DEF EntryReturn, TypeOK
  <2>3. act' \in [Layers -> Activations \cup {NULL}]
    BY <1>4, <2>1 DEF EntryReturn, TypeOK, Activation, Activations
  <2>4. block' \in [HeapPages -> Cubicles \cup {Free}]
    BY <1>4, <2>1 DEF EntryReturn, TypeOK, Allocated
  <2>5. pkru' \subseteq Keys
    <3>1. pkru \subseteq Keys /\ cmp_unlock(act[layer].prev)
      BY <1>4, Zenon DEF EntryReturn, TypeOK
    <3> QED
      BY <3>1, <2>1, KeyFacts
  <2> QED
    BY <1>4, <2>2, <2>3, <2>4, <2>5, Zenon DEF EntryReturn, TypeOK
<1>5. CASE HookReturn
  <2> DEFINE tags == OnStack(pageKey, layer - 1, pkru')
  <2>1. layer # 0 /\ act[layer].func \in Funcs /\ act[layer].ret \in HeapPages \cup {NULL}
    BY <1>5 DEF HookReturn, CallStack, Activations
  <2>2. tags \in [Pages -> Keys]
    BY <2>1, OnStackType, Zenon DEF TypeOK
  <2>3. /\ pageKey' \in [Pages -> Keys]
        /\ heap_cfg' \in [HeapPages -> Cubicles]
        /\ opened' \in [Pages -> SUBSET Cubicles]
    <3>1. CASE act[layer].ret # NULL
      BY <1>5, <2>1, <2>2, <3>1, AttachType, Zenon DEF HookReturn
    <3>2. CASE act[layer].ret = NULL
      BY <1>5, <2>2, <3>2, Zenon DEF HookReturn, no_attach, TypeOK
    <3> QED
      BY <3>1, <3>2
  <2>4. code' \in [Layers -> Seq(Cubicles \cup SharedLibs)]
    <3>1. code \in [Layers -> Seq(Cubicles \cup SharedLibs)] /\ code' = [code EXCEPT ![layer] = <<>>]
      BY <1>5, Zenon DEF HookReturn, TypeOK
    <3>2. <<>> \in Seq(Cubicles \cup SharedLibs)
      OBVIOUS
    <3> QED
      BY ONLY <3>1, <3>2, Zenon
  <2>5. act' \in [Layers -> Activations \cup {NULL}] /\ layer' \in Layers
    BY <1>5, <2>1 DEF HookReturn, TypeOK
  <2>6. coro' \in [Funcs -> Layers]
    <3>1. 0 \in Layers
      BY LayoutAssumption
    <3> HIDE DEF Layers
    <3> QED
      BY <1>5, <3>1, Zenon DEF HookReturn, TypeOK
  <2>7. pkru' \subseteq Keys
    BY <1>5, Zenon DEF HookReturn, TypeOK
  <2> QED
    BY <1>5, <2>3, <2>4, <2>5, <2>6, <2>7, Zenon DEF HookReturn, TypeOK
<1>6. CASE WildReturn
  BY <1>6 DEF WildReturn, callVars, memVars, TypeOK
<1>7. ASSUME NEW m \in Cubicles \cup SharedLibs, DirectCall(m) PROVE TypeOK'
  <2>1. code' \in [Layers -> Seq(Cubicles \cup SharedLibs)]
    BY <1>7, SMTT(20) DEF DirectCall, TypeOK
  <2> QED
    BY <1>7, <2>1 DEF DirectCall, memVars, TypeOK
<1>8. CASE DirectReturn
  <2>1. SubSeq(code[layer], 1, Len(code[layer]) - 1) \in Seq(Cubicles \cup SharedLibs)
    BY <1>8 DEF DirectReturn, TypeOK
  <2>2. code' \in [Layers -> Seq(Cubicles \cup SharedLibs)]
    BY <1>8, <2>1 DEF DirectReturn, TypeOK
  <2> QED
    BY <1>8, <2>2, Zenon DEF DirectReturn, memVars, TypeOK
<1>9. ASSUME NEW p \in HeapPages, DirectMalloc(p) \/ DirectFree(p) PROVE TypeOK'
  <2>1. block' \in [HeapPages -> Cubicles \cup {Free}]
    BY <1>9, Zenon DEF DirectMalloc, DirectFree, TypeOK
  <2> QED
    BY <1>9, <2>1, SMTT(20) DEF DirectMalloc, DirectFree, callVars, TypeOK
<1>10. ASSUME NEW p \in Pages, NEW a \in AddrsOf(p), FaultMap(p, a) PROVE TypeOK'
  <2>1. pageKey' \in [Pages -> Keys]
    BY <1>10, AccessorKey, KeyFacts DEF FaultMap, TypeOK
  <2> QED
    BY <1>10, <2>1 DEF FaultMap, callVars, TypeOK
<1>11. ASSUME NEW p \in Pages, NEW a \in AddrsOf(p), FaultSpin(p, a) PROVE TypeOK'
  BY <1>11 DEF FaultSpin, callVars, memVars, TypeOK
<1>12. ASSUME NEW k \in {"stack", "global"}, NEW i \in 1..Slots, NEW o \in Objects,
              NEW m \in Masks, AddIndexed(k, i, o, m)
       PROVE  TypeOK'
  <2>1. /\ tab' \in [Cubicles -> [Kinds -> [1..Slots -> Windows]]]
        /\ opened' \in [Pages -> SUBSET Cubicles]
    BY <1>12, OpeningType DEF AddIndexed
  <2> QED
    BY <1>12, <2>1, Zenon DEF AddIndexed, callVars, memVars, TypeOK
<1>13. ASSUME NEW o \in Objects, NEW m \in Masks, AddHeap(o, m) PROVE TypeOK'
  <2>1. /\ tab' \in [Cubicles -> [Kinds -> [1..Slots -> Windows]]]
        /\ opened' \in [Pages -> SUBSET Cubicles]
    BY <1>13, OpeningType, SlotRange DEF AddHeap, TypeOK
  <2>2. nr_real' \in [Cubicles -> Nat]
    <3>1. CASE UNCHANGED nr_real
      BY <3>1 DEF TypeOK
    <3>2. ASSUME NEW i \in AddSlot(Top, o.begin), nr_real' = [nr_real EXCEPT ![Top] = i - 1]
          PROVE  nr_real' \in [Cubicles -> Nat]
      <4>1. i - 1 \in Nat
        BY SlotRange, LayoutAssumption
      <4> QED
        BY <3>2, <4>1, Zenon DEF TypeOK
    <3> QED
      BY <1>13, <3>1, <3>2 DEF AddHeap
  <2>3. halted' \in BOOLEAN
    BY <1>13, Zenon DEF AddHeap, TypeOK
  <2> QED
    BY <1>13, <2>1, <2>2, <2>3, Zenon DEF AddHeap, callVars, memVars, TypeOK
<1>14. ASSUME NEW o \in Objects, RemoveHeap(o.begin) PROVE TypeOK'
  <2>1. Top \in Cubicles /\ NoWindow \in Windows
    BY <1>14, ModuleAssumption DEF RemoveHeap, NoWindow, Windows
  <2>2. \/ \E i \in 1..Slots : tab' = [tab EXCEPT ![Top]["heap"][i] = NoWindow]
        \/ tab' = tab
    BY <1>14, SlotRange DEF RemoveHeap
  <2>3. tab \in [Cubicles -> [Kinds -> [1..Slots -> Windows]]]
    BY DEF TypeOK
  <2>4. tab' \in [Cubicles -> [Kinds -> [1..Slots -> Windows]]]
    <3>1. "heap" \in Kinds
      OBVIOUS
    <3>2. ASSUME NEW i \in 1..Slots
          PROVE  [tab EXCEPT ![Top]["heap"][i] = NoWindow]
                   \in [Cubicles -> [Kinds -> [1..Slots -> Windows]]]
      BY ONLY <2>1, <2>3, <3>1, TabUpdate, Zenon
    <3> QED
      BY ONLY <2>2, <2>3, <3>2, Zenon
  <2>5. halted' \in BOOLEAN
    <3>1. (ipc[Top] \in {"strict", "reuse"}) \in BOOLEAN
      OBVIOUS
    <3>2. \/ halted' = halted
          \/ halted' = (ipc[Top] \in {"strict", "reuse"})
      BY <1>14, Zenon DEF RemoveHeap
    <3> QED
      BY <3>1, <3>2, Zenon DEF TypeOK
  <2> QED
    BY <1>14, <2>4, <2>5 DEF RemoveHeap, callVars, memVars, TypeOK
<1>15. CASE UNCHANGED vars
  BY <1>15, Zenon DEF vars, TypeOK
<1> QED
  BY <1>1, <1>2, <1>3, <1>4, <1>5, <1>6, <1>7, <1>8, <1>9, <1>10, <1>11, <1>12,
     <1>13, <1>14, <1>15 DEF Next

(* The parts of CallStack: the code s on a layer of m, and the activation  *)
(* a of a layer of m that lies on one of prev.                             *)
CodeOK(s, m) ==
  /\ Len(s) > 0
  /\ \A i \in 1..Len(s) : s[i] \in SharedLibs \/ friends(m, s[i])

ActOK(a, prev, m) ==
  a \in Activations /\ module[a.func] = m /\ a.prev = prev /\ ~friends(prev, m)

(* CallStack, layer by layer.                                              *)
LEMMA CallStackParts ==
  CallStack <=> /\ prev_module[0] = LINUXUPLAT
                /\ layer = 0 => phase = "body"
                /\ \A l \in 0..layer : CodeOK(code[l], prev_module[l])
                /\ \A l \in 1..layer : ActOK(act[l], prev_module[l - 1], prev_module[l])
BY DEF CallStack, CodeOK, ActOK

(* A friend or a library may be called from a layer and return to it.      *)
LEMMA CodeOKCalls ==
  ASSUME NEW s \in Seq(Cubicles \cup SharedLibs), NEW m, CodeOK(s, m)
  PROVE  /\ \A c \in Cubicles \cup SharedLibs :
              c \in SharedLibs \/ friends(m, c) => CodeOK(Append(s, c), m)
         /\ Len(s) > 1 => CodeOK(SubSeq(s, 1, Len(s) - 1), m)
<1>1. ASSUME NEW c \in Cubicles \cup SharedLibs, c \in SharedLibs \/ friends(m, c)
      PROVE  CodeOK(Append(s, c), m)
  <2>1. /\ Len(s) \in Nat /\ Len(Append(s, c)) = Len(s) + 1
        /\ \A i \in 1..Len(s) : Append(s, c)[i] = s[i]
        /\ Append(s, c)[Len(s) + 1] = c
    OBVIOUS
  <2>2. \A i \in 1..(Len(s) + 1) : i \in 1..Len(s) \/ i = Len(s) + 1
    OBVIOUS
  <2> QED
    BY <1>1, <2>1, <2>2 DEF CodeOK
<1>2. ASSUME Len(s) > 1 PROVE CodeOK(SubSeq(s, 1, Len(s) - 1), m)
  <2>1. /\ Len(SubSeq(s, 1, Len(s) - 1)) = Len(s) - 1
        /\ \A i \in 1..(Len(s) - 1) : SubSeq(s, 1, Len(s) - 1)[i] = s[i]
    BY <1>2, SMTT(20)
  <2> QED
    BY <1>2, <2>1 DEF CodeOK
<1> QED
  BY <1>1, <1>2

(* Calls, returns and direct calls keep the stack of calls well formed.    *)
LEMMA CallStackStep ==
  ASSUME TypeOK, CallStack, [Next]_vars
  PROVE  CallStack'
<1>a. /\ prev_module[0] = LINUXUPLAT
      /\ layer = 0 => phase = "body"
      /\ \A l \in 0..layer : CodeOK(code[l], prev_module[l])
      /\ \A l \in 1..layer : ActOK(act[l], prev_module[l - 1], prev_module[l])
  BY CallStackParts
<1>b. layer \in Nat /\ layer \in Layers /\ MaxLayer \in Nat
  BY LayerFacts
<1> SUFFICES ASSUME ~ UNCHANGED <<layer, prev_module, act, code, phase>>
             PROVE  /\ prev_module'[0] = LINUXUPLAT
                    /\ layer' = 0 => phase' = "body"
                    /\ \A l \in 0..layer' : CodeOK(code'[l], prev_module'[l])
                    /\ \A l \in 1..layer' :
                         ActOK(act'[l], prev_module'[l - 1], prev_module'[l])
  BY DEF CallStack, CodeOK, ActOK
<1> DEFINE Goal == /\ prev_module'[0] = LINUXUPLAT
                   /\ layer' = 0 => phase' = "body"
                   /\ \A l \in 0..layer' : CodeOK(code'[l], prev_module'[l])
                   /\ \A l \in 1..layer' :
                        ActOK(act'[l], prev_module'[l - 1], prev_module'[l])
<1>1. ASSUME NEW f \in Funcs, NEW arg \in HeapPages \cup {NULL}, HookedCall(f, arg)
      PROVE  Goal
  <2> DEFINE new == Activation(f, prev_module[layer], arg, NULL)
  <2>1. /\ layer' = layer + 1 /\ layer + 1 \in Layers /\ module[f] \in Cubicles
        /\ prev_module' = [prev_module EXCEPT ![layer + 1] = module[f]]
        /\ act' = [act EXCEPT ![layer + 1] = new]
        /\ code' = [code EXCEPT ![layer + 1] = <<module[f]>>]
        /\ ~friends(prev_module[layer], module[f])
    BY <1>1, <1>b, ModuleAssumption DEF HookedCall, CanCall
  <2>2. /\ \A l \in 0..layer : /\ prev_module'[l] = prev_module[l] /\ act'[l] = act[l]
                               /\ code'[l] = code[l]
        /\ prev_module'[layer + 1] = module[f] /\ act'[layer + 1] = new
        /\ code'[layer + 1] = <<module[f]>>
    <3>1. /\ prev_module \in [Layers -> Cubicles] /\ act \in [Layers -> Activations \cup {NULL}]
          /\ code \in [Layers -> Seq(Cubicles \cup SharedLibs)]
      BY DEF TypeOK
    <3>2. \A l \in 0..layer : l \in Layers /\ l # layer + 1
      BY <1>b
    <3> QED
      BY ONLY <2>1, <3>1, <3>2
  <2>3. CodeOK(<<module[f]>>, module[f])
    BY DEF CodeOK, friends
  <2>4. ActOK(new, prev_module[layer], module[f])
    BY <2>1, LayerFacts DEF ActOK, Activation, Activations
  <2>5. \A l \in 0..(layer + 1) : CodeOK(code'[l], prev_module'[l])
    BY <2>2, <2>3, <1>a, <1>b, SMTT(30)
  <2>6. \A l \in 1..(layer + 1) : ActOK(act'[l], prev_module'[l - 1], prev_module'[l])
    BY <2>2, <2>4, <1>a, <1>b, SMTT(30)
  <2> QED
    BY <2>1, <2>2, <2>5, <2>6, <1>a, <1>b
<1>2. CASE EntryStart
  <2> DEFINE new == Activation(act[layer].func, prev_module[layer - 1], act[layer].arg, NULL)
  <2>1. /\ layer # 0 /\ prev_module' = prev_module /\ layer' = layer /\ code' = code
        /\ act' = [act EXCEPT ![layer] = new]
    BY <1>2, <1>a DEF EntryStart
  <2>2. ActOK(act[layer], prev_module[layer - 1], prev_module[layer])
    BY <2>1, <1>a, <1>b
  <2>3. ActOK(new, prev_module[layer - 1], prev_module[layer])
    BY <2>2 DEF ActOK, Activation, Activations
  <2>4. \A l \in 1..layer : ActOK(act'[l], prev_module[l - 1], prev_module[l])
    BY <2>1, <2>3, <1>a, <1>b, SMTT(40) DEF TypeOK
  <2> QED
    BY <2>1, <2>4, <1>a
<1>3. ASSUME NEW ret \in HeapPages \cup {NULL}, EntryReturn(ret) PROVE Goal
  <2> DEFINE new == Activation(act[layer].func, act[layer].prev, act[layer].arg, ret)
  <2>1. /\ layer # 0 /\ prev_module' = prev_module /\ layer' = layer /\ code' = code
        /\ act' = [act EXCEPT ![layer] = new]
    BY <1>3 DEF EntryReturn
  <2>2. ActOK(act[layer], prev_module[layer - 1], prev_module[layer])
    BY <2>1, <1>a, <1>b, SMTT(20)
  <2>3. ActOK(new, prev_module[layer - 1], prev_module[layer])
    BY <2>2 DEF ActOK, Activation, Activations
  <2>4. \A l \in 1..layer : ActOK(act'[l], prev_module[l - 1], prev_module[l])
    BY <2>1, <2>3, <1>a, <1>b, SMTT(20) DEF TypeOK
  <2> QED
    BY <2>1, <2>4, <1>a
<1>4. CASE HookReturn
  <2>1. /\ layer # 0 /\ prev_module' = prev_module /\ layer' = layer - 1
        /\ phase' = "body"
        /\ act' = [act EXCEPT ![layer] = NULL] /\ code' = [code EXCEPT ![layer] = <<>>]
    BY <1>4, <1>a, Zenon DEF HookReturn
  <2>2. \A l \in 0..(layer - 1) : act'[l] = act[l] /\ code'[l] = code[l]
    BY <2>1, <1>b DEF TypeOK
  <2> QED
    BY <2>1, <2>2, <1>a, <1>b
<1>5. ASSUME NEW m \in Cubicles \cup SharedLibs, DirectCall(m) PROVE Goal
  <2>1. /\ layer' = layer /\ prev_module' = prev_module /\ act' = act /\ phase' = phase
        /\ code' = [code EXCEPT ![layer] = Append(code[layer], m)]
        /\ m \in SharedLibs \/ friends(prev_module[layer], m)
    BY <1>5 DEF DirectCall
  <2>2. CodeOK(Append(code[layer], m), prev_module[layer])
    <3>1. /\ code[layer] \in Seq(Cubicles \cup SharedLibs)
          /\ CodeOK(code[layer], prev_module[layer])
      BY <1>a, <1>b, LayerFacts
    <3> QED
      BY <2>1, <3>1, CodeOKCalls, Zenon
  <2>3. \A l \in 0..layer : CodeOK(code'[l], prev_module[l])
    BY <2>1, <2>2, <1>a, <1>b, SMTT(20) DEF TypeOK
  <2> QED
    BY <2>1, <2>3, <1>a
<1>6. CASE DirectReturn
  <2>1. /\ layer' = layer /\ prev_module' = prev_module /\ act' = act /\ phase' = phase
        /\ code' = [code EXCEPT ![layer] = SubSeq(code[layer], 1, Len(code[layer]) - 1)]
        /\ Len(code[layer]) > 1
    BY <1>6 DEF DirectReturn
  <2>2. CodeOK(SubSeq(code[layer], 1, Len(code[layer]) - 1), prev_module[layer])
    BY <2>1, <1>a, <1>b, LayerFacts, CodeOKCalls
  <2>3. \A l \in 0..layer : CodeOK(code'[l], prev_module[l])
    BY <2>1, <2>2, <1>a, <1>b, SMTT(20) DEF TypeOK
  <2> QED
    BY <2>1, <2>3, <1>a
<1> QED
  BY <1>1, <1>2, <1>3, <1>4, <1>5, <1>6
  DEF Next, HookSpins, WildReturn, DirectMalloc, DirectFree, FaultMap, FaultSpin,
      AddIndexed, AddHeap, RemoveHeap, callVars, vars

(* The initial state: liblinuxuplat.so runs, at layer 0.                   *)
LEMMA InitFacts == Init => TypeOK /\ CallStack
<1> SUFFICES ASSUME Init PROVE TypeOK /\ CallStack
  OBVIOUS
<1> USE ModuleAssumption, LayoutAssumption, KeyFacts
<1>1. pkru \subseteq Keys /\ pageKey \in [Pages -> Keys]
  BY DEF Init
<1>2. NoWindow \in Windows
  BY DEF NoWindow, Windows
<1>3. tab \in [Cubicles -> [Kinds -> [1..Slots -> Windows]]]
  BY <1>2 DEF Init
<1>4. code \in [Layers -> Seq(Cubicles \cup SharedLibs)]
  <2>1. <<LINUXUPLAT>> \in Seq(Cubicles \cup SharedLibs) /\ <<>> \in Seq(Cubicles \cup SharedLibs)
    OBVIOUS
  <2>2. code = [l \in Layers |-> IF l = 0 THEN <<LINUXUPLAT>> ELSE <<>>]
    BY DEF Init
  <2> QED
    BY ONLY <2>1, <2>2, Zenon
<1>5. /\ layer \in Layers /\ prev_module \in [Layers -> Cubicles]
      /\ act \in [Layers -> Activations \cup {NULL}] /\ coro \in [Funcs -> Layers]
      /\ phase \in {"body", "calling", "returned"}
      /\ heap_cfg \in [HeapPages -> Cubicles]
      /\ block \in [HeapPages -> Cubicles \cup {Free}]
  BY DEF Init
<1>6. /\ opened \in [Pages -> SUBSET Cubicles] /\ halted \in BOOLEAN
      /\ nr_real \in [Cubicles -> Nat]
  BY Zenon DEF Init
<1>7. TypeOK
  BY <1>1, <1>3, <1>4, <1>5, <1>6, Zenon DEF TypeOK
<1>8. CallStack
  <2>1. /\ layer = 0 /\ phase = "body" /\ code[0] = <<LINUXUPLAT>>
        /\ prev_module[0] = LINUXUPLAT
    BY <1>5 DEF Init
  <2>2. CodeOK(code[0], prev_module[0])
    BY <2>1 DEF CodeOK, friends
  <2>3. \A l \in 0..layer : l = 0
    BY ONLY <2>1
  <2>4. \A l \in 1..layer : FALSE
    BY ONLY <2>1
  <2> QED
    BY ONLY <2>1, <2>2, <2>3, <2>4, CallStackParts, Zenon
<1> QED
  BY <1>7, <1>8

(* Type correctness: no call, return, fault or window operation leaves the *)
(* state space, at any depth of calls.                                     *)
THEOREM TypeCorrect == Spec => []TypeOK
<1>1. TypeOK /\ CallStack /\ [Next]_vars => TypeOK' /\ CallStack'
  BY TypeStep, CallStackStep
<1> QED
  BY <1>1, InitFacts, PTL DEF Spec

(* prev_module, the activations and the code on each layer always agree.   *)
THEOREM CallStackWellFormed == Spec => []CallStack
<1>1. TypeOK /\ CallStack /\ [Next]_vars => TypeOK' /\ CallStack'
  BY TypeStep, CallStackStep
<1> QED
  BY <1>1, InitFacts, PTL DEF Spec
=============================================================================
