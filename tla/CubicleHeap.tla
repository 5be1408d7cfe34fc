---------------------------- MODULE CubicleHeap ----------------------------
(***************************************************************************)
(* Heap pages: heap_attach in the wraps of uk_malloc_ifpages and           *)
(* uk_free_ifpages keeps the monitor's owner of a page in step with the    *)
(* allocator's, through any nesting of calls.                              *)
(***************************************************************************)
EXTENDS CubicleIsolation

USE DEF Layers, pre_wrap, post_wrap

(* A call of uk_free that has not returned: its block is still allocated,  *)
(* though the monitor has given it to the allocator already; done says     *)
(* that the allocator has returned.                                        *)
FreeOK(a, blocks, owners, done) ==
  a.arg # NULL => /\ a.func \in frees
                  /\ owners[a.arg] = UKALLOC
                  /\ blocks[a.arg] = Free <=> done

FreesOK ==
  \A l \in 1..layer : FreeOK(act[l], block, heap_cfg, l = layer /\ phase = "returned")

(* No block is being freed twice. *)
DistinctArgs ==
  \A l, k \in 1..layer : act[l].arg # NULL /\ act[l].arg = act[k].arg => l = k

(* Only the call that is about to return has a result, a block that it has *)
(* allocated for its caller and that nobody frees.                         *)
MallocsOK ==
  \A l \in 1..layer :
    act[l].ret # NULL =>
      /\ l = layer /\ phase = "returned"
      /\ act[l].func \in mallocs
      /\ block[act[l].ret] = act[l].prev
      /\ \A k \in 1..layer : act[k].arg # act[l].ret

(* Who the monitor should think owns a block of cubicle c: friends of the  *)
(* allocator get it without a wrap.                                        *)
HeapOwner(c) == IF friends(c, UKALLOC) THEN UKALLOC ELSE c

PageOK(p) ==
  IF block[p] = Free
    THEN heap_cfg[p] = UKALLOC
    ELSE /\ block[p] # UKALLOC
         /\ InTransfer(p) \/ heap_cfg[p] = HeapOwner(block[p])

HeapInv == FreesOK /\ DistinctArgs /\ MallocsOK /\ \A p \in HeapPages : PageOK(p)

(* What the proofs use of each active call.                                *)
LEMMA ActFacts ==
  ASSUME TypeOK, CallStack
  PROVE  /\ layer \in Nat
         /\ \A l \in 1..layer : /\ act[l] \in Activations
                                 /\ act[l].arg \in HeapPages \cup {NULL}
                                 /\ act[l].ret \in HeapPages \cup {NULL}
                                 /\ act[l].func \in Funcs
         /\ NULL \notin HeapPages
         /\ block \in [HeapPages -> Cubicles \cup {Free}]
         /\ heap_cfg \in [HeapPages -> Cubicles]
<1>1. layer \in Nat
  BY LayerFacts
<1>2. \A l \in 1..layer : act[l] \in Activations
  BY DEF CallStack
<1>3. NULL \notin HeapPages
  BY LayoutAssumption DEF HeapPages
<1> QED
  BY <1>1, <1>2, <1>3 DEF Activations, TypeOK

(* Steps that touch neither the calls nor the heap.                        *)
LEMMA HeapUnchanged ==
  ASSUME HeapInv, UNCHANGED <<layer, act, phase, block, heap_cfg>>
  PROVE  HeapInv'
BY Zenon DEF HeapInv, FreesOK, FreeOK, DistinctArgs, MallocsOK, PageOK, InTransfer, BeingFreed

(* The hook calls: uk_free's block becomes the allocator's.                *)
LEMMA HeapCall ==
  ASSUME TypeOK, CallStack, HeapInv,
         NEW f \in Funcs, NEW arg \in HeapPages \cup {NULL}, HookedCall(f, arg)
  PROVE  HeapInv'
<1> USE ActFacts
<1>1. /\ phase = "body" /\ phase' = "calling" /\ layer' = layer + 1 /\ layer + 1 \in Layers
      /\ act' = [act EXCEPT ![layer + 1] = Activation(f, prev_module[layer], arg, NULL)]
      /\ block' = block
      /\ arg \in Args(f)
  <2>1. layer < MaxLayer /\ phase = "body" /\ arg \in Args(f)
    BY Zenon DEF HookedCall, CanCall, Running
  <2>2. layer + 1 \in Layers
    BY <2>1, LayerFacts
  <2> QED
    BY <2>1, <2>2, Zenon DEF HookedCall
<1>2. heap_cfg' = IF arg # NULL THEN [heap_cfg EXCEPT ![arg] = module[f]] ELSE heap_cfg
  <2>1. pre_wrap(f, arg, OnStack(pageKey, layer, pkru))
    BY Zenon DEF HookedCall
  <2> QED
    BY <2>1 DEF heap_attach, no_attach
<1>3. arg # NULL => /\ f \in frees /\ module[f] = UKALLOC /\ block[arg] \in Cubicles
                    /\ block[arg] # Free
                    /\ arg \in HeapPages
                    /\ \A l \in 1..layer : act[l].arg # arg
                    /\ heap_cfg'[arg] = UKALLOC
  <2> SUFFICES ASSUME arg # NULL
               PROVE  /\ f \in frees /\ module[f] = UKALLOC /\ block[arg] \in Cubicles
                      /\ block[arg] # Free
                      /\ arg \in HeapPages
                      /\ \A l \in 1..layer : act[l].arg # arg
                      /\ heap_cfg'[arg] = UKALLOC
    OBVIOUS
  <2>1. /\ arg \in HeapPages /\ f \in frees /\ block[arg] = prev_module[layer]
        /\ \A l \in 1..layer : act[l].arg # arg
    BY <1>1, Zenon DEF Args, BeingFreed
  <2>2. prev_module[layer] \in Cubicles
    BY LayerFacts
  <2>3. module[f] = UKALLOC /\ Free \notin Cubicles
    BY <2>1, ModuleAssumption
  <2>4. heap_cfg'[arg] = UKALLOC
    BY <1>2, <2>1, <2>3
  <2> QED
    BY ONLY <2>1, <2>2, <2>3, <2>4
<1>4. /\ \A l \in 1..layer : act'[l] = act[l]
      /\ act'[layer + 1].arg = arg /\ act'[layer + 1].ret = NULL
      /\ act'[layer + 1].func = f
  BY <1>1 DEF TypeOK, Activation
<1>5. \A p \in HeapPages : heap_cfg'[p] = IF p = arg THEN UKALLOC ELSE heap_cfg[p]
  BY <1>2, <1>3
<1>6. FreesOK'
  <2> SUFFICES ASSUME NEW l \in 1..(layer + 1)
               PROVE  FreeOK(act'[l], block, heap_cfg', FALSE)
    BY <1>1 DEF FreesOK, FreeOK
  <2>1. CASE l = layer + 1
    BY <2>1, <1>3, <1>4 DEF FreeOK
  <2>2. CASE l \in 1..layer
    <3>1. FreeOK(act[l], block, heap_cfg, FALSE)
      BY <2>2, <1>1 DEF HeapInv, FreesOK, FreeOK
    <3> QED
      BY <2>2, <3>1, <1>4, <1>5 DEF FreeOK
  <2>3. l = layer + 1 \/ l \in 1..layer
    OBVIOUS
  <2> QED
    BY ONLY <2>1, <2>2, <2>3, Zenon
<1>7. DistinctArgs'
  <2> SUFFICES ASSUME NEW l \in 1..(layer + 1), NEW k \in 1..(layer + 1),
                      act'[l].arg # NULL, act'[l].arg = act'[k].arg
               PROVE  l = k
    BY <1>1 DEF DistinctArgs
  <2>1. CASE l \in 1..layer /\ k \in 1..layer
    BY <2>1, <1>4 DEF HeapInv, DistinctArgs
  <2>2. CASE l = layer + 1 \/ k = layer + 1
    BY <2>2, <1>3, <1>4
  <2> QED
    BY <2>1, <2>2
<1>8. MallocsOK'
  <2>1. \A l \in 1..layer : act[l].ret = NULL
    BY <1>1 DEF HeapInv, MallocsOK
  <2>2. \A l \in 1..(layer + 1) : act'[l].ret = NULL
    BY <2>1, <1>4
  <2> QED
    BY <2>2, <1>1 DEF MallocsOK
<1>9. ASSUME NEW p \in HeapPages PROVE PageOK(p)'
  <2>1. PageOK(p)
    BY DEF HeapInv
  <2>2. p = arg => BeingFreed(p)'
    BY <1>1, <1>4 DEF BeingFreed
  <2>3. InTransfer(p) => InTransfer(p)'
    BY <1>1, <1>4 DEF InTransfer, BeingFreed
  <2> QED
    BY <2>1, <2>2, <2>3, <1>1, <1>3, <1>5 DEF PageOK, InTransfer
<1> QED
  BY <1>6, <1>7, <1>8, <1>9 DEF HeapInv

(* The entry point starts the function: nothing changes but the phase.     *)
LEMMA HeapStart ==
  ASSUME TypeOK, CallStack, HeapInv, EntryStart
  PROVE  HeapInv'
<1> USE ActFacts
<1>1. /\ phase = "calling" /\ phase' = "body" /\ layer' = layer
      /\ layer \in 1..layer
      /\ act' = [act EXCEPT ![layer] =
                   Activation(act[layer].func, prev_module[layer - 1], act[layer].arg, NULL)]
      /\ block' = block /\ heap_cfg' = heap_cfg
  BY DEF EntryStart, CallStack
<1>2. \A l \in 1..layer : act[l].ret = NULL
  BY <1>1 DEF HeapInv, MallocsOK
<1>3. \A l \in 1..layer : /\ act'[l].arg = act[l].arg /\ act'[l].ret = NULL
                          /\ act'[l].func = act[l].func
  BY <1>1, <1>2, LayerFacts DEF Activation, TypeOK
<1>4. FreesOK'
  <2> SUFFICES ASSUME NEW l \in 1..layer PROVE FreeOK(act'[l], block, heap_cfg, FALSE)
    BY <1>1 DEF FreesOK, FreeOK
  <2>1. FreeOK(act[l], block, heap_cfg, FALSE)
    BY <1>1 DEF HeapInv, FreesOK, FreeOK
  <2> QED
    BY <2>1, <1>3 DEF FreeOK
<1>5. DistinctArgs' /\ MallocsOK'
  BY <1>1, <1>3 DEF HeapInv, DistinctArgs, MallocsOK
<1>6. ASSUME NEW p \in HeapPages PROVE PageOK(p)'
  <2>1. InTransfer(p) => InTransfer(p)'
    BY <1>1, <1>3 DEF InTransfer, BeingFreed
  <2>2. PageOK(p)
    BY DEF HeapInv
  <2> QED
    BY <2>1, <2>2, <1>1 DEF PageOK
<1> QED
  BY <1>4, <1>5, <1>6 DEF HeapInv

(* The function returns: uk_malloc has allocated its result for the caller, *)
(* uk_free has freed its argument.                                         *)
LEMMA HeapReturn ==
  ASSUME TypeOK, CallStack, HeapInv, NEW ret \in HeapPages \cup {NULL}, EntryReturn(ret)
  PROVE  HeapInv'
<1> USE ActFacts
<1> DEFINE top == act[layer]
<1>1. /\ phase = "body" /\ phase' = "returned" /\ layer' = layer /\ layer > 0
      /\ act' = [act EXCEPT ![layer] = Activation(top.func, top.prev, top.arg, ret)]
      /\ heap_cfg' = heap_cfg
      /\ ret \in Results(top.func)
      /\ Allocated(top.func, top.arg, ret, top.prev)
  BY Zenon DEF EntryReturn, Running
<1>2. layer \in 1..layer /\ layer \in Layers
  BY <1>1, LayerFacts
<1>3. /\ top.func \in Funcs /\ top.arg \in HeapPages \cup {NULL}
      /\ top.prev \in Cubicles
      /\ top.func \in mallocs => ~friends(top.prev, UKALLOC)
  <2>1. top \in Activations /\ module[top.func] = prev_module[layer]
        /\ top.prev = prev_module[layer - 1] /\ ~friends(prev_module[layer - 1], prev_module[layer])
    BY <1>2, Zenon DEF CallStack
  <2>2. top.func \in mallocs => module[top.func] = UKALLOC
    BY ModuleAssumption
  <2> QED
    BY <2>1, <2>2 DEF Activations, friends
<1>4. ret # NULL => ret \in HeapPages /\ top.func \in mallocs /\ block[ret] = Free
  BY <1>1, Zenon DEF Results
<1>5. \A l \in 1..layer : act[l].arg # NULL => /\ act[l].func \in frees
                                              /\ heap_cfg[act[l].arg] = UKALLOC
                                              /\ block[act[l].arg] # Free
  BY <1>1 DEF HeapInv, FreesOK, FreeOK
<1>6. \A l \in 1..layer : act[l].arg # NULL => act[l].arg # ret
  BY <1>4, <1>5
<1>7. mallocs \cap frees = {} /\ Free \notin Cubicles
  BY ModuleAssumption
<1>8. \A p \in HeapPages : block'[p] = IF top.func \in mallocs /\ p = ret THEN top.prev
                                      ELSE IF top.func \in frees /\ p = top.arg THEN Free
                                      ELSE block[p]
  BY <1>1 DEF Allocated
<1>9. /\ \A l \in 1..layer : act'[l].arg = act[l].arg /\ act'[l].func = act[l].func
      /\ \A l \in 1..layer : l # layer => act'[l] = act[l]
      /\ act'[layer].ret = ret /\ act'[layer].prev = top.prev
  BY <1>1, <1>2 DEF Activation, TypeOK
<1>10. \A l \in 1..layer : act[l].ret = NULL
  BY <1>1 DEF HeapInv, MallocsOK
<1>11. FreesOK'
  <2> SUFFICES ASSUME NEW l \in 1..layer, act[l].arg # NULL
               PROVE  /\ act[l].func \in frees /\ heap_cfg[act[l].arg] = UKALLOC
                      /\ block'[act[l].arg] = Free <=> l = layer
    BY <1>1, <1>9 DEF FreesOK, FreeOK
  <2>1. act[l].arg \in HeapPages /\ act[l].arg # ret
    BY <1>6
  <2>2. CASE l = layer
    BY <2>1, <2>2, <1>5, <1>8
  <2>3. CASE l # layer
    <3>1. act[l].arg # top.arg
      BY <2>3, <1>2 DEF HeapInv, DistinctArgs
    <3> QED
      BY <2>1, <2>3, <3>1, <1>5, <1>8
  <2> QED
    BY <2>2, <2>3
<1>12. DistinctArgs'
  BY <1>1, <1>9 DEF HeapInv, DistinctArgs
<1>13. MallocsOK'
  <2> SUFFICES ASSUME NEW l \in 1..layer, act'[l].ret # NULL
               PROVE  /\ l = layer
                      /\ act'[l].func \in mallocs
                      /\ block'[act'[l].ret] = act'[l].prev
                      /\ \A k \in 1..layer : act'[k].arg # act'[l].ret
    BY <1>1 DEF MallocsOK
  <2>1. l = layer /\ ret # NULL
    BY <1>9, <1>10
  <2> QED
    BY <2>1, <1>4, <1>6, <1>8, <1>9
<1>14. ASSUME NEW p \in HeapPages PROVE PageOK(p)'
  <2>1. PageOK(p)
    BY DEF HeapInv
  <2>2. CASE p = ret
    <3>1. block'[p] = top.prev /\ ret # NULL /\ top.func \in mallocs
      BY <2>2, <1>4, <1>8
    <3>2. InTransfer(p)'
      BY <2>2, <1>1, <1>9 DEF InTransfer
    <3> QED
      BY <3>1, <3>2, <1>3, <1>7 DEF PageOK, friends
  <2>3. CASE p # ret /\ top.func \in frees /\ p = top.arg
    <3>1. block'[p] = Free /\ heap_cfg[p] = UKALLOC
      BY <2>3, <1>2, <1>5, <1>8
    <3> QED
      BY <3>1, <1>1 DEF PageOK
  <2>4. CASE p # ret /\ ~(top.func \in frees /\ p = top.arg)
    <3>1. block'[p] = block[p]
      BY <2>4, <1>8
    <3>2. InTransfer(p) => InTransfer(p)'
      BY <1>1, <1>9 DEF InTransfer, BeingFreed
    <3> QED
      BY <2>1, <3>1, <3>2, <1>1 DEF PageOK
  <2> QED
    BY <2>2, <2>3, <2>4
<1> QED
  BY <1>11, <1>12, <1>13, <1>14 DEF HeapInv

(* The hook returns: uk_malloc's result becomes the caller's.              *)
LEMMA HeapHookReturn ==
  ASSUME TypeOK, CallStack, HeapInv, HookReturn
  PROVE  HeapInv'
<1> USE ActFacts
<1> DEFINE top == act[layer]
<1>1. /\ phase = "returned" /\ phase' = "body" /\ layer' = layer - 1
      /\ act' = [act EXCEPT ![layer] = NULL]
      /\ block' = block
      /\ post_wrap(top.ret, OnStack(pageKey, layer - 1, pkru'))
  BY Zenon DEF HookReturn
<1>2. layer \in 1..layer /\ layer \in Layers
  BY <1>1, LayerFacts DEF CallStack
<1>3. /\ top.prev = prev_module[layer - 1] /\ top.prev \in Cubicles
      /\ top.ret \in HeapPages \cup {NULL}
      /\ top.func \in mallocs => ~friends(top.prev, UKALLOC)
  <2>1. top \in Activations /\ module[top.func] = prev_module[layer]
        /\ top.prev = prev_module[layer - 1] /\ ~friends(prev_module[layer - 1], prev_module[layer])
    BY <1>2, Zenon DEF CallStack
  <2>2. top.func \in mallocs => module[top.func] = UKALLOC
    BY ModuleAssumption
  <2> QED
    BY <2>1, <2>2 DEF Activations
<1>4. heap_cfg' = IF top.ret # NULL THEN [heap_cfg EXCEPT ![top.ret] = top.prev] ELSE heap_cfg
  BY <1>1, <1>3 DEF heap_attach, no_attach
<1>5. top.ret # NULL => /\ top.func \in mallocs /\ block[top.ret] = top.prev
                        /\ \A l \in 1..layer : act[l].arg # top.ret
  BY <1>2 DEF HeapInv, MallocsOK
<1>6. \A p \in HeapPages : heap_cfg'[p] = IF p = top.ret THEN top.prev ELSE heap_cfg[p]
  BY <1>3, <1>4
<1>7. \A l \in 1..(layer - 1) : l \in 1..layer /\ l # layer /\ act'[l] = act[l]
  BY <1>1, <1>2 DEF TypeOK
<1>8. FreesOK'
  <2> SUFFICES ASSUME NEW l \in 1..(layer - 1)
               PROVE  FreeOK(act[l], block, heap_cfg', FALSE)
    BY <1>1, <1>7 DEF FreesOK, FreeOK
  <2>1. FreeOK(act[l], block, heap_cfg, FALSE)
    BY <1>7 DEF HeapInv, FreesOK, FreeOK
  <2>2. act[l].arg # NULL => heap_cfg'[act[l].arg] = heap_cfg[act[l].arg]
    BY <1>5, <1>6, <1>7
  <2> QED
    BY <2>1, <2>2 DEF FreeOK
<1>9. DistinctArgs'
  BY <1>1, <1>7 DEF HeapInv, DistinctArgs
<1>10. MallocsOK'
  <2>1. \A l \in 1..(layer - 1) : act'[l].ret = NULL
    BY <1>7 DEF HeapInv, MallocsOK
  <2> QED
    BY <2>1, <1>1 DEF MallocsOK
<1>11. ASSUME NEW p \in HeapPages PROVE PageOK(p)'
  <2>1. PageOK(p)
    BY DEF HeapInv
  <2>2. CASE p = top.ret
    BY <2>2, <1>1, <1>3, <1>5, <1>6, ModuleAssumption DEF PageOK, HeapOwner, friends
  <2>3. CASE p # top.ret
    <3>1. heap_cfg'[p] = heap_cfg[p]
      BY <2>3, <1>6
    <3>2. block[p] # Free => top.arg # p
      BY <1>1, <1>2 DEF HeapInv, FreesOK, FreeOK
    <3>3. block[p] # Free /\ InTransfer(p) => InTransfer(p)'
      <4> SUFFICES ASSUME block[p] # Free, InTransfer(p) PROVE BeingFreed(p)'
        BY Zenon DEF InTransfer
      <4>1. PICK l \in 1..layer : act[l].arg = p
        BY <2>3 DEF InTransfer, BeingFreed
      <4>2. l \in 1..(layer - 1)
        BY <4>1, <3>2
      <4> QED
        BY <4>1, <4>2, <1>1, <1>7 DEF BeingFreed
    <3> QED
      BY <2>1, <3>1, <3>3, <1>1 DEF PageOK
  <2> QED
    BY <2>2, <2>3
<1> QED
  BY <1>8, <1>9, <1>10, <1>11 DEF HeapInv

(* A friend of the allocator allocates or frees without a hook.            *)
LEMMA HeapDirect ==
  ASSUME TypeOK, CallStack, HeapInv, NEW q \in HeapPages, DirectMalloc(q) \/ DirectFree(q)
  PROVE  HeapInv'
<1> USE ActFacts
<1> DEFINE m == prev_module[layer]
<1>1. /\ phase = "body" /\ UNCHANGED <<phase, layer, act, heap_cfg>>
      /\ m # UKALLOC /\ friends(m, UKALLOC)
  BY Zenon DEF DirectMalloc, DirectFree, Running, callVars
<1>2. m \in Cubicles /\ Free \notin Cubicles
  BY LayerFacts, ModuleAssumption
<1>3. /\ block[q] = Free => block' = [block EXCEPT ![q] = m]
      /\ block[q] # Free => /\ block[q] = m /\ block' = [block EXCEPT ![q] = Free]
                             /\ ~BeingFreed(q)
  BY <1>2, Zenon DEF DirectMalloc, DirectFree
<1>4. \A l \in 1..layer : act[l].arg # NULL => block[act[l].arg] # Free /\ act[l].arg # q
  BY <1>1, <1>3 DEF HeapInv, FreesOK, FreeOK, BeingFreed
<1>5. FreesOK'
  <2> SUFFICES ASSUME NEW l \in 1..layer, act[l].arg # NULL
               PROVE  /\ act[l].func \in frees /\ heap_cfg[act[l].arg] = UKALLOC
                      /\ block'[act[l].arg] # Free
    BY <1>1 DEF FreesOK, FreeOK
  <2> QED
    BY <1>3, <1>4 DEF HeapInv, FreesOK, FreeOK
<1>6. DistinctArgs' /\ MallocsOK'
  BY <1>1 DEF HeapInv, DistinctArgs, MallocsOK
<1>7. ASSUME NEW p \in HeapPages PROVE PageOK(p)'
  <2>1. PageOK(p) /\ InTransfer(p)' = InTransfer(p)
    BY <1>1, Zenon DEF HeapInv, InTransfer, BeingFreed
  <2>2. CASE p # q
    <3>1. block'[p] = block[p]
      BY <2>2, <1>3
    <3> QED
      BY <2>1, <3>1, <1>1 DEF PageOK
  <2>3. CASE p = q /\ block[q] = Free
    BY <2>1, <2>3, <1>1, <1>2, <1>3 DEF PageOK, HeapOwner
  <2>4. CASE p = q /\ block[q] # Free
    <3>1. ~InTransfer(p)
      BY <2>4, <1>1, <1>3 DEF InTransfer
    <3>2. heap_cfg[p] = UKALLOC
      BY <2>1, <2>4, <3>1, <1>1, <1>3 DEF PageOK, HeapOwner
    <3> QED
      BY <2>4, <3>2, <1>1, <1>3 DEF PageOK
  <2> QED
    BY <2>2, <2>3, <2>4
<1> QED
  BY <1>5, <1>6, <1>7 DEF HeapInv

(* Every action preserves the bookkeeping of the heap.                     *)
LEMMA HeapStep ==
  ASSUME TypeOK, CallStack, HeapInv, [Next]_vars
  PROVE  HeapInv'
<1>1. ASSUME NEW f \in Funcs, NEW arg \in HeapPages \cup {NULL}, HookedCall(f, arg)
      PROVE  HeapInv'
  BY <1>1, HeapCall
<1>2. CASE EntryStart
  BY <1>2, HeapStart
<1>3. ASSUME NEW ret \in HeapPages \cup {NULL}, EntryReturn(ret) PROVE HeapInv'
  BY <1>3, HeapReturn
<1>4. CASE HookReturn
  BY <1>4, HeapHookReturn
<1>5. ASSUME NEW p \in HeapPages, DirectMalloc(p) \/ DirectFree(p) PROVE HeapInv'
  BY <1>5, HeapDirect
<1>6. CASE UNCHANGED <<layer, act, phase, block, heap_cfg>>
  BY <1>6, HeapUnchanged
<1> QED
  BY <1>1, <1>2, <1>3, <1>4, <1>5, <1>6, Zenon
  DEF Next, HookSpins, WildReturn, DirectCall, DirectReturn, FaultMap, FaultSpin,
      AddIndexed, AddHeap, RemoveHeap, callVars, memVars, vars

(* All pages are the allocator's and free when the system starts.          *)
LEMMA HeapInit == Init => HeapInv
<1> SUFFICES ASSUME Init PROVE HeapInv
  OBVIOUS
<1>1. layer = 0 /\ \A p \in HeapPages : block[p] = Free /\ heap_cfg[p] = UKALLOC
  BY DEF Init
<1>2. 1..layer = {}
  BY <1>1
<1> QED
  BY <1>1, <1>2 DEF HeapInv, FreesOK, DistinctArgs, MallocsOK, PageOK

(* HeapInv is inductive together with the types and the call stack.        *)
LEMMA HeapInvariant == Spec => []HeapInv
<1>1. HeapInv /\ TypeOK /\ CallStack /\ [Next]_vars => HeapInv'
  BY HeapStep
<1> QED
  BY <1>1, HeapInit, TypeCorrect, CallStackWellFormed, PTL DEF Spec

(* heap_cfg follows the allocator in every build, with or without friends: *)
(* a free page is UKALLOC's and an allocated one is under the key of its   *)
(* user, except inside the call of uk_malloc or uk_free that moves it.     *)
THEOREM HeapOwnershipHolds == Spec => []HeapOwnership
<1>1. HeapInv /\ TypeOK => HeapOwnership
  <2> SUFFICES ASSUME HeapInv, TypeOK, NEW p \in HeapPages
               PROVE  IF block[p] = Free
                        THEN heap_cfg[p] = UKALLOC
                        ELSE InTransfer(p) \/ pkey[heap_cfg[p]] = pkey[block[p]]
    BY DEF HeapOwnership
  <2>1. PageOK(p) /\ (block[p] # Free => block[p] \in Cubicles)
    BY DEF HeapInv, TypeOK
  <2>2. \A c \in Cubicles : pkey[HeapOwner(c)] = pkey[c]
    BY KeyAssumption, ModuleAssumption DEF HeapOwner, friends
  <2> QED
    BY <2>1, <2>2 DEF PageOK
<1> QED
  BY <1>1, HeapInvariant, TypeCorrect, PTL

(* Where no cubicle is a friend of the allocator (the build without merged *)
(* keys) every block in use is under a key: the wrap of uk_malloc tags it  *)
(* and no fault, window or later call puts it back under key 0.            *)
THEOREM BlockProtectedHolds ==
  (\A c \in Cubicles : friends(c, UKALLOC) => c = UKALLOC) => (Spec => []BlockProtected)
<1> SUFFICES ASSUME \A c \in Cubicles : friends(c, UKALLOC) => c = UKALLOC
             PROVE  Spec => []BlockProtected
  OBVIOUS
<1>1. HeapInv /\ TypeOK /\ SpatialIsolation => BlockProtected
  <2> SUFFICES ASSUME HeapInv, TypeOK, SpatialIsolation, NEW p \in HeapPages, block[p] # Free,
                      ~InTransfer(p)
               PROVE  pageKey[p] # 0
    BY DEF BlockProtected
  <2>1. block[p] \in Cubicles /\ heap_cfg[p] # UKALLOC
    BY DEF HeapInv, PageOK, HeapOwner, TypeOK
  <2>2. kind[p] = "heap" /\ p \in Pages /\ heap_cfg[p] \in Cubicles
    BY DEF HeapPages, TypeOK
  <2>3. PICK c \in {Owner(p)} \cup opened[p] \cup Exempt(p) : pageKey[p] = pkey[c]
    BY <2>1, <2>2 DEF SpatialIsolation
  <2>4. c \in Cubicles
    BY <2>2, <2>3 DEF Owner, Exempt, TypeOK
  <2> QED
    BY <2>3, <2>4, KeyAssumption
<1> QED
  BY <1>1, HeapInvariant, TypeCorrect, SpatialIsolationHolds, PTL
=============================================================================
