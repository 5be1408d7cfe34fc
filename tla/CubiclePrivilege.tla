------------------------- MODULE CubiclePrivilege -------------------------
(***************************************************************************)
(* The keys that PKRU enables: cmp_lock and cmp_unlock in the hooks keep   *)
(* exactly the key of the running cubicle, by the call stack that          *)
(* CubicleProofs establishes.                                              *)
(***************************************************************************)
EXTENDS CubicleProofs

USE DEF Layers, Kinds, cmp_lock, cmp_unlock, coro_new, pre_wrap, post_wrap

(* What PKRU enables, by the layer: LeastPrivilege without get_state.      *)
KeysByLayer ==
  IF phase = "body"
    THEN pkru = Unlocked \cup {pkey[prev_module[layer]]}
    ELSE pkru = Unlocked \cup {pkey[prev_module[layer - 1]], pkey[prev_module[layer]]}

(* KeysByLayer is LeastPrivilege said of prev_module instead of the code.  *)
LEMMA PrivilegeByLayer ==
  TypeOK /\ CallStack => (LeastPrivilege <=> KeysByLayer)
BY AccessorKey DEF LeastPrivilege, KeysByLayer

(* The locks and unlocks of the trampoline leave exactly the keys of the   *)
(* cubicle it enters or returns to: this needs the two cubicles of a layer *)
(* not to be friends, since friends share a key and the lock of one would  *)
(* disable the other.                                                      *)
LEMMA PrivilegeStep ==
  ASSUME TypeOK, CallStack, KeysByLayer, [Next]_vars
  PROVE  KeysByLayer'
<1>a. layer \in Nat /\ layer \in Layers /\ MaxLayer \in Nat
  BY LayerFacts
<1>b. \A l \in 1..layer : /\ module[act[l].func] = prev_module[l]
                          /\ act[l].prev = prev_module[l - 1]
                          /\ pkey[prev_module[l - 1]] # pkey[prev_module[l]]
                          /\ pkey[prev_module[l - 1]] \notin Unlocked
                          /\ pkey[prev_module[l]] \notin Unlocked
  <2> SUFFICES ASSUME NEW l \in 1..layer
               PROVE  /\ module[act[l].func] = prev_module[l]
                      /\ act[l].prev = prev_module[l - 1]
                      /\ pkey[prev_module[l - 1]] # pkey[prev_module[l]]
                      /\ pkey[prev_module[l - 1]] \notin Unlocked
                      /\ pkey[prev_module[l]] \notin Unlocked
    OBVIOUS
  <2>1. prev_module[l - 1] \in Cubicles /\ prev_module[l] \in Cubicles
    BY <1>a, LayerFacts
  <2> QED
    BY <2>1, KeyFacts DEF CallStack
<1>1. ASSUME NEW f \in Funcs, NEW arg \in HeapPages \cup {NULL}, HookedCall(f, arg)
      PROVE  KeysByLayer'
  <2>1. /\ phase = "body" /\ phase' = "calling" /\ layer' = layer + 1
        /\ layer + 1 \in Layers
        /\ prev_module' = [prev_module EXCEPT ![layer + 1] = module[f]]
        /\ pkru' = pkru \cup {pkey[module[f]]}
    BY <1>1, <1>a DEF HookedCall, CanCall, Running
  <2>2. prev_module'[layer'] = module[f] /\ prev_module'[layer' - 1] = prev_module[layer]
    BY <2>1, <1>a DEF TypeOK
  <2> QED
    BY <2>1, <2>2 DEF KeysByLayer
<1>2. CASE EntryStart
  <2>1. /\ phase # "body" /\ phase' = "body" /\ layer' = layer /\ layer # 0
        /\ prev_module' = prev_module
        /\ pkru' = pkru \ {pkey[prev_module[layer - 1]]}
    BY <1>2 DEF EntryStart, CallStack
  <2> QED
    BY <2>1, <1>a, <1>b DEF KeysByLayer
<1>3. ASSUME NEW ret \in HeapPages \cup {NULL}, EntryReturn(ret) PROVE KeysByLayer'
  <2>1. /\ phase = "body" /\ phase' = "returned" /\ layer' = layer /\ layer # 0
        /\ prev_module' = prev_module
        /\ pkru' = pkru \cup {pkey[act[layer].prev]}
    <3>1. layer > 0
      BY <1>3, Zenon DEF EntryReturn
    <3>2. layer # 0
      BY ONLY <3>1, <1>a
    <3> QED
      BY <1>3, <3>2, Zenon DEF EntryReturn, Running
  <2> QED
    BY <2>1, <1>a, <1>b DEF KeysByLayer
<1>4. CASE HookReturn
  <2>1. /\ phase # "body" /\ phase' = "body" /\ layer' = layer - 1 /\ layer # 0
        /\ prev_module' = prev_module
        /\ pkru' = pkru \ {pkey[module[act[layer].func]]}
    BY <1>4 DEF HookReturn, CallStack
  <2> QED
    BY <2>1, <1>a, <1>b DEF KeysByLayer
<1>5. ASSUME UNCHANGED <<pkru, layer, prev_module, phase>> PROVE KeysByLayer'
  BY <1>5 DEF KeysByLayer
<1> QED
  BY <1>1, <1>2, <1>3, <1>4, <1>5
  DEF Next, HookSpins, WildReturn, DirectCall, DirectReturn, DirectMalloc, DirectFree,
      FaultMap, FaultSpin, AddIndexed, AddHeap, RemoveHeap, callVars, vars

(* Cubicle code never runs with a key enabled other than its own and those *)
(* nobody locks, however calls, returns, library calls and faults interleave.         *)
THEOREM LeastPrivilegeHolds == Spec => []LeastPrivilege
<1>1. KeysByLayer /\ TypeOK /\ CallStack /\ [Next]_vars => KeysByLayer'
  BY PrivilegeStep
<1>2. Init => KeysByLayer
  BY LayoutAssumption DEF Init, KeysByLayer
<1> QED
  BY <1>1, <1>2, TypeCorrect, CallStackWellFormed, PrivilegeByLayer, PTL DEF Spec
=============================================================================
