----------------------------- MODULE Allocator -----------------------------
(***************************************************************************)
(* What every allocator of the system promises its clients, whatever the   *)
(* way it keeps its memory: the blocks that clients hold lie in the memory *)
(* the allocator manages and never overlap.  KHeap (libukalloc over the    *)
(* page allocator) and DlMalloc (the private heap of a library) implement  *)
(* it.  An allocation that fails changes nothing.                          *)
(***************************************************************************)
EXTENDS Integers

CONSTANTS Low, High     \* the managed memory is the addresses Low .. High - 1

VARIABLE live           \* the blocks [ptr, size] that clients hold

Overlap(b, c) == b.ptr < c.ptr + c.size /\ c.ptr < b.ptr + b.size

(* b can be handed out while the blocks of others are held. *)
Placed(b, others) ==
  /\ Low <= b.ptr /\ b.ptr + b.size <= High
  /\ \A c \in others : ~ Overlap(b, c) /\ b.ptr # c.ptr

Init == live = {}

Malloc == \E b \in live' : b \notin live /\ Placed(b, live) /\ live' = live \cup {b}

Free == \E b \in live : live' = live \ {b}

(* The block is resized, in place or by moving it. *)
Realloc ==
  \E b \in live, c \in live' :
    Placed(c, live \ {b}) /\ live' = (live \ {b}) \cup {c}

Next == Malloc \/ Free \/ Realloc

Spec == Init /\ [][Next]_live

=============================================================================
