--------------------------- MODULE MCKernelHeap ----------------------------
(* Instances of KernelHeap for TLC.                                        *)
EXTENDS KernelHeap, TLC

(* A block that fills its page to the last byte, and one byte more. *)
MCSizes == {0, 4080, 4081}
MCAligns == {8, 64, 4096}

(* The cubicles are interchangeable: nothing compares or orders them. *)
CubicleSymmetry == Permutations(Cubicles)

=============================================================================
