------------------------------- MODULE MCVfs -------------------------------
(* Instances of Vfs: two entries of the root, one of which may be a         *)
(* directory with an entry of its own.                                      *)
EXTENDS Vfs, TLC

MCPaths == {<<"a">>, <<"d">>, <<"d", "a">>}

(* The addresses of buffers and of open files are interchangeable; those of *)
(* the others are not, as the model takes the least that is free.           *)
Addresses == Permutations(Bufs) \cup Permutations(Files)
=============================================================================
