----------------------------- MODULE MCCubicle -----------------------------
(* Instances of Cubicle: the platform, an application, a file system and    *)
(* the allocator, as in the sqlite build.                                   *)
EXTENDS Cubicle, TLC

CONSTANTS plat, app, vfs, alloc, libc, fmain, fopen, fmalloc, ffree

MCmodule == (fmain :> app) @@ (fopen :> vfs) @@ (fmalloc :> alloc) @@ (ffree :> alloc)
MCsp == (fmain :> 0) @@ (fopen :> 1) @@ (fmalloc :> 2) @@ (ffree :> 2)

(* loader: no friends, one key for each cubicle *)
MCpkey == (plat :> 1) @@ (app :> 2) @@ (vfs :> 3) @@ (alloc :> 4)

(* loader4: the allocator shares the key of the file system *)
MCpkeyFriends == (plat :> 1) @@ (app :> 2) @@ (vfs :> 3) @@ (alloc :> 3)

(* Pages 0-2 are stacks, 3 the globals of the file system, 4 and 5 heap. *)
MCkind == [p \in Pages |-> CASE p \in 0..2 -> "stack" [] p = 3 -> "global"
                             [] OTHER -> "heap"]
MChome == [p \in Pages |-> CASE p = 0 -> app [] p \in {1, 3} -> vfs
                             [] OTHER -> alloc]

(* One object on each table of lwip (its stack, its globals, the heap), the  *)
(* last off the start of its page; two heap objects.                         *)
MixedObjects == {[begin |-> 2, size |-> 1], [begin |-> 6, size |-> 1],
                 [begin |-> 9, size |-> 1]}
HeapObjects == {[begin |-> 9, size |-> 1], [begin |-> 10, size |-> 1]}

(* libsqlite and vfscore; libnginx and lwip, which takes the place of vfs *)
SqliteIpc == [c \in HasTab |-> IF c = app THEN "silent" ELSE "counted"]
NginxIpc == [c \in HasTab |-> IF c = app THEN "silent" ELSE "reuse"]

MCMasks == {{app, vfs}, {vfs, alloc}}
AppMask == {{app, vfs}}
=============================================================================
