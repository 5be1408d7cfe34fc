-------------------------------- MODULE Vfs --------------------------------
(***************************************************************************)
(* The VFSCORE cubicle (lib/vfscore) over the RAMFS cubicle: descriptors,  *)
(* open files, the cache of dentries and vnodes, and the system calls that *)
(* count references to them.  One system call is one action: nothing       *)
(* preempts the calls, and the locks are compiled out (CONFIG_LIBUKSCHED1).*)
(*                                                                         *)
(* Every vnode, dentry and file is an address; one that is not in use has  *)
(* a count of 0.  The calls that allocate them return an error when none   *)
(* is left.  A path is a sequence of names, the root the empty one.        *)
(* Symbolic links, permissions and the windows of VFSCORE are left out;    *)
(* the windows are in Cubicle.                                             *)
(***************************************************************************)
EXTENDS RamFs, FiniteSets

CONSTANTS
  Dentries, Vnodes, Files,   \* addresses; dentry 1 and vnode 1 are the root's
  FDs,                       \* descriptors above the standard ones
  Paths,                     \* the paths the application uses
  Ends,                      \* ends of reads and writes, and lengths for ftruncate
  Lengths,                   \* lengths for truncate
  MaxOpens,                  \* bound on the calls of sys_open that succeed
  MaxCount                   \* bound on f_count

(* The path that sys_rename passes to dentry_move is the last name without  *)
(* the slash before it; no path that is looked up is equal to it.           *)
Bare == <<"bare">>

Root == 1

NoDentry == [d_refcnt |-> 0, d_vnode |-> NULL, d_path |-> <<>>, d_parent |-> NULL,
             d_link |-> "off", opened |-> 0]
NoVnode == [v_refcnt |-> 0, v_data |-> NULL, v_size |-> 0]
NoFile == [f_count |-> 0, f_dentry |-> NULL, write |-> FALSE, skew |-> 0]

VARIABLES
  node, RAMFS_ipc_tab_heap,   \* RAMFS
  vnode,        \* v_refcnt, v_data, v_size
  dentry,       \* d_refcnt, d_vnode, d_path, d_parent; d_link is the list it is
                \* on; opened counts the calls of sys_open that returned it
  file,         \* f_count, f_dentry, f_flags; skew is what f_count exceeds the
                \* descriptors by, according to the calls that made it so
  fdtable,      \* fdtable.files; its bitmap has the bits of the others
  fault         \* why the last call did not return

vars == <<node, RAMFS_ipc_tab_heap, vnode, dentry, file, fdtable, fault>>

State == [node |-> node, RAMFS_ipc_tab_heap |-> RAMFS_ipc_tab_heap, vnode |-> vnode,
          dentry |-> dentry, file |-> file, fdtable |-> fdtable, fault |-> fault]

(* A call that faults leaves the state it found. *)
Become(s) ==
  /\ fault' = s.fault
  /\ IF s.fault = "none"
     THEN /\ node' = s.node /\ vnode' = s.vnode /\ dentry' = s.dentry
          /\ RAMFS_ipc_tab_heap' = s.RAMFS_ipc_tab_heap
          /\ file' = s.file /\ fdtable' = s.fdtable
     ELSE UNCHANGED <<node, RAMFS_ipc_tab_heap, vnode, dentry, file, fdtable>>

Least(S) == CHOOSE x \in S : \A y \in S : x <= y

TypeOf(s, dp) == s.node[s.vnode[s.dentry[dp].d_vnode].v_data].rn_type

-----------------------------------------------------------------------------
(* vnode.c *)

FreeVnodes(s) == {v \in Vnodes : s.vnode[v].v_refcnt = 0}

(* inode_count grows with every lookup, so the vnode is never found in the *)
(* cache; ramfs_lookup then fills it in.                                   *)
vfscore_vget(s, np) ==
  [s EXCEPT !.vnode[Least(FreeVnodes(s))] =
     [v_refcnt |-> 1, v_data |-> np, v_size |-> s.node[np].rn_size]]

vref(s, vp) == [s EXCEPT !.vnode[vp].v_refcnt = @ + 1]

vrele(s, vp) ==
  IF s.vnode[vp].v_refcnt > 1 THEN [s EXCEPT !.vnode[vp].v_refcnt = @ - 1]
  ELSE [s EXCEPT !.vnode[vp] = NoVnode]

-----------------------------------------------------------------------------
(* dentry.c *)

FreeDentries(s) == {d \in Dentries : s.dentry[d].d_refcnt = 0}

dref(s, dp) == [s EXCEPT !.dentry[dp].d_refcnt = @ + 1]

dentry_alloc(s, parent_dp, vp, path) ==
  LET dp == Least(FreeDentries(s))
  IN  [dref(vref(s, vp), parent_dp) EXCEPT
         !.dentry[dp] = [d_refcnt |-> 1, d_vnode |-> vp, d_path |-> path,
                         d_parent |-> parent_dp, d_link |-> "hash", opened |-> 0]]

(* The dentry of that path, with no reference taken, or NULL. *)
dentry_lookup(s, path) ==
  LET hits == {d \in Dentries : /\ s.dentry[d].d_refcnt > 0
                                /\ s.dentry[d].d_link = "hash"
                                /\ s.dentry[d].d_path = path}
  IN  IF hits = {} THEN NULL ELSE CHOOSE d \in hits : TRUE

(* uk_hlist_del of an entry that is on no list writes through its old      *)
(* neighbours.                                                             *)
uk_hlist_del(s, dp) ==
  IF s.dentry[dp].d_link = "off" THEN Fail(s, "list")
  ELSE [s EXCEPT !.dentry[dp].d_link = "off"]

RECURSIVE drele(_, _)
drele(s, dp) ==
  IF s.dentry[dp].d_refcnt > 1 THEN [s EXCEPT !.dentry[dp].d_refcnt = @ - 1]
  ELSE LET d == s.dentry[dp]
           up == IF d.d_parent # NULL THEN drele(uk_hlist_del(s, dp), d.d_parent)
                 ELSE uk_hlist_del(s, dp)
       IN  [vrele(up, d.d_vnode) EXCEPT !.dentry[dp] = NoDentry]

(* Mutant: the children stay in the hash table. *)
dentry_children_kept(s, dp) == s

dentry_children_remove(s, dp) ==
  LET children == {d \in Dentries : s.dentry[d].d_refcnt > 0 /\ s.dentry[d].d_parent = dp}
      twice == \E d \in children : s.dentry[d].d_link = "off"
      t == IF twice THEN Fail(s, "list") ELSE s
  IN  [t EXCEPT !.dentry = [d \in Dentries |->
         IF d \in children THEN [@[d] EXCEPT !.d_link = "off"] ELSE @[d]]]

dentry_move(s, dp, parent_dp, path) ==
  LET old_pdp == s.dentry[dp].d_parent
      removed == uk_hlist_del(dentry_children_remove(dref(s, parent_dp), dp), dp)
      moved == [removed EXCEPT !.dentry[dp].d_path = path, !.dentry[dp].d_parent = parent_dp,
                               !.dentry[dp].d_link = "hash"]
  IN  drele(moved, old_pdp)

dentry_remove(s, dp) == [uk_hlist_del(s, dp) EXCEPT !.dentry[dp].d_link = "fake"]

-----------------------------------------------------------------------------
(* lookup.c.  A result is the state, the dentry, which has been referenced,*)
(* and an error.                                                           *)

Result(s, dp, error) == [s |-> s, dp |-> dp, error |-> error]

(* VOP_LOOKUP in the directory ddp, dentry_alloc and vput. *)
Instantiate(s, ddp, path) ==
  LET np == ramfs_find(s, s.vnode[s.dentry[ddp].d_vnode].v_data, Last(path))
      vp == Least(FreeVnodes(s))
      v  == vfscore_vget(s, np)
  IN  CASE np = NULL -> Result(s, NULL, "ENOENT")
        [] np # NULL /\ (FreeVnodes(s) = {} \/ FreeDentries(s) = {}) ->
             Result(s, NULL, "ENOMEM")
        [] OTHER -> Result(vrele(dentry_alloc(v, ddp, vp, path), vp),
                           Least(FreeDentries(s)), "ok")

Lookup1(s, ddp, path) ==
  LET dp == dentry_lookup(s, path)
  IN  IF dp # NULL THEN Result(dref(s, dp), dp, "ok") ELSE Instantiate(s, ddp, path)

(* The components of path from the i-th on, below ddp; r is the lookup of   *)
(* the i-th.                                                                *)
RECURSIVE Walk(_, _, _, _, _)
Walk(s, ddp, path, i, r) ==
  CASE i > Len(path) -> Result(s, ddp, "ok")
    [] i <= Len(path) /\ TypeOf(s, ddp) # VDIR -> Result(drele(s, ddp), NULL, "ENOTDIR")
    [] i <= Len(path) /\ TypeOf(s, ddp) = VDIR ->
         LET t == drele(r.s, ddp)
         IN  IF r.error # "ok" THEN Result(t, NULL, r.error)
             ELSE Walk(t, r.dp, path, i + 1, Lookup1(t, r.dp, SubSeq(path, 1, i + 1)))

WalkFromRoot(s, path) == Walk(s, Root, path, 1, Lookup1(s, Root, SubSeq(path, 1, 1)))

namei(s, path) ==
  LET dp == dentry_lookup(s, path)
  IN  IF dp # NULL THEN Result(dref(s, dp), dp, "ok") ELSE WalkFromRoot(dref(s, Root), path)

namei_last_nofollow(s, path, ddp) == Lookup1(s, ddp, path)

RequireDir(r) ==
  IF r.error = "ok" /\ TypeOf(r.s, r.dp) # VDIR
  THEN Result(drele(r.s, r.dp), NULL, "ENOTDIR") ELSE r

(* The directory of a path. *)
lookup(s, path) == RequireDir(namei(s, Front(path)))

-----------------------------------------------------------------------------
(* file.c, fops.c and fd.c *)

FDsOf(s, fp) == {fd \in FDs : s.fdtable[fd] = fp}

FreeFiles(s) == {f \in Files : s.file[f].f_count = 0}

fhold(s, fp) == [s EXCEPT !.file[fp].f_count = @ + 1]

(* The last reference closes the file. *)
fdrop(s, fp) ==
  IF s.file[fp].f_count > 1 THEN [s EXCEPT !.file[fp].f_count = @ - 1]
  ELSE [drele(s, s.file[fp].f_dentry) EXCEPT !.file[fp] = NoFile]

(* vfscore_alloc_fd and vfscore_install_fd.  fdalloc does not give back    *)
(* its reference when there is no descriptor left.                         *)
fdalloc(s, fp) ==
  LET free == {fd \in FDs : s.fdtable[fd] = NULL}
  IN  IF free = {} THEN [fhold(s, fp) EXCEPT !.file[fp].skew = @ + 1]
      ELSE [fhold(s, fp) EXCEPT !.fdtable[Least(free)] = fp]

(* Mutant: the reference of vfscore_get_file is kept. *)
fdclose_kept(s, fd) == fdrop([fhold(s, s.fdtable[fd]) EXCEPT !.fdtable[fd] = NULL], s.fdtable[fd])

(* vfscore_put_fd *)
fdclose(s, fd) ==
  LET fp == s.fdtable[fd]
  IN  fdrop(fdrop([fhold(s, fp) EXCEPT !.fdtable[fd] = NULL], fp), fp)

-----------------------------------------------------------------------------
(* syscalls.c *)

(* The calls are in stages: an operator for what follows a lookup has its   *)
(* result r or d as a parameter.                                            *)

(* VOP_CREATE, VOP_MKDIR or VOP_MKNOD in the directory ddp, and its release *)
AddEntry(s, ddp, path, type) ==
  drele(ramfs_add_node(s, s.vnode[s.dentry[ddp].d_vnode].v_data, Last(path), type), ddp)

CreateIn(d, path) ==
  IF d.error # "ok" THEN d ELSE namei(AddEntry(d.s, d.dp, path, VREG), path)

OpenExisting(r, flags) ==
  LET dir == TypeOf(r.s, r.dp) = VDIR
      refuse(error) == Result(drele(r.s, r.dp), NULL, error)
  IN  CASE r.error # "ok" -> r
        [] r.error = "ok" /\ flags \cap {"FWRITE", "O_TRUNC"} # {} /\ dir -> refuse("EISDIR")
        [] r.error = "ok" /\ "O_DIRECTORY" \in flags /\ ~dir -> refuse("ENOTDIR")
        [] OTHER -> r

OpenOrCreate(r, path, flags) ==
  CASE r.error = "ENOENT" -> CreateIn(lookup(r.s, path), path)
    [] r.error = "ok" /\ "O_EXCL" \in flags -> Result(drele(r.s, r.dp), NULL, "EEXIST")
    [] OTHER -> r

(* sys_open up to the vnode that is to be opened. *)
OpenNode(s, path, flags) ==
  IF "O_CREAT" \in flags THEN OpenOrCreate(namei(s, path), path, flags)
  ELSE OpenExisting(namei(s, path), flags)

Creates(s, path, flags) == "O_CREAT" \in flags /\ namei(s, path).error = "ENOENT"

NewFile(s, dp, flags, fp) ==
  [s EXCEPT !.file[fp] = [f_count |-> 1, f_dentry |-> dp, write |-> "FWRITE" \in flags,
                          skew |-> -Cardinality(FDsOf(s, fp))],
            !.dentry[dp].opened = @ + 1]

(* Mutant: the dref of sys_open is left out. *)
OpenFile_balanced(s, dp, flags, fp) ==
  IF fp = NULL THEN Result(drele(s, dp), NULL, "ENOMEM")
  ELSE Result(NewFile(s, dp, flags, fp), fp, "ok")

(* fp is what calloc returns.  The reference of namei becomes the file's,  *)
(* and dref takes another.                                                 *)
OpenFile(s, dp, flags, fp) ==
  IF fp = NULL THEN Result(drele(s, dp), NULL, "ENOMEM")
  ELSE Result(dref(NewFile(s, dp, flags, fp), dp), fp, "ok")

OpenFound(r, flags, trunc, fp) ==
  LET bad == trunc /\ ("FWRITE" \notin flags \/ TypeOf(r.s, r.dp) = VDIR)
      vp == r.s.dentry[r.dp].d_vnode
  IN  CASE r.error # "ok" -> r
        [] r.error = "ok" /\ bad -> Result(drele(r.s, r.dp), NULL, "EINVAL")
        [] r.error = "ok" /\ ~bad ->
             OpenFile(IF trunc THEN ramfs_truncate(r.s, vp, 0, NULL) ELSE r.s, r.dp, flags, fp)

sys_open(s, path, flags, fp) ==
  OpenFound(OpenNode(s, path, flags), flags,
            "O_TRUNC" \in flags /\ ~Creates(s, path, flags), fp)

(* sys_readdir until a name other than . and .., and fdrop; r is of sys_open *)
ReadDir(r, fp) ==
  LET n == r.s.node[r.s.vnode[r.s.dentry[r.s.file[fp].f_dentry].d_vnode].v_data]
      error == CASE n.rn_type # VDIR -> "ENOTDIR"
                 [] n.rn_type = VDIR -> IF n.rn_child = <<>> THEN "ok" ELSE "ENOTEMPTY"
  IN  IF r.error # "ok" THEN r ELSE Result(fdrop(r.s, fp), NULL, error)

check_dir_empty(s, path, fp) == ReadDir(sys_open(s, path, {}, fp), fp)

MknodIn(d, path, type) ==
  IF d.error # "ok" THEN d.s ELSE AddEntry(d.s, d.dp, path, type)

MknodFound(r, path, type) ==
  IF r.error = "ok" THEN drele(r.s, r.dp) ELSE MknodIn(lookup(r.s, path), path, type)

(* sys_mkdir, and sys_mknod of a directory or a file: any error of namei,  *)
(* not only ENOENT, is taken to mean that there is no such file.           *)
sys_mknod(s, path, type) == MknodFound(namei(s, path), path, type)

(* Mutant: the dentry of the removed name is not released. *)
RemoveEntry_kept(s, ddp, dp) == drele(dentry_remove(s, dp), ddp)

(* VOP_REMOVE or VOP_RMDIR, dentry_remove and the release of both dentries *)
RemoveEntry(s, ddp, dp) ==
  LET gone == ramfs_remove_node(s, s.vnode[s.dentry[ddp].d_vnode].v_data,
                                s.vnode[s.dentry[dp].d_vnode].v_data)
  IN  drele(drele(dentry_remove(gone, dp), ddp), dp)

UnlinkFound(r, ddp, root) ==
  CASE r.error # "ok" -> drele(r.s, ddp)
    [] r.error = "ok" ->
         IF TypeOf(r.s, r.dp) = VDIR \/ root THEN drele(drele(r.s, r.dp), ddp)
         ELSE RemoveEntry(r.s, ddp, r.dp)

UnlinkIn(d, path, root) ==
  IF d.error # "ok" THEN d.s
  ELSE UnlinkFound(namei_last_nofollow(d.s, path, d.dp), d.dp, root)

(* v_flags of a vnode is not initialized: root is what VROOT reads as. *)
sys_unlink(s, path, root) == UnlinkIn(lookup(s, path), path, root)

RmdirIn(d, dp) == IF d.error # "ok" THEN drele(d.s, dp) ELSE RemoveEntry(d.s, d.dp, dp)

RmdirFound(r, path, root) ==
  LET busy == root \/ r.s.vnode[r.s.dentry[r.dp].d_vnode].v_refcnt >= 2
  IN  CASE r.error # "ok" -> r.s
        [] r.error = "ok" -> IF TypeOf(r.s, r.dp) # VDIR \/ busy THEN drele(r.s, r.dp)
                             ELSE RmdirIn(lookup(r.s, path), r.dp)

RmdirChecked(e, path, root) == IF e.error # "ok" THEN e.s ELSE RmdirFound(namei(e.s, path), path, root)

sys_rmdir(s, path, fp, root) == RmdirChecked(check_dir_empty(s, path, fp), path, root)

(* The dentry dp1 moves from ddp1 to ddp2, where dp2 is in the way if it is *)
(* not NULL.  It is moved even when VOP_RENAME fails.                       *)
RenameEntry(s, ddp1, dp1, ddp2, dp2, dest) ==
  LET vp(dp) == s.dentry[dp].d_vnode
      renamed == ramfs_rename(s, vp(ddp1), vp(dp1), vp(ddp2),
                              IF dp2 = NULL THEN NULL ELSE vp(dp2), Last(dest))
      moved == dentry_move(renamed, dp1, ddp2, Bare)
  IN  IF dp2 = NULL THEN moved ELSE dentry_remove(moved, dp2)

(* e says whether the target may be replaced. *)
RenameChecked(e, ddp1, dp1, ddp2, dp2, src, dest) ==
  LET t == IF e.error # "ok" \/ IsPrefix(src, dest) THEN e.s
           ELSE RenameEntry(e.s, ddp1, dp1, ddp2, dp2, dest)
  IN  IF dp2 = NULL THEN t ELSE drele(t, dp2)

RenameTarget(r, ddp1, dp1, ddp2, src, dest, fp) ==
  LET dir1 == TypeOf(r.s, dp1) = VDIR
      dir2 == TypeOf(r.s, r.dp) = VDIR
      e == CASE r.error # "ok" ->
                  Result(r.s, NULL, IF r.error = "ENOENT" THEN "ok" ELSE r.error)
             [] r.error = "ok" ->
                  IF dir1 /\ dir2 THEN check_dir_empty(r.s, dest, fp)
                  ELSE Result(r.s, NULL, IF dir1 # dir2 THEN "ENOTDIR" ELSE "ok")
  IN  RenameChecked(e, ddp1, dp1, ddp2, IF r.error = "ok" THEN r.dp ELSE NULL, src, dest)

RenameTo(d, ddp1, dp1, src, dest, fp) ==
  IF d.error # "ok" THEN d.s
  ELSE drele(RenameTarget(namei_last_nofollow(d.s, dest, d.dp), ddp1, dp1, d.dp, src, dest, fp),
             d.dp)

RenameSource(r, ddp1, src, dest, fp) ==
  IF r.error # "ok" THEN drele(r.s, ddp1)
  ELSE drele(drele(RenameTo(lookup(r.s, dest), ddp1, r.dp, src, dest, fp), r.dp), ddp1)

RenameFrom(d, src, dest, fp) ==
  IF d.error # "ok" THEN d.s
  ELSE RenameSource(namei_last_nofollow(d.s, src, d.dp), d.dp, src, dest, fp)

sys_rename(s, src, dest, fp) == RenameFrom(lookup(s, src), src, dest, fp)

(* VOP_LINK of ramfs is EPERM. *)
LinkIn(d, dp, newpath) ==
  CASE d.error # "ok" -> Fail(d.s, "uninitialized")
    [] d.error = "ok" ->
         IF FreeDentries(d.s) = {} THEN Fail(d.s, "assertion")
         ELSE drele(drele(drele(dentry_alloc(d.s, d.dp, d.s.dentry[dp].d_vnode, newpath),
                                d.dp), dp), Least(FreeDentries(d.s)))

LinkNew(n, dp, newpath) ==
  IF n.error = "ok" THEN drele(drele(n.s, dp), n.dp)
  ELSE LinkIn(lookup(n.s, newpath), dp, newpath)

LinkOld(r, newpath) ==
  CASE r.error # "ok" -> r.s
    [] r.error = "ok" -> IF TypeOf(r.s, r.dp) = VDIR THEN Fail(r.s, "uninitialized")
                         ELSE LinkNew(namei(r.s, newpath), r.dp, newpath)

(* On two paths newdp is released without having been assigned. *)
sys_link(s, oldpath, newpath) == LinkOld(namei(s, oldpath), newpath)

-----------------------------------------------------------------------------
(* main.c *)

Opened(s) == MapThenSumSet(LAMBDA d : s.dentry[d].opened, Dentries)

FileChoice(s) == IF FreeFiles(s) = {} THEN {NULL} ELSE FreeFiles(s)

FlagSets == {{"FWRITE"}, {"O_TRUNC"}, {"FWRITE", "O_TRUNC"}, {"O_DIRECTORY"},
             {"FWRITE", "O_CREAT"}, {"FWRITE", "O_CREAT", "O_EXCL"},
             {"FWRITE", "O_CREAT", "O_TRUNC"}}

Running == fault = "none"

InstallFd(r, fp) == IF r.error # "ok" THEN r.s ELSE fdrop(fdalloc(r.s, fp), fp)

Open(path, flags) ==
  /\ Running /\ Opened(State) < MaxOpens
  /\ Creates(State, path, flags) => FreeNodes(State) # {}
  /\ \E fp \in FileChoice(State) :
       Become(InstallFd(sys_open(State, path, flags, fp), fp))

(* The file of an open descriptor; Freed if fdrop has closed and freed it. *)
IsOpen(fd) == Running /\ fdtable[fd] # NULL
Freed(fd) == file[fdtable[fd]].f_dentry = NULL
VnodeOf(fd) == dentry[file[fdtable[fd]].f_dentry].d_vnode

Close(fd) ==
  /\ IsOpen(fd)
  /\ Become(IF Freed(fd) THEN Fail(State, "freed") ELSE fdclose(State, fd))

Dup(oldfd) ==
  /\ IsOpen(oldfd) /\ file[fdtable[oldfd]].f_count < MaxCount
  /\ LET fp == fdtable[oldfd]
     IN  Become(IF Freed(oldfd) THEN Fail(State, "freed")
                ELSE fdrop(fdalloc(fhold(State, fp), fp), fp))

(* The reference that fget takes on the file of newfd is not given back,   *)
(* and the one on the file of oldfd is, though newfd now refers to it.     *)
dup3(s, oldfd, newfd) ==
  LET fp == s.fdtable[oldfd]
      old == s.fdtable[newfd]
      held == fhold(s, fp)
      closed == IF old = NULL THEN held
                ELSE fdclose([fhold(held, old) EXCEPT !.file[old].skew = @ + 1], newfd)
      installed == [closed EXCEPT !.fdtable[newfd] = fp, !.file[fp].skew = @ - 1]
  IN  fdrop(installed, fp)

Dup2(oldfd, newfd) ==
  /\ IsOpen(oldfd) /\ oldfd # newfd
  /\ fdtable[newfd] # NULL => file[fdtable[newfd]].f_count < MaxCount
  /\ Become(IF Freed(oldfd) \/ (fdtable[newfd] # NULL /\ Freed(newfd))
            THEN Fail(State, "freed") ELSE dup3(State, oldfd, newfd))

BufChoice(s, vp, needed) ==
  IF needed > s.node[s.vnode[vp].v_data].rn_bufsize THEN FreeBufs(s) ELSE {NULL}

Read(fd, end_pos) ==
  /\ IsOpen(fd)
  /\ IF Freed(fd) THEN Become(Fail(State, "freed"))
     ELSE /\ node[vnode[VnodeOf(fd)].v_data].rn_type = VREG
          /\ Become(ramfs_read(State, VnodeOf(fd), end_pos))

Write(fd, end_pos) ==
  /\ IsOpen(fd)
  /\ IF Freed(fd) THEN Become(Fail(State, "freed"))
     ELSE /\ file[fdtable[fd]].write /\ node[vnode[VnodeOf(fd)].v_data].rn_type = VREG
          /\ \E buf \in BufChoice(State, VnodeOf(fd), end_pos) :
               Become(ramfs_write(State, VnodeOf(fd), end_pos, buf))

Ftruncate(fd, length) ==
  /\ IsOpen(fd)
  /\ IF Freed(fd) THEN Become(Fail(State, "freed"))
     ELSE \E buf \in BufChoice(State, VnodeOf(fd), length) :
            Become(ramfs_truncate(State, VnodeOf(fd), length, buf))

TruncateFound(r, length) ==
  LET vp == r.s.dentry[r.dp].d_vnode
  IN  IF r.error # "ok" THEN Become(r.s)
      ELSE \E buf \in BufChoice(r.s, vp, length) :
             Become(drele(ramfs_truncate(r.s, vp, length, buf), r.dp))

Truncate(path, length) == Running /\ TruncateFound(namei(State, path), length)

Release(r) == IF r.error = "ok" THEN drele(r.s, r.dp) ELSE r.s

(* sys_stat, sys_access, sys_statfs: namei and drele *)
Stat(path) == Running /\ Become(Release(namei(State, path)))

Mknod(path, type) ==
  /\ Running /\ FreeNodes(State) # {}
  /\ Become(sys_mknod(State, path, type))

Unlink(path, root) == Running /\ Become(sys_unlink(State, path, root))

Rmdir(path, root) ==
  /\ Running /\ Opened(State) < MaxOpens
  /\ \E fp \in FileChoice(State) : Become(sys_rmdir(State, path, fp, root))

Rename(src, dest) ==
  /\ Running /\ Opened(State) < MaxOpens /\ FreeNodes(State) # {}
  /\ \E fp \in FileChoice(State) : Become(sys_rename(State, src, dest, fp))

Link(oldpath, newpath) == Running /\ Become(sys_link(State, oldpath, newpath))

(* vfscore_rootfs: the mount holds the root's dentry. *)
Init ==
  /\ node = [n \in Nodes |-> IF n = 1 THEN [NoNode EXCEPT !.rn_type = VDIR] ELSE NoNode]
  /\ RAMFS_ipc_tab_heap = [i \in 1 .. HEAP_MAX |-> NULL]
  /\ vnode = [v \in Vnodes |-> IF v = 1 THEN [NoVnode EXCEPT !.v_refcnt = 1, !.v_data = 1]
                               ELSE NoVnode]
  /\ dentry = [d \in Dentries |-> IF d = Root
                 THEN [NoDentry EXCEPT !.d_refcnt = 1, !.d_vnode = 1, !.d_link = "hash"]
                 ELSE NoDentry]
  /\ file = [f \in Files |-> NoFile] /\ fdtable = [fd \in FDs |-> NULL]
  /\ fault = "none"

Next ==
  \/ \E path \in Paths : \/ \E flags \in FlagSets : Open(path, flags)
                         \/ \E length \in Lengths : Truncate(path, length)
                         \/ Stat(path)
                         \/ \E type \in {VREG, VDIR} : Mknod(path, type)
                         \/ \E root \in BOOLEAN : Unlink(path, root) \/ Rmdir(path, root)
                         \/ \E dest \in Paths : Rename(path, dest) \/ Link(path, dest)
  \/ \E fd \in FDs : \/ Close(fd) \/ Dup(fd)
                     \/ \E newfd \in FDs : Dup2(fd, newfd)
                     \/ \E end_pos \in Ends : Read(fd, end_pos) \/ Write(fd, end_pos)
                     \/ \E length \in Ends \cup {0} : Ftruncate(fd, length)

Spec == Init /\ [][Next]_vars

-----------------------------------------------------------------------------
(* The state of the file system between calls: addresses, counts, sizes    *)
(* and the reasons for which a call does not return.                       *)
VfsTypeOK ==
  /\ node \in [Nodes -> [rn_type : {"free", VREG, VDIR}, rn_name : Names \cup {"/"},
                         rn_child : Seq(Nodes), rn_buf : Bufs \cup {NULL},
                         rn_bufsize : Nat, rn_size : Nat,
                         by : {"none", "write", "truncate"}]]
  /\ RAMFS_ipc_tab_heap \in [1 .. HEAP_MAX -> Bufs \cup {NULL}]
  /\ vnode \in [Vnodes -> [v_refcnt : Nat, v_data : Nodes \cup {NULL}, v_size : Nat]]
  /\ dentry \in [Dentries -> [d_refcnt : Nat, d_vnode : Vnodes \cup {NULL},
                              d_path : Paths \cup {<<>>, Bare}, d_parent : Dentries \cup {NULL},
                              d_link : {"off", "hash", "fake"}, opened : Nat]]
  /\ file \in [Files -> [f_count : Nat, f_dentry : Dentries \cup {NULL},
                         write : BOOLEAN, skew : Int]]
  /\ fdtable \in [FDs -> Files \cup {NULL}]
  /\ fault \in {"none", "table full", "no entry", "null", "overrun", "list", "freed",
                "uninitialized", "assertion"}

Live(d) == dentry[d].d_refcnt > 0

(* A dentry is referenced once by each open file on it, each dentry below  *)
(* it, the mount if it is the root, and once more for every sys_open that  *)
(* returned it (the dref of sys_open that nothing gives back).  A vnode is *)
(* referenced once by each of its dentries.  So no call on any path, error *)
(* paths included, loses or keeps another reference.                       *)
ReferencesCounted ==
  /\ \A d \in {x \in Dentries : Live(x)} :
       dentry[d].d_refcnt =
         Cardinality({f \in Files : file[f].f_dentry = d})
         + Cardinality({c \in Dentries : Live(c) /\ dentry[c].d_parent = d})
         + (IF d = Root THEN 1 ELSE 0) + dentry[d].opened
  /\ \A v \in Vnodes :
       vnode[v].v_refcnt = Cardinality({d \in Dentries : Live(d) /\ dentry[d].d_vnode = v})
  /\ \A f \in Files : file[f].f_count > 0 => Live(file[f].f_dentry)

(* An open file is counted once for each of its descriptors, except for    *)
(* what fdalloc keeps when there is no descriptor left, what dup3 keeps of *)
(* the file it replaces, and what dup3 drops of the one it duplicates.     *)
FilesCounted ==
  \A f \in Files :
    file[f].f_count > 0 => file[f].f_count = Cardinality(FDsOf(State, f)) + file[f].skew

NodeAt(path) ==
  FoldLeft(LAMBDA n, x : IF n = NULL THEN NULL ELSE ramfs_find(State, n, x), 1, path)

(* The cache agrees with RAMFS: the dentry that a lookup finds for a path   *)
(* is that of the node that has this path in RAMFS, whatever was renamed,   *)
(* replaced, removed and created.  dentry_move takes only the entries of    *)
(* the directory it moves off the hash table, not what is below those, so   *)
(* this is stated for the root's entries and for theirs.                    *)
CacheCoherent ==
  \A d \in Dentries :
    /\ Live(d) /\ dentry[d].d_link = "hash"
    /\ dentry[d].d_path # Bare /\ Len(dentry[d].d_path) <= 2
    => vnode[dentry[d].d_vnode].v_data = NodeAt(dentry[d].d_path)

(* v_size is a copy of rn_size that each vnode keeps.  It is right unless  *)
(* sys_rename has moved a dentry of the node, or its directory's, to where *)
(* no lookup finds it: the next lookup then gives the node a second vnode. *)
(* In particular it is right for a file that is unlinked while it is open, *)
(* and for the file that then takes its path.                              *)
SizesAgree ==
  \A v \in {x \in Vnodes : vnode[x].v_refcnt > 0} :
    \/ vnode[v].v_size = node[vnode[v].v_data].rn_size
    \/ \E d \in Dentries : /\ Live(d) /\ vnode[dentry[d].d_vnode].v_data = vnode[v].v_data
                           /\ dentry[d].d_path = Bare \/ dentry[d].d_link = "off"

(* No two nodes have the same buffer, though a rename to another directory *)
(* moves it, and a size lies within its buffer.                            *)
BuffersDistinct ==
  \A m, n \in Nodes :
    node[m].rn_buf # NULL => /\ node[m].rn_size <= node[m].rn_bufsize
                             /\ m # n => node[m].rn_buf # node[n].rn_buf

(* No dentry is taken off the hash table twice: dentry_move takes the      *)
(* children off and leaves them off, and drele would do it again when they *)
(* die; that they do not die is due to the reference that sys_open leaves. *)
UnlinkedOnce == fault # "list"

(* Every descriptor holds a reference on its file. *)
DescriptorsHold ==
  \A fd \in FDs : fdtable[fd] # NULL =>
    file[fdtable[fd]].f_count >= Cardinality(FDsOf(State, fdtable[fd]))

(* A buffer that ramfs_write allocated has a window for as long as a file  *)
(* has the buffer, through renames and through the windows that            *)
(* ramfs_truncate leaves behind, and ramfs_ipc_remove_heap spins only in a *)
(* write to a file that ramfs_truncate made grow: it opens no window.      *)
WindowsHeld ==
  /\ \A n \in Nodes : node[n].by = "write" => HasEntry(State, node[n].rn_buf)
  /\ fault = "no entry" => \E n \in Nodes : node[n].by = "truncate"
=============================================================================
