------------------------------- MODULE RamFs -------------------------------
(***************************************************************************)
(* The RAMFS cubicle (lib/ramfs): the tree of ramfs_nodes, the buffers     *)
(* that hold the files and the heap table of windows through which VFSCORE *)
(* reaches them.  Its operations are operators on a record s with fields   *)
(* node, vnode, RAMFS_ipc_tab_heap and fault; Vfs calls them through the   *)
(* vnode.                                                                  *)
(*                                                                         *)
(* A size is a number of half pages, so that a size can lie inside the     *)
(* last page of a buffer.  The bytes are left out.  Nodes and buffers come *)
(* from dl_ramfs_malloc, which does not return when the heap is exhausted: *)
(* an operation that needs one is taken only while there is one.           *)
(***************************************************************************)
EXTENDS Integers, Sequences, SequencesExt

CONSTANTS
  Names,        \* names of directory entries
  Nodes,        \* addresses of ramfs_nodes, 1 is the root
  Bufs,         \* addresses of buffers
  HEAP_MAX      \* entries of RAMFS_ipc_tab_heap

NULL == 0

VREG == "VREG"
VDIR == "VDIR"

(* by is not in the code: the operation that allocated the buffer. *)
NoNode == [rn_type |-> "free", rn_name |-> "/", rn_child |-> <<>>,
           rn_buf |-> NULL, rn_bufsize |-> 0, rn_size |-> 0, by |-> "none"]

(* A call that faults, or never returns, is the last one: fault says why.  *)
Fail(s, why) == IF s.fault = "none" THEN [s EXCEPT !.fault = why] ELSE s

FreeNodes(s) == {n \in Nodes : s.node[n].rn_type = "free"}

FreeBufs(s) == Bufs \ {s.node[n].rn_buf : n \in Nodes}

(* The first entry of the table that begins at x. *)
EntryOf(s, x) ==
  CHOOSE i \in 1 .. HEAP_MAX :
    s.RAMFS_ipc_tab_heap[i] = x /\ \A j \in 1 .. i - 1 : s.RAMFS_ipc_tab_heap[j] # x

HasEntry(s, x) == \E i \in 1 .. HEAP_MAX : s.RAMFS_ipc_tab_heap[i] = x

(* Mutant: a full table is written past its end. *)
ramfs_ipc_add_heap_past(s, begin) ==
  IF HasEntry(s, NULL)
  THEN [s EXCEPT !.RAMFS_ipc_tab_heap[EntryOf(s, NULL)] = begin]
  ELSE [s EXCEPT !.RAMFS_ipc_tab_heap = Append(@, begin)]

ramfs_ipc_add_heap(s, begin) ==
  IF HasEntry(s, NULL)
  THEN [s EXCEPT !.RAMFS_ipc_tab_heap[EntryOf(s, NULL)] = begin]
  ELSE Fail(s, "table full")

(* Mutant: the first entry is cleared, whatever it is. *)
ramfs_ipc_remove_heap_first(s, begin) == [s EXCEPT !.RAMFS_ipc_tab_heap[1] = NULL]

ramfs_ipc_remove_heap(s, begin) ==
  IF HasEntry(s, begin)
  THEN [s EXCEPT !.RAMFS_ipc_tab_heap[EntryOf(s, begin)] = NULL]
  ELSE Fail(s, "no entry")

round_pgup(size) == 2 * ((size + 1) \div 2)

(* memcpy and vfscore_uiomove on the first len half pages of a buffer. *)
Touch(s, n, len) ==
  CASE len = 0 -> s
    [] len > 0 /\ s.node[n].rn_buf = NULL -> Fail(s, "null")
    [] len > 0 /\ s.node[n].rn_buf # NULL ->
         IF len > s.node[n].rn_bufsize THEN Fail(s, "overrun") ELSE s

ramfs_add_node(s, dnp, name, type) ==
  LET np == CHOOSE n \in FreeNodes(s) : \A m \in FreeNodes(s) : n <= m
  IN  [s EXCEPT !.node[np] = [NoNode EXCEPT !.rn_type = type, !.rn_name = name],
                !.node[dnp].rn_child = Append(@, np)]

(* Unlinks the node and frees neither it nor its buffer. *)
ramfs_remove_node(s, dnp, np) ==
  IF np \in ToSet(s.node[dnp].rn_child)
  THEN [s EXCEPT !.node[dnp].rn_child = SelectSeq(@, LAMBDA n : n # np)]
  ELSE s

(* The first child of that name. *)
ramfs_find(s, dnp, name) ==
  LET hits == SelectSeq(s.node[dnp].rn_child, LAMBDA n : s.node[n].rn_name = name)
  IN  IF hits = <<>> THEN NULL ELSE Head(hits)

(* Mutant: only the copy in the vnode is changed. *)
ramfs_truncate_vnode(s, vp, length, buf) ==
  [s EXCEPT !.vnode[vp].v_size = length]

(* buf is what dl_ramfs_malloc returns if it is called. *)
ramfs_truncate(s, vp, length, buf) ==
  LET np == s.vnode[vp].v_data
      n  == s.node[np]
      shrunk == IF length = 0 /\ n.rn_buf # NULL
                THEN [s EXCEPT !.node[np].rn_buf = NULL, !.node[np].rn_bufsize = 0,
                               !.node[np].by = "none"]
                ELSE s
      grown == LET copied == IF n.rn_size # 0 THEN Touch(s, np, s.vnode[vp].v_size) ELSE s
               IN  [copied EXCEPT !.node[np].rn_buf = buf,
                                  !.node[np].rn_bufsize = round_pgup(length),
                                  !.node[np].by = "truncate"]
      t == IF length > n.rn_bufsize THEN grown ELSE shrunk
  IN  [t EXCEPT !.node[np].rn_size = length, !.vnode[vp].v_size = length]

(* One half page, the last of which ends at end_pos. *)
ramfs_write(s, vp, end_pos, buf) ==
  LET np == s.vnode[vp].v_data
      n  == s.node[np]
      opened == ramfs_ipc_add_heap(s, buf)
      copied == IF n.rn_size # 0
                THEN ramfs_ipc_remove_heap(Touch(opened, np, s.vnode[vp].v_size), n.rn_buf)
                ELSE opened
      room == IF end_pos > n.rn_bufsize
              THEN [copied EXCEPT !.node[np].rn_buf = buf,
                                  !.node[np].rn_bufsize = round_pgup(end_pos),
                                  !.node[np].by = "write"]
              ELSE s
      sized == [room EXCEPT !.node[np].rn_size = end_pos, !.vnode[vp].v_size = end_pos]
  IN  Touch(IF end_pos > s.vnode[vp].v_size THEN sized ELSE s, np, end_pos)

(* One half page at an offset below end_pos. *)
ramfs_read(s, vp, end_pos) ==
  IF end_pos > s.vnode[vp].v_size THEN s
  ELSE Touch(s, s.vnode[vp].v_data, end_pos)

(* Mutant: the old node keeps the buffer it has handed over. *)
ramfs_rename_kept(s, dvp1, vp1, dvp2, vp2, name2) ==
  LET removed == IF vp2 # NULL
                 THEN ramfs_remove_node(s, s.vnode[dvp2].v_data, s.vnode[vp2].v_data) ELSE s
      old_np == s.vnode[vp1].v_data
      o == s.node[old_np]
      np == CHOOSE n \in FreeNodes(s) : \A m \in FreeNodes(s) : n <= m
      added == ramfs_add_node(removed, s.vnode[dvp2].v_data, name2, o.rn_type)
      moved == [added EXCEPT !.node[np].rn_buf = o.rn_buf, !.node[np].rn_size = o.rn_size,
                             !.node[np].rn_bufsize = o.rn_bufsize]
  IN  IF dvp1 = dvp2 THEN [removed EXCEPT !.node[old_np].rn_name = name2]
      ELSE ramfs_remove_node(moved, s.vnode[dvp1].v_data, old_np)

(* Within one directory the node changes its name; otherwise a new node    *)
(* takes the buffer, and the vnode stays with the old node.                *)
ramfs_rename(s, dvp1, vp1, dvp2, vp2, name2) ==
  LET dnp2 == s.vnode[dvp2].v_data
      gone == vp2 # NULL /\ s.vnode[vp2].v_data \notin ToSet(s.node[dnp2].rn_child)
      removed == IF vp2 # NULL THEN ramfs_remove_node(s, dnp2, s.vnode[vp2].v_data) ELSE s
      old_np == s.vnode[vp1].v_data
      o == s.node[old_np]
      np == CHOOSE n \in FreeNodes(s) : \A m \in FreeNodes(s) : n <= m
      added == ramfs_add_node(removed, dnp2, name2, o.rn_type)
      moved == IF o.rn_buf = NULL THEN added
               ELSE [added EXCEPT !.node[np].rn_buf = o.rn_buf,
                                  !.node[np].rn_size = o.rn_size,
                                  !.node[np].rn_bufsize = o.rn_bufsize,
                                  !.node[np].by = o.by,
                                  !.node[old_np].rn_buf = NULL, !.node[old_np].by = "none"]
  IN  CASE gone -> s
        [] ~gone /\ dvp1 = dvp2 -> [removed EXCEPT !.node[old_np].rn_name = name2]
        [] ~gone /\ dvp1 # dvp2 -> ramfs_remove_node(moved, s.vnode[dvp1].v_data, old_np)
=============================================================================
