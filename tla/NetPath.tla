------------------------------ MODULE NetPath -------------------------------
(***************************************************************************)
(* The network path: the glue of the LWIP cubicle (uknetdev.c, netbuf.c,   *)
(* sockets.c, ipc.c) and the driver of the UKNETDEV cubicle (netdev.c,     *)
(* netbuf.c, drv.c) over a tap device of the host.  LWIP allocates the     *)
(* packet buffers and opens a window on each for UKNETDEV, which fills and *)
(* sends them; the vfscore_file of a socket is a block of LWIP's that      *)
(* VFSCORE reaches through the same table.                                 *)
(*                                                                         *)
(* The guest runs one call at a time.  The host puts frames into the tap   *)
(* at any moment, also while the driver waits for one.  lwIP itself is     *)
(* external: it takes or refuses a frame, and sends frames and frees pbufs *)
(* when it likes, also while it is being handed a frame.  Every object     *)
(* fits a page, and a block without a window is left out.                  *)
(***************************************************************************)
EXTENDS Naturals, Sequences

CONSTANTS
  Pages,       \* addresses uk_malloc can return
  HEAP_MAX,    \* entries of LWIP_ipc_tab_heap
  MaxFrames,   \* bound on the frames the host sends
  TapQueue,    \* frames the tap queues for its reader
  Long         \* the frames longer than the 1400 bytes that pull_rx reads

NULL == 0

ASSUME PagesAssumption == NULL \notin Pages

ASSUME BoundsAssumption == HEAP_MAX \in Nat /\ MaxFrames \in Nat /\ TapQueue \in Nat

UKNETDEV == "UKNETDEV"
VFSCORE == "VFSCORE"

VARIABLES
  dev,                 \* the uk_netdev: its state and whether it has its queues
  netif,               \* the interface is in lwIP's list
  pc,                  \* run, pull_rx or input: what the guest is in; or halted
  why,                 \* the reason why it halted
  use,                 \* what every page is used for
  LWIP_ipc_tab_heap,   \* the windows, with the cubicle each is for
  pkt,                 \* the buffer that uknetdev_input receives into
  frame,               \* the frame in it, or 0
  psize,               \* 0, or the length of a frame that was not collected
  tap, sent, received  \* frames queued at the tap, sent by the host, taken by lwIP

table == <<use, LWIP_ipc_tab_heap>>
rx == <<pkt, frame, psize>>
link == <<tap, sent, received>>
vars == <<dev, netif, pc, why, table, rx, link>>

(* A while(1), a failed assertion or an access that the monitor refuses. *)
Halt(reason) == pc' = "halted" /\ why' = reason

Goes(to) == pc' = to /\ why' = why

(***************************************************************************)
(* The window table.                                                       *)
(***************************************************************************)
NoWindow == [begin |-> NULL, mask |-> "none"]

EntriesAt(tab, begins) == {i \in 1 .. HEAP_MAX : tab[i].begin \in begins}

First(entries) == CHOOSE i \in entries : \A j \in entries : i <= j

Reaches(tab, module, b) ==
  \E i \in 1 .. HEAP_MAX : tab[i] = [begin |-> b, mask |-> module]

CanAdd(tab, begin) == EntriesAt(tab, {NULL, begin}) # {}

(* Mutant: the search for a free entry only, as in the other tables. *)
lwip_ipc_add_heap_plain(tab, begin, mask) ==
  LET entries == IF EntriesAt(tab, {NULL}) # {} THEN EntriesAt(tab, {NULL})
                 ELSE EntriesAt(tab, {begin})
  IN  [tab EXCEPT ![First(entries)] = [begin |-> begin, mask |-> mask]]

lwip_ipc_add_heap(tab, begin, mask) ==
  [tab EXCEPT ![First(EntriesAt(tab, {NULL, begin}))] = [begin |-> begin, mask |-> mask]]

(* Mutant: the search from the other end of the table. *)
lwip_ipc_remove_heap_last(tab, begin) ==
  [tab EXCEPT ![CHOOSE i \in EntriesAt(tab, {begin}) :
                  \A j \in EntriesAt(tab, {begin}) : j <= i] = NoWindow]

lwip_ipc_remove_heap(tab, begin) ==
  [tab EXCEPT ![First(EntriesAt(tab, {begin}))] = NoWindow]

FreePages == {b \in Pages : use[b] = "free"}

(***************************************************************************)
(* Bringing the interface up.  The driver's other operations cannot fail.  *)
(***************************************************************************)
uk_netdev_configure(d) == [d EXCEPT !.state = "CONFIGURED"]

uk_netdev_rxq_configure(d) ==
  IF d.state = "CONFIGURED" /\ ~ d.rxq THEN [d EXCEPT !.rxq = TRUE] ELSE d

uk_netdev_txq_configure(d) ==
  IF d.state = "CONFIGURED" /\ ~ d.txq THEN [d EXCEPT !.txq = TRUE] ELSE d

uk_netdev_start(d) == IF d.state = "CONFIGURED" THEN [d EXCEPT !.state = "RUNNING"] ELSE d

(* Mutant: the device is started before it has its queues. *)
InitDevice_swapped(d) ==
  uk_netdev_txq_configure(uk_netdev_rxq_configure(uk_netdev_start(uk_netdev_configure(d))))

InitDevice(d) ==
  uk_netdev_start(uk_netdev_txq_configure(uk_netdev_rxq_configure(uk_netdev_configure(d))))

net_add ==
  /\ dev.state = "none"
  /\ pc = "run"
  /\ dev' = [dev EXCEPT !.state = "UNCONFIGURED"]
  /\ UNCHANGED <<netif, pc, why, table, rx, link>>

(* virtio_netdev_configure spins unless it can attach the tap. *)
uknetdev_init ==
  /\ dev.state = "UNCONFIGURED"
  /\ pc = "run"
  /\ \/ /\ dev' = InitDevice(dev)
        /\ netif' = (dev'.state = "RUNNING" /\ dev'.rxq /\ dev'.txq)
        /\ UNCHANGED <<pc, why>>
     \/ /\ Halt("no tap")
        /\ UNCHANGED <<dev, netif>>
  /\ UNCHANGED <<table, rx, link>>

(***************************************************************************)
(* Receiving.  uknetdev_poll_all, which select() calls first thing, calls  *)
(* the driver, which has LWIP allocate a buffer.                           *)
(***************************************************************************)
lwip_alloc_netbuf(b) ==
  /\ use' = [use EXCEPT ![b] = "rx"]
  /\ IF CanAdd(LWIP_ipc_tab_heap, b)
     THEN /\ LWIP_ipc_tab_heap' = lwip_ipc_add_heap(LWIP_ipc_tab_heap, b, UKNETDEV)
          /\ pkt' = b
          /\ Goes("pull_rx")
     ELSE /\ Halt("table full")
          /\ UNCHANGED <<LWIP_ipc_tab_heap, pkt>>

(* Nobody checks for NULL before the driver follows the pointer. *)
uknetdev_poll_all ==
  /\ pc = "run"
  /\ netif
  /\ \/ \E b \in FreePages : lwip_alloc_netbuf(b)
     \/ /\ FreePages = {}
        /\ Halt("no page")
        /\ UNCHANGED <<table, pkt>>
  /\ UNCHANGED <<dev, netif, frame, psize, link>>

(* Mutant: the variant that the code has under #if 0. *)
pull_rx_nonblocking ==
  \/ (psize > 0 \/ tap = <<>>) /\ frame' = 0 /\ UNCHANGED tap
  \/ psize = 0 /\ tap # <<>> /\ frame' = Head(tap) /\ tap' = Tail(tap)

(* It waits until the tap has a frame, unless psize says that one is there. *)
pull_rx ==
  \/ psize > 0 /\ frame' = 0 /\ UNCHANGED tap
  \/ psize = 0 /\ tap # <<>> /\ frame' = Head(tap) /\ tap' = Tail(tap)

(* Mutant: psize is not reset. *)
virtio_netdev_recv_kept ==
  /\ pc = "pull_rx"
  /\ pull_rx
  /\ psize' = 1
  /\ use' = [use EXCEPT ![pkt] = "pbuf"]
  /\ Goes("input")
  /\ UNCHANGED <<dev, netif, LWIP_ipc_tab_heap, pkt, sent, received>>

(* The driver has its frame, and uknetdev_input hands the pbuf to lwIP. *)
virtio_netdev_recv ==
  /\ pc = "pull_rx"
  /\ pull_rx
  /\ psize' = 0
  /\ use' = [use EXCEPT ![pkt] = "pbuf"]
  /\ IF Reaches(LWIP_ipc_tab_heap, UKNETDEV, pkt) THEN Goes("input") ELSE Halt("no window")
  /\ UNCHANGED <<dev, netif, LWIP_ipc_tab_heap, pkt, sent, received>>

(* The driver's side of a free gives the block to its own dlmalloc, which  *)
(* did not allocate it: the page does not come back to uk_malloc.          *)
uk_netbuf_free_single(b, path) == use' = [use EXCEPT ![b] = path]

(* nf->input returns ERR_OK, or an error and the pbuf is still ours.  MORE *)
(* is never set, so uknetdev_input takes one frame.                        *)
InputReturns ==
  /\ pc = "input"
  /\ \/ /\ received' = IF frame \in Long THEN received ELSE Append(received, frame)
        /\ UNCHANGED use
     \/ /\ use[pkt] = "pbuf"
        /\ uk_netbuf_free_single(pkt, "refused")
        /\ UNCHANGED received
  /\ pkt' = NULL
  /\ frame' = 0
  /\ Goes("run")
  /\ UNCHANGED <<dev, netif, LWIP_ipc_tab_heap, psize, tap, sent>>

(* lwIP drops its last reference to a pbuf: UKNETDEV looks at the netbuf,  *)
(* then LWIP closes the window.                                            *)
_netbuf_free(b) ==
  /\ pc \in {"run", "input"}
  /\ use[b] = "pbuf"
  /\ uk_netbuf_free_single(b, "freed")
  /\ IF Reaches(LWIP_ipc_tab_heap, UKNETDEV, b)
     THEN /\ LWIP_ipc_tab_heap' = lwip_ipc_remove_heap(LWIP_ipc_tab_heap, b)
          /\ UNCHANGED <<pc, why>>
     ELSE Halt("no window") /\ UNCHANGED LWIP_ipc_tab_heap
  /\ UNCHANGED <<dev, netif, rx, link>>

(***************************************************************************)
(* Sending.  A frame too big for the buffer and one that is sent both keep *)
(* their page; the window of the first stays.  A short write spins.  An    *)
(* allocation that fails is an error to lwIP and changes nothing.          *)
(***************************************************************************)
uknetdev_output(b) ==
  /\ pc \in {"run", "input"}
  /\ netif
  /\ use[b] = "free"
  /\ LET opened == lwip_ipc_add_heap(LWIP_ipc_tab_heap, b, UKNETDEV)
     IN  \/ /\ ~ CanAdd(LWIP_ipc_tab_heap, b)
            /\ use' = [use EXCEPT ![b] = "sent"]
            /\ Halt("table full")
            /\ UNCHANGED LWIP_ipc_tab_heap
         \/ /\ CanAdd(LWIP_ipc_tab_heap, b)
            /\ uk_netbuf_free_single(b, "too big")
            /\ LWIP_ipc_tab_heap' = opened
            /\ UNCHANGED <<pc, why>>
         \/ /\ CanAdd(LWIP_ipc_tab_heap, b)
            /\ use' = [use EXCEPT ![b] = "sent"]
            /\ LWIP_ipc_tab_heap' = lwip_ipc_remove_heap(opened, b)
            /\ UNCHANGED <<pc, why>>
         \/ /\ CanAdd(LWIP_ipc_tab_heap, b)
            /\ use' = [use EXCEPT ![b] = "tx"]
            /\ LWIP_ipc_tab_heap' = opened
            /\ Halt("short write")
  /\ UNCHANGED <<dev, netif, rx, link>>

(***************************************************************************)
(* Sockets: VFSCORE reaches the file of a socket, and frees it after       *)
(* sock_net_close, which leaves the window where it is.                    *)
(***************************************************************************)
sock_fd_alloc(b) ==
  /\ pc = "run"
  /\ use[b] = "free"
  /\ use' = [use EXCEPT ![b] = "vfs_file"]
  /\ IF CanAdd(LWIP_ipc_tab_heap, b)
     THEN /\ LWIP_ipc_tab_heap' = lwip_ipc_add_heap(LWIP_ipc_tab_heap, b, VFSCORE)
          /\ UNCHANGED <<pc, why>>
     ELSE Halt("table full") /\ UNCHANGED LWIP_ipc_tab_heap
  /\ UNCHANGED <<dev, netif, rx, link>>

(* Mutant: the lwip_ipc_remove_heap that is commented out. *)
sock_net_close_removes(b) ==
  /\ pc = "run"
  /\ use[b] = "vfs_file"
  /\ use' = [use EXCEPT ![b] = "free"]
  /\ LWIP_ipc_tab_heap' = lwip_ipc_remove_heap(LWIP_ipc_tab_heap, b)
  /\ IF Reaches(LWIP_ipc_tab_heap', VFSCORE, b) THEN UNCHANGED <<pc, why>>
     ELSE Halt("no window")
  /\ UNCHANGED <<dev, netif, rx, link>>

sock_net_close(b) ==
  /\ pc = "run"
  /\ use[b] = "vfs_file"
  /\ use' = [use EXCEPT ![b] = "free"]
  /\ IF Reaches(LWIP_ipc_tab_heap, VFSCORE, b) THEN UNCHANGED <<pc, why>>
     ELSE Halt("no window")
  /\ UNCHANGED <<dev, netif, LWIP_ipc_tab_heap, rx, link>>

(***************************************************************************)
(* The host: a frame is lost while no one has attached the tap, and when   *)
(* its queue is full.                                                      *)
(***************************************************************************)
HostSends ==
  /\ sent < MaxFrames
  /\ sent' = sent + 1
  /\ tap' = IF dev.state \in {"CONFIGURED", "RUNNING"} /\ Len(tap) < TapQueue
            THEN Append(tap, sent') ELSE tap
  /\ UNCHANGED <<dev, netif, pc, why, table, rx, received>>

Init ==
  /\ dev = [state |-> "none", rxq |-> FALSE, txq |-> FALSE]
  /\ netif = FALSE
  /\ pc = "run"
  /\ why = "none"
  /\ use = [b \in Pages |-> "free"]
  /\ LWIP_ipc_tab_heap = [i \in 1 .. HEAP_MAX |-> NoWindow]
  /\ pkt = NULL /\ frame = 0 /\ psize = 0
  /\ tap = <<>> /\ sent = 0 /\ received = <<>>

Next ==
  \/ net_add
  \/ uknetdev_init
  \/ uknetdev_poll_all
  \/ virtio_netdev_recv
  \/ InputReturns
  \/ \E b \in Pages : _netbuf_free(b)
  \/ \E b \in Pages : uknetdev_output(b)
  \/ \E b \in Pages : sock_fd_alloc(b)
  \/ \E b \in Pages : sock_net_close(b)
  \/ HostSends

(* The boot code brings the interface up, a call that can go on goes on,   *)
(* and the loop of the application comes back to select() again and again. *)
Fairness ==
  /\ WF_vars(net_add)
  /\ WF_vars(uknetdev_init)
  /\ WF_vars(uknetdev_poll_all)
  /\ WF_vars(virtio_netdev_recv)
  /\ WF_vars(InputReturns)

Spec == Init /\ [][Next]_vars /\ Fairness

(***************************************************************************)
(* Properties.                                                             *)
(***************************************************************************)
Uses == {"free", "rx", "pbuf", "vfs_file", "tx", "sent", "too big", "refused", "freed"}

(* The values of the state between the steps; in particular no frame that  *)
(* is queued, in the buffer or received was never sent.                    *)
NetTypeOK ==
  /\ dev \in [state : {"none", "UNCONFIGURED", "CONFIGURED", "RUNNING"},
              rxq : BOOLEAN, txq : BOOLEAN]
  /\ netif \in BOOLEAN
  /\ pc \in {"run", "pull_rx", "input", "halted"}
  /\ why \in {"none", "no tap", "no page", "table full", "short write", "no window"}
  /\ use \in [Pages -> Uses]
  /\ LWIP_ipc_tab_heap \in
       [1 .. HEAP_MAX -> [begin : Pages \cup {NULL}, mask : {UKNETDEV, VFSCORE, "none"}]]
  /\ pkt \in Pages \cup {NULL}
  /\ frame \in 0 .. sent /\ psize \in Nat
  /\ tap \in Seq(1 .. sent) /\ received \in Seq(1 .. sent) /\ sent \in 0 .. MaxFrames

(* As long as the guest runs, whoever still has to touch an object finds   *)
(* it behind a window: UKNETDEV the buffer it fills and the pbufs it will  *)
(* be asked to free, VFSCORE the file of an open socket.  The window that  *)
(* _netbuf_free will close is the driver's, even when a closed socket has  *)
(* left one on the same page.                                              *)
HoldersReach ==
  pc # "halted" =>
    \A b \in Pages :
      /\ use[b] \in {"rx", "pbuf"} =>
           /\ EntriesAt(LWIP_ipc_tab_heap, {b}) # {}
           /\ LWIP_ipc_tab_heap[First(EntriesAt(LWIP_ipc_tab_heap, {b}))].mask = UKNETDEV
      /\ use[b] = "vfs_file" => Reaches(LWIP_ipc_tab_heap, VFSCORE, b)

(* A window for the driver outlives its buffer only on the two paths that  *)
(* free a netbuf without lwip_ipc_remove_heap: the frame lwIP refused and  *)
(* the frame too big to send.                                              *)
WindowsLeft ==
  \A i \in 1 .. HEAP_MAX :
    LWIP_ipc_tab_heap[i].mask = UKNETDEV =>
      use[LWIP_ipc_tab_heap[i].begin] \in {"rx", "pbuf", "tx", "refused", "too big"}

(* The guest stops for the host's faults (no tap, a short write), for want *)
(* of pages and for a full table, never because a cubicle lacks a window.  *)
StopsOnlyWhenExhausted ==
  pc = "halted" =>
    \/ why \in {"no tap", "short write"}
    \/ why = "no page" /\ FreePages = {}
    \/ why = "table full" /\ EntriesAt(LWIP_ipc_tab_heap, {NULL}) = {}

(* The frames between the host and lwIP; the one that lwIP is being handed *)
(* is still under way.                                                     *)
UnderWay == IF pc = "input" THEN <<frame>> \o tap ELSE tap

L == INSTANCE Link WITH queue <- UnderWay

(* pull_rx, virtio_netdev_recv and uknetdev_input hand lwIP the frames of  *)
(* the tap whole, once and in order, a frame that pull_rx cuts off or lwIP *)
(* refuses being lost.                                                     *)
IsLink == L!Spec

(* A frame in the queue of the tap is read and handed to lwIP's input, as  *)
(* long as the guest has pages and windows to go on.                       *)
FramesAreTaken ==
  \A f \in 1 .. MaxFrames :
    (\E i \in 1 .. Len(tap) : tap[i] = f) ~> ((pc = "input" /\ frame = f) \/ pc = "halted")

=============================================================================
