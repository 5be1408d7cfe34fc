--------------------------- MODULE NetPathProofs ---------------------------
(***************************************************************************)
(* The network path (NetPath) for every heap, every size of the window     *)
(* table and every sequence of frames: the windows of packet buffers and   *)
(* sockets, the reasons for which the guest can stop, and the link that    *)
(* lwIP sees.                                                              *)
(***************************************************************************)
EXTENDS NetPath, SequenceTheorems, WellFoundedInduction, TLAPS

-----------------------------------------------------------------------------
(* The entry that a search of the table from its beginning finds.          *)

(* A set of entries that is not empty has a first one. *)
LEMMA FirstFacts ==
  ASSUME NEW S \in SUBSET Nat, S # {}
  PROVE  /\ First(S) \in S
         /\ \A j \in S : First(S) <= j
<1> DEFINE R == {ss \in Nat \X Nat : ss[1] < ss[2]}
<1>1. IsWellFoundedOn(R, Nat)
  BY NatLessThanWellFounded DEF OpToRel
<1>2. PICK x \in S : \A y \in S : ~ (<<y, x>> \in R)
  <2> HIDE DEF R
  <2> QED BY <1>1, WFMin
<1>3. \A y \in S : ~ (y < x)
  BY <1>2
<1>4. \A y \in S : x <= y
  BY <1>3
<1> QED
  BY <1>4 DEF First

Tables ==
  [1 .. HEAP_MAX -> [begin : Pages \cup {NULL}, mask : {UKNETDEV, VFSCORE, "none"}]]

Found(tab, begins, k) ==
  /\ k \in 1 .. HEAP_MAX
  /\ tab[k].begin \in begins
  /\ \A j \in 1 .. HEAP_MAX : tab[j].begin \in begins => k <= j

(* First is the entry that a loop over the table finds. *)
LEMMA FoundFacts ==
  ASSUME NEW tab \in Tables, NEW begins, EntriesAt(tab, begins) # {}
  PROVE  Found(tab, begins, First(EntriesAt(tab, begins)))
<1>1. EntriesAt(tab, begins) \in SUBSET Nat
  BY BoundsAssumption DEF EntriesAt
<1>2. /\ First(EntriesAt(tab, begins)) \in EntriesAt(tab, begins)
      /\ \A j \in EntriesAt(tab, begins) : First(EntriesAt(tab, begins)) <= j
  BY <1>1, FirstFacts
<1> QED
  BY <1>2 DEF EntriesAt, Found

LEMMA FoundUnique ==
  ASSUME NEW tab \in Tables, NEW begins, NEW k, Found(tab, begins, k)
  PROVE  /\ EntriesAt(tab, begins) # {}
         /\ First(EntriesAt(tab, begins)) = k
<1>1. k \in EntriesAt(tab, begins)
  BY DEF Found, EntriesAt
<1>2. Found(tab, begins, First(EntriesAt(tab, begins)))
  BY <1>1, FoundFacts
<1> QED
  BY <1>1, <1>2, BoundsAssumption DEF Found

-----------------------------------------------------------------------------
(* What holds of the table tab and the uses u of the pages.                *)

(* The uses of a page on which the driver can have a window. *)
Windowed == {"rx", "pbuf", "tx", "refused", "too big"}

(* A driver's window has a buffer, and a buffer has one driver's window. *)
TabInv(tab, u) ==
  /\ tab \in Tables
  /\ u \in [Pages -> Uses]
  /\ \A i \in 1 .. HEAP_MAX : tab[i].begin = NULL <=> tab[i].mask = "none"
  /\ \A i, j \in 1 .. HEAP_MAX :
       /\ tab[i].mask = UKNETDEV /\ tab[j].mask = UKNETDEV
       /\ tab[i].begin = tab[j].begin
       => i = j
  /\ \A i \in 1 .. HEAP_MAX :
       tab[i].mask = UKNETDEV =>
         tab[i].begin \in Pages /\ u[tab[i].begin] \in Windowed

(* The window that lwip_ipc_remove_heap(b) finds is the driver's. *)
DriverFinds(tab, b) == \E k : Found(tab, {b}, k) /\ tab[k].mask = UKNETDEV

Holders(tab, u) ==
  \A b \in Pages :
    /\ u[b] \in {"rx", "pbuf"} => DriverFinds(tab, b)
    /\ u[b] = "vfs_file" => Reaches(tab, VFSCORE, b)

Given(tab, u, b) == TabInv(tab, u) /\ Holders(tab, u) /\ b \in Pages

Kept(tab, u) == TabInv(tab, u) /\ Holders(tab, u)

(* A window that lwip_ipc_add_heap writes in entry k. *)
Opened(tab, tab2, b, mask, k) ==
  /\ tab \in Tables /\ b \in Pages /\ mask \in {UKNETDEV, VFSCORE}
  /\ Found(tab, {NULL, b}, k)
  /\ tab2 = [tab EXCEPT ![k] = [begin |-> b, mask |-> mask]]

LEMMA AddFacts ==
  ASSUME NEW tab \in Tables, NEW b \in Pages, CanAdd(tab, b), NEW mask \in {UKNETDEV, VFSCORE}
  PROVE  \E k : Opened(tab, lwip_ipc_add_heap(tab, b, mask), b, mask, k)
BY FoundFacts DEF CanAdd, lwip_ipc_add_heap, Opened

OthersKept(tab, tab2, b, mask, k) ==
  /\ tab2 \in Tables
  /\ \A c \in Pages : c # b /\ DriverFinds(tab, c) => DriverFinds(tab2, c)
  /\ \A c \in Pages : c # b /\ Reaches(tab, VFSCORE, c) => Reaches(tab2, VFSCORE, c)
  /\ Found(tab2, {b}, k) /\ tab2[k] = [begin |-> b, mask |-> mask]

(* Opening a window leaves those on other pages. *)
LEMMA OpenFrame ==
  ASSUME NEW tab, NEW tab2, NEW b, NEW mask, NEW k, Opened(tab, tab2, b, mask, k)
  PROVE  OthersKept(tab, tab2, b, mask, k)
<1>1. /\ tab \in Tables /\ b \in Pages /\ b # NULL
      /\ k \in 1 .. HEAP_MAX
      /\ tab2 = [tab EXCEPT ![k] = [begin |-> b, mask |-> mask]]
  BY PagesAssumption DEF Opened, Found
<1>2. tab2 \in Tables
  BY <1>1 DEF Tables, Opened
<1>3. \A i \in 1 .. HEAP_MAX : i # k => tab2[i] = tab[i]
  BY <1>1 DEF Tables
<1>4. tab2[k] = [begin |-> b, mask |-> mask]
  BY <1>1 DEF Tables
<1>5. ASSUME NEW c \in Pages, c # b, DriverFinds(tab, c)
      PROVE  DriverFinds(tab2, c)
  <2>1. PICK m : Found(tab, {c}, m) /\ tab[m].mask = UKNETDEV
    BY <1>5 DEF DriverFinds
  <2>2. m # k
    BY <2>1, <1>5, PagesAssumption DEF Found, Opened
  <2>3. Found(tab2, {c}, m)
    BY <2>1, <2>2, <1>3, <1>4, <1>5 DEF Found
  <2> QED
    BY <2>1, <2>2, <2>3, <1>3 DEF DriverFinds, Found
<1>6. ASSUME NEW c \in Pages, c # b, Reaches(tab, VFSCORE, c)
      PROVE  Reaches(tab2, VFSCORE, c)
  <2>1. PICK m \in 1 .. HEAP_MAX : tab[m] = [begin |-> c, mask |-> VFSCORE]
    BY <1>6 DEF Reaches
  <2>2. tab[m].begin = c
    BY <2>1
  <2>3. m # k
    BY <2>2, <1>6, PagesAssumption DEF Found, Opened
  <2> QED
    BY <2>1, <2>3, <1>3 DEF Reaches
<1>7. Found(tab2, {b}, k)
  BY <1>1, <1>3, <1>4 DEF Found, Opened
<1> QED
  BY <1>2, <1>4, <1>5, <1>6, <1>7 DEF OthersKept

(* lwip_ipc_add_heap for the driver on a page that uk_malloc returned. *)
LEMMA OpenDriver ==
  ASSUME NEW tab, NEW u, NEW b, Given(tab, u, b), u[b] = "free", CanAdd(tab, b),
         NEW w \in {"rx", "tx", "too big"}
  PROVE  Kept(lwip_ipc_add_heap(tab, b, UKNETDEV), [u EXCEPT ![b] = w])
<1> DEFINE tab2 == lwip_ipc_add_heap(tab, b, UKNETDEV)
           u2 == [u EXCEPT ![b] = w]
<1>1. tab \in Tables /\ TabInv(tab, u) /\ Holders(tab, u) /\ b \in Pages /\ b # NULL
  BY PagesAssumption DEF Given, TabInv
<1>2. PICK k : Opened(tab, tab2, b, UKNETDEV, k)
  BY <1>1, AddFacts
<1> HIDE DEF tab2
<1>3. OthersKept(tab, tab2, b, UKNETDEV, k)
  BY <1>2, OpenFrame
<1>4. /\ k \in 1 .. HEAP_MAX
      /\ \A i \in 1 .. HEAP_MAX : i # k => tab2[i] = tab[i]
      /\ tab2[k].begin = b /\ tab2[k].mask = UKNETDEV
  BY <1>1, <1>2, <1>3 DEF Opened, Found, Tables, OthersKept
<1>5. u2 \in [Pages -> Uses] /\ u2[b] = w /\ \A c \in Pages : c # b => u2[c] = u[c]
  BY <1>1 DEF TabInv, Uses
<1>6. \A i \in 1 .. HEAP_MAX : tab[i].mask = UKNETDEV => tab[i].begin \in Pages \ {b}
  BY <1>1 DEF TabInv, Windowed
<1> HIDE DEF u2
<1>7. TabInv(tab2, u2)
  <2>1. \A i \in 1 .. HEAP_MAX : tab2[i].begin = NULL <=> tab2[i].mask = "none"
    BY <1>1, <1>4 DEF TabInv, UKNETDEV
  <2>2. \A i, j \in 1 .. HEAP_MAX :
          /\ tab2[i].mask = UKNETDEV /\ tab2[j].mask = UKNETDEV
          /\ tab2[i].begin = tab2[j].begin
          => i = j
    <3>1. \A i, j \in 1 .. HEAP_MAX :
            /\ tab[i].mask = UKNETDEV /\ tab[j].mask = UKNETDEV
            /\ tab[i].begin = tab[j].begin
            => i = j
      BY <1>1, Zenon DEF TabInv
    <3>2. \A i \in 1 .. HEAP_MAX : i # k /\ tab2[i].mask = UKNETDEV => tab2[i].begin # b
      BY ONLY <1>4, <1>6
    <3> QED
      BY ONLY <3>1, <3>2, <1>4
  <2>3. ASSUME NEW i \in 1 .. HEAP_MAX, tab2[i].mask = UKNETDEV
        PROVE  tab2[i].begin \in Pages /\ u2[tab2[i].begin] \in Windowed
    <3>1. CASE i = k
      BY <3>1, <1>1, <1>4, <1>5 DEF Windowed
    <3>2. CASE i # k
      <4>1. tab[i].mask = UKNETDEV /\ tab2[i] = tab[i]
        BY <3>2, <2>3, <1>4
      <4>2. tab[i].begin \in Pages /\ tab[i].begin # b /\ u[tab[i].begin] \in Windowed
        BY <4>1, <1>1, <1>6 DEF TabInv
      <4> QED
        BY <4>1, <4>2, <1>5
    <3> QED
      BY <3>1, <3>2
  <2> QED
    BY <1>3, <1>5, <2>1, <2>2, <2>3 DEF TabInv, OthersKept
<1>8. DriverFinds(tab2, b)
  BY <1>3, <1>4 DEF DriverFinds, OthersKept
<1>9. Holders(tab2, u2)
  BY <1>1, <1>3, <1>5, <1>8 DEF Holders, OthersKept
<1> QED
  BY <1>7, <1>9 DEF Kept, tab2, u2

(* lwip_ipc_add_heap for VFSCORE on the file of a new socket. *)
LEMMA OpenFile ==
  ASSUME NEW tab, NEW u, NEW b, Given(tab, u, b), u[b] = "free", CanAdd(tab, b)
  PROVE  Kept(lwip_ipc_add_heap(tab, b, VFSCORE), [u EXCEPT ![b] = "vfs_file"])
<1> DEFINE tab2 == lwip_ipc_add_heap(tab, b, VFSCORE)
           u2 == [u EXCEPT ![b] = "vfs_file"]
<1>1. tab \in Tables /\ TabInv(tab, u) /\ Holders(tab, u) /\ b \in Pages /\ b # NULL
  BY PagesAssumption DEF Given, TabInv
<1>2. PICK k : Opened(tab, tab2, b, VFSCORE, k)
  BY <1>1, AddFacts
<1> HIDE DEF tab2
<1>3. OthersKept(tab, tab2, b, VFSCORE, k)
  BY <1>2, OpenFrame
<1>4. /\ k \in 1 .. HEAP_MAX
      /\ \A i \in 1 .. HEAP_MAX : i # k => tab2[i] = tab[i]
      /\ tab2[k].begin = b /\ tab2[k].mask = VFSCORE
  BY <1>1, <1>2, <1>3 DEF Opened, Found, Tables, OthersKept
<1>5. u2 \in [Pages -> Uses] /\ u2[b] = "vfs_file" /\ \A c \in Pages : c # b => u2[c] = u[c]
  BY <1>1 DEF TabInv, Uses
<1>6. \A i \in 1 .. HEAP_MAX : tab[i].mask = UKNETDEV => tab[i].begin \in Pages \ {b}
  BY <1>1 DEF TabInv, Windowed
<1> HIDE DEF u2
<1>7. TabInv(tab2, u2)
  <2>1. \A i \in 1 .. HEAP_MAX : tab2[i].begin = NULL <=> tab2[i].mask = "none"
    BY <1>1, <1>4 DEF TabInv, VFSCORE
  <2>2. \A i \in 1 .. HEAP_MAX : tab2[i].mask = UKNETDEV => i # k /\ tab[i].mask = UKNETDEV
    BY <1>4 DEF UKNETDEV, VFSCORE
  <2>3. \A i, j \in 1 .. HEAP_MAX :
          /\ tab2[i].mask = UKNETDEV /\ tab2[j].mask = UKNETDEV
          /\ tab2[i].begin = tab2[j].begin
          => i = j
    BY <1>1, <1>4, <2>2 DEF TabInv
  <2>4. ASSUME NEW i \in 1 .. HEAP_MAX, tab2[i].mask = UKNETDEV
        PROVE  tab2[i].begin \in Pages /\ u2[tab2[i].begin] \in Windowed
    <3>1. tab[i].mask = UKNETDEV /\ i # k /\ tab2[i] = tab[i]
      BY <2>2, <2>4, <1>4
    <3>2. tab[i].begin \in Pages /\ tab[i].begin # b /\ u[tab[i].begin] \in Windowed
      BY <3>1, <1>1, <1>6 DEF TabInv
    <3> QED
      BY <3>1, <3>2, <1>5
  <2> QED
    BY <1>3, <1>5, <2>1, <2>3, <2>4 DEF TabInv, OthersKept
<1>8. Reaches(tab2, VFSCORE, b)
  BY <1>3, <1>4 DEF Reaches, OthersKept
<1>9. Holders(tab2, u2)
  BY <1>1, <1>3, <1>5, <1>8 DEF Holders, OthersKept
<1> QED
  BY <1>7, <1>9 DEF Kept, tab2, u2

(* lwip_ipc_remove_heap on a buffer that the driver is done with. *)
LEMMA CloseDriver ==
  ASSUME NEW tab, NEW u, NEW b, Given(tab, u, b), u[b] \in {"rx", "pbuf"},
         NEW w \in {"freed", "sent"}
  PROVE  Kept(lwip_ipc_remove_heap(tab, b), [u EXCEPT ![b] = w])
<1> DEFINE tab2 == lwip_ipc_remove_heap(tab, b)
           u2 == [u EXCEPT ![b] = w]
<1>1. tab \in Tables /\ TabInv(tab, u) /\ Holders(tab, u) /\ b \in Pages /\ b # NULL
  BY PagesAssumption DEF Given, TabInv
<1>2. PICK k : Found(tab, {b}, k) /\ tab[k].mask = UKNETDEV
  BY <1>1 DEF Holders, DriverFinds
<1>3. k \in 1 .. HEAP_MAX /\ tab[k].begin = b /\ tab2 = [tab EXCEPT ![k] = NoWindow]
  BY <1>1, <1>2, FoundUnique DEF lwip_ipc_remove_heap, Found
<1> HIDE DEF tab2
<1>4. /\ tab2 \in Tables
      /\ \A i \in 1 .. HEAP_MAX : i # k => tab2[i] = tab[i]
      /\ tab2[k].begin = NULL /\ tab2[k].mask = "none"
  BY <1>1, <1>3 DEF Tables, NoWindow
<1>5. u2 \in [Pages -> Uses] /\ u2[b] = w /\ \A c \in Pages : c # b => u2[c] = u[c]
  BY <1>1 DEF TabInv, Uses
<1>6. \A i \in 1 .. HEAP_MAX : i # k /\ tab[i].mask = UKNETDEV => tab[i].begin \in Pages \ {b}
  BY <1>1, <1>2, <1>3 DEF TabInv
<1> HIDE DEF u2
<1>7. TabInv(tab2, u2)
  <2>1. \A i \in 1 .. HEAP_MAX : tab2[i].begin = NULL <=> tab2[i].mask = "none"
    BY <1>1, <1>4 DEF TabInv
  <2>2. \A i \in 1 .. HEAP_MAX : tab2[i].mask = UKNETDEV => i # k /\ tab[i].mask = UKNETDEV
    BY <1>4 DEF UKNETDEV
  <2>3. \A i, j \in 1 .. HEAP_MAX :
          /\ tab2[i].mask = UKNETDEV /\ tab2[j].mask = UKNETDEV
          /\ tab2[i].begin = tab2[j].begin
          => i = j
    BY <1>1, <1>4, <2>2 DEF TabInv
  <2>4. ASSUME NEW i \in 1 .. HEAP_MAX, tab2[i].mask = UKNETDEV
        PROVE  tab2[i].begin \in Pages /\ u2[tab2[i].begin] \in Windowed
    <3>1. tab[i].mask = UKNETDEV /\ i # k /\ tab2[i] = tab[i]
      BY <2>2, <2>4, <1>4
    <3>2. tab[i].begin \in Pages /\ tab[i].begin # b /\ u[tab[i].begin] \in Windowed
      BY <3>1, <1>1, <1>6 DEF TabInv
    <3> QED
      BY <3>1, <3>2, <1>5
  <2> QED
    BY <1>4, <1>5, <2>1, <2>3, <2>4 DEF TabInv
<1>8. ASSUME NEW c \in Pages, c # b, DriverFinds(tab, c)
      PROVE  DriverFinds(tab2, c)
  <2>1. PICK m : Found(tab, {c}, m) /\ tab[m].mask = UKNETDEV
    BY <1>8 DEF DriverFinds
  <2>2. m # k
    BY <2>1, <1>3, <1>8 DEF Found
  <2>3. Found(tab2, {c}, m)
    BY <2>1, <2>2, <1>4, <1>8, PagesAssumption DEF Found
  <2> QED
    BY <2>1, <2>2, <2>3, <1>4 DEF DriverFinds, Found
<1>9. ASSUME NEW c \in Pages, c # b, Reaches(tab, VFSCORE, c)
      PROVE  Reaches(tab2, VFSCORE, c)
  <2>1. PICK m \in 1 .. HEAP_MAX : tab[m] = [begin |-> c, mask |-> VFSCORE]
    BY <1>9 DEF Reaches
  <2>2. m # k
    BY <2>1, <1>3, <1>9
  <2> QED
    BY <2>1, <2>2, <1>4 DEF Reaches
<1>10. Holders(tab2, u2)
  BY <1>1, <1>5, <1>8, <1>9 DEF Holders
<1> QED
  BY <1>7, <1>10 DEF Kept, tab2, u2

(* The other steps leave the table: a buffer is received into, refused by  *)
(* lwIP, or the file of a socket is freed.                                 *)
LEMMA UseChanges ==
  ASSUME NEW tab, NEW u, NEW b, Given(tab, u, b), NEW w,
         \/ u[b] \in {"rx", "pbuf"} /\ w \in {"pbuf", "refused"}
         \/ u[b] = "vfs_file" /\ w = "free"
  PROVE  Kept(tab, [u EXCEPT ![b] = w])
<1> DEFINE u2 == [u EXCEPT ![b] = w]
<1>1. TabInv(tab, u) /\ Holders(tab, u) /\ b \in Pages
  BY DEF Given
<1>2. u2 \in [Pages -> Uses] /\ u2[b] = w /\ \A c \in Pages : c # b => u2[c] = u[c]
  BY <1>1 DEF TabInv, Uses
<1> HIDE DEF u2
<1>3. u[b] \in Windowed => u2[b] \in Windowed
  BY <1>2 DEF Windowed
<1>4. TabInv(tab, u2)
  BY <1>1, <1>2, <1>3 DEF TabInv
<1>5. Holders(tab, u2)
  BY <1>1, <1>2 DEF Holders
<1> QED
  BY <1>4, <1>5 DEF Kept, u2

(* A page is taken and the table turns out to be full. *)
LEMMA UseTaken ==
  ASSUME NEW tab, NEW u, NEW b, Given(tab, u, b), u[b] = "free",
         NEW w \in {"rx", "sent", "vfs_file"}
  PROVE  TabInv(tab, [u EXCEPT ![b] = w])
<1> DEFINE u2 == [u EXCEPT ![b] = w]
<1>1. TabInv(tab, u) /\ b \in Pages
  BY DEF Given
<1>2. u2 \in [Pages -> Uses] /\ \A c \in Pages : c # b => u2[c] = u[c]
  BY <1>1 DEF TabInv, Uses
<1> HIDE DEF u2
<1>3. u[b] \notin Windowed
  BY DEF Windowed
<1>4. TabInv(tab, u2)
  BY <1>1, <1>2, <1>3 DEF TabInv
<1> QED
  BY <1>4 DEF u2

-----------------------------------------------------------------------------
(* The inductive invariant: what holds of the table, and which buffer the  *)
(* driver and lwIP are at.                                                 *)

Tab == LWIP_ipc_tab_heap

RxInv ==
  /\ psize = 0
  /\ pc = "pull_rx" => pkt \in Pages /\ use[pkt] = "rx"
  /\ pc = "input" => pkt \in Pages /\ frame \in 1 .. sent

WindowInv ==
  /\ TabInv(Tab, use)
  /\ pc # "halted" => Holders(Tab, use)
  /\ StopsOnlyWhenExhausted

NetInv == NetTypeOK /\ WindowInv /\ RxInv

(* The variables that a step of the table leaves alone. *)
LEMMA FrameStep ==
  ASSUME NetInv, UNCHANGED <<dev, netif, rx, link>>, WindowInv',
         pc' \in {pc, "halted"}, why' \in {why, "table full", "short write", "no window"},
         pc' = "pull_rx" => UNCHANGED use
  PROVE  NetInv'
<1>1. NetTypeOK'
  <2>1. use' \in [Pages -> Uses] /\ LWIP_ipc_tab_heap' \in Tables
    BY DEF WindowInv, TabInv, Tab
  <2>2. /\ pc' \in {"run", "pull_rx", "input", "halted"}
        /\ why' \in {"none", "no tap", "no page", "table full", "short write", "no window"}
    BY DEF NetInv, NetTypeOK
  <2>3. UNCHANGED <<dev, netif, pkt, frame, psize, tap, sent, received>>
    BY DEF rx, link
  <2> QED
    BY <2>1, <2>2, <2>3, Zenon DEF NetInv, NetTypeOK, Tables
<1>2. RxInv'
  BY DEF NetInv, RxInv, rx, link
<1> QED
  BY <1>1, <1>2 DEF NetInv

LEMMA DriverReaches ==
  ASSUME NEW tab, NEW u, NEW b, Given(tab, u, b), u[b] \in {"rx", "pbuf"}
  PROVE  Reaches(tab, UKNETDEV, b)
<1>1. PICK k : Found(tab, {b}, k) /\ tab[k].mask = UKNETDEV
  BY DEF Given, Holders, DriverFinds
<1>2. k \in 1 .. HEAP_MAX /\ tab[k].begin = b
  BY <1>1 DEF Found
<1>3. tab[k] = [begin |-> b, mask |-> UKNETDEV]
  BY <1>1, <1>2 DEF Given, TabInv, Tables
<1> QED
  BY <1>2, <1>3 DEF Reaches

LEMMA FullTable ==
  ASSUME NEW tab, NEW b, ~ CanAdd(tab, b)
  PROVE  EntriesAt(tab, {NULL}) = {}
BY DEF CanAdd, EntriesAt

(* A step that goes on and one that halts for a full table. *)
LEMMA GoesOn ==
  ASSUME Kept(Tab', use'), pc # "halted", pc' # "halted"
  PROVE  WindowInv'
BY DEF Kept, WindowInv, StopsOnlyWhenExhausted, Tab

LEMMA HaltsFull ==
  ASSUME TabInv(Tab', use'), pc' = "halted", why' = "table full",
         EntriesAt(Tab', {NULL}) = {}
  PROVE  WindowInv'
BY DEF WindowInv, StopsOnlyWhenExhausted, Tab

LEMMA GivenNow ==
  ASSUME NetInv, pc # "halted", NEW b \in Pages
  PROVE  Given(Tab, use, b)
BY DEF NetInv, WindowInv, Given

LEMMA NetbufFreeStep ==
  ASSUME NetInv, NEW b \in Pages, _netbuf_free(b)
  PROVE  NetInv'
<1>1. Given(Tab, use, b) /\ pc # "halted" /\ use[b] = "pbuf"
  BY GivenNow DEF _netbuf_free
<1>2. Reaches(Tab, UKNETDEV, b)
  BY <1>1, DriverReaches
<1>3. /\ use' = [use EXCEPT ![b] = "freed"] /\ Tab' = lwip_ipc_remove_heap(Tab, b)
      /\ UNCHANGED <<pc, why, dev, netif, rx, link>>
  BY <1>2 DEF _netbuf_free, Tab, uk_netbuf_free_single
<1>4. Kept(Tab', use')
  BY <1>1, <1>3, CloseDriver
<1>5. WindowInv'
  BY <1>1, <1>3, <1>4, GoesOn
<1>6. pc # "pull_rx"
  BY DEF _netbuf_free
<1> QED
  BY <1>3, <1>5, <1>6, FrameStep

LEMMA SocketStep ==
  ASSUME NetInv, NEW b \in Pages, sock_fd_alloc(b)
  PROVE  NetInv'
<1>1. /\ Given(Tab, use, b) /\ pc = "run" /\ use[b] = "free"
      /\ use' = [use EXCEPT ![b] = "vfs_file"]
      /\ UNCHANGED <<dev, netif, rx, link>>
  BY GivenNow DEF sock_fd_alloc
<1>2. CASE CanAdd(Tab, b)
  <2>1. Tab' = lwip_ipc_add_heap(Tab, b, VFSCORE) /\ UNCHANGED <<pc, why>>
    BY <1>2 DEF sock_fd_alloc, Tab
  <2>2. Kept(Tab', use')
    BY <1>1, <1>2, <2>1, OpenFile
  <2>3. WindowInv'
    BY <1>1, <2>1, <2>2, GoesOn
  <2> QED
    BY <1>1, <2>1, <2>3, FrameStep
<1>3. CASE ~ CanAdd(Tab, b)
  <2>1. Tab' = Tab /\ pc' = "halted" /\ why' = "table full"
    BY <1>3 DEF sock_fd_alloc, Tab, Halt
  <2>2. TabInv(Tab', use')
    BY <1>1, <2>1, UseTaken
  <2>3. WindowInv'
    BY <1>3, <2>1, <2>2, FullTable, HaltsFull
  <2> QED
    BY <1>1, <2>1, <2>3, FrameStep
<1> QED
  BY <1>2, <1>3

LEMMA CloseStep ==
  ASSUME NetInv, NEW b \in Pages, sock_net_close(b)
  PROVE  NetInv'
<1>1. /\ Given(Tab, use, b) /\ pc = "run" /\ use[b] = "vfs_file"
      /\ use' = [use EXCEPT ![b] = "free"] /\ Tab' = Tab
      /\ UNCHANGED <<dev, netif, rx, link>>
  BY GivenNow DEF sock_net_close, Tab
<1>2. Reaches(Tab, VFSCORE, b)
  BY <1>1 DEF Given, Holders
<1>3. UNCHANGED <<pc, why>>
  BY <1>2 DEF sock_net_close, Tab
<1>4. Kept(Tab', use')
  BY <1>1, UseChanges
<1>5. WindowInv'
  BY <1>1, <1>3, <1>4, GoesOn
<1> QED
  BY <1>1, <1>3, <1>5, FrameStep

(* The four ways out of uknetdev_output. *)
LEMMA OutputStep ==
  ASSUME NetInv, NEW b \in Pages, uknetdev_output(b)
  PROVE  NetInv'
<1> DEFINE opened == lwip_ipc_add_heap(Tab, b, UKNETDEV)
<1>1. /\ Given(Tab, use, b) /\ pc \in {"run", "input"} /\ use[b] = "free"
      /\ UNCHANGED <<dev, netif, rx, link>>
  BY GivenNow DEF uknetdev_output
<1>2. CASE /\ ~ CanAdd(Tab, b) /\ use' = [use EXCEPT ![b] = "sent"]
           /\ pc' = "halted" /\ why' = "table full" /\ Tab' = Tab
  <2>1. TabInv(Tab', use')
    BY <1>1, <1>2, UseTaken
  <2>2. WindowInv'
    BY <1>2, <2>1, FullTable, HaltsFull
  <2> QED
    BY <1>1, <1>2, <2>2, FrameStep
<1>3. CASE /\ CanAdd(Tab, b) /\ use' = [use EXCEPT ![b] = "too big"]
           /\ Tab' = opened /\ UNCHANGED <<pc, why>>
  <2>1. Kept(Tab', use')
    BY <1>1, <1>3, OpenDriver
  <2>2. WindowInv'
    BY <1>1, <1>3, <2>1, GoesOn
  <2> QED
    BY <1>1, <1>3, <2>2, FrameStep
<1>4. CASE /\ CanAdd(Tab, b) /\ use' = [use EXCEPT ![b] = "sent"]
           /\ Tab' = lwip_ipc_remove_heap(opened, b) /\ UNCHANGED <<pc, why>>
  <2> DEFINE held == [use EXCEPT ![b] = "rx"]
  <2>1. Given(opened, held, b)
    BY <1>1, <1>4, OpenDriver DEF Given, Kept
  <2>2. use \in [Pages -> Uses] /\ b \in Pages
    BY <1>1 DEF Given, TabInv
  <2>3. held[b] = "rx" /\ use' = [held EXCEPT ![b] = "sent"]
    BY <1>4, <2>2
  <2> HIDE DEF held, opened
  <2>4. Kept(Tab', use')
    <3>1. Kept(lwip_ipc_remove_heap(opened, b), [held EXCEPT ![b] = "sent"])
      BY <2>1, <2>3, CloseDriver
    <3> QED
      BY <1>4, <2>3, <3>1, Zenon
  <2>5. WindowInv'
    BY <1>1, <1>4, <2>4, GoesOn
  <2> QED
    BY <1>1, <1>4, <2>5, FrameStep
<1>5. CASE /\ CanAdd(Tab, b) /\ use' = [use EXCEPT ![b] = "tx"]
           /\ Tab' = opened /\ pc' = "halted" /\ why' = "short write"
  <2>1. Kept(Tab', use')
    BY <1>1, <1>5, OpenDriver
  <2>2. WindowInv'
    BY <1>5, <2>1 DEF Kept, WindowInv, StopsOnlyWhenExhausted, Tab
  <2> QED
    BY <1>1, <1>5, <2>2, FrameStep
<1> QED
  BY <1>2, <1>3, <1>4, <1>5 DEF uknetdev_output, Tab, Halt, uk_netbuf_free_single

(* A buffer for the next frame, or the end for want of a page or entry. *)
LEMMA PollStep ==
  ASSUME NetInv, uknetdev_poll_all
  PROVE  NetInv'
<1>1. pc = "run" /\ UNCHANGED <<dev, netif, frame, psize, link>>
  BY DEF uknetdev_poll_all
<1>2. ASSUME NEW b \in FreePages, lwip_alloc_netbuf(b)
      PROVE  NetInv'
  <2>1. Given(Tab, use, b) /\ use[b] = "free" /\ b \in Pages
    BY <1>1, <1>2, GivenNow DEF FreePages
  <2>2. use' = [use EXCEPT ![b] = "rx"] /\ use'[b] = "rx"
    BY <1>2, <2>1 DEF lwip_alloc_netbuf, Given, TabInv
  <2>3. CASE CanAdd(Tab, b)
    <3>1. /\ Tab' = lwip_ipc_add_heap(Tab, b, UKNETDEV)
          /\ pkt' = b /\ pc' = "pull_rx" /\ why' = why
      BY <1>2, <2>3 DEF lwip_alloc_netbuf, Tab, Goes
    <3>2. Kept(Tab', use')
      BY <2>1, <2>2, <2>3, <3>1, OpenDriver
    <3>3. WindowInv'
      BY <1>1, <3>1, <3>2, GoesOn
    <3>4. RxInv'
      BY <1>1, <2>1, <2>2, <3>1 DEF NetInv, RxInv
    <3>5. use' \in [Pages -> Uses] /\ LWIP_ipc_tab_heap' \in Tables
      BY <3>2 DEF Kept, TabInv, Tab
    <3>6. NetTypeOK'
      BY <1>1, <2>1, <3>1, <3>5, Zenon DEF NetInv, NetTypeOK, Tables, link
    <3> QED
      BY <3>3, <3>4, <3>6 DEF NetInv
  <2>4. CASE ~ CanAdd(Tab, b)
    <3>1. Tab' = Tab /\ pc' = "halted" /\ why' = "table full" /\ pkt' = pkt
      BY <1>2, <2>4 DEF lwip_alloc_netbuf, Tab, Halt
    <3>2. TabInv(Tab', use')
      BY <2>1, <2>2, <3>1, UseTaken
    <3>3. WindowInv'
      BY <2>4, <3>1, <3>2, FullTable, HaltsFull
    <3> QED
      BY <1>1, <3>1, <3>3, FrameStep DEF rx
  <2> QED
    BY <2>3, <2>4
<1>3. ASSUME FreePages = {}, Halt("no page"), UNCHANGED <<table, pkt>>
      PROVE  NetInv'
  <2>1. /\ pc' = "halted" /\ why' = "no page" /\ Tab' = Tab /\ use' = use
        /\ LWIP_ipc_tab_heap' = LWIP_ipc_tab_heap
    BY <1>3 DEF Halt, table, Tab
  <2>2. FreePages' = {}
    BY <1>3, <2>1 DEF FreePages
  <2>3. WindowInv'
    BY <2>1, <2>2 DEF NetInv, WindowInv, StopsOnlyWhenExhausted
  <2>4. RxInv'
    BY <1>1, <2>1 DEF NetInv, RxInv
  <2>5. NetTypeOK'
    BY <1>1, <1>3, <2>1, Zenon DEF NetInv, NetTypeOK, link
  <2> QED
    BY <2>3, <2>4, <2>5 DEF NetInv
<1> QED
  BY <1>2, <1>3 DEF uknetdev_poll_all

LEMMA SentIsNat ==
  ASSUME NetInv
  PROVE  sent \in Nat
<1>1. sent \in 0 .. MaxFrames
  BY Zenon DEF NetInv, NetTypeOK
<1> QED
  BY <1>1, BoundsAssumption

(* The driver has read the first frame of the tap. *)
LEMMA RecvStep ==
  ASSUME NetInv, virtio_netdev_recv
  PROVE  NetInv'
<1>1. /\ pc = "pull_rx" /\ pkt \in Pages /\ use[pkt] = "rx" /\ psize = 0
      /\ Tab' = Tab /\ LWIP_ipc_tab_heap' = LWIP_ipc_tab_heap
      /\ use' = [use EXCEPT ![pkt] = "pbuf"]
      /\ psize' = 0 /\ UNCHANGED <<dev, netif, pkt, sent, received>>
  BY DEF virtio_netdev_recv, NetInv, RxInv, Tab
<1>2. Given(Tab, use, pkt)
  BY <1>1, GivenNow
<1>3. pc' = "input" /\ why' = why
  BY <1>1, <1>2, DriverReaches DEF virtio_netdev_recv, Goes, Tab
<1>4. tap # <<>> /\ frame' = Head(tap) /\ tap' = Tail(tap)
  <2>1. ~ (psize > 0)
    BY <1>1
  <2> QED
    BY <2>1, Zenon DEF virtio_netdev_recv, pull_rx
<1>5. tap \in Seq(1 .. sent) /\ sent \in Nat /\ sent' = sent
  BY <1>1, SentIsNat, Zenon DEF NetInv, NetTypeOK
<1>6. frame' \in 1 .. sent' /\ tap' \in Seq(1 .. sent')
  BY <1>4, <1>5
<1>7. Kept(Tab', use')
  BY <1>1, <1>2, UseChanges
<1>8. WindowInv'
  BY <1>1, <1>3, <1>7, GoesOn
<1>9. RxInv'
  BY <1>1, <1>3, <1>6 DEF RxInv
<1>10. NetTypeOK'
  <2>1. use' \in [Pages -> Uses] /\ frame' \in 0 .. sent' /\ psize' \in Nat
    BY <1>1, <1>5, <1>6, <1>7 DEF Kept, TabInv
  <2> QED
    BY <1>1, <1>3, <1>6, <2>1, Zenon DEF NetInv, NetTypeOK
<1> QED
  BY <1>8, <1>9, <1>10 DEF NetInv

(* lwIP has taken or refused the frame. *)
LEMMA InputStep ==
  ASSUME NetInv, InputReturns
  PROVE  NetInv'
<1>1. /\ pc = "input" /\ pc' = "run" /\ why' = why
      /\ pkt \in Pages /\ frame \in 1 .. sent
      /\ Tab' = Tab /\ LWIP_ipc_tab_heap' = LWIP_ipc_tab_heap
      /\ pkt' = NULL /\ frame' = 0
      /\ UNCHANGED <<dev, netif, psize, tap, sent>>
  BY DEF InputReturns, NetInv, RxInv, Goes, Tab
<1>2. Given(Tab, use, pkt)
  BY <1>1, GivenNow
<1>3. Kept(Tab', use')
  <2>1. CASE use' = use
    BY <1>1, <1>2, <2>1 DEF Given, Kept
  <2>2. CASE use[pkt] = "pbuf" /\ use' = [use EXCEPT ![pkt] = "refused"]
    BY <1>1, <1>2, <2>2, UseChanges
  <2> QED
    BY <2>1, <2>2 DEF InputReturns, uk_netbuf_free_single
<1>4. WindowInv'
  BY <1>1, <1>3, GoesOn
<1>5. RxInv'
  BY <1>1 DEF NetInv, RxInv
<1>6. received \in Seq(1 .. sent) /\ sent' = sent /\ sent \in Nat
  BY <1>1, SentIsNat, Zenon DEF NetInv, NetTypeOK
<1>7. received' \in Seq(1 .. sent')
  <2>1. received' = received \/ received' = Append(received, frame)
    BY Zenon DEF InputReturns
  <2> DEFINE S == 1 .. sent
  <2>2. received \in Seq(S) /\ frame \in S
    BY <1>1, <1>6
  <2> HIDE DEF S
  <2>3. received' \in Seq(S)
    BY <2>1, <2>2
  <2> QED
    BY <1>6, <2>3 DEF S
<1>8. NetTypeOK'
  <2>1. use' \in [Pages -> Uses] /\ frame' \in 0 .. sent' /\ pkt' \in Pages \cup {NULL}
    BY <1>1, <1>3, <1>6 DEF Kept, TabInv
  <2> QED
    BY <1>1, <1>7, <2>1, Zenon DEF NetInv, NetTypeOK
<1> QED
  BY <1>4, <1>5, <1>8 DEF NetInv

(* The host has sent a frame, which is at the tap or lost. *)
LEMMA HostStep ==
  ASSUME NetInv, HostSends
  PROVE  NetInv'
<1>1. /\ sent < MaxFrames /\ sent' = sent + 1 /\ sent \in Nat
      /\ tap' \in {tap, Append(tap, sent')}
      /\ UNCHANGED <<dev, netif, pc, why, use, LWIP_ipc_tab_heap, pkt, frame, psize, received>>
  BY SentIsNat DEF HostSends, table, rx
<1>2. Tab' = Tab /\ FreePages' = FreePages
  BY <1>1 DEF Tab, FreePages
<1>3. WindowInv'
  BY <1>1, <1>2 DEF NetInv, WindowInv, StopsOnlyWhenExhausted
<1>4. 1 .. sent \subseteq 1 .. sent' /\ sent' \in 1 .. sent' /\ sent' \in 0 .. MaxFrames
  BY <1>1, BoundsAssumption
<1>5. RxInv'
  BY <1>1, <1>4 DEF NetInv, RxInv
<1>6. frame' \in 0 .. sent'
  <2>1. frame \in 0 .. sent
    BY Zenon DEF NetInv, NetTypeOK
  <2> QED
    BY <1>1, <2>1
<1>7. tap' \in Seq(1 .. sent') /\ received' \in Seq(1 .. sent')
  <2> DEFINE S == 1 .. sent
             T == 1 .. sent'
  <2>1. tap \in Seq(S) /\ received \in Seq(S)
    BY Zenon DEF NetInv, NetTypeOK
  <2>2. S \subseteq T /\ sent' \in T
    BY <1>4
  <2> HIDE DEF S, T
  <2>3. tap \in Seq(T) /\ received \in Seq(T)
    BY <2>1, <2>2, SeqMonotonic
  <2>4. Append(tap, sent') \in Seq(T)
    BY <2>2, <2>3
  <2>5. tap' \in Seq(T) /\ received' \in Seq(T)
    BY <1>1, <2>3, <2>4
  <2> QED
    BY <2>5 DEF T
<1>8. NetTypeOK'
  BY <1>1, <1>4, <1>6, <1>7, Zenon DEF NetInv, NetTypeOK
<1> QED
  BY <1>3, <1>5, <1>8 DEF NetInv

(* The interface is registered and brought up. *)
LEMMA BringUpStep ==
  ASSUME NetInv, net_add \/ uknetdev_init
  PROVE  NetInv'
<1> DEFINE Devices == [state : {"none", "UNCONFIGURED", "CONFIGURED", "RUNNING"},
                       rxq : BOOLEAN, txq : BOOLEAN]
<1>1. /\ UNCHANGED <<use, LWIP_ipc_tab_heap, pkt, frame, psize, tap, sent, received>>
      /\ pc = "run"
  BY DEF net_add, uknetdev_init, table, rx, link
<1>2. Tab' = Tab /\ FreePages' = FreePages
  BY <1>1 DEF Tab, FreePages
<1>3. \/ pc' = pc /\ why' = why
      \/ pc' = "halted" /\ why' = "no tap"
  BY DEF net_add, uknetdev_init, Halt
<1>4. dev' \in Devices
  <2>1. dev \in Devices
    BY Zenon DEF NetInv, NetTypeOK
  <2>2. \A d \in Devices : /\ uk_netdev_configure(d) \in Devices
                           /\ uk_netdev_rxq_configure(d) \in Devices
                           /\ uk_netdev_txq_configure(d) \in Devices
                           /\ uk_netdev_start(d) \in Devices
    BY DEF uk_netdev_configure, uk_netdev_rxq_configure, uk_netdev_txq_configure,
           uk_netdev_start
  <2>3. [dev EXCEPT !.state = "UNCONFIGURED"] \in Devices
    BY <2>1
  <2> HIDE DEF Devices
  <2>4. InitDevice(dev) \in Devices
    BY <2>1, <2>2, Zenon DEF InitDevice
  <2> QED
    BY <2>1, <2>3, <2>4, Zenon DEF net_add, uknetdev_init
<1>5. netif' \in BOOLEAN
  <2>1. netif \in BOOLEAN
    BY Zenon DEF NetInv, NetTypeOK
  <2> QED
    BY <2>1, Zenon DEF net_add, uknetdev_init
<1>6. WindowInv'
  BY <1>1, <1>2, <1>3 DEF NetInv, WindowInv, StopsOnlyWhenExhausted
<1>7. RxInv'
  BY <1>1, <1>3 DEF NetInv, RxInv
<1>8. NetTypeOK'
  BY <1>1, <1>3, <1>4, <1>5, Zenon DEF NetInv, NetTypeOK
<1> QED
  BY <1>6, <1>7, <1>8 DEF NetInv

LEMMA NetInvInit == Init => NetInv
<1> SUFFICES ASSUME Init PROVE NetInv
  OBVIOUS
<1>1. TabInv(Tab, use) /\ Holders(Tab, use)
  BY DEF Init, TabInv, Holders, Tab, Tables, NoWindow, Uses, UKNETDEV
<1>2. use \in [Pages -> Uses] /\ LWIP_ipc_tab_heap \in Tables
  BY <1>1 DEF TabInv, Tab
<1>3. frame \in 0 .. sent /\ psize \in Nat /\ sent \in 0 .. MaxFrames
  BY BoundsAssumption DEF Init
<1>4. tap \in Seq(1 .. sent) /\ received \in Seq(1 .. sent)
  BY DEF Init
<1>5. netif \in BOOLEAN
  BY Zenon DEF Init
<1>6. dev \in [state : {"none", "UNCONFIGURED", "CONFIGURED", "RUNNING"},
              rxq : BOOLEAN, txq : BOOLEAN]
  BY DEF Init
<1>7. /\ pc \in {"run", "pull_rx", "input", "halted"}
      /\ why \in {"none", "no tap", "no page", "table full", "short write", "no window"}
      /\ pkt \in Pages \cup {NULL}
  BY DEF Init
<1>8. NetTypeOK
  BY <1>2, <1>3, <1>4, <1>5, <1>6, <1>7, Zenon DEF NetTypeOK, Tables
<1> QED
  BY <1>1, <1>8 DEF Init, NetInv, WindowInv, RxInv, StopsOnlyWhenExhausted

LEMMA NetInvStep == NetInv /\ [Next]_vars => NetInv'
<1> SUFFICES ASSUME NetInv, [Next]_vars PROVE NetInv'
  OBVIOUS
<1>1. CASE UNCHANGED vars
  <2>1. UNCHANGED <<dev, netif, pc, why, use, LWIP_ipc_tab_heap, pkt, frame, psize,
                    tap, sent, received>>
    BY <1>1 DEF vars, table, rx, link
  <2>2. Tab' = Tab /\ FreePages' = FreePages
    BY <2>1 DEF Tab, FreePages
  <2>3. WindowInv'
    BY <2>1, <2>2 DEF NetInv, WindowInv, StopsOnlyWhenExhausted
  <2>4. RxInv'
    BY <2>1 DEF NetInv, RxInv
  <2>5. NetTypeOK'
    BY <2>1, Zenon DEF NetInv, NetTypeOK
  <2> QED
    BY <2>3, <2>4, <2>5 DEF NetInv
<1> QED
  BY <1>1, BringUpStep, PollStep, RecvStep, InputStep, NetbufFreeStep, OutputStep,
     SocketStep, CloseStep, HostStep, Zenon DEF Next

(* The inductive invariant holds in every reachable state. *)
THEOREM NetInvHolds == Spec => []NetInv
BY NetInvInit, NetInvStep, PTL DEF Spec

(* The variables of the network path keep their types. *)
THEOREM NetTypeCorrect == Spec => []NetTypeOK
<1>1. NetInv => NetTypeOK
  BY DEF NetInv
<1> QED
  BY <1>1, NetInvHolds, PTL

(* UKNETDEV and VFSCORE find the buffers and the socket files that they    *)
(* still have to touch behind a window, and the window that _netbuf_free   *)
(* closes is the driver's.                                                 *)
THEOREM HoldersReachHolds == Spec => []HoldersReach
<1>1. ASSUME NetInv PROVE HoldersReach
  <2> SUFFICES ASSUME pc # "halted", NEW b \in Pages
               PROVE  /\ use[b] \in {"rx", "pbuf"} =>
                           /\ EntriesAt(Tab, {b}) # {}
                           /\ Tab[First(EntriesAt(Tab, {b}))].mask = UKNETDEV
                      /\ use[b] = "vfs_file" => Reaches(Tab, VFSCORE, b)
    BY DEF HoldersReach, Tab
  <2>1. Given(Tab, use, b)
    BY <1>1, GivenNow
  <2>2. use[b] = "vfs_file" => Reaches(Tab, VFSCORE, b)
    BY <2>1 DEF Given, Holders
  <2>3. ASSUME use[b] \in {"rx", "pbuf"}
        PROVE  EntriesAt(Tab, {b}) # {} /\ Tab[First(EntriesAt(Tab, {b}))].mask = UKNETDEV
    <3>1. PICK k : Found(Tab, {b}, k) /\ Tab[k].mask = UKNETDEV
      BY <2>1, <2>3 DEF Given, Holders, DriverFinds
    <3> QED
      BY <2>1, <3>1, FoundUnique DEF Given, TabInv
  <2> QED
    BY <2>2, <2>3
<1> QED
  BY <1>1, NetInvHolds, PTL

(* Only a frame that lwIP refused and one that was too big to send leave a *)
(* window for the driver behind.                                           *)
THEOREM WindowsLeftHolds == Spec => []WindowsLeft
<1>1. NetInv => WindowsLeft
  BY DEF NetInv, WindowInv, TabInv, Windowed, WindowsLeft, Tab
<1> QED
  BY <1>1, NetInvHolds, PTL

(* The guest never stops because a cubicle lacks a window. *)
THEOREM StopsOnlyWhenExhaustedHolds == Spec => []StopsOnlyWhenExhausted
<1>1. NetInv => StopsOnlyWhenExhausted
  BY DEF NetInv, WindowInv
<1> QED
  BY <1>1, NetInvHolds, PTL

-----------------------------------------------------------------------------
(* The link that lwIP sees.                                                *)

linkVars == <<sent, UnderWay, received>>

(* A step that leaves the frames loses at most the one in lwIP's hands. *)
LEMMA QuietStep ==
  ASSUME NetInv, UNCHANGED <<frame, tap, sent, received>>,
         pc' \in {pc, "halted"} \/ (pc # "input" /\ pc' # "input")
  PROVE  L!Lose \/ UNCHANGED linkVars
<1>1. tap \in Seq(1 .. sent)
  BY Zenon DEF NetInv, NetTypeOK
<1>2. CASE pc = "input" /\ pc' = "halted"
  <2>1. UnderWay = <<frame>> \o tap /\ UnderWay' = tap
    BY <1>2 DEF UnderWay
  <2>2. <<frame>> \o tap # <<>> /\ Tail(<<frame>> \o tap) = tap
    BY <1>1
  <2> QED
    BY <2>1, <2>2 DEF L!Lose
<1>3. CASE ~ (pc = "input" /\ pc' = "halted")
  BY <1>3 DEF UnderWay, linkVars
<1> QED
  BY <1>2, <1>3

LEMMA RecvLinks ==
  ASSUME NetInv, virtio_netdev_recv
  PROVE  UNCHANGED linkVars
<1>1. pc = "pull_rx" /\ psize = 0 /\ pkt \in Pages /\ use[pkt] = "rx"
  BY DEF NetInv, RxInv, virtio_netdev_recv
<1>2. pc' = "input"
  BY <1>1, GivenNow, DriverReaches DEF virtio_netdev_recv, Goes, Tab
<1>3. tap # <<>> /\ frame' = Head(tap) /\ tap' = Tail(tap)
  <2>1. ~ (psize > 0)
    BY <1>1
  <2> QED
    BY <2>1, Zenon DEF virtio_netdev_recv, pull_rx
<1>4. tap \in Seq(1 .. sent)
  BY Zenon DEF NetInv, NetTypeOK
<1>5. <<Head(tap)>> \o Tail(tap) = tap
  <2> DEFINE S == 1 .. sent
  <2>1. tap \in Seq(S)
    BY <1>4
  <2> HIDE DEF S
  <2> QED
    BY <1>3, <2>1
<1>6. UNCHANGED <<sent, received>>
  BY DEF virtio_netdev_recv
<1> QED
  BY <1>1, <1>2, <1>3, <1>5, <1>6 DEF UnderWay, linkVars

LEMMA InputLinks ==
  ASSUME NetInv, InputReturns
  PROVE  L!Deliver \/ L!Lose
<1>1. tap \in Seq(1 .. sent)
  BY Zenon DEF NetInv, NetTypeOK
<1>2. UnderWay = <<frame>> \o tap /\ UnderWay' = tap /\ sent' = sent
  BY DEF InputReturns, Goes, UnderWay
<1>3. /\ <<frame>> \o tap # <<>>
      /\ Head(<<frame>> \o tap) = frame /\ Tail(<<frame>> \o tap) = tap
  BY <1>1
<1>4. received' = received \/ received' = Append(received, frame)
  BY Zenon DEF InputReturns
<1> QED
  BY <1>2, <1>3, <1>4 DEF L!Deliver, L!Lose

LEMMA HostLinks ==
  ASSUME NetInv, HostSends
  PROVE  L!Send
<1>1. /\ sent' = sent + 1 /\ tap' \in {tap, Append(tap, sent')}
      /\ UNCHANGED <<pc, frame, received>>
  BY DEF HostSends, rx
<1>2. tap \in Seq(1 .. sent)
  BY Zenon DEF NetInv, NetTypeOK
<1>3. <<frame>> \o Append(tap, sent') = Append(<<frame>> \o tap, sent')
  <2>1. tap \in Seq(Nat) /\ sent' \in Nat
    BY <1>1, <1>2, SentIsNat, SeqMonotonic
  <2> QED
    BY <2>1
<1>4. UnderWay' \in {UnderWay, Append(UnderWay, sent')}
  BY <1>1, <1>3 DEF UnderWay
<1> QED
  BY <1>1, <1>4 DEF L!Send

LEMMA StepLinks == NetInv /\ [Next]_vars => [L!Next]_linkVars
<1> SUFFICES ASSUME NetInv, [Next]_vars PROVE L!Next \/ UNCHANGED linkVars
  OBVIOUS
<1>1. CASE UNCHANGED vars
  BY <1>1 DEF vars, rx, link, linkVars, UnderWay
<1>2. CASE net_add \/ uknetdev_init \/ uknetdev_poll_all
  <2>1. /\ UNCHANGED <<frame, tap, sent, received>>
        /\ pc # "input" /\ pc' # "input"
    BY <1>2 DEF net_add, uknetdev_init, uknetdev_poll_all, lwip_alloc_netbuf, Goes, Halt,
                rx, link
  <2> QED
    BY <2>1, QuietStep DEF L!Next
<1>3. CASE \E b \in Pages : _netbuf_free(b) \/ uknetdev_output(b) \/ sock_fd_alloc(b)
                            \/ sock_net_close(b)
  <2>1. UNCHANGED <<frame, tap, sent, received>> /\ pc' \in {pc, "halted"}
    BY <1>3 DEF _netbuf_free, uknetdev_output, sock_fd_alloc, sock_net_close, Halt, rx, link
  <2> QED
    BY <2>1, QuietStep DEF L!Next
<1> QED
  BY <1>1, <1>2, <1>3, RecvLinks, InputLinks, HostLinks, Zenon DEF Next, L!Next

(* lwIP gets the frames of the tap whole, once and in order: the network   *)
(* path implements the abstract Link.                                      *)
THEOREM NetPathRefinesLink == Spec => IsLink
<1>1. Init => L!Init
  BY DEF Init, L!Init, UnderWay
<1>2. NetInv /\ [Next]_vars => [L!Next]_<<sent, UnderWay, received>>
  BY StepLinks DEF linkVars
<1> QED
  BY <1>1, <1>2, NetInvHolds, PTL DEF Spec, IsLink, L!Spec

=============================================================================
