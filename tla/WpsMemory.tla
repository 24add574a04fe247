------------------------------ MODULE WpsMemory ------------------------------
(***************************************************************************)
(* The frame memory of one node: pools of free nodes shared by all         *)
(* transmit, respectively receive, connections                             *)
(* (src/core/wireless/xlayer/xlayer_queue.c), one queue and one circular   *)
(* payload buffer per connection, and the two contexts that move frames    *)
(* between them, the application (wps.c) and the MAC interrupt             *)
(* (wps_mac.c, wps_mac_xlayer.c).                                          *)
(*                                                                         *)
(* Queue operations run in a critical section and are single steps.  The   *)
(* circular buffer is not protected: what the application does to it is    *)
(* two steps, and the interrupt may come between them where a setting says *)
(* so.  The interrupt itself runs to completion.                           *)
(*                                                                         *)
(* A definition named Bug... is not part of the model: it is the one below *)
(* it with a plausible slip, kept to show that a property notices.         *)
(***************************************************************************)
EXTENDS Integers, Sequences, FiniteSets, XlayerCircularData

CONSTANTS
  TxConns, RxConns,  \* connections this node sends on, and receives from
  QueueSize,         \* fifo_buffer_size of a connection, in nodes
  FrameSizes,        \* bytes a transmit frame may ask for
  MaxFrameSize,      \* bytes of the largest frame of a connection
  Settings,          \* how the node is set up and used
  None               \* NULL

Conns == TxConns \cup RxConns

SettingsType ==
  [ackFrames : BOOLEAN,  \* ack_frame_enable: a transmit slot listens for a frame
   flush : BOOLEAN,      \* the application flushes queues while disconnected
   preempt : BOOLEAN]    \* the interrupt may come inside a buffer operation

ASSUME MemoryAssumption ==
  /\ IsFiniteSet(TxConns) /\ IsFiniteSet(RxConns)
  /\ TxConns \cap RxConns = {}
  /\ QueueSize \in Nat \ {0, 1}
  /\ MaxFrameSize \in Nat \ {0}
  /\ FrameSizes \subseteq 1 .. MaxFrameSize
  /\ Settings \subseteq SettingsType

\* wps_init_xlayer: a pool has a node for every place of its queues.
TxNodes == {<<"tx", i>> : i \in 1 .. QueueSize * Cardinality(TxConns)}
RxNodes == {<<"rx", i>> : i \in 1 .. QueueSize * Cardinality(RxConns)}
Nodes == TxNodes \cup RxNodes

ASSUME NullAssumption == None \notin Nodes

VARIABLES
  cfg,        \* the setting, fixed at set-up
  mem,        \* pools, queues, buffers, and the node the MAC holds
  slot,       \* the connection of the slot prepared, and whether it is on air
  connected,  \* wps_mac signal: between wps_connect and the disconnection
  request,    \* a disconnection is requested, the application waits for it
  app,        \* what the application is in the middle of
  txNode      \* connection->tx_node: the slot the application got

vars == <<cfg, mem, slot, connected, request, app, txNode>>

\* The payload buffer of a connection has a frame's bytes for every node.
Bytes == QueueSize * MaxFrameSize

NoBlock == [at |-> 0, bytes |-> 0]
Idle == [at |-> "idle", conn |-> None, node |-> None, data |-> None]

-----------------------------------------------------------------------------
(* Operations on nodes *)

\* xlayer_queue_free_node: back to the pool, which takes no more than it has
\* places.
FreeTxNode(m, n) ==
  IF Len(m.freeTx) < Cardinality(TxNodes) THEN [m EXCEPT !.freeTx = Append(@, n)] ELSE m

BugFreeRxNode(m, n) == [m EXCEPT !.freeRx = Append(@, n)]

FreeRxNode(m, n) ==
  IF n # None /\ Len(m.freeRx) < Cardinality(RxNodes)
  THEN [m EXCEPT !.freeRx = Append(@, n)] ELSE m

BugFreeNodeWithData(m, c, n) ==
  IF n = None THEN m
  ELSE FreeRxNode([m EXCEPT !.ring[c] = FreeSpace(@, m.block[n].at, m.block[n].bytes)], n)

\* wps_mac_xlayer_free_node_with_data: the node forgets the space it had.
FreeNodeWithData(m, c, n) ==
  IF n = None THEN m
  ELSE FreeRxNode([m EXCEPT !.ring[c] = FreeSpace(@, m.block[n].at, m.block[n].bytes),
                            !.block[n] = NoBlock], n)

BugSendDone(m, c) ==
  IF m.queue[c] = <<>> THEN m
  ELSE FreeTxNode([m EXCEPT !.queue[c] = Tail(@)], Head(m.queue[c]))

\* send_done
SendDone(m, c) ==
  IF m.queue[c] = <<>> THEN m
  ELSE LET n == Head(m.queue[c])
       IN FreeTxNode([m EXCEPT !.queue[c] = Tail(@),
                               !.ring[c] = FreeSpace(@, m.block[n].at, m.block[n].bytes)], n)

\* wps_mac_xlayer_update_main_rx_payload_buffer: space for a whole payload,
\* cut off once the frame is known to carry one.
UpdateRxPayloadBuffer(m, c) ==
  IF m.rxNode = None THEN m
  ELSE LET at == Place(m.ring[c], MaxFrameSize)
       IN [m EXCEPT !.ring[c] = AllocateSpace(@, MaxFrameSize),
                    !.block[m.rxNode] = IF at = NoSpace THEN NoBlock
                                        ELSE [at |-> at, bytes |-> MaxFrameSize]]

-----------------------------------------------------------------------------
(* The MAC interrupt *)

\* Nothing came, or a frame without payload.
ProcessRxNone(m, c) == [FreeNodeWithData(m, c, m.rxNode) EXCEPT !.rxNode = None]

\* process_rx_main for a frame with payload.  It is let go if it is a
\* duplicate, if no space was found for it (the frame then looks empty) or if
\* the queue is full.  Without a node it went to the overrun buffer, and
\* xlayer_queue_enqueue_node refuses it.  An accepted node stays in rx_node.
ProcessRxData(m, c, duplicate) ==
  LET got == UpdateRxPayloadBuffer(m, c)
      n == got.rxNode
  IN CASE n = None -> got
       [] n # None /\ (duplicate \/ got.block[n] = NoBlock \/ Len(got.queue[c]) >= QueueSize)
            -> ProcessRxNone(got, c)
       [] OTHER -> [got EXCEPT !.queue[c] = Append(@, n)]

\* wps_mac_xlayer_get_xlayer_for_rx
PrepareRx(m) ==
  IF m.freeRx = <<>> THEN [m EXCEPT !.rxNode = None]
  ELSE [m EXCEPT !.rxNode = Head(m.freeRx), !.freeRx = Tail(@)]

\* prepare_tx_main drops the frames past their deadline, or the head on a
\* flush request; with acknowledgement frames the slot ends in an empty
\* reception, and wps_mac_xlayer_get_xlayer_for_empty_rx_auto clears rx_node.
PrepareTx(m, c, drops) ==
  LET Drop[k \in Nat] == IF k = 0 THEN m ELSE SendDone(Drop[k - 1], c)
  IN [Drop[drops] EXCEPT !.rxNode = IF cfg.ackFrames THEN None ELSE @]

\* prepare_frame for the next slot of the schedule, which belongs to c.
Prepare(m, c) ==
  IF c \in RxConns THEN {PrepareRx(m)}
  ELSE {PrepareTx(m, c, k) : k \in 0 .. Len(m.queue[c])}

\* What the slot just ended may have done.
Process(m, c) ==
  IF c \in RxConns
  THEN {ProcessRxNone(m, c), ProcessRxData(m, c, TRUE), ProcessRxData(m, c, FALSE)}
  ELSE {m, SendDone(m, c)}

Interruptible == cfg.preempt \/ app.at \notin {"allocating", "freeing"}

\* wps_mac_phy_callback at the end of a slot: its outcome, then the next one.
FrameOutcome ==
  /\ Interruptible
  /\ slot.onAir
  /\ \E c \in Conns : \E m \in Process(mem, slot.conn) :
       /\ mem' \in Prepare(m, c)
       /\ slot' = [conn |-> c, onAir |-> FALSE]
  /\ UNCHANGED <<cfg, connected, request, app, txNode>>

BugProcessDisconnectRequest ==
  /\ mem' = mem
  /\ connected' = FALSE /\ request' = FALSE
  /\ slot' = [conn |-> None, onAir |-> FALSE]

\* process_disconnect_request: the node the slot was prepared with goes back,
\* whatever has become of it.
ProcessDisconnectRequest ==
  /\ mem' = FreeRxNode(mem, mem.rxNode)
  /\ connected' = FALSE /\ request' = FALSE
  /\ slot' = [conn |-> None, onAir |-> FALSE]

\* PHY_SIGNAL_CONFIG_COMPLETE: the radio is set up for the slot, and a
\* pending request is served.
ConfigComplete ==
  /\ Interruptible
  /\ connected /\ ~slot.onAir
  /\ \/ request /\ ProcessDisconnectRequest
     \/ /\ ~request
        /\ slot' = [slot EXCEPT !.onAir = TRUE]
        /\ UNCHANGED <<mem, connected, request>>
  /\ UNCHANGED <<cfg, app, txNode>>

-----------------------------------------------------------------------------
(* The application *)

Ready == app = Idle /\ ~request

\* wps_connect: the first slot is prepared.  wps_mac_reset keeps rx_node.
Connect ==
  /\ Ready /\ ~connected
  /\ connected' = TRUE
  /\ \E c \in Conns : /\ mem' \in Prepare(mem, c)
                      /\ slot' = [conn |-> c, onAir |-> FALSE]
  /\ UNCHANGED <<cfg, request, app, txNode>>

\* wps_disconnect leaves a request and waits until it is served.
Disconnect ==
  /\ Ready /\ connected
  /\ request' = TRUE
  /\ UNCHANGED <<cfg, mem, slot, connected, app, txNode>>

\* wps_get_free_slot, or wps_send of a payload the application keeps, which
\* needs space for the header alone: a node is taken and a place looked up.
GetFreeSlot(c) ==
  /\ Ready /\ txNode[c] = None
  /\ Len(mem.queue[c]) < QueueSize
  /\ mem.freeTx # <<>>
  /\ \E bytes \in FrameSizes :
       app' = [at |-> "allocating", conn |-> c, node |-> Head(mem.freeTx),
               data |-> [at |-> Place(mem.ring[c], bytes), bytes |-> bytes]]
  /\ mem' = [mem EXCEPT !.freeTx = Tail(@)]
  /\ UNCHANGED <<cfg, slot, connected, request, txNode>>

\* The end of xlayer_circular_data_allocate_space and of the call: without a
\* place the node goes back (WPS_NOT_ENOUGH_MEMORY_ERROR).
Allocated ==
  /\ app.at = "allocating"
  /\ IF app.data.at = NoSpace
     THEN /\ mem' = FreeTxNode(mem, app.node)
          /\ UNCHANGED txNode
     ELSE /\ mem' = [mem EXCEPT !.ring[app.conn].lastHead = app.data.at,
                                !.ring[app.conn].head = app.data.at + app.data.bytes,
                                !.block[app.node] = app.data]
          /\ txNode' = [txNode EXCEPT ![app.conn] = app.node]
  /\ app' = Idle
  /\ UNCHANGED <<cfg, slot, connected, request>>

\* wps_send of the slot it got.
Send(c) ==
  /\ Ready /\ txNode[c] # None
  /\ Len(mem.queue[c]) < QueueSize
  /\ mem' = [mem EXCEPT !.queue[c] = Append(@, txNode[c])]
  /\ txNode' = [txNode EXCEPT ![c] = None]
  /\ UNCHANGED <<cfg, slot, connected, request, app>>

\* wps_read_done: the node leaves the queue, its space is looked up and given
\* back, and the node goes to the pool.
ReadDone(c) ==
  /\ Ready /\ mem.queue[c] # <<>>
  /\ mem' = [mem EXCEPT !.queue[c] = Tail(@)]
  /\ app' = [at |-> "dequeued", conn |-> c, node |-> Head(mem.queue[c]), data |-> None]
  /\ UNCHANGED <<cfg, slot, connected, request, txNode>>

FreeingSpace ==
  /\ app.at = "dequeued"
  /\ LET b == mem.block[app.node]
     IN app' = [app EXCEPT !.at = "freeing",
                           !.data = FreedField(mem.ring[app.conn], b.at, b.bytes)]
  /\ UNCHANGED <<cfg, mem, slot, connected, request, txNode>>

\* The compiler may keep last_head in a register or read it again.
FreedSpace ==
  /\ app.at = "freeing"
  /\ LET b == mem.block[app.node]
         d == mem.ring[app.conn]
     IN \E head \in {b.at, d.lastHead} :
          mem' = [mem EXCEPT
                    !.ring[app.conn] = CASE app.data = "head" -> [d EXCEPT !.head = head]
                                         [] app.data = "tail" -> [d EXCEPT !.tail = b.at + b.bytes]
                                         [] OTHER -> d,
                    !.block[app.node] = NoBlock]
  /\ app' = [app EXCEPT !.at = "freed", !.data = None]
  /\ UNCHANGED <<cfg, slot, connected, request, txNode>>

FreedNode ==
  /\ app.at = "freed"
  /\ mem' = FreeRxNode(mem, app.node)
  /\ app' = Idle
  /\ UNCHANGED <<cfg, slot, connected, request, txNode>>

\* swc_connection_flush_queue, refused while the core runs: the nodes go back
\* to their pool and nothing happens to the circular buffer.
FlushQueue(c) ==
  /\ cfg.flush /\ Ready /\ ~connected
  /\ mem' = IF c \in TxConns THEN [mem EXCEPT !.queue[c] = <<>>, !.freeTx = @ \o mem.queue[c]]
            ELSE [mem EXCEPT !.queue[c] = <<>>, !.freeRx = @ \o mem.queue[c]]
  /\ UNCHANGED <<cfg, slot, connected, request, app, txNode>>

-----------------------------------------------------------------------------
Init ==
  /\ cfg \in Settings
  /\ mem = [freeTx |-> [i \in 1 .. Cardinality(TxNodes) |-> <<"tx", i>>],
            freeRx |-> [i \in 1 .. Cardinality(RxNodes) |-> <<"rx", i>>],
            rxNode |-> None,
            queue |-> [c \in Conns |-> <<>>],
            ring |-> [c \in Conns |-> CircularDataInit(Bytes)],
            block |-> [n \in Nodes |-> NoBlock]]
  /\ slot = [conn |-> None, onAir |-> FALSE]
  /\ connected = FALSE /\ request = FALSE
  /\ app = Idle
  /\ txNode = [c \in TxConns |-> None]

Next ==
  \/ FrameOutcome \/ ConfigComplete
  \/ Connect \/ Disconnect
  \/ \E c \in TxConns : GetFreeSlot(c) \/ Send(c)
  \/ \E c \in RxConns : ReadDone(c)
  \/ Allocated \/ FreeingSpace \/ FreedSpace \/ FreedNode
  \/ \E c \in Conns : FlushQueue(c)

Spec == Init /\ [][Next]_vars

-----------------------------------------------------------------------------
(* Properties *)

Elements(s) == {s[i] : i \in DOMAIN s}

Blocks == {b \in [at : 0 .. Bytes, bytes : 0 .. MaxFrameSize] : b.at + b.bytes <= Bytes}

Rings == [size : {Bytes}, head : 0 .. Bytes, tail : 0 .. Bytes, lastHead : 0 .. Bytes]

MemStates ==
  [freeTx : Seq(TxNodes), freeRx : Seq(RxNodes), rxNode : RxNodes \cup {None},
   queue : [Conns -> Seq(Nodes)], ring : [Conns -> Rings], block : [Nodes -> Blocks]]

AppStates ==
  {Idle}
  \cup [at : {"allocating"}, conn : TxConns, node : TxNodes,
        data : Blocks \cup [at : {NoSpace}, bytes : 0 .. MaxFrameSize]]
  \cup [at : {"dequeued", "freeing", "freed"}, conn : RxConns, node : RxNodes,
        data : {None, "head", "tail", "none"}]

(* Every variable has its type; blocks and indices stay inside their buffer,*)
(* a queue holds nodes of its direction and no more than its maximum.       *)
TypeOK ==
  /\ cfg \in Settings
  /\ mem \in MemStates
  /\ \A c \in TxConns : mem.queue[c] \in Seq(TxNodes)
  /\ \A c \in RxConns : mem.queue[c] \in Seq(RxNodes)
  /\ \A c \in Conns : Len(mem.queue[c]) <= QueueSize
  /\ slot \in [conn : Conns \cup {None}, onAir : BOOLEAN]
  /\ connected \in BOOLEAN /\ request \in BOOLEAN
  /\ app \in AppStates
  /\ txNode \in [TxConns -> TxNodes \cup {None}]

\* Where node n is: places in pools and queues, and the variables that hold it.
\* Once the core is disconnected nobody looks at rx_node any more.
HeldAt(n) ==
       {<<"freeTx", i>> : i \in {j \in DOMAIN mem.freeTx : mem.freeTx[j] = n}}
  \cup {<<"freeRx", i>> : i \in {j \in DOMAIN mem.freeRx : mem.freeRx[j] = n}}
  \cup (UNION {{<<c, i>> : i \in {j \in DOMAIN mem.queue[c] : mem.queue[c][j] = n}} : c \in Conns})
  \cup {<<"tx_node", c>> : c \in {d \in TxConns : txNode[d] = n}}
  \cup {<<"rx_node", c>> : c \in {d \in {None} : connected /\ mem.rxNode = n}}
  \cup {<<"app", c>> : c \in {d \in {app.conn} : app.node = n}}

(* No node is lost or in two places at once, whatever is received, read,    *)
(* sent, dropped, disconnected and flushed in whatever order, and wherever  *)
(* the interrupt comes: a node in two places makes one list run into        *)
(* another.  Said of connections whose transmit slots listen for an         *)
(* acknowledgement frame, which clears rx_node.                             *)
NodesAccounted == cfg.ackFrames => \A n \in Nodes : Cardinality(HeldAt(n)) = 1

(* wps_mac.c, process_disconnect_request: "Free MAC RX node in case a frame *)
(* was received after the disconnect request": the node a disconnection is  *)
(* about to free waits in no queue and in no pool.                          *)
FreesNodeInReception ==
  connected /\ request /\ ~slot.onAir /\ mem.rxNode # None =>
    HeldAt(mem.rxNode) = {<<"rx_node", None>>}

\* Nodes of connection c whose payload is still of use to somebody.
Live(c) ==
  Elements(mem.queue[c])
  \cup {n \in TxNodes : c \in TxConns /\ txNode[c] = n}
  \cup {n \in Nodes : app.at = "dequeued" /\ app.conn = c /\ app.node = n}

\* Somebody may call xlayer_circular_data_allocate_space for connection c.
MayAllocate(c) ==
  IF c \in TxConns
  THEN Ready /\ txNode[c] = None /\ Len(mem.queue[c]) < QueueSize /\ mem.freeTx # <<>>
  ELSE Interruptible /\ slot = [conn |-> c, onAir |-> TRUE] /\ mem.rxNode # None

Overlapping(b, d) == b.at < d.at + d.bytes /\ d.at < b.at + b.bytes

NextBlock(c) == [at |-> Place(mem.ring[c], MaxFrameSize), bytes |-> MaxFrameSize]

(* xlayer_circular_data.h, allocate_space: "Pointer to buffer with data.    *)
(* NULL, when there is no space."  The space it finds overlaps no frame     *)
(* still to be sent or read.                                                *)
AllocatesFreeSpace ==
  \A c \in Conns : MayAllocate(c) /\ NextBlock(c).at # NoSpace =>
    \A n \in Live(c) : ~Overlapping(NextBlock(c), mem.block[n])

\* No flush and no interrupt inside a buffer operation.
Orderly == ~cfg.flush /\ ~cfg.preempt

(* With the buffer left to one context at a time, frames that wait to be    *)
(* sent or read keep their bytes to themselves: no two overlap, and none is *)
(* overwritten by the frame the interrupt receives or the application       *)
(* prepares next (xlayer_circular_data_allocate_space, _free_space).        *)
SpaceIsFree ==
  Orderly =>
    /\ AllocatesFreeSpace
    /\ \A c \in Conns : \A m, n \in Live(c) :
         m # n => ~Overlapping(mem.block[m], mem.block[n])

(* A node is enough: with frames of one size, whoever gets a node gets      *)
(* space too.  Otherwise a frame the radio has acknowledged is dropped      *)
(* without a trace (wps_phy_common.c, get_payload), or a slot refused       *)
(* although the queue has room.                                             *)
RoomForNextFrame ==
  Orderly => \A c \in Conns : MayAllocate(c) => NextBlock(c).at # NoSpace
=============================================================================
