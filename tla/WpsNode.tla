------------------------------- MODULE WpsNode -------------------------------
(***************************************************************************)
(* A node of the network: the application, the queue of its requests, the  *)
(* MAC layer that goes from one timeslot to the next (wps.c, wps_mac.c,    *)
(* link_scheduler.c), the queue of callbacks (wps_callback.c) and the      *)
(* physical layer of one radio (WpsPhy).                                   *)
(*                                                                         *)
(* The two interrupts of the radio come before the handler that runs the   *)
(* callbacks, which comes before the application.  The other end is        *)
(* whatever the radio reports.  The queue of frames to send, sequence      *)
(* numbers and credits are those of WpsLink: here any slot may carry a     *)
(* frame.  Each timeslot has one connection.                               *)
(*                                                                         *)
(* A definition named Bug... is not part of the model: it is the one below *)
(* it with a plausible slip, kept to show that a property notices.         *)
(***************************************************************************)
EXTENDS WpsPhy

CONSTANTS
  Settings,      \* how the node is set up and used
  CallbackSize, RequestSize, RxSize,  \* capacities of the queues
  MaxCalls       \* bound: calls of the application

Calls == {"disconnect", "read", "write", "periodic", "ratio"}

SettingsType ==
  [schedule : Seq([tx : BOOLEAN, auto : {"none", "bare", "reply"}, sync : BOOLEAN]),
   user : BOOLEAN,      \* payloads are sent from the memory of the application
   phase : BOOLEAN,     \* phase_offset_feature_enabled
   node : BOOLEAN,      \* NETWORK_NODE, and not the coordinator
   fastSync : BOOLEAN,  \* fast_sync_enabled
   exact : BOOLEAN,     \* events are read before the reply has gone, none is broadcast
   atomic : BOOLEAN,    \* no interrupt comes in the middle of wps_get_event
   prompt : BOOLEAN,    \* callbacks have run before the hardware is done with anything else
   slow : BOOLEAN,      \* a callback may leave the frame it announces unread
   patient : BOOLEAN,   \* the disconnection does not time out
   calls : SUBSET Calls,
   ratios : SUBSET (Nat \X (0 .. 100))]  \* slots and active ratios the application sets

ASSUME NodeAssumption ==
  /\ \A c \in Settings : /\ c \in SettingsType
                         /\ c.schedule # <<>>
                         /\ \A r \in c.ratios : r[1] \in DOMAIN c.schedule
                         /\ \E s \in DOMAIN c.schedule : \A r \in c.ratios : r[1] = s => r[2] > 0
  /\ CallbackSize \in Nat \ {0} /\ RequestSize \in Nat \ {0} /\ RxSize \in Nat \ {0}
  /\ MaxCalls \in Nat

VARIABLES
  cfg,        \* the setting
  mac,        \* wps_mac_t and its connections, one for each slot
  requests,   \* request_queue
  callbacks,  \* callback_queue
  handler,    \* wps_process_callback: off or where it is, and whether it is pended
  rxq,        \* frames in the receive queue of each connection
  app,        \* the application, and its view of each connection
  dropped     \* history: a callback met a full queue

macVars == <<mac, requests, callbacks, rxq, dropped>>
vars == <<phyVars, macVars, cfg, handler, app>>

Slots == DOMAIN cfg.schedule
Slot(s) == cfg.schedule[s]

Rested == handler = [pc |-> "off", pended |-> FALSE]

BugHandlerAfter(signal) ==
  IF signal \in Outcomes \cup {"CONNECT"} THEN [handler EXCEPT !.pended = TRUE] ELSE handler

\* callback_context_switch: the handler of the callbacks is pended.
HandlerAfter(signal) ==
  IF signal \in {"CONNECT", "CONFIG_COMPLETE"} THEN [handler EXCEPT !.pended = TRUE] ELSE handler

-----------------------------------------------------------------------------
(* Schedule *)

Divides(d, n) == \E k \in 0 .. n : n = k * d

\* wps_utils_gcd
Gcd(m, n) ==
  CHOOSE d \in 1 .. n : /\ Divides(d, m) /\ Divides(d, n)
                        /\ \A e \in d + 1 .. n : ~(Divides(e, m) /\ Divides(e, n))

\* generate_active_pattern
ActivePattern(ratio) ==
  LET active == ratio \div Gcd(ratio, 100)
      total == 100 \div Gcd(ratio, 100)
  IN [i \in 1 .. total |-> \E k \in 0 .. active - 1 : i - 1 = ((k * total) \div active) % total]

AfterSlot(s) == (s % Len(cfg.schedule)) + 1

\* process_next_timeslot with one turn of the loop of handle_link_throttle:
\* a connection whose pattern is off in this turn is passed over.
NextSlot ==
  /\ cpu = "next"
  /\ LET s == AfterSlot(mac.slot)
         count == (mac.count[s] + 1) % Len(mac.pattern[s])
     IN /\ mac' = [mac EXCEPT !.slot = s, !.count[s] = count]
        /\ cpu' = IF mac.pattern[s][count + 1] THEN "frame" ELSE "next"
  /\ UNCHANGED <<phy, frame, spi, dma, irq, radio, cfg, requests, callbacks, handler, rxq, app, dropped>>

Unsynced == cfg.node /\ ~mac.synced

\* prepare_rx_main: the slot waits for the first frame with the radio always on.
Syncing(s) == Unsynced /\ cfg.fastSync /\ ~Slot(s).tx /\ Slot(s).sync

\* What the slot sends: data, a header alone, or nothing; data[i] is whether
\* it is a frame of the application.
Sends(s) ==
  LET empty == [content : {"none", "joint"}, data : {FALSE}]
      data == {[content |-> IF cfg.user THEN "split" ELSE "joint", data |-> TRUE]}
  IN CASE Slot(s).tx -> empty \cup (IF Unsynced THEN {} ELSE data)
       [] ~Slot(s).tx /\ Slot(s).auto = "reply" -> empty
       [] OTHER -> {[content |-> "none", data |-> FALSE]}

\* prepare_frame; what nothing reads any more of the last frame is forgotten.
PrepareFrame ==
  /\ cpu = "frame"
  /\ cpu' = "prepare"
  /\ \E sent \in Sends(mac.slot) :
       frame' = [tx |-> Slot(mac.slot).tx, auto |-> Slot(mac.slot).auto,
                 content |-> sent.content, data |-> sent.data,
                 sync |-> Syncing(mac.slot), phase |-> cfg.phase, exact |-> cfg.exact]
  /\ phy' = [phy EXCEPT !.main = "PROCESSING",
                        !.input = IF Syncing(mac.slot) THEN "SYNCING" ELSE "PREPARE_RADIO",
                        !.outcome = "WAIT", !.wait = FALSE, !.payload = FALSE]
  /\ UNCHANGED <<spi, dma, irq, radio, macVars, cfg, handler, app>>

-----------------------------------------------------------------------------
(* Outcome of a frame *)

\* update_sync: any frame received synchronises, losses may end it.
SyncedAfter ==
  IF ~cfg.node \/ phy.main \notin {"RECEIVED", "MISSED"} THEN {mac.synced}
  ELSE IF phy.outcome = "RECEIVED" THEN {TRUE}
  ELSE IF Slot(mac.slot).sync THEN {mac.synced, FALSE} ELSE {mac.synced}

Good == {"RECEIVED", "SENT_ACK"}
Bad == {"LOST", "REJECTED", "SENT_ACK_LOST", "SENT_ACK_REJECTED"}

\* link_update_connect_status, whose counts and durations are in LinkConnectStatus.
UpAfter(s, synced) ==
  CASE cfg.node /\ ~synced -> {FALSE}
    [] Slot(s).tx /\ Slot(s).auto = "none" /\ (cfg.node => synced) -> {TRUE}
    [] OTHER -> {mac.up[s]} \cup (IF phy.outcome \in Good THEN {TRUE}
                                  ELSE IF phy.outcome \in Bad THEN {FALSE} ELSE {})

\* process_tx_main and process_tx_main_empty, process_rx_main: the callback
\* and the receive queue after a frame that is new, or repeats one, or is empty.
Result(s, new) ==
  CASE phy.main \in {"SENT_ACK", "SENT_NACK"} /\ (frame.data \/ ~frame.tx) ->
         [callback |-> "tx",
          rx |-> IF ~frame.tx /\ phy.main = "SENT_ACK" /\ rxq[s] > 0 THEN rxq[s] - 1 ELSE rxq[s]]
    [] phy.main = "RECEIVED" /\ new ->
         IF rxq[s] < RxSize THEN [callback |-> "rx", rx |-> rxq[s] + 1]
                            ELSE [callback |-> "event", rx |-> rxq[s]]
    [] OTHER -> [callback |-> "none", rx |-> rxq[s]]

BugCallbacksAfter(more) == IF Len(callbacks) < CallbackSize THEN callbacks \o more ELSE callbacks

\* wps_callback_enqueue: a full queue takes no more.
CallbacksAfter(more) ==
  LET all == callbacks \o more
  IN SubSeq(all, 1, IF Len(all) < CallbackSize THEN Len(all) ELSE CallbackSize)

BugEventAfter(s, up) == mac.event[s]

\* update_connect_status_main: one event is kept, the last.
EventAfter(s, up) ==
  IF up = mac.up[s] THEN mac.event[s] ELSE IF up THEN "connect" ELSE "disconnect"

\* process_main_frame_outcome
Outcome ==
  /\ cpu = "handle" /\ phy.main \in Outcomes
  /\ cpu' = "next"
  /\ handler' = HandlerAfter(phy.main)
  /\ \E synced \in SyncedAfter, new \in {FALSE, phy.payload} :
       LET s == mac.slot
           result == Result(s, new)
       IN \E up \in UpAfter(s, synced) :
            LET more == (IF up # mac.up[s] THEN <<[kind |-> "event", slot |-> s]>> ELSE <<>>)
                        \o (IF result.callback # "none" THEN <<[kind |-> result.callback, slot |-> s]>>
                                                        ELSE <<>>)
            IN /\ mac' = [mac EXCEPT !.synced = synced, !.up[s] = up, !.event[s] = EventAfter(s, up)]
               /\ rxq' = [rxq EXCEPT ![s] = result.rx]
               /\ callbacks' = CallbacksAfter(more)
               /\ dropped' = (dropped \/ Len(callbacks) + Len(more) > CallbackSize)
  /\ UNCHANGED <<phy, frame, spi, dma, irq, radio, cfg, requests, app>>

-----------------------------------------------------------------------------
(* Signals of the physical layer: phy_handle and wps_mac_phy_callback *)

Idle ==
  /\ cpu = "handle" /\ phy.main \in {"YIELD", "PREPARE_DONE"}
  /\ cpu' = "app"
  /\ UNCHANGED <<phy, frame, spi, dma, irq, radio, macVars, cfg, handler, app>>

Connected ==
  /\ cpu = "handle" /\ phy.main = "CONNECT"
  /\ cpu' = "next"
  /\ handler' = HandlerAfter(phy.main)
  /\ UNCHANGED <<phy, frame, spi, dma, irq, radio, macVars, cfg, app>>

BugServed == requests
Served == Tail(requests)

\* process_pending_request: one request in each slot, when the radio has its
\* configuration and waits for its time.
ServeRequest ==
  LET request == Head(requests)
  IN /\ requests' = Served
     /\ CASE request.kind = "ratio" ->
               /\ mac' = [mac EXCEPT !.pattern[request.slot] = ActivePattern(request.ratio),
                                     !.count[request.slot] = 0]
               /\ UNCHANGED <<phy, dma, irq, radio>>
          [] request.kind = "disconnect" ->
               /\ Abort
               /\ mac' = [mac EXCEPT !.signal = "DISCONNECT", !.up = [s \in Slots |-> FALSE]]
               /\ UNCHANGED phy
          [] OTHER ->
               /\ phy' = CASE request.kind = "write" -> Enqueue([phy EXCEPT !.write = TRUE], "transfer_register")
                           [] request.kind = "read" -> Enqueue([phy EXCEPT !.read = TRUE], "transfer_register")
                           [] OTHER -> [phy EXCEPT !.overwrite = TRUE]
               /\ UNCHANGED <<mac, dma, irq, radio>>

ConfigComplete ==
  /\ cpu = "handle" /\ phy.main = "CONFIG_COMPLETE"
  /\ cpu' = "app"
  /\ IF requests = <<>> THEN UNCHANGED <<requests, mac, phy, dma, irq, radio>> ELSE ServeRequest
  /\ handler' = HandlerAfter(phy.main)
  /\ UNCHANGED <<frame, spi, cfg, callbacks, rxq, app, dropped>>

-----------------------------------------------------------------------------
(* Interrupts *)

\* wps_radio_irq
RadioIrq ==
  /\ cpu = "app" /\ Pending(irq)
  /\ irq' = [irq EXCEPT !.pending = FALSE]
  /\ IF mac.signal = "DISCONNECT" THEN UNCHANGED <<cpu, phy>> ELSE Enter("RADIO_IRQ")
  /\ UNCHANGED <<frame, spi, dma, radio, macVars, cfg, handler, app>>

\* wps_transfer_complete; the vector of the pin comes first.
DmaIrq ==
  /\ cpu = "app" /\ Pending(dma) /\ ~Pending(irq)
  /\ dma' = [dma EXCEPT !.pending = FALSE]
  /\ mac' = [mac EXCEPT !.signal = "ON"]
  /\ Enter("DMA_CMPLT")
  /\ UNCHANGED <<frame, spi, irq, radio, requests, callbacks, rxq, dropped, cfg, handler, app>>

-----------------------------------------------------------------------------
(* Callbacks: wps_process_callback *)

Quiet == cpu = "app" /\ ~Pending(irq) /\ ~Pending(dma)

HandlerStart ==
  /\ Quiet /\ handler.pc = "off" /\ handler.pended
  /\ handler' = [pc |-> "run", pended |-> FALSE]
  /\ UNCHANGED <<phyVars, macVars, cfg, app>>

\* What the application knows after wps_get_event.
Seen(s) ==
  CASE mac.event[s] = "connect" -> TRUE
    [] mac.event[s] = "disconnect" -> FALSE
    [] OTHER -> app.view[s]

RunCallback ==
  /\ Quiet /\ handler.pc = "run" /\ callbacks # <<>>
  /\ LET s == Head(callbacks).slot
     IN CASE Head(callbacks).kind = "event" ->
               /\ app' = [app EXCEPT !.view[s] = Seen(s)]
               /\ mac' = IF cfg.atomic THEN [mac EXCEPT !.event[s] = "none"] ELSE mac
               /\ handler' = [handler EXCEPT !.pc = IF cfg.atomic THEN "ran" ELSE "clear"]
               /\ UNCHANGED rxq
          [] Head(callbacks).kind = "rx" ->
               /\ \/ rxq' = [rxq EXCEPT ![s] = IF @ > 0 THEN @ - 1 ELSE 0]
                  \/ cfg.slow /\ UNCHANGED rxq
               /\ handler' = [handler EXCEPT !.pc = "ran"]
               /\ UNCHANGED <<mac, app>>
          [] OTHER ->
               /\ handler' = [handler EXCEPT !.pc = "ran"]
               /\ UNCHANGED <<mac, rxq, app>>
  /\ UNCHANGED <<phyVars, requests, callbacks, dropped, cfg>>

\* wps_get_event clears the event after it read it.
ClearEvent ==
  /\ Quiet /\ handler.pc = "clear"
  /\ mac' = [mac EXCEPT !.event[Head(callbacks).slot] = "none"]
  /\ handler' = [handler EXCEPT !.pc = "ran"]
  /\ UNCHANGED <<phyVars, requests, callbacks, rxq, dropped, cfg, app>>

Dequeue ==
  /\ Quiet /\ handler.pc = "ran"
  /\ callbacks' = Tail(callbacks)
  /\ handler' = [handler EXCEPT !.pc = "run"]
  /\ UNCHANGED <<phyVars, mac, requests, rxq, dropped, cfg, app>>

HandlerEnd ==
  /\ Quiet /\ handler.pc = "run" /\ callbacks = <<>>
  /\ handler' = [handler EXCEPT !.pc = "off"]
  /\ UNCHANGED <<phyVars, macVars, cfg, app>>

-----------------------------------------------------------------------------
(* The application: swc_connect, swc_disconnect and the requests *)

AppRuns == Quiet /\ Rested

Calling ==
  /\ AppRuns /\ app.pc = "idle"
  /\ app.calls < MaxCalls

Called1 == [app EXCEPT !.calls = @ + 1]

\* wps_connect when disconnected; else it refuses.  The register queue and
\* the queue of lists are emptied; a transfer cut short is not followed.
Connect ==
  /\ Calling
  /\ mac.signal = "DISCONNECT" /\ spi = "idle"
  /\ mac' = [mac EXCEPT !.signal = "ON", !.synced = FALSE]
  /\ phy' = PhyReset(phy)
  /\ irq' = [enabled |-> TRUE, pending |-> TRUE]
  /\ dma' = [dma EXCEPT !.enabled = TRUE]
  /\ app' = [Called1 EXCEPT !.started = TRUE]
  /\ UNCHANGED <<cpu, frame, spi, radio, requests, callbacks, rxq, dropped, cfg, handler>>

\* wps_disconnect: a node that searches stops its radio at once, in steps
\* that interrupts come between; else a request asks for it.
Disconnect ==
  /\ Calling /\ "disconnect" \in cfg.calls
  /\ mac.signal # "DISCONNECT"
  /\ IF cfg.fastSync /\ ~mac.synced
     THEN /\ app' = [Called1 EXCEPT !.pc = "abort"]
          /\ UNCHANGED requests
     ELSE IF Len(requests) < RequestSize
     THEN /\ requests' = Append(requests, [kind |-> "disconnect"])
          /\ app' = [Called1 EXCEPT !.pc = "poll"]
     ELSE /\ app' = [Called1 EXCEPT !.started = FALSE, !.failed = TRUE]
          /\ UNCHANGED requests
  /\ UNCHANGED <<phyVars, mac, callbacks, rxq, dropped, cfg, handler>>

\* phy_abort_radio_events has seen the bus free.
BusSeenFree ==
  /\ AppRuns /\ app.pc = "abort" /\ spi = "idle"
  /\ app' = [app EXCEPT !.pc = "close"]
  /\ UNCHANGED <<phyVars, macVars, cfg, handler>>

Close ==
  /\ AppRuns /\ app.pc = "close"
  /\ spi' = IF spi = "idle" THEN spi ELSE "cut"
  /\ Abort
  /\ mac' = [mac EXCEPT !.signal = "DISCONNECT"]
  /\ app' = [app EXCEPT !.pc = "idle", !.started = FALSE]
  /\ UNCHANGED <<cpu, phy, frame, requests, callbacks, rxq, dropped, cfg, handler>>

PollEnds ==
  /\ AppRuns /\ app.pc = "poll"
  /\ \/ mac.signal = "DISCONNECT" /\ app' = [app EXCEPT !.pc = "idle", !.started = FALSE]
     \/ ~cfg.patient /\ app' = [app EXCEPT !.pc = "idle", !.started = FALSE, !.failed = TRUE]
  /\ UNCHANGED <<phyVars, macVars, cfg, handler>>

\* wps_set_active_ratio, wps_request_write_register, wps_request_read_register:
\* refused when the queue is full.
Request ==
  /\ Calling
  /\ Len(requests) < RequestSize
  /\ \/ \E kind \in cfg.calls \cap {"read", "write", "periodic"} :
          requests' = Append(requests, [kind |-> kind])
     \/ \E r \in IF "ratio" \in cfg.calls THEN cfg.ratios ELSE {} :
          requests' = Append(requests, [kind |-> "ratio", slot |-> r[1], ratio |-> r[2]])
  /\ app' = Called1
  /\ UNCHANGED <<phyVars, mac, callbacks, rxq, dropped, cfg, handler>>

\* wps_clear_write_register
ClearRegisters ==
  /\ Calling /\ phy.overwrite
  /\ phy' = [phy EXCEPT !.overwrite = FALSE]
  /\ app' = Called1
  /\ UNCHANGED <<cpu, frame, spi, dma, irq, radio, macVars, cfg, handler>>

-----------------------------------------------------------------------------
Init ==
  /\ cfg \in Settings
  /\ PhyInit
  /\ frame = [tx |-> FALSE, auto |-> "none", content |-> "none", data |-> FALSE, sync |-> FALSE,
              phase |-> cfg.phase, exact |-> cfg.exact]
  /\ mac = [slot |-> 1, synced |-> FALSE, signal |-> "DISCONNECT",
            up |-> [s \in Slots |-> FALSE], event |-> [s \in Slots |-> "none"],
            pattern |-> [s \in Slots |-> <<TRUE>>], count |-> [s \in Slots |-> 0]]
  /\ requests = <<>> /\ callbacks = <<>>
  /\ Rested
  /\ rxq = [s \in Slots |-> 0]
  /\ app = [pc |-> "idle", started |-> FALSE, failed |-> FALSE, calls |-> 0,
            view |-> [s \in Slots |-> FALSE]]
  /\ dropped = FALSE

Phy == PhyStep /\ UNCHANGED <<macVars, cfg, handler, app>>
Apart(step) == step /\ (cfg.prompt => Rested) /\ UNCHANGED <<macVars, cfg, handler, app>>
Hardware == Apart(RadioEvent) \/ Apart(ReplyEnd) \/ Apart(TransferDone)
Mac == Outcome \/ Idle \/ Connected \/ ConfigComplete \/ NextSlot \/ PrepareFrame
Handler == HandlerStart \/ RunCallback \/ ClearEvent \/ Dequeue \/ HandlerEnd
App == Connect \/ Disconnect \/ BusSeenFree \/ Close \/ PollEnds \/ Request \/ ClearRegisters

Next == Phy \/ Hardware \/ Mac \/ RadioIrq \/ DmaIrq \/ Handler \/ App
Spec == Init /\ [][Next]_vars

\* The processor and the hardware do not rest while they have something to do.
Work == Phy \/ Mac \/ RadioIrq \/ DmaIrq \/ Handler \/ Hardware
FairSpec == Spec /\ WF_vars(Work)

-----------------------------------------------------------------------------
(* Properties *)

TypeOK ==
  /\ cpu \in {"app", "process", "prepare", "handle", "next", "frame"}
  /\ phy.main \in Signals
  /\ phy.input \in {"DMA_CMPLT", "RADIO_IRQ", "SYNCING", "PREPARE_RADIO"}
  /\ spi \in Transfers \cup {"idle", "cut", "clash"}
  /\ mac.slot \in Slots /\ mac.signal \in {"ON", "DISCONNECT"}
  /\ \A s \in Slots : /\ rxq[s] \in 0 .. RxSize
                      /\ mac.count[s] \in 0 .. Len(mac.pattern[s]) - 1
  /\ Len(callbacks) <= CallbackSize /\ Len(requests) <= RequestSize
  /\ handler.pc \in {"off", "run", "clear", "ran"}
  /\ app.pc \in {"idle", "poll", "abort", "close"}

\* No interrupt reaches a function that does not take it, whatever the order
\* of the two interrupts: phy_handle would stay in its loop for ever.
NoPhyError == phy.main # "ERROR"

\* The queue of lists, which is never checked, neither overflows nor gives an
\* entry it does not hold.
StateQueueSound == phy.todo # <<"stale">> /\ Len(phy.next) <= QueueSize

\* No transfer starts while another is in progress, the registers the
\* application reads and writes included.
TransfersAlone == spi # "clash"

\* The handler of the callbacks is not asked to run while the payload of a
\* frame announced to it is still in transfer.
PayloadInPlace == [][~handler.pended /\ handler'.pended => spi # "payload_in"]_vars

\* Only the application takes frames out of a receive queue, as long as the
\* events of a frame are read before the reply to it has gone.
FramesForReader ==
  [][cfg.exact => \A s \in Slots : rxq'[s] < rxq[s] => handler.pc = "run"]_vars

\* Unless a disconnection failed, the core is started for the application
\* exactly when it is for the MAC layer: nothing stops or starts it late.
StartedMeansRunning ==
  (app.pc = "idle" /\ ~app.failed) => (app.started <=> mac.signal # "DISCONNECT")

\* When no callback was dropped and all have run, the application knows the
\* status of each connection, if it reads the events without being
\* interrupted and does not disconnect.
EventsReach ==
  (cfg.atomic /\ "disconnect" \notin cfg.calls /\ ~dropped /\ callbacks = <<>> /\ handler.pc = "off")
  => app.view = mac.up

Away == mac.signal = "DISCONNECT" \/ frame.sync

\* A node that is connected and does not search ends a frame again and again.
FramesGoOn == []<>(Away \/ (cpu = "handle" /\ phy.main \in Outcomes))

ReadAsked == phy.read \/ \E i \in DOMAIN requests : requests[i].kind = "read"

\* A register asked for is read, unless the node disconnects or searches.
ReadAnswered == ReadAsked ~> (~ReadAsked \/ Away)
=============================================================================
