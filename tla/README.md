# The Wireless Core of the SPARK SR1100 SDK in TLA+

This directory holds TLA+ modules of the wireless stack under
`src/core/wireless` and of the audio pipelines above it (`src/core/audio`), the TLC configurations that check them on small
instances, and theorems about them checked by TLAPS. Every definition is
translated from the C source; `PROJECT.json` gives the lines of each one, the
runs, the mutants that show each property notices a bug, the findings and the
list of hazards the properties are aimed at.

## 1. The system

Two or more nodes share a time-division schedule. In each time slot one node
transmits a *main* frame of one connection and the addressee answers with an
*auto-reply*, which acknowledges it and may carry data of its own. A
connection goes one way from a source to a destination. The application writes
frames to a connection's queue and reads them at the other end; a MAC, run
entirely from radio interrupts, moves them.

| Component | State it keeps | Operations | Hard behaviour | What makes it correct |
|---|---|---|---|---|
| Link layer: `link_saw_arq`, `link_credit_flow_ctrl`, `link_connect_status` | sequence numbers of both ends, credits and skipped slots, good and lost counts | next number, duplicate check, credit available, acknowledgement received, status update | one bit tells a repetition from a new frame, frames and acknowledgements are lost independently; defaults outside the bit's range | order, nothing lost or twice in guaranteed delivery, no receive overrun, no waiting for credits for ever |
| MAC data path: `wps_mac.c`, `wps_mac_protocols.c`, `wps_mac_xlayer.c` | prepared frame, node in reception, signals to and from the PHY, connection parameters | the PHY callback: process outcome, prepare next slot; serve a pending request | deadlines, flush requests and disconnections between transmission and acknowledgement | what is reported as sent has arrived; every accepted frame leaves the queue |
| MAC scheduler, requests, callbacks: `wps_mac_timeslots.c`, `link_scheduler.c`, `wps_callback.c`, `wps.c` | schedule position, request queue, callback queue, event of each connection | next slot, connect, disconnect, schedule requests, throttle, process callbacks | the interrupt serves requests the application waits for; bounded queues | every request is answered, no event is lost or delivered as another |
| WPS API: `wps.c` | connections, the slot a connection handed out | create, configure, get free slot, send, read, read done, connect, disconnect, reset | runs in the application, beside the interrupt | a frame handed out, queued, and released exactly once |
| Frame memory: `xlayer_queue.c`, `xlayer_circular_data.c` | pools of nodes, queues, circular payload buffers | allocate, free, enqueue, dequeue | pools are shared between connections, buffers are not protected by a critical section | no node in two places or in none, no payload over another |
| Fragmentation: `wps_frag.c` | meta-data queue, remaining size, transaction numbers, counters | send, read, flush, callbacks | whole fragments are dropped on the way; counters beside queues | a payload read is a payload sent, and incomplete ones are not read |
| Channel hopping, link phase, data-rate offset: `link_channel_hopping.c`, `link_phase.c`, `link_random_datarate_offset.c` | indices both ends must agree on | increment, resynchronise | agreement after lost frames | both ends choose the same channel once they hear each other |
| TDMA synchronisation: `link_tdma_sync.c` | slave state, wake-up durations | update for transmission, reception, beacon | arithmetic of two clocks, widths | the slave's window contains the frame until it goes back to searching |
| Gain loop, LQI, CCA, fallback | averages and thresholds | update, query | numeric edges | the indicator is monotone and bounded |
| PHY: `wps_phy_common.c`, `single_radio`, `multi_radio` | state of the transfer with the radio, signals | prepare, process radio interrupt, abort | SPI completions and radio interrupts interleave; two radios vote | one outcome is reported for one slot, and no SPI transfer is started on a busy bus |
| Wireless core API: `swc_api.c` | set-up phase, is_started | set up node, radio, connection; wrappers | order of calls | illegal orders are refused |
| Pairing: `src/core/wireless/pairing` | state of coordinator and node, last command, event, slots | start, message received, acknowledged, timeout, abort | two state machines over a lossy link, callbacks in an interrupt | the two ends agree on success and on addresses |
| Audio core: `src/core/audio` | pipelines of endpoints, queues and pools of nodes, samples buffered | produce, process, consume, start, stop | an interrupt at each end and the processing between, at two clocks; underflow and overflow | samples are neither reordered nor duplicated, no end runs out of nodes for good, the count of samples is true |
| Library containers | indices, pools of nodes | enqueue, dequeue, get free, free | one producer, one consumer in two contexts | order and bounds, no node lost |

*Interaction.* The application calls `wps_*` functions, which touch queues,
pools and buffers directly and leave *requests* (connect, disconnect,
schedule) the interrupt picks up. The PHY calls `wps_mac_phy_callback`
with the outcome of a slot; the MAC processes it, enqueues the application's
callbacks, and prepares the next slot, all in one interrupt. Two nodes meet
only through the radio.

Not modelled at all, and why: board support, drivers, vendor code and example
programs (hardware and demonstrations); statistics and certification mode (no
control flow reads them); calibration, spectral tables and sample arithmetic
(no interaction). Section 7 says what is left out of the parts modelled;
`PROJECT.json` lists each part with its status.

## 2. Modules

| Module | Models | How it corresponds to the code |
|---|---|---|
| `SawArq` | `link_saw_arq.c/.h` | the numbers, their increment (`IncSeqNum`), the comparison (`RxFrameDuplicate`) and what is stored (`RxSeqNum`) |
| `LinkCreditFlowCtrl` | `link_credit_flow_ctrl.h` and the credit header field | credits, skipped slots in a byte, the reserve of one slot |
| `LinkConnectStatus` | `link_connect_status.c` | the two counts with hysteresis |
| `WpsLink` | one connection end to end: `wps_mac.c` at both ends, `wps_send`, `wps_read`, flush, connect, disconnect | below |
| `ReliableFifo` | nothing: the abstract promise of a connection | `WpsLink` implements it (`FifoSpec`) |
| `WpsLinkProofs`, `WpsLinkFlowProofs` | theorems about `WpsLink` | section 5 |
| `WpsMemoryProofs`, `WpsFragProofs`, `PairingProofs` | theorems about `WpsMemory`, `WpsFrag` and `Pairing` | section 5 |
| `WpsNodeProofs` | theorems about `WpsNode` and the machine of `WpsPhy` | section 5 |
| `SacPipelineProofs` | theorems about `SacPipeline` | section 5 |
| `SetInduction` | nothing: lemmas the proofs share, on least elements, growing a finite set and iterating a function | section 5 |
| `XlayerCircularData` | `xlayer_circular_data.c` | `Place` is the search for space, `FreedField` decides which index a release moves |
| `WpsMemory` | pools, queues, buffers, and the two contexts of one node | below |
| `WpsFrag` | `wps_frag.c` at both ends of a connection | below |
| `Pairing` | `src/core/wireless/pairing` at a coordinator and its devices | below |
| `WpsPhy` | `wps_phy_common.c` and `single_radio/wps_phy.c`: the machine that drives one radio | below |
| `WpsNode` | extends `WpsPhy` with the MAC layer from slot to slot, requests, callbacks and the application | below |
| `SacPipeline` | `sac_api.c` over `queue.c`: a pipeline from a producer to a consumer | below |
| `MCWpsLink`, `MCWpsMemory`, `MCWpsFrag`, `MCPairing`, `MCWpsNode`, `MCSacPipeline` | the settings the runs choose from | |

### WpsLink

Variables `tx` and `rx` are the connection and MAC fields of the two ends,
`air` what the two PHYs report of the slot, `queueEnd` the number of the last
frame accepted. Frames are numbered in the order `wps_send` accepts them, so
the transmit queue is an interval. `last` (highest frame taken in) and
`suspect` (a frame was given up since the last acknowledgement) are history.

| Action | Code |
|---|---|
| `SlotLost`, `SlotAckLost`, `SlotAcked` | the radio exchange of one slot; what the PHY reports |
| `TxCallback` | `wps_mac_phy_callback` at the transmitter: `process_main_frame_outcome`, credits from the acknowledgement, then `prepare_tx_main` with deadlines, flush request, and the choice of data, header-only or nothing |
| `RxCallback` | the same at the receiver: `process_rx_main`, then `prepare_rx_main`, which takes a node and computes the credits of the next acknowledgement |
| `Send`, `Read`, `FlushRequest` | `wps_send`, `wps_read` with `wps_read_done`, `swc_send_tx_flush_request` |
| `TxConnect`, `RxConnect`, `TxDisconnect`, `RxDisconnect` | `wps_connect`; a disconnection request served, with `reset_connections_parameters` |
| `TxFlushQueue`, `RxFlushQueue` | `swc_connection_flush_queue` while disconnected |

Abstractions. Time: a frame's deadline in ticks may pass at any slot
(`TimeoutDrops`), since no property depends on how long a slot is; the retry
deadline is counted. A status goes down after `DisconnectDuration` slots
without an answer. The receiver's pool has as many nodes as its queue has
places, which is the code's pool for a node with one receive connection (the
sharing of a pool is the subject of `WpsMemory`). Payload in auto-reply
frames, ranging, data-rate offset and throttling are not in this module. The
acknowledgement frame itself is what `air.ack` and the outcome say of it.

### WpsMemory

Variable `mem` holds the pools of transmit and receive nodes, a queue and a
circular buffer per connection, the block of each node and the node the MAC
holds (`rx_node`). `app` is where the application is inside a call: buffer
operations are read and written in two steps, because nothing protects them;
queue operations run in a critical section and are one step.

| Action | Code |
|---|---|
| `FrameOutcome` | `wps_mac_phy_callback`: the outcome of the slot (`process_rx_main`, `send_done`), then `prepare_frame` for any connection of the schedule |
| `ConfigComplete` | `PHY_SIGNAL_CONFIG_COMPLETE` and `process_pending_request`: the slot goes on air, or the disconnection is served |
| `Connect`, `Disconnect` | `wps_connect`, and the request `wps_disconnect` leaves and waits for |
| `GetFreeSlot`, `Allocated` | `wps_get_free_slot`: node, space looked up; then indices written, or the node given back |
| `Send` | `wps_send` |
| `ReadDone`, `FreeingSpace`, `FreedSpace`, `FreedNode` | `wps_read_done`: dequeue, look at the buffer, write it, give the node back |
| `FlushQueue` | `swc_connection_flush_queue` |

The settings say how the node is used: `flush` lets the application flush
queues while disconnected, `preempt` lets the interrupt come inside a buffer
operation of the application, `ackFrames` is `ack_frame_enable`: a transmit
slot then ends in the reception of an acknowledgement frame, which clears
`rx_node`. The code sets it with credit flow control and ranging; without it
`rx_node` stays as the last reception left it (finding 4), so `NodesAccounted`
is stated with it.

### WpsFrag

Variable `tx` is the sender (its queue of fragments, the send under way, the
meta-data queue with `remaining_fragment`, acknowledgements whose callback is
due), `rx` the receiver (`fresh` is the queue of the MAC, `queue` the one of
fragments accepted by the callback, then the state of reassembly and
`enqueued_count`), `out` what the last read returned. `sizes`, `reads` (which
payloads were read), `tx.torn` (payloads queued in part) and `tx.moved`
(payloads inside whose send another connection sent) are history. A fragment
carries its kind, transaction number and number, and the number of its payload in place of
the bytes.

| Action | Code |
|---|---|
| `StartSend`, `SendFragment`, `FinishSend` | `wps_frag_send`: the check of the space, one fragment at a time (the queue may be full by then), the meta-data entry and the next transaction number |
| `OtherSend` | a send on another connection, which moves `transaction_id`, one static variable for all: between two sends, or in a callback that comes inside one (`preempt`) |
| `TxSuccessCallback` | `wps_frag_tx_success_callback` |
| `Deliver`, `Drop` | the connection below (`WpsLink`): in order; a fragment past its deadline goes, arrived or not |
| `RxSuccessCallback` | `wps_frag_read_process` with both of its error paths |
| `FragRead` | `wps_frag_read`, one disjunct per outcome |
| `GetReadPayloadSize` | `wps_frag_get_read_payload_size` where it clears the queue |

The settings: `lossy` is a deadline on the connection, `prompt` an application
that reads whenever it is told of a payload, `preempt` callbacks that come
inside `wps_frag_send`, `other` a second fragmented connection, `buffer` the
size the application reads into, `payloads` how many payloads are sent (a bound). Not modelled: the receive overrun and
`wps_overrun_process` (the receiver is kept from overrunning, as credits do),
and the drop and failure callbacks (they call themselves).

### Pairing

The state functions of the coordinator and of the node are one table each in
the code (`pairing_state_machine`), with the same four parts in each of three
stages: send, wait for the acknowledgement, wait for a message, act. Who asks
and who answers differs by stage (`Asks`). Variable `end` is, for each end,
where its loop is (`pc`), its stage and part, its mailbox (`command` and
`payload`, static in the code, and so kept from one pairing to the next), the
action of the stage, the event and the address; `out` is the message in its
transmit queue, `list` the discovery list, `adopted` history.

| Action | Code |
|---|---|
| `Enter`, `Send`, `Sent`, `Receive`, `Clear`, `Copy`, `Act`, `Idle` | one pass of the loop of `pairing_process`: the state function, then the timeout, then the condition of the loop; `Sent` is the second half of a send, `Clear` and `Copy` the clearing of the command and the copy of the payload, when a callback comes between |
| `Deliver` | `received_message_*_callback`: the command is stored, then the payload |
| `Acknowledge` | `sent_message_*_callback`: the state moves if it waits for it |
| `Abort`, `Leave`, `Start` | `pairing_abort`, `pairing_deinit`, `pairing_*_start` |

Abstractions. The link is that of `WpsLink`: a message is transmitted until it
is acknowledged; `exact` says that none is repeated or lost, and without it
both happen (pairing connections use automatic synchronisation, whose losses
`WpsLink` shows). A message is a stage, whether it asks, and the one byte the
receivers look at. The hash that makes an address from an identifier is a
constant. `prompt` is a loop faster than the messages, `atomic` a pass of it
that no callback interrupts. `stops` are the ends that time out, are aborted or
start again; where it is not empty the loop is `atomic` (a bound named in
`PairingAssumption`).

### WpsPhy and WpsNode

`WpsPhy` keeps the code's lists of functions (`phy_state_list` and so on) and
runs one function per step: `phy.todo` is the rest of the current list,
`phy.next` the queue of lists (`PHY_STATE_Q_SIZE`), a ring the code never
checks, so that taking from an empty one gives `"stale"`. `spi` is the transfer
in progress, `dma` and `irq` the two interrupts with their enable and pending
bits, `radio` what the chip does by itself: its events come at any time after
it is armed, its reply ends some time later.

| Action of `WpsPhy` | Code |
|---|---|
| one operator per function (`prepare_phy`, `set_config`, `read_events`, `get_payload`, ...) | the function of that name; `Function` is the step of `phy_process` |
| `Refuse` | a function that meets the wrong interrupt: the error signal |
| `RadioEvent`, `ReplyEnd`, `TransferDone` | the radio and the DMA (external) |

`WpsNode` adds the layers above. `mac` is the schedule position, the pattern
of each slot's connection, its status and event, and the signal that says
whether the core runs; `requests`, `callbacks`, `rxq` are the queues; `handler`
is the interrupt that runs callbacks; `app` the application and what it knows
of each connection.

| Action of `WpsNode` | Code |
|---|---|
| `NextSlot`, `PrepareFrame` | `process_next_timeslot` with `handle_link_throttle`; `prepare_frame` |
| `Outcome` | `process_main_frame_outcome`: synchronisation, status and its event, receive queue, callbacks |
| `ConfigComplete` | `process_pending_request`, one request per slot: disconnect, active ratio, register read or write |
| `Idle`, `Connected` | the signals of `phy_handle` that end an interrupt; the first slot after a connection |
| `RadioIrq`, `DmaIrq` | `wps_radio_irq`, `wps_transfer_complete` |
| `HandlerStart`, `RunCallback`, `ClearEvent`, `Dequeue`, `HandlerEnd` | `wps_process_callback`, and in it `wps_get_event`, which reads the event and then clears it |
| `Connect`, `Disconnect`, `BusSeenFree`, `Close`, `PollEnds` | `swc_connect`; `swc_disconnect` by request and poll, or directly when a node with fast synchronisation searches |
| `Request`, `ClearRegisters` | `wps_set_active_ratio`, `wps_request_write_register`, `wps_request_read_register`, `wps_clear_write_register` |

Priorities are guards: the radio's interrupts need `cpu = "app"` and nothing
else; the handler needs them not pending (`Quiet`), the application needs the
handler at rest (`AppRuns`). The settings of `MCWpsNode` use each list of
functions: slots that transmit and receive, with a reply, a bare
acknowledgement or none, payloads from the application's memory or not, the
phase offset, synchronisation, throttling, register transfers, a slow reader,
and disconnections by request, in time or not, and directly.

### SacPipeline

Variables `producer`, `process`, `consumer` are the endpoints' queues and
current nodes and the place of `sac_pipeline_process`; `free` counts the three
pools; `buffered` is `samples_buffered_size`; `wireless` the room in the
connection of a radio consumer. A packet is a size and, for the listener, a
mark: two packets of the stream are marked and followed to the ear (`heard`).

| Action | Code |
|---|---|
| `Produce` | `sac_pipeline_produce` and what it calls, with the trigger of the process timer: `Record` for a codec (delayed action: the packet recorded is queued, the next begins), `Receive` for the radio |
| `Played` | `sac_pipeline_consume` of a codec, in the interrupt at the end of a transfer: `consume_delay` |
| `FrameSent` | the tx callback of the application: room for a frame, process triggered |
| `Trigger`, `Tick` | the process timer and its callback |
| `CheckBuffering` ... `FreeOutput` | `sac_pipeline_process`: buffering threshold and start of the consumer, dequeue, copy, stages, `is_consumer_overflowing` in two reads, drop, node, copy, enqueue, count, free; interrupts come between any two |
| `ConsumeAfter` | `sac_pipeline_consume` of a radio consumer, after the processing: `consume_no_delay` |
| `Start`, `StopConsumer`, `StopProducer`, `FreeCurrent` | `sac_pipeline_start`; `sac_pipeline_stop` in the order of the code, after the application stopped the timer and the core |

The producer and the consumer are interrupts that no shared variable connects,
so each of their calls is one step; queue operations are critical sections.
A stage of the processing gives any size, or fails. A failed stage, a lack of a
node for the copy and a packet longer than a consumer's node are errors of
`sac_pipeline_process`, which the callback passes to `ASSERT_SAC_STATUS`, and
`sac_error_handler` is `while (1)`, by default and in the applications:
`process.at` is then `"halted"` for good, in the interrupt of the timer, which
the codec's and the radio's may still interrupt. A lack of a node for a stage is
a warning (`SAC_WARN_PROCESSING_Q_EMPTY`), and the callback goes on.

## 3. Runs

| Run | Question | Result |
|---|---|---|
| `link_guaranteed` | guaranteed delivery, with and without credits: types, what is acknowledged has arrived, no overrun with credits, implements `ReliableFifo`, every frame leaves | holds, 64 thousand states |
| `link_lossy` | deadlines, flush requests, auto-sync, sync frames, credits, no ARQ: the inductive invariant, the same promises weakened as the code weakens them, repetitions only across a reset, sync before data | holds, 356 thousand states |
| `exactly_once` | is a frame ever delivered twice? | yes: finding 1 |
| `guaranteed_credit` | does guaranteed delivery hold with credit flow control? | no: finding 2 |
| `node_memory` | are nodes, queues and payload bytes kept apart? | holds, 681 thousand states |
| `shared_pool` | is space allocated really free, when connections share a pool? | no: finding 3 |
| `stale_rx_node` | is the node a disconnection frees the MAC's own, without acknowledgement frames? | no: finding 4 |
| `fragments` | does reassembly return whole payloads, in order and all of them, as long as no other connection sends inside a send; are counts right; is no success reported early? | holds, 2.2 million states |
| `payloads_mixed` | is a payload read made of one payload sent? | no, with a deadline: finding 5 |
| `pairing` | do the ends agree: no false success, unique addresses, no node alone, no false refusal; does an undisturbed pairing complete? | holds, 367 thousand states |
| `node` | does the radio machine stand every order of its interrupts, requests and events; do frames go on, requests get answers and events reach the application? | holds, 236 thousand states |
| `audio` | do nodes suffice and come back, is the count of samples true, is the order kept, does the stream go on after under- and overflow, as long as the processing ends in no error? | holds, 475 thousand states |

*Bounds.* `link_*`: three frames through queues of two, one disconnection in
all. The ARQ tells frames apart by one bit, plus the two defaults, so three
frames reach every pair of numbers after the start; a queue of two can be
empty, partly filled and full, and two is the smallest size the API accepts.
`SkippedFramesThreshold` is 1 where the code has 3, and the byte of
skipped frames wraps at 4 where the code wraps at 256: the wrap is reached.
`ConnectCount` 1 and `DisconnectDuration` 1 or 2 let the status change
within the run. `node_memory`: one connection of each direction with two
nodes of one size; the pools can be empty and the buffer wraps. The number of
sends, reads and sessions is not bounded there: the state space is finite.
The `WpsFrag` runs send three payloads (`cfg.payloads`), so that one is torn or
loses fragments between two others, and two where another connection sends
inside a send: one whose number moves, and one for it to be mixed with. Fragments have
8 bytes and payloads 1, 8 and 10: one fragment, two, and an exact multiple that
takes three.
`MaxTransactionId` is 2 where the code has 32, so that a number repeats at
once; `CountModulus` is 8 where the code wraps at 65536, above any count three
payloads can reach.

`pairing`: two devices that generate the coordinator's own address, so that
every assignment collides and the search wraps (`MaxAddress` is 4 where the
code has 254); each end pairs twice at most, which is enough for what one
pairing leaves to the next. `node`: schedules of one or two slots, since a
slot influences another only through the machine, the queues and the pattern;
the list queue has its real size (10), the callback queue two places and the
receive queues one, so that both overflow; three calls of the application, a
connection, a request and a disconnection or what follows it.
`audio`: a producer queue of one, the smallest the code allows, consumer queues
of one to three, with and without the extra places of the drift compensation;
payloads of 1 and 2 that fit a node and 3 that does not, so that a wrong size
shows in the count; `samples_buffered_size` wraps at 9, above what the largest
queue holds, where the code wraps at 2^32: an excursion below zero is seen.

*Deadlock* is checked in every run of `WpsLink` and `WpsMemory`: none may
stop. The `WpsFrag` runs end once their payloads are sent, `pairing` once
the ends have used their starts, `node` when the application has left the core
disconnected and used its calls, `audio` when the pipeline is stopped or its
processing halted by an error. What
must go on in them is a liveness property.

*Fairness* (`FairSpec` of `WpsLink`, only for `FramesLeave`): pending
interrupts are served; slots follow one another, which the radio's timer
does; both applications connect and the receiver reads. The radio is assumed
to acknowledge infinitely often among the data frames and among the
header-only frames, if it transmits them infinitely often (strong fairness of
`SlotAcked` for each kind): losses do not depend on what a frame carries.
Without the second, a sender without credits may never hear of new ones.

`Pairing` (`PairingCompletes`, in the undisturbed setting): both loops run,
the applications start them, and the link delivers and acknowledges, which is
what `FramesLeave` gives. `WpsNode` (`FramesGoOn`, `ReadAnswered`): the
processor and the hardware together do not rest while they have something to
do (weak fairness of `Work`): an interrupt that is pending is served, a
transfer and a frame end, which the chip's timers see to; nothing is assumed
of which events come, nor that the application does anything. `SacPipeline` (`StreamGoesOn`): interrupts are
served, codec transfers end, frames come in and go out. Nothing is assumed of what
the stages give; that they end in no error is a condition of the property, since
after an error the code does not go on.

## 4. Findings

1. `exactly_once`. After set-up the transmitter numbers its first frame 2, the
   receiver stores the low bit, 0. If the acknowledgement is lost, the
   repetition carries 2 again, is not equal to 0, and is delivered again.
   `RepeatOnlyAfterReset` shows that this is the only way, apart from sync
   frames and flushes.
2. `guaranteed_credit`. A header-only frame is sent under the current number
   and takes a new one only if acknowledged. If it arrives and its
   acknowledgement is lost, the next data frame has the number the receiver
   already stored: it is discarded, acknowledged and released. Credit flow
   control sends such frames in guaranteed delivery; so do auto-sync and sync
   frames, whence the exclusions in `GuaranteedDelivery`.
3. `shared_pool`. `head = tail` is a full or an empty buffer. With a shared
   pool a connection can be in reception with its queue and buffer full; the
   new frame is placed over the oldest unread one, and only afterwards dropped
   for want of queue space. With one receive connection the pool runs out
   first and `SpaceIsFree` holds.
4. `stale_rx_node`. The node of an accepted frame stays in `rx_node` when the
   next slot is a transmit slot without acknowledgement frame. A disconnection
   served then frees it while it is in the receive queue, with the application,
   or back in the pool.
5. `payloads_mixed`. A last fragment is recognised by its number only. With
   the last fragment of one payload and the first of the next dropped, the
   read returns the head of one with the tail of the other and no error.

Met in `WpsFrag` beside these, and stated in the guards of the properties:

* `check_queue_space` rounds up the number of fragments after the first; the
  loop of `wps_frag_send` rounds down and adds one. They differ when the last
  fragment would be exactly full. With just the checked space the send fails
  after the others are queued, and keeps its transaction number; the next
  payload, accepted, is taken for its continuation and discarded though nothing
  was lost. `FragmentsNeeded` and `FragmentsSent` keep the two counts apart,
  and `tx.torn` the payloads this happens to;
* a payload queued in part may also be read, joined with the next. It waits in
  the queue behind unread payloads; when the next one arrives,
  `wps_frag_read_process_fail` stops at an unread full frame, and the flush
  takes that frame in place of the torn fragments. The read then returns those
  with the fragments of the next payload, though nothing was lost on the way
  (TLC finds it with payloads of 1, 10 and 8 bytes, a queue of five and a slow
  reader, 22 steps). A repeated transaction number does the same. What a read
  returns is therefore a whole payload only without torn ones (`InStep`), which
  the proof of `FragReadsWhole` found: the run is too small for it;
* `wps_frag_send` reads the static `transaction_id` for each fragment, and every
  connection's sends count it on (`wps_frag.c:124`, 135-154, 182). A callback that
  comes inside a send, and sends over another fragmented connection, changes the
  number in the middle of a payload: the receiver takes the second part for another
  payload and the application is never told of this one, on a connection without
  deadlines, although `swc_api.h:801` calls that mode "Guaranteed delivery". With
  `tx.moved = {}` left out of `InStep`, TLC finds `AllRead` violated in the run
  `fragments`: one payload of 10 bytes, its number moved after the first of its
  three fragments. `CountComplete` fails with it. What the properties and their
  theorems promise is therefore about sends of other connections between two
  payloads (`InStep`), and `ReadsWhole` alone says something of the others: reads
  never go back;
* the header says two things of the success callback: `wps_frag.h:59`, that it is
  executed "when a payload is successfully transmitted", and the note at line 61,
  that it "is raised every time a fragment is successfully transmitted". The code
  does not do the second: `wps_frag_tx_success_callback` (line 823) calls the
  application only when `remaining_fragment` is zero. A payload of three fragments
  is reported once. `SuccessNotEarly` is about line 59 and would be wrong of a code
  that did what line 61 says;
* nor does it quite do the first: a payload of n fragments notes n - 1
  acknowledgements to wait for before the one that reports it, but a payload of one
  notes one (`wps_frag.c:173`), so its success waits for another payload's
  acknowledgement. One-fragment payloads sent one at a time are not reported at
  all, each send setting `remaining_fragment` to one again, until their entries have
  filled the meta-data queue. `SuccessNotEarly` says only that no report is early;
* a payload for which the meta-data queue has no place goes unnoted without an
  error, and its acknowledgements are counted for others: with callbacks late by
  more payloads than the queue has places, success is reported early (TLC: four
  payloads of three fragments, four reported when three are sent). Found by the
  proof, beyond the bound of the run; `SuccessNotEarly` is stated while no payload
  went unnoted (`tx.unnoted`) and callbacks do not come inside `wps_frag_send`,
  where `remaining_fragment` is still zero;
* with losses, a torn payload or a number moved inside a send `enqueued_count` disagrees with the queue and
  wraps below zero (`CountComplete`): the size query subtracts fragments from a
  count of payloads.

Met in `WpsMemory`: with frames of different sizes, releasing the block
allocated last takes the head of the circular buffer back and leaves the tail
before the gap at its end (`xlayer_circular_data.c:70`). Blocks of 1, 2 and 3
bytes in a buffer for two frames of 3 reach a state where later releases are
refused: a slot is denied with nothing queued (`RoomForNextFrame` fails after 781
states), or the head meets the tail that was left behind, the full buffer passes for
an empty one, and the next slot lies over a frame still queued (`SpaceIsFree`). The
runs keep one size.

Two settings outside what the runs promise: with the interrupt inside buffer
operations, `SpaceIsFree` fails for the transmit buffer (application
allocates, interrupt releases), which is why it is stated for one context at a
time; with flushes, the buffer keeps the blocks of the flushed nodes.

Met in `Pairing`, and stated in the guards of its properties:

* the static mailboxes keep what an earlier pairing left (`pairing_state_node.c:147`
  does not clear them). A device that pairs again may act on the old
  authentication message, answer unasked, and overwrite the addressing response
  of another device in the coordinator's mailbox: the other is then alone in its
  success (`NodeNeverAlone` holds while no device pairs twice). It may also join
  so the pairing of the other device and take the address listed for that one
  (`UniqueAddresses`, under the same condition). `CoordinatorSuccess` and
  `InvalidMeansDifferent` hold however often the ends pair;
* a success reached in the pass in which the timeout is looked at is reported
  as a timeout;
* a callback between clearing the command and copying the payload makes an end
  read the byte of another message: role 2 of an identification reads as `FAIL`;
* a loop slower than the messages loses one and waits for its timeout, and a
  coordinator that leaves before it has acknowledged the last response leaves
  the node alone, unless the delay at the exit suffices (both in `prompt`);
* a role beyond the discovery list gets an address that is not recorded; a
  failed identification leaves without an event.

Met in `WpsPhy` and `WpsNode`:

* the MAC layer hears of a frame when the transfer of its payload has just
  started, and queues its callback. A handler that still runs from the slot
  before takes it at once, before the payload is in place; `PayloadInPlace` is
  about a handler started for it;
* when the events of a received frame are read after the reply has already
  ended, `get_payload` turns the signal into that of a frame sent, and
  `process_main_frame_outcome` removes an unread frame from the receive queue
  (`FramesForReader` holds as long as events are read in time);
* a disconnection requested while a node searches with fast synchronisation
  is not served, times out, and undoes a later connection; `swc_disconnect`
  clears `is_started` also when its request finds the queue full
  (`StartedMeansRunning` is promised unless a disconnection failed);
* a direct disconnection races with the interrupts it stops, and leaves
  connection status, requests and `rx_node` as they are;
* active ratio 0, which `swc_api.h` allows, on every connection makes
  `handle_link_throttle` loop for ever inside the interrupt (excluded by
  `NodeAssumption`);
* `overwrite_queue_add_transfer` never advances its pointer, so that only the
  first register of a periodic write is looked at;
* `wps_get_event` clears the event after it read it, so that an event in
  between is lost (`atomic`), and slots of the request queue are not reserved:
  two contexts may fill the same one. The model has one context that requests.

Met in `SacPipeline` and the code beside it:

* with a consumer queue of one, or a processing slower than a packet, the
  packet to drop may be gone between the two looks at the queue, and the size
  of no node is read (`dry`); hence `ConsumerLimit > 1` in `NodesSuffice`, which
  the proof asked for;
* `sac_pipeline_stop` keeps `buffering_complete` and the consumer's node, so a
  pipeline started again would never start its consumer; the applications
  build a new one;
* `if (status != SAC_OK)` in `sac_pipeline_process` (line 432) compares the
  pointer: a pipeline with an output mixer returns there each time with a
  processing node in hand. No application of the repository uses the mixer.

## 5. Proofs

Each theorem holds for every value of the constants that satisfies the named
assumptions of the modules it is about. Every invariant below was first checked
by TLC on the run of its module.

| Module | Theorem | Says |
|---|---|---|
| `WpsLinkProofs` | `LinkInvariant`, `TypeCorrect` | `LinkInv`, the inductive invariant of a connection, and its types |
| | `AcknowledgedFramesArrived` | `AckedWasReceived` |
| | `ImplementsReliableFifo` | `Spec => FifoSpec`, the refinement of `ReliableFifo` |
| `WpsLinkFlowProofs` | `SyncGoesFirst` | `SyncBeforeData` |
| | `FramesNotRepeated` | `RepeatOnlyAfterReset` |
| | `CreditsPreventOverrun` | `CreditPreventsOverrun` |
| `WpsMemoryProofs` | `MemoryTypeOK`, `MemoryNodesAccounted` | types; no node lost or in two places |
| | `MemorySpaceIsFree`, `MemoryRoomForNextFrame` | frames keep their bytes to themselves, and a node is enough; one frame size, one connection to receive from |
| `WpsFragProofs` | `FragTypeOK` | types, in every setting |
| | `FragSuccessNotEarly` | `SuccessNotEarly` |
| | `FragCountComplete`, `FragAllRead` | `CountComplete`, `AllRead`: no losses, no torn payload, no send of another connection inside a send (`InStep`) |
| | `FragReadsWhole` | `ReadsWhole`: whole payloads under the same conditions, never backwards without them |
| `PairingProofs` | `PairingTypeOK` | types, in every setting |
| | `PairingInvalidMeansDifferent` | `InvalidMeansDifferent` |
| | `PairingCoordinatorSuccess`, `PairingNodeNeverAlone`, `PairingUniqueAddresses` | the three agreements of the ends, where a pass of the loop is atomic |
| `WpsNodeProofs` | `NodeTypeOK` | types, in every setting |
| | `NodeNoPhyError`, `NodeTransfersAlone` | no interrupt meets a function that does not take it; no transfer meets another |
| | `NodeStateQueueSound` | the ring of lists is sound, with seven places or more |
| | `NodePayloadInPlace`, `NodeFramesForReader` | callbacks run after the payload is in; only the application takes frames out |
| | `NodeStartedMeansRunning`, `NodeEventsReach` | what the application believes of the core and of the connections |
| `SacPipelineProofs` | `PipelineTypeOK`, `PipelineNodes`, `PipelineNodesSuffice` | types; nodes are accounted for, and there are enough |
| | `PipelineSamplesCounted` | `SamplesCounted` |
| | `PipelineHeardInOrder` | `HeardInOrder` |

### The connection

`AckedWasReceived` is not inductive: it speaks only of the moment an
acknowledgement is in hand. `LinkInv` adds why the receiver's number means
what it means. Let `RxSeqInHand` be the number the receiver will compare the
next frame with, and `InHand` the highest frame taken in. Between two
acknowledgements, if `RxSeqInHand` equals the transmitter's number, either the
head of the queue has been taken in, or a frame was given up since
(`suspect`), or a header-only frame with that number is being processed. When
an acknowledgement is pending the receiver's number differs from the next one
the transmitter will use. An acknowledgement of a data frame therefore finds it
taken in or discarded as a duplicate of itself, and the step that processes it
moves to a number the receiver does not hold. A queue flush returns a number
to its default, which no stored number equals. TLC checks `LinkInv` in
`link_lossy`.

The proof has one lemma per operator of the two MACs (what it keeps, what it
changes), one per action with several effects, and `StepInv` with one case per
action. The refinement maps `accepted` to `queueEnd`, `received` to `InHand`
and `confirmed` to `tx.head - 1`: reception is the slot, confirmation or
letting go is the transmitter's callback, everything else stutters.

`WpsLinkFlowProofs` puts three invariants on top. `SyncInv`: with sync frames
on, the status is connected once the sync request is cleared, and no data frame
is prepared while it stands. `RepeatInv`: if the frame at the head has been
taken in already, then the receiver holds its number, or one of the two numbers
is the default of a reset; and without the ARQ a frame goes on air once. `CreditInv`: a receiver that offers a credit has room for one
frame beyond the one that may be in the air, and stays `Ready` from the
acknowledgement that carried the credit until a new frame is taken in; a credit
the transmitter holds is then worth a place. It needs `RepeatInv`'s reading of
the numbers, since a repetition must not use up the place.

### The memory

`NodesAccounted` counts places, and a count is a poor induction hypothesis.
`WpsMemoryProofs` replaces it by a ledger: the *lists* (two pools and a queue
for each connection) and the *hands* (the MAC, the application, and the slot a
connection has handed out), each of which holds one node at most. `Balanced`
says that no list holds a node twice, no node is in two of them, and every node
is somewhere. Four lemmas, `Put`, `Take`, `Pass` and `Pour`, show that the moves
the code makes keep it; every action is one or two of these moves. `SlotInv`
adds what the moves need: the hand they fill is empty. That a node is in
`rx_node` only while a slot of reception is prepared holds with acknowledgement
frames only, which is where finding 4 comes from, so `Balanced` is stated with
them, as `NodesAccounted` is. `OnePlace` turns the ledger into the count.

`prepare_tx_main` drops frames in a loop, `Drop` of `PrepareTx`, a recursive
function. `IterationExists` of `SetInduction` (a function can be iterated) gives it a value, from
the least element of a set of numbers, which comes from the well-foundedness of
finite sets: induction over an operator is not available. `DropsKeep` says once
what is needed of it: a set of memories that `SendDone` does not leave holds the
memory after the drops.

`SpaceIsFree` and `RoomForNextFrame` are about bytes, and need the exact picture
of each circular buffer. With frames of one size it is `QueueSize` places, and
`Packed` says which: the blocks of a *line* of nodes lie one after the other from
the tail to the head, once round at most, and the block cut off last is the last
of the line or has just been given back. That last part decides whether a release
moves the head or the tail (`FreedField`). `PackedGrows` shows that a line shorter
than the buffer leaves room, apart from every block in it, that the block cut off
is its next, and that giving this block back at once restores the line;
`PackedShrinks` that a release of the first block leaves the rest of the line.

The line of a connection to send on is its queue and then the slot the application
got; that of one to receive from is the frame being read and then the queue
(`LineOf`). `Tidy`
says that each buffer holds its line and nothing else, and `Space` adds what is
true inside a call: a slot handed out has its place in the queue, and nothing has
moved since the application looked at the buffer. That the MAC finds room comes
from the ledger: the node in `rx_node` is in no queue and not being read, so with
one connection in the pool the line is shorter than the pool, which has a node for
each place of the buffer (`SpareNow`). TLC checked `SpaceInv` on the instance of
`node_memory`.

The conditions are those of the properties (one context at a time, no flush) and
three more. None can be dropped: on the instance of `node_memory` TLC finds both
properties violated without acknowledgement frames (a stale `rx_node`, finding 4),
with frames of 1 to 3 bytes (section 4), and with a second connection to receive
from (`shared_pool`).

### Fragmentation

Four invariants, each about one question, on top of the types:

* `SuccessInv`: with `T[k]` the fragments of the first k payloads together,
  the fragments acknowledged, the callbacks run and the entries of the meta-data
  queue are places on one scale. `Reports` says that a payload reported was one
  whose total the callbacks have reached; `Arrivals` that the callbacks have not
  overtaken the acknowledgements.
* `ForwardInv`: the three queues (sender, MAC of the receiver, application) are
  one line of fragments whose payload numbers never fall, and what was read is
  before all of it. Taking a fragment out anywhere, which is all that deadlines
  and flushes do, keeps it, so this half of `ReadsWhole` needs no condition.
* `StreamInv`: `InStep`, that is without losses, torn payloads and numbers that
  moved inside a send, the line has no gap. What other connections send between
  two payloads moves the number freely. The
  fragments are at consecutive places of the scale of `T` (`Placed`), the
  application's queue from the total `T[b]` of what was read on, and reassembly is at
  a place of payload m + 1 that `rx.index` and `rx.id` give (`Tracked`), with
  m - b payloads complete. From it follows that no error path of
  `wps_frag_read_process` and `wps_frag_read` is taken, but for a buffer too small.

`CountComplete` then asks for a cardinality, which a bijection between the
payloads b + 1 to m and the ends in the queue gives (`EndsCount`). That reads
return the payloads in order is the same scale seen from the other side: the
fragments up to `T[b + 1]` are those of payload b + 1. With a large buffer the
payloads read are then exactly 1 to b (`ReadUp`), and with nothing under way b is
the number sent, which is `AllRead`. The condition `tx.moved = {}` cannot be
dropped (section 4).

The proof found the two conditions of section 4 that the run is too small for,
and both are now in the properties: places in the meta-data queue, and torn
payloads.

### Pairing

The proof works with steps field by field: `Step` says of one end what each
state function and call does to each of its fields (`Delivers` and
`Acknowledges` do for the callbacks), and `StepCases` shows that every action is
such a step of one end that leaves the others. The
invariants then follow without looking at the actions again:

* `TypeInv`: `Control` (which part goes with which place of the loop), `Posted`
  (a queued message is the one its sender's state would send; a command is that
  of the payload), `OneDevice`;
* `Honest`: what a device with the wrong code can have reached; a failure comes
  from such a device;
* `Current`: an address adopted, or about to be, in the pairing under way is
  the one the coordinator assigned. The number of the pairing is history: no
  message carries one;
* `Answered`: once the coordinator has assigned an address no device is about to
  answer an older one (`Behind`), because the one device that pairs has answered
  the authentication of this pairing before. This is what makes a success true
  although mailboxes are never cleared;
* `Fresh`: what an end has before it starts for the first time;
* for devices that pair once, `Alone` (the coordinator asks nobody else after a
  device took its address) and `Responded` (what it was told is in its mailbox
  or behind it) give `NodeNeverAlone`; `ListSound` (no address listed twice) and
  `Owned` (the address a device hears of is the one listed for its role) give
  `UniqueAddresses`.

`AvailableIsFree`: the search of `get_available_address` returns an address that
is not taken, whatever the list, because the list is shorter than the range.

The proof found two things in the model: the cases of `Message` overlapped
where a device of another stage asks, and the clearing of the command and the
copy of the payload, which were one step, are two in the code.

### The node

The functions of the radio machine call each other through lists, a queue of
lists and two interrupts, so nothing in one function says what the next one may
rely on. `Machine` says it for the whole. Either the core is `Stopped`, with
the interrupts disabled and the radio off, or it `Runs`, and then:

* `Place`: the rest of the current list and the queue together are one of some
  fifty lines, in seven groups that follow the life of a frame (`Fresh`,
  `Tidy`, `Configures`, `Fills`, `Listens`, `Reads`, `Receives`), each with what
  the radio does meanwhile (`Deaf`, `Live`, `Filled`, `EventRead`);
* `BusOK`: where the next function takes the end of a transfer, exactly one is
  owed, still in progress or pending; elsewhere the bus is free. This is
  `TransfersAlone`, and half of `NoPhyError`;
* `SignalOK`: which processor context runs with which input and signal. The
  other half: the interrupt of the radio can reach only a function that takes it, or
  `close_spi` before its transfer has ended.

The proof has one lemma for each function of the machine, each event of the
hardware and each action that touches the machine; `StillSame` covers the rest.
`NodeInv` adds the types and `Lined`, the length of the queue, which `Place`
bounds while the core runs and which a disconnection leaves as it was.
`PayloadInPlace` is then a matter of `SignalOK`: the two signals that pend the handler
are raised with the bus free.

Three more invariants are about the layers:

* `AskedOnce`: unless a disconnection has failed, a request to disconnect is
  queued only while the application polls for its answer, there is at most one,
  and it is gone once the node has answered; an application that is not in a
  call agrees with the core on whether it runs (`StartedMeansRunning`);
* `EventsTold`: for each connection, either the application's view is the
  status, or the stored event names the status and a callback that will read it
  is behind the one being run. The outcome of a slot adds the callback in the
  same step as the event, and `wps_get_event` clears the event in the same step
  as it reads it: without that (`atomic`) the invariant fails, which is a
  divergence of section 4;
* `Exact`: with events read before the reply has gone, the wait for the reply
  (`phy.wait`) is set from the good frame until its payload is handed over, so
  the signal of a frame sent, for which `process_tx_main` takes a frame out of
  the queue, is raised only in a slot that transmits (`FramesForReader`).

### The audio pipeline

`Flow` is the types, `NodesAccounted`, and `Known`: what the places of the
processing have found out and still holds when they act on it, although
interrupts come between (room in the consumer's queue only grows; a prompt
processing leaves a packet to drop). `Counting` states the count by cases in
place of a remainder, so that the wrap around zero is one case; `Total` is a
fold, so the lemmas on it go from the sum of a queue to that of its tail.
`Ordered` is about one line of packets, from the recording to the ear: `Sound`
survives taking packets out anywhere (`SoundThinned`), hearing the first and
recording at the end, and every action is one of the three.

### Assumptions

Beside types of constants: `LinkAssumption` and `CreditAssumption` as the API
checks them; `MemoryAssumption` (finitely many connections, queues of two places
at least), and for `MemorySpaceIsFree` and `MemoryRoomForNextFrame` alone
`OneSize`, `OneReader` and settings with acknowledgement frames; `FragAssumption` (a fragment holds more than its header, and the
receive queue holds fewer fragments than `enqueued_count` can count);
`NodeAssumption` (settings of the types named, a slot that stays active),
`QueueAssumption`, and for `NodeStateQueueSound` alone `QueueSize >= 7` (10 in
the code); `PipelineAssumption` (a producer that is recorded from is started
with the pipeline, `samples_buffered_size` does not wrap within what the largest
queue holds, some packet fits); `PairingAssumption` (roles from 1, a list
shorter than the range of addresses, atomic passes where ends are stopped);
`NullAssumption`, `NoneAssumption` (the null value is no node and no message).
Each is evaluated by TLC in the run of its module.

### Only model-checked

* Liveness (`FramesLeave`, `PairingCompletes`, `FramesGoOn`, `ReadAnswered`,
  `StreamGoesOn`): fairness is out of the prover's reach.
* `CoordinatorSuccess`, `NodeNeverAlone` and `UniqueAddresses` of `Pairing` with
  a callback in the middle of a pass.

## 6. Plan

Theorems: the three agreements of `Pairing` with interrupted passes are left.

Models that could follow: several connections in a slot with their priority,
payloads in auto-replies, a read of `WpsFrag` in several steps.

## 7. Not modelled

* *TDMA synchronisation, channel hopping, data-rate offset.* Arithmetic on
  durations of two clocks and on tables; what the rest reads of it, whether a
  node is synchronised, `WpsNode` leaves open. An agreement of the two ends
  follows from the slot number in each header, which a model without durations
  would assume.
* *Gain loop, LQI, CCA, fallback indicator, statistics, certification.*
  Filters and counters that no control flow of the modelled parts reads.
* *Connection priority.* The models have one connection in each slot.
* *PHY of two radios.* A build option no application turns on.
* *Set-up of the wireless core and of pipelines* (except the sizes of pools
  and queues): it fills structures before anything runs.
* *Of the audio core:* what the processing stages compute, the header and its
  repair, chained endpoints, pipelines linked by a queue, the mixer.
* *Of pairing:* error returns of the wireless core, parameter checks, the hash.
* *Vendored code, drivers, board support and backends,* which hold most of the
  repository's lines: hardware access without a protocol of its own. What the
  modelled parts need of them (interrupts, one-shot DMA, priorities) is an
  external action or a guard.
