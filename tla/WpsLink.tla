------------------------------- MODULE WpsLink -------------------------------
(***************************************************************************)
(* One main connection of the Wireless Protocol Stack, from wps_send at    *)
(* the transmitter to wps_read at the receiver: the two MAC layers         *)
(* (src/core/wireless/protocol_stack/wps_mac.c, wps_mac_xlayer.c), their   *)
(* stop-and-wait ARQ, credit flow control, time-to-live and flush          *)
(* handling, and a radio that loses frames and acknowledgements.           *)
(*                                                                         *)
(* A timeslot is three steps.  Slot is the radio exchange: it hands each   *)
(* MAC the signal its PHY reports.  TxCallback and RxCallback are          *)
(* wps_mac_phy_callback at either end: they process the outcome of the     *)
(* slot and prepare the next one, in one interrupt, and interleave freely  *)
(* with each other and with the two applications.                          *)
(*                                                                         *)
(* A definition named Bug... is not part of the model: it is the one below *)
(* it with a plausible slip, kept to show that a property notices.         *)
(*                                                                         *)
(* Frames are numbered 1, 2, ... in the order wps_send accepts them, so    *)
(* the transmit queue is the interval tx.head .. queueEnd.                 *)
(***************************************************************************)
EXTENDS Integers, Sequences, SawArq, LinkConnectStatus, LinkCreditFlowCtrl

CONSTANTS
  Configurations,  \* the connection settings the application may choose
  TxQueueSize,     \* fifo_buffer_size of the connection at the transmitter
  RxQueueSize,     \* fifo_buffer_size of the connection at the receiver
  MaxFrames,       \* bound: frames the application sends
  MaxSessions      \* bound: disconnections, both ends together

ConfigurationType ==
  [saw : BOOLEAN,        \* stop_and_wait_arq.enable
   ttlRetries : Nat,     \* stop_and_wait_arq.ttl_retries
   ttlTick : Nat,        \* stop_and_wait_arq.ttl_tick
   autoSync : BOOLEAN,   \* auto_sync_enable
   syncFrame : BOOLEAN,  \* a coordinator with cfg.tx_sync_frame_on_syncing
   credit : BOOLEAN,     \* credit_flow_ctrl.enabled
   flush : BOOLEAN]      \* the application uses swc_send_tx_flush_request

ASSUME LinkAssumption ==
  /\ \A c \in Configurations : c \in ConfigurationType
  /\ TxQueueSize \in Nat \ {0}
  /\ RxQueueSize \in Nat \ {0}
  /\ MaxFrames \in Nat
  /\ MaxSessions \in Nat

VARIABLES
  cfg,       \* the settings of the connection, fixed at set-up
  queueEnd,  \* number of the last frame wps_send accepted
  tx,        \* transmitter: connection and MAC state
  rx,        \* receiver: connection and MAC state
  air,       \* signals the two PHYs raised, and what the slot carried
  last,      \* history: the highest frame the receiving MAC took in
  suspect,   \* history: a frame was given up since the last acknowledgement
  sessions   \* bound: disconnections so far

vars == <<cfg, queueEnd, tx, rx, air, last, suspect, sessions>>

GuaranteedMode == GuaranteedDeliveryMode(cfg.ttlTick, cfg.ttlRetries)

Frames == 1 .. MaxFrames
Xlayers == {"none", "empty", "data"}
FrameType == [xlayer : Xlayers, id : Nat, seq : TxSeqNums]
NoFrame == [xlayer |-> "none", id |-> 0, seq |-> 0]

QueueSizeOf(t) == queueEnd + 1 - t.head

-----------------------------------------------------------------------------
(* The transmitting MAC *)

\* send_done: the frame at the head leaves the queue (nothing does when the
\* queue is empty), and a pending flush request is forgotten.
SendDone(t) ==
  [t EXCEPT !.head = IF @ <= queueEnd THEN @ + 1 ELSE @,
            !.retry = 0,
            !.flush = FALSE]

BugUpdateConnectStatusMain(t, outcome) ==
  [t EXCEPT !.status = UpdateConnectStatus(t.status, outcome)]

\* update_connect_status_main: a coordinator that loses the link sends a
\* header-only frame first when the link is back.
UpdateConnectStatusMain(t, outcome) ==
  LET status == UpdateConnectStatus(t.status, outcome)
  IN [t EXCEPT !.status = status,
               !.sync = IF t.status.connected /\ ~status.connected THEN cfg.syncFrame ELSE @]

BugProcessTxMain(t, signal) ==
  LET known == [UpdateConnectStatusMain(t, IF signal = "ACK" THEN "SENT_ACK" ELSE "SENT_ACK_LOST")
                  EXCEPT !.seq = IF cfg.saw THEN IncSeqNum(@) ELSE @,
                         !.credits = IF cfg.saw THEN SpendCredit(@) ELSE @]
  IN IF signal = "ACK" \/ ~cfg.saw THEN SendDone(known) ELSE known

ProcessTxMain(t, signal) ==
  IF signal = "ACK"
  THEN LET known == UpdateConnectStatusMain(t, "SENT_ACK")
           counted == [known EXCEPT !.seq = IncSeqNum(@),
                                    !.credits = SpendCredit(@),
                                    !.skipped = 0]
       IN SendDone(IF cfg.saw THEN counted ELSE known)
  ELSE LET known == UpdateConnectStatusMain(t, "SENT_ACK_LOST")
       IN IF cfg.saw THEN known ELSE SendDone(known)

\* A header-only frame, or nothing at all, was in the slot.
ProcessTxMainEmpty(t, signal) ==
  LET outcome == IF signal = "ACK" THEN "SENT_ACK"
                 ELSE IF t.xlayer = "empty" THEN "SENT_ACK_LOST" ELSE "WAIT"
      known == UpdateConnectStatusMain(t, outcome)
  IN [known EXCEPT !.sync = @ /\ ~known.status.connected,
                   !.seq = IF signal = "ACK" THEN IncSeqNum(@) ELSE @]

ProcessMainFrameOutcome(t, signal) ==
  IF t.xlayer = "data" THEN ProcessTxMain(t, signal) ELSE ProcessTxMainEmpty(t, signal)

\* The header of the acknowledgement carries the receiver's credits; it is
\* extracted after the main frame has been accounted for.
ProcessAutoFrameOutcome(t, signal, credits) ==
  IF cfg.credit /\ signal = "ACK" THEN [t EXCEPT !.credits = credits] ELSE t

\* How many frames flush_timeout_frames_before_sending may drop.  The retry
\* count of the head decides for the first; the clock, left open here, may
\* condemn any number of frames from the head when a time deadline is set.
TimeoutDrops(t) ==
  {n \in 0 .. QueueSizeOf(t) :
     LET out == QueueSizeOf(t) > 0 /\ RetriesTimeout(cfg.ttlRetries, t.retry)
     IN /\ n = 0 => ~(cfg.saw /\ out)
        /\ n > 0 => cfg.saw /\ (out \/ cfg.ttlTick > 0)
        /\ n > 1 => cfg.ttlTick > 0}

\* Every frame the loop looks at has its retry count incremented; the count
\* is kept up to the deadline, beyond it nothing reads it.
FlushTimeoutFrames(t, n) ==
  LET seen == IF n = 0 THEN t.retry + 1 ELSE 1
  IN [t EXCEPT !.head = @ + n,
               !.retry = IF n = QueueSizeOf(t) THEN 0
                         ELSE IF seen > cfg.ttlRetries THEN cfg.ttlRetries ELSE seen,
               !.flush = @ /\ n = 0]

FlushTxFrame(t) == IF t.flush THEN SendDone(t) ELSE t

\* What goes into the slot.  No node: a header-only frame or, with nothing
\* to say, an empty slot.  send_sync_frame holds data back.
GetXlayerForTxMain(t) ==
  LET skipped == CountSkipped(cfg.credit, t.credits, t.skipped)
      node == CreditAvailable(cfg.credit, t.credits) /\ QueueSizeOf(t) > 0
      headerOnly == \/ node /\ t.sync
                    \/ ~node /\ (cfg.autoSync \/ SkippedFramesExceed(cfg.credit, skipped))
  IN [t EXCEPT !.skipped = skipped,
               !.xlayer = CASE headerOnly -> "empty"
                            [] node /\ ~t.sync -> "data"
                            [] OTHER -> "none"]

PrepareTxMain(t, drops) ==
  LET kept == IF cfg.saw /\ ~GuaranteedMode THEN FlushTimeoutFrames(t, drops) ELSE t
  IN GetXlayerForTxMain(FlushTxFrame(kept))

\* The outcome of the slot, then the next slot, in one interrupt.
TxCallback ==
  /\ air.tx # "NONE"
  /\ LET done == ProcessAutoFrameOutcome(ProcessMainFrameOutcome(tx, air.tx), air.tx, air.ack)
     IN \E n \in TimeoutDrops(done) :
          /\ tx' = PrepareTxMain(done, n)
          /\ suspect' = \/ tx'.head > done.head
                        \/ air.tx = "NACK" /\ (suspect \/ tx.xlayer = "empty")
  /\ air' = [air EXCEPT !.tx = "NONE"]
  /\ UNCHANGED <<cfg, queueEnd, rx, last, sessions>>

-----------------------------------------------------------------------------
(* The radio: one timeslot *)

\* The frame is lost, or received with its acknowledgement lost, or received
\* and acknowledged.  An empty slot or an absent peer can only be lost.
Slot(outcome) ==
  /\ air.tx = "NONE" /\ air.rx = "NONE"
  /\ tx.up \/ rx.up
  /\ outcome # "LOST" => tx.up /\ rx.up /\ tx.xlayer # "none"
  /\ air' = [tx |-> IF ~tx.up THEN "NONE" ELSE IF outcome = "ACKED" THEN "ACK" ELSE "NACK",
             rx |-> IF ~rx.up THEN "NONE" ELSE IF outcome = "LOST" THEN "MISSED" ELSE "RECEIVED",
             frame |-> IF outcome = "LOST" THEN NoFrame
                       ELSE [xlayer |-> tx.xlayer, id |-> tx.head, seq |-> tx.seq],
             ack |-> rx.ack]
  /\ UNCHANGED <<cfg, queueEnd, tx, rx, last, suspect, sessions>>

-----------------------------------------------------------------------------
(* The receiving MAC *)

BugIsFresh(r, frame) == ~(cfg.saw /\ RxFrameDuplicate(r.seq, frame.seq))

\* The frame on air carries data the receiver will not discard.
IsFresh(r, frame) ==
  frame.xlayer = "data" /\ ~(cfg.saw /\ RxFrameDuplicate(r.seq, frame.seq))

BugProcessRxMain(r, frame) ==
  [r EXCEPT !.seq = IF frame.xlayer = "data" THEN RxSeqNum(frame.seq) ELSE @,
            !.queue = IF IsFresh(r, frame) /\ r.node /\ Len(@) < RxQueueSize
                      THEN Append(@, frame.id) ELSE @]

\* process_rx_main: header, duplicate, room in the queue.  A frame that came
\* into a slot prepared without a node goes to the overrun buffer and is
\* lost there, whether the queue has room by now or not.
ProcessRxMain(r, frame) ==
  [r EXCEPT !.seq = RxSeqNum(frame.seq),
            !.queue = IF IsFresh(r, frame) /\ r.node /\ Len(@) < RxQueueSize
                      THEN Append(@, frame.id) ELSE @]

\* prepare_rx_main takes a node from the free queue, which has as many as the
\* receive queue has places; with it go the credits of the next
\* acknowledgement.
PrepareRxMain(r) ==
  LET room == RxQueueSize - Len(r.queue)
  IN [r EXCEPT !.ack = CreditToSend(room), !.node = room > 0]

RxCallback ==
  /\ air.rx # "NONE"
  /\ IF air.rx = "RECEIVED"
     THEN /\ rx' = PrepareRxMain(ProcessRxMain(rx, air.frame))
          /\ last' = IF IsFresh(rx, air.frame) THEN air.frame.id ELSE last
     ELSE /\ rx' = PrepareRxMain(rx)
          /\ UNCHANGED last
  /\ air' = [air EXCEPT !.rx = "NONE", !.frame = NoFrame]
  /\ UNCHANGED <<cfg, queueEnd, tx, suspect, sessions>>

-----------------------------------------------------------------------------
(* The two applications *)

BugSend ==
  /\ queueEnd < MaxFrames
  /\ queueEnd' = queueEnd + 1
  /\ UNCHANGED <<cfg, tx, rx, air, last, suspect, sessions>>

\* wps_send
Send ==
  /\ queueEnd < MaxFrames
  /\ QueueSizeOf(tx) < TxQueueSize
  /\ queueEnd' = queueEnd + 1
  /\ UNCHANGED <<cfg, tx, rx, air, last, suspect, sessions>>

\* wps_read, wps_read_done
Read ==
  /\ rx.queue # <<>>
  /\ rx' = [rx EXCEPT !.queue = Tail(@)]
  /\ UNCHANGED <<cfg, queueEnd, tx, air, last, suspect, sessions>>

\* swc_send_tx_flush_request
FlushRequest ==
  /\ cfg.flush
  /\ tx' = [tx EXCEPT !.flush = TRUE]
  /\ UNCHANGED <<cfg, queueEnd, rx, air, last, suspect, sessions>>

\* wps_connect at either end: the first slot is prepared.
TxConnect ==
  /\ ~tx.up
  /\ \E n \in TimeoutDrops(tx) :
       /\ tx' = [PrepareTxMain(tx, n) EXCEPT !.up = TRUE]
       /\ suspect' = (suspect \/ tx'.head > tx.head)
  /\ UNCHANGED <<cfg, queueEnd, rx, air, last, sessions>>

RxConnect ==
  /\ ~rx.up
  /\ rx' = [PrepareRxMain(rx) EXCEPT !.up = TRUE]
  /\ UNCHANGED <<cfg, queueEnd, tx, air, last, suspect, sessions>>

\* wps_disconnect: the request is served between two slots, and the
\* connection parameters are reset; queues and sequence numbers are not.
TxDisconnect ==
  /\ sessions < MaxSessions
  /\ tx.up /\ air.tx = "NONE"
  /\ tx' = [tx EXCEPT !.up = FALSE, !.xlayer = "none",
                      !.status = ConnectStatusReset, !.sync = cfg.syncFrame]
  /\ sessions' = sessions + 1
  /\ UNCHANGED <<cfg, queueEnd, rx, air, last, suspect>>

RxDisconnect ==
  /\ sessions < MaxSessions
  /\ rx.up /\ air.rx = "NONE"
  /\ rx' = [rx EXCEPT !.up = FALSE]
  /\ sessions' = sessions + 1
  /\ UNCHANGED <<cfg, queueEnd, tx, air, last, suspect>>

\* swc_connection_flush_queue, refused while the core runs: the queue is
\* emptied and the sequence number goes back to its default.
TxFlushQueue ==
  /\ ~tx.up
  /\ tx' = [tx EXCEPT !.head = queueEnd + 1, !.retry = 0,
                      !.seq = IF cfg.saw THEN TX_DEFAULT_SAW_INDEX ELSE @]
  /\ UNCHANGED <<cfg, queueEnd, rx, air, last, suspect, sessions>>

RxFlushQueue ==
  /\ ~rx.up
  /\ rx' = [rx EXCEPT !.queue = <<>>,
                      !.seq = IF cfg.saw THEN RX_DEFAULT_SAW_INDEX ELSE @]
  /\ UNCHANGED <<cfg, queueEnd, tx, air, last, suspect, sessions>>

-----------------------------------------------------------------------------
Init ==
  /\ cfg \in Configurations
  /\ queueEnd = 0
  /\ tx = [up |-> FALSE, head |-> 1, retry |-> 0,
           seq |-> IF cfg.saw THEN TX_DEFAULT_SAW_INDEX ELSE 0,
           flush |-> FALSE, sync |-> cfg.syncFrame, status |-> ConnectStatusReset,
           credits |-> WPS_MIN_QUEUE_SIZE, skipped |-> 0, xlayer |-> "none"]
  /\ rx = [up |-> FALSE, seq |-> IF cfg.saw THEN RX_DEFAULT_SAW_INDEX ELSE 0,
           queue |-> <<>>, node |-> FALSE, ack |-> 0]
  /\ air = [tx |-> "NONE", rx |-> "NONE", frame |-> NoFrame, ack |-> 0]
  /\ last = 0
  /\ suspect = FALSE
  /\ sessions = 0

SlotLost == Slot("LOST")
SlotAckLost == Slot("ACK_LOST")
SlotAcked == Slot("ACKED")

Next ==
  \/ TxCallback \/ RxCallback
  \/ SlotLost \/ SlotAckLost \/ SlotAcked
  \/ Send \/ Read \/ FlushRequest
  \/ TxConnect \/ RxConnect \/ TxDisconnect \/ RxDisconnect
  \/ TxFlushQueue \/ RxFlushQueue

Spec == Init /\ [][Next]_vars

\* Interrupts are served, the applications read and connect, slots follow one
\* another, and the radio, which does not look into a frame, acknowledges
\* neither all data frames nor all header-only frames in vain.
Fairness ==
  /\ WF_vars(TxCallback) /\ WF_vars(RxCallback)
  /\ WF_vars(TxConnect) /\ WF_vars(RxConnect) /\ WF_vars(Read)
  /\ WF_vars(SlotLost \/ SlotAckLost \/ SlotAcked)
  /\ SF_vars(SlotAcked /\ tx.xlayer = "data")
  /\ SF_vars(SlotAcked /\ tx.xlayer = "empty")

FairSpec == Spec /\ Fairness

-----------------------------------------------------------------------------
(* Properties *)

TxStates ==
  [up : BOOLEAN, head : Nat, retry : Nat, seq : TxSeqNums, flush : BOOLEAN,
   sync : BOOLEAN, status : ConnectStatuses, credits : Nat, skipped : Nat,
   xlayer : Xlayers]

RxStates ==
  [up : BOOLEAN, seq : RxSeqNums, queue : Seq(Nat), node : BOOLEAN, ack : Nat]

AirStates ==
  [tx : {"NONE", "ACK", "NACK"}, rx : {"NONE", "MISSED", "RECEIVED"},
   frame : FrameType, ack : Nat]

(* Every variable has its type, and the transmit queue its bound. *)
TypeOK ==
  /\ cfg \in Configurations
  /\ queueEnd \in Nat
  /\ tx \in TxStates
  /\ rx \in RxStates
  /\ air \in AirStates
  /\ last \in Nat
  /\ suspect \in BOOLEAN
  /\ sessions \in Nat
  /\ QueueSizeOf(tx) \in 0 .. TxQueueSize

\* The settings under which a connection delivers everything: no deadline,
\* no flush request, and no header-only frames, which take sequence numbers.
GuaranteedDelivery ==
  /\ cfg.saw /\ GuaranteedMode /\ ~cfg.flush
  /\ ~cfg.autoSync /\ ~cfg.syncFrame /\ ~cfg.credit

\* The highest frame the receiver took in or has in hand.
InHand == IF air.rx = "RECEIVED" /\ IsFresh(rx, air.frame) THEN air.frame.id ELSE last

(* A data frame about to be reported as sent (process_tx_main, tx_success   *)
(* callback) has reached the receiving MAC.  Only a connection that drops   *)
(* frames or sends header-only frames may report a frame the receiver       *)
(* discarded, and then only after it gave a frame up without acknowledgement.*)
AckedWasReceived ==
  air.tx = "ACK" /\ tx.xlayer = "data" =>
    InHand >= tx.head \/ (suspect /\ ~GuaranteedDelivery)

\* The number the receiver will compare the next frame with.
RxSeqInHand == IF air.rx = "RECEIVED" THEN RxSeqNum(air.frame.seq) ELSE rx.seq

(* Why AckedWasReceived holds, as an inductive invariant.  Between two      *)
(* acknowledgements the receiver holds the number of the frame on air only  *)
(* if it took that very frame in, or the number was used up by a frame the  *)
(* transmitter gave up or by a header-only frame.                           *)
LinkInv ==
  /\ TypeOK
  /\ GuaranteedDelivery =>
       tx.flush = FALSE /\ tx.sync = FALSE /\ suspect = FALSE /\ tx.xlayer # "empty"
  /\ tx.xlayer = "data" => tx.head <= queueEnd
  /\ ~tx.up => air.tx = "NONE" /\ tx.xlayer = "none"
  /\ ~rx.up => air.rx = "NONE"
  /\ InHand <= tx.head /\ InHand <= queueEnd
  /\ air.tx = "ACK" /\ cfg.saw => RxSeqInHand # IncSeqNum(tx.seq)
  /\ air.tx = "ACK" /\ tx.xlayer = "data" => InHand = tx.head \/ suspect
  /\ air.tx # "ACK" /\ cfg.saw /\ RxSeqInHand = tx.seq =>
       \/ InHand = tx.head \/ suspect
       \/ air.tx = "NACK" /\ tx.xlayer = "empty"

(* The receiver takes a frame in a second time only across a reset of a     *)
(* sequence number (the first frame after set-up or a queue flush) or when  *)
(* a sync frame was slipped in between (link_saw_arq_is_rx_frame_duplicate).*)
RepeatOnlyAfterReset ==
  air.rx = "RECEIVED" /\ IsFresh(rx, air.frame) /\ air.frame.id <= last =>
    \/ air.frame.seq = TX_DEFAULT_SAW_INDEX
    \/ rx.seq = RX_DEFAULT_SAW_INDEX
    \/ cfg.syncFrame

(* Credit flow control keeps the receive queue from overrunning             *)
(* (MAC_SIGNAL_WPS_FRAME_RX_OVERRUN) and frames from arriving in a slot     *)
(* prepared without a node, the first frame after a reset apart.            *)
CreditPreventsOverrun ==
  cfg.credit /\ cfg.saw /\ air.rx = "RECEIVED" /\ IsFresh(rx, air.frame) =>
    (Len(rx.queue) < RxQueueSize /\ rx.node) \/ air.frame.seq = TX_DEFAULT_SAW_INDEX

(* A coordinator asked to send a sync frame when it is out of sync puts no  *)
(* data on air before a header-only frame has been acknowledged.            *)
SyncBeforeData == cfg.syncFrame /\ tx.xlayer = "data" => tx.status.connected

(* What link_saw_arq_is_rx_frame_duplicate is there for: no frame is taken  *)
(* in twice.                                                                *)
DeliveredOnce == air.rx = "RECEIVED" /\ IsFresh(rx, air.frame) => air.frame.id > last

(* swc_api.h: deadlines of 0 "will result in a Guaranteed delivery          *)
(* transmission mode": what is reported as sent has been received.          *)
GuaranteedArrives ==
  cfg.saw /\ GuaranteedMode /\ ~cfg.flush /\ air.tx = "ACK" /\ tx.xlayer = "data" =>
    InHand >= tx.head

\* The promise to the applications, with the history variable as the
\* receiver's count and the end of the queue as the sender's.
Fifo == INSTANCE ReliableFifo WITH
          reliable <- GuaranteedDelivery,
          accepted <- queueEnd,
          received <- InHand,
          confirmed <- tx.head - 1

(* The connection implements ReliableFifo: in order, and with nothing let   *)
(* go before it arrived when delivery is guaranteed (swc_api.h: deadlines   *)
(* of 0 "will result in a Guaranteed delivery transmission mode").          *)
FifoSpec == Fifo!Spec

(* Every frame wps_send accepted leaves the queue, whatever is lost on air. *)
FramesLeave == \A n \in Frames : queueEnd >= n ~> tx.head > n
=============================================================================
