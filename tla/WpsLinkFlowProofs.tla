-------------------------- MODULE WpsLinkFlowProofs --------------------------
(***************************************************************************)
(* Proofs about WpsLink that rest on what the transmitter knows of the     *)
(* link: its connection status, its sync request and its credits.  They    *)
(* hold for every choice of settings, queue sizes and bounds.              *)
(***************************************************************************)
EXTENDS WpsLinkProofs

USE LinkAssumption, ConnectStatusAssumption, CreditAssumption

-----------------------------------------------------------------------------
(* What the handlers of the transmitter do to status, sync and credits *)

\* A coordinator that is not asked to send a sync frame is connected.
InSync(t) == cfg.syncFrame /\ ~t.sync => t.status.connected

LEMMA StatusMainInSync ==
  ASSUME cfg \in Configurations, queueEnd \in Nat, NEW t, GoodTx(t), NEW outcome
  PROVE  LET u == UpdateConnectStatusMain(t, outcome)
         IN  InSync(t) => InSync(u)
<1> DEFINE status == UpdateConnectStatus(t.status, outcome)
           s == IF t.status.connected /\ ~status.connected THEN cfg.syncFrame ELSE t.sync
           u == UpdateConnectStatusMain(t, outcome)
<1>1. t \in TxStates /\ status \in ConnectStatuses /\ cfg.syncFrame \in BOOLEAN
  BY UpdateConnectStatusType DEF GoodTx, TxStates, ConfigurationType
<1>2. u = [t EXCEPT !.status = status, !.sync = s]
  BY DEF UpdateConnectStatusMain
<1>3. InSync(t) /\ cfg.syncFrame /\ ~s => status.connected
  BY <1>1 DEF InSync
<1> HIDE DEF status, s, u
<1>4. u.status = status /\ u.sync = s
  BY <1>1, <1>2 DEF TxStates
<1> QED
  BY <1>3, <1>4 DEF u, InSync

LEMMA OutcomeFlow ==
  ASSUME cfg \in Configurations, queueEnd \in Nat, NEW t, GoodTx(t),
         NEW signal \in {"ACK", "NACK"}, NEW credits \in Nat
  PROVE  LET o == ProcessAutoFrameOutcome(ProcessMainFrameOutcome(t, signal), signal, credits)
         IN  /\ InSync(t) => InSync(o)
             /\ signal = "NACK" \/ (~cfg.credit /\ t.xlayer # "data") => o.credits = t.credits
             /\ signal = "ACK" /\ cfg.credit => o.credits = credits
<1> DEFINE m == ProcessMainFrameOutcome(t, signal)
           o == ProcessAutoFrameOutcome(m, signal, credits)
           Moved(u) ==
             /\ u \in TxStates
             /\ InSync(t) => InSync(u)
             /\ signal = "NACK" \/ t.xlayer # "data" => u.credits = t.credits
<1>1. ASSUME NEW u \in TxStates, InSync(t) => InSync(u),
             signal = "NACK" \/ t.xlayer # "data" => u.credits = t.credits,
             u.head \in Nat
      PROVE  Moved(SendDone(u))
  <2> DEFINE h == IF u.head <= queueEnd THEN u.head + 1 ELSE u.head
             d == SendDone(u)
  <2>1. h \in Nat
    BY <1>1
  <2>2. d = [u EXCEPT !.head = h, !.retry = 0, !.flush = FALSE]
    BY DEF SendDone
  <2> HIDE DEF d, h
  <2>3. d \in TxStates /\ d.sync = u.sync /\ d.status = u.status /\ d.credits = u.credits
    BY <1>1, <2>1, <2>2 DEF TxStates
  <2> QED
    BY <1>1, <2>3 DEF InSync, d
<1>2. ASSUME t.xlayer = "data", signal = "ACK" PROVE Moved(m)
  <2> DEFINE k == UpdateConnectStatusMain(t, "SENT_ACK")
             q == IncSeqNum(k.seq)
             s == SpendCredit(k.credits)
             c == [k EXCEPT !.seq = q, !.credits = s, !.skipped = 0]
             b == IF cfg.saw THEN c ELSE k
  <2>1. GoodTx(k) /\ (InSync(t) => InSync(k))
    BY UpdateConnectStatusMainFacts, StatusMainInSync
  <2>2. k \in TxStates /\ q \in TxSeqNums /\ s \in Nat
    BY <2>1, IncSeqNumType DEF GoodTx, TxStates, SpendCredit
  <2>3. m = SendDone(b)
    BY <1>2 DEF ProcessMainFrameOutcome, ProcessTxMain
  <2> HIDE DEF k, q, s, m
  <2>4. c \in TxStates /\ c.sync = k.sync /\ c.status = k.status
    BY <2>2 DEF TxStates
  <2> HIDE DEF c
  <2>5. b \in TxStates /\ (InSync(t) => InSync(b)) /\ b.head \in Nat
    BY <2>1, <2>2, <2>4 DEF InSync, TxStates
  <2> HIDE DEF b
  <2> QED
    BY <1>1, <1>2, <2>3, <2>5
<1>3. ASSUME t.xlayer = "data", signal = "NACK" PROVE Moved(m)
  <2> DEFINE k == UpdateConnectStatusMain(t, "SENT_ACK_LOST")
  <2>1. GoodTx(k) /\ (InSync(t) => InSync(k)) /\ k.credits = t.credits
    BY UpdateConnectStatusMainFacts, StatusMainInSync
  <2>2. k \in TxStates /\ k.head \in Nat
    BY <2>1 DEF GoodTx, TxStates
  <2>3. m = IF cfg.saw THEN k ELSE SendDone(k)
    BY <1>3 DEF ProcessMainFrameOutcome, ProcessTxMain
  <2> HIDE DEF k, m
  <2>4. Moved(k) /\ Moved(SendDone(k))
    BY <1>1, <2>1, <2>2
  <2> QED
    BY <2>3, <2>4
<1>4. ASSUME t.xlayer # "data" PROVE Moved(m)
  <2> DEFINE outcome == IF signal = "ACK" THEN "SENT_ACK"
                        ELSE IF t.xlayer = "empty" THEN "SENT_ACK_LOST" ELSE "WAIT"
             k == UpdateConnectStatusMain(t, outcome)
             s == k.sync /\ ~k.status.connected
             q == IF signal = "ACK" THEN IncSeqNum(k.seq) ELSE k.seq
  <2>1. GoodTx(k) /\ (InSync(t) => InSync(k)) /\ k.credits = t.credits
    BY UpdateConnectStatusMainFacts, StatusMainInSync
  <2>2. k \in TxStates /\ q \in TxSeqNums /\ s \in BOOLEAN /\ k.status.connected \in BOOLEAN
    BY <2>1, IncSeqNumType DEF GoodTx, TxStates, ConnectStatuses
  <2>3. m = [k EXCEPT !.sync = s, !.seq = q]
    BY <1>4 DEF ProcessMainFrameOutcome, ProcessTxMainEmpty
  <2>4. (k.sync = FALSE \/ k.status.connected) <=> ~s
    BY <2>2 DEF TxStates
  <2> HIDE DEF k, q, s, m
  <2>5. m \in TxStates /\ m.sync = s /\ m.status = k.status /\ m.credits = k.credits
    BY <2>2, <2>3 DEF TxStates
  <2> QED
    BY <2>1, <2>2, <2>4, <2>5 DEF InSync, TxStates
<1>5. Moved(m)
  BY <1>2, <1>3, <1>4 DEF GoodTx, TxStates, Xlayers
<1> HIDE DEF m
<1>6. /\ o \in TxStates /\ o.sync = m.sync /\ o.status = m.status
      /\ o.credits = IF cfg.credit /\ signal = "ACK" THEN credits ELSE m.credits
  BY <1>5 DEF ProcessAutoFrameOutcome, TxStates
<1> QED
  BY <1>5, <1>6 DEF InSync, m

\* Only the header counter and what goes on air depend on sync and credits, which
\* preparing a slot leaves alone.
LEMMA PrepareFlow ==
  ASSUME cfg \in Configurations, queueEnd \in Nat, NEW t, GoodTx(t),
         NEW n \in TimeoutDrops(t)
  PROVE  LET p == PrepareTxMain(t, n)
         IN  /\ p.sync = t.sync /\ p.status = t.status /\ p.credits = t.credits
             /\ p.xlayer = "data" => ~t.sync /\ CreditAvailable(cfg.credit, t.credits)
             /\ ~t.sync /\ CreditAvailable(cfg.credit, t.credits) /\ p.head <= queueEnd =>
                  p.xlayer = "data"
<1> DEFINE k == IF cfg.saw /\ ~GuaranteedMode THEN FlushTimeoutFrames(t, n) ELSE t
           f == FlushTxFrame(k)
           p == PrepareTxMain(t, n)
<1>1. GoodTx(k) /\ k.sync = t.sync /\ k.status = t.status /\ k.credits = t.credits
  <2> DEFINE w == FlushTimeoutFrames(t, n)
             h == t.head + n
             seen == IF n = 0 THEN t.retry + 1 ELSE 1
             r == IF n = QueueSizeOf(t) THEN 0
                  ELSE IF seen > cfg.ttlRetries THEN cfg.ttlRetries ELSE seen
             u == t.flush /\ n = 0
  <2>1. GoodTx(w)
    BY FlushTimeoutFacts
  <2>2. w = [t EXCEPT !.head = h, !.retry = r, !.flush = u]
    BY DEF FlushTimeoutFrames
  <2> HIDE DEF h, r, u
  <2>3. w.sync = t.sync /\ w.status = t.status /\ w.credits = t.credits
    BY <2>2 DEF GoodTx, TxStates
  <2> HIDE DEF w
  <2>4. k = w \/ k = t
    BY DEF w
  <2> HIDE DEF k
  <2> QED
    BY <2>1, <2>3, <2>4
<1> HIDE DEF k
<1>2. GoodTx(f) /\ f.sync = k.sync /\ f.status = k.status /\ f.credits = k.credits
  <2> DEFINE d == SendDone(k)
  <2>1. GoodTx(d) /\ d.sync = k.sync /\ d.credits = k.credits
    BY <1>1, SendDoneFacts
  <2>2. d.status = k.status
    BY <1>1 DEF SendDone, GoodTx, TxStates
  <2> HIDE DEF d
  <2>3. f = d \/ f = k
    BY DEF FlushTxFrame, d
  <2> HIDE DEF f
  <2> QED
    BY <1>1, <2>1, <2>2, <2>3
<1>3. p = GetXlayerForTxMain(f)
  BY DEF PrepareTxMain, k
<1> HIDE DEF f, p
<1> DEFINE c == CountSkipped(cfg.credit, f.credits, f.skipped)
           credit == CreditAvailable(cfg.credit, f.credits)
           queued == QueueSizeOf(f) > 0
           node == credit /\ queued
           headerOnly == \/ node /\ f.sync
                         \/ ~node /\ (cfg.autoSync \/ SkippedFramesExceed(cfg.credit, c))
           x == CASE headerOnly -> "empty"
                  [] node /\ ~f.sync -> "data"
                  [] OTHER -> "none"
<1>4. p = [f EXCEPT !.skipped = c, !.xlayer = x]
  BY <1>3 DEF GetXlayerForTxMain
<1> HIDE DEF c, credit, queued
<1>5. (x = "data" => credit /\ queued /\ ~f.sync) /\ (credit /\ queued /\ ~f.sync => x = "data")
  BY Zenon
<1> HIDE DEF x, node, headerOnly
<1>6. p.sync = f.sync /\ p.status = f.status /\ p.credits = f.credits /\ p.xlayer = x
      /\ p.head = f.head
  BY <1>2, <1>4 DEF GoodTx, TxStates
<1>7. p.head <= queueEnd => queued
  BY <1>2, <1>6 DEF queued, QueueSizeOf, GoodTx, TxStates
<1>8. credit <=> CreditAvailable(cfg.credit, t.credits)
  BY <1>1, <1>2 DEF credit
<1> QED
  BY <1>1, <1>2, <1>5, <1>6, <1>7, <1>8 DEF p

LEMMA TxCallbackFlow ==
  ASSUME LinkInv, TxCallback
  PROVE  /\ InSync(tx) => InSync(tx')
         /\ ~cfg.syncFrame /\ tx.sync = FALSE => tx'.sync = FALSE
         /\ tx'.xlayer = "data" => ~tx'.sync /\ CreditAvailable(cfg.credit, tx'.credits)
         /\ ~tx'.sync /\ CreditAvailable(cfg.credit, tx'.credits) /\ tx'.head <= queueEnd =>
              tx'.xlayer = "data"
         /\ air.tx = "NACK" \/ (~cfg.credit /\ tx.xlayer # "data") => tx'.credits = tx.credits
         /\ air.tx = "ACK" /\ cfg.credit => tx'.credits = air.ack
         /\ tx.xlayer = "data" /\ (air.tx = "ACK" \/ ~cfg.saw) => tx'.head > tx.head
<1> DEFINE o == ProcessAutoFrameOutcome(ProcessMainFrameOutcome(tx, air.tx), air.tx, air.ack)
<1>1. /\ cfg \in Configurations /\ queueEnd \in Nat /\ GoodTx(tx)
      /\ tx.xlayer = "data" => tx.head <= queueEnd
      /\ air.tx \in {"ACK", "NACK"} /\ air.ack \in Nat
  BY DEF LinkInv, TypeOK, GoodTx, TxCallback, AirStates
<1>2. PICK n \in TimeoutDrops(o) : tx' = PrepareTxMain(o, n)
  BY DEF TxCallback
<1>3. /\ GoodTx(o)
      /\ tx.xlayer = "data" /\ (air.tx = "ACK" \/ ~cfg.saw) => o.head = tx.head + 1
      /\ ~cfg.syncFrame /\ tx.sync = FALSE => o.sync = FALSE
  BY ZenonT(30), <1>1, OutcomeFacts
<1>4. /\ InSync(tx) => InSync(o)
      /\ air.tx = "NACK" \/ (~cfg.credit /\ tx.xlayer # "data") => o.credits = tx.credits
      /\ air.tx = "ACK" /\ cfg.credit => o.credits = air.ack
  BY <1>1, OutcomeFlow
<1> HIDE DEF o
<1> DEFINE p == PrepareTxMain(o, n)
<1>5. /\ GoodTx(p) /\ o.head <= p.head
      /\ p.sync = o.sync /\ p.status = o.status /\ p.credits = o.credits
      /\ p.xlayer = "data" => ~o.sync /\ CreditAvailable(cfg.credit, o.credits)
      /\ ~o.sync /\ CreditAvailable(cfg.credit, o.credits) /\ p.head <= queueEnd =>
           p.xlayer = "data"
  BY <1>1, <1>2, <1>3, PrepareFacts, PrepareFlow
<1>6. tx' = p
  BY <1>2
<1> HIDE DEF p
<1>7. tx.head \in Nat /\ o.head \in Nat /\ p.head \in Nat
  BY <1>1, <1>3, <1>5 DEF GoodTx, TxStates
<1>8. tx.xlayer = "data" /\ (air.tx = "ACK" \/ ~cfg.saw) => tx'.head > tx.head
  BY <1>3, <1>5, <1>6, <1>7
<1>9. InSync(tx) => InSync(tx')
  BY <1>4, <1>5, <1>6 DEF InSync
<1> QED
  BY <1>3, <1>4, <1>5, <1>6, <1>8, <1>9

LEMMA TxConnectFlow ==
  ASSUME LinkInv, TxConnect
  PROVE  /\ tx'.sync = tx.sync /\ tx'.status = tx.status /\ tx'.credits = tx.credits
         /\ tx'.xlayer = "data" => ~tx'.sync /\ CreditAvailable(cfg.credit, tx'.credits)
         /\ ~tx'.sync /\ CreditAvailable(cfg.credit, tx'.credits) /\ tx'.head <= queueEnd =>
              tx'.xlayer = "data"
<1>1. PICK n \in TimeoutDrops(tx) : tx' = [PrepareTxMain(tx, n) EXCEPT !.up = TRUE]
  BY DEF TxConnect
<1>2. cfg \in Configurations /\ queueEnd \in Nat /\ GoodTx(tx)
  BY DEF LinkInv, TypeOK, GoodTx
<1> DEFINE p == PrepareTxMain(tx, n)
<1>3. /\ GoodTx(p)
      /\ p.sync = tx.sync /\ p.status = tx.status /\ p.credits = tx.credits
      /\ p.xlayer = "data" => ~tx.sync /\ CreditAvailable(cfg.credit, tx.credits)
      /\ ~tx.sync /\ CreditAvailable(cfg.credit, tx.credits) /\ p.head <= queueEnd =>
           p.xlayer = "data"
  BY <1>2, PrepareFacts, PrepareFlow
<1>4. tx' = [p EXCEPT !.up = TRUE]
  BY <1>1
<1> HIDE DEF p
<1>5. tx'.sync = p.sync /\ tx'.status = p.status /\ tx'.credits = p.credits
      /\ tx'.xlayer = p.xlayer /\ tx'.head = p.head
  BY <1>3, <1>4 DEF GoodTx, TxStates
<1> QED
  BY <1>3, <1>5

LEMMA SettingsKept ==
  ASSUME [Next]_vars
  PROVE  cfg' = cfg
BY DEF Next, vars, TxCallback, RxCallback, SlotLost, SlotAckLost, SlotAcked, Slot, Send,
       Read, FlushRequest, TxConnect, RxConnect, TxDisconnect, RxDisconnect,
       TxFlushQueue, RxFlushQueue

\* The steps that leave what goes on air as it is, and credits, sync and status.
Quiet ==
  \/ RxCallback \/ SlotLost \/ SlotAckLost \/ SlotAcked \/ Send \/ Read \/ FlushRequest
  \/ RxConnect \/ RxDisconnect \/ TxFlushQueue \/ RxFlushQueue \/ UNCHANGED vars

LEMMA QuietFacts ==
  ASSUME LinkInv, Quiet
  PROVE  /\ tx'.up = tx.up /\ tx'.xlayer = tx.xlayer /\ tx'.sync = tx.sync
         /\ tx'.status = tx.status /\ tx'.credits = tx.credits
         /\ TxFlushQueue \/ (tx'.head = tx.head /\ tx'.seq = tx.seq)
<1>1. tx \in TxStates
  BY DEF LinkInv, TypeOK
<1>2. CASE RxCallback \/ SlotLost \/ SlotAckLost \/ SlotAcked \/ Send \/ Read \/ RxConnect
           \/ RxDisconnect \/ RxFlushQueue \/ UNCHANGED vars
  <2>1. tx' = tx
    BY <1>2 DEF RxCallback, SlotLost, SlotAckLost, SlotAcked, Slot, Send, Read, RxConnect,
                RxDisconnect, RxFlushQueue, vars
  <2> QED
    BY <2>1
<1>3. CASE FlushRequest
  <2>1. tx' = [tx EXCEPT !.flush = TRUE]
    BY <1>3 DEF FlushRequest
  <2> QED
    BY <1>1, <2>1 DEF TxStates
<1>4. CASE TxFlushQueue
  <2> DEFINE h == queueEnd + 1
             s == IF cfg.saw THEN TX_DEFAULT_SAW_INDEX ELSE tx.seq
  <2>1. tx' = [tx EXCEPT !.head = h, !.retry = 0, !.seq = s]
    BY <1>4 DEF TxFlushQueue
  <2> HIDE DEF h, s
  <2> QED
    BY <1>1, <1>4, <2>1 DEF TxStates
<1> QED
  BY <1>2, <1>3, <1>4 DEF Quiet

-----------------------------------------------------------------------------
(* A sync frame before data *)

SyncInv ==
  /\ InSync(tx)
  /\ ~cfg.syncFrame => tx.sync = FALSE
  /\ tx.xlayer = "data" => ~tx.sync

LEMMA SyncInit == Init => SyncInv
<1> SUFFICES ASSUME Init PROVE SyncInv
  OBVIOUS
<1>1. cfg.syncFrame \in BOOLEAN
  BY DEF Init, ConfigurationType
<1>2. tx.sync = cfg.syncFrame /\ tx.xlayer = "none"
  BY DEF Init
<1> QED
  BY <1>1, <1>2 DEF SyncInv, InSync

LEMMA SyncStep ==
  ASSUME LinkInv, SyncInv, [Next]_vars
  PROVE  SyncInv'
<1>1. cfg' = cfg /\ cfg.syncFrame \in BOOLEAN /\ tx \in TxStates
  BY SettingsKept DEF LinkInv, TypeOK, ConfigurationType
<1>2. CASE TxCallback
  <2>1. InSync(tx') /\ (~cfg.syncFrame => tx'.sync = FALSE) /\ (tx'.xlayer = "data" => ~tx'.sync)
    BY <1>2, TxCallbackFlow DEF SyncInv
  <2> QED
    BY <1>1, <2>1 DEF SyncInv, InSync
<1>3. CASE TxConnect
  <2>1. tx'.sync = tx.sync /\ tx'.status = tx.status /\ (tx'.xlayer = "data" => ~tx'.sync)
    BY <1>3, TxConnectFlow
  <2> QED
    BY <1>1, <2>1 DEF SyncInv, InSync
<1>4. CASE TxDisconnect
  <2>1. tx'.sync = cfg.syncFrame /\ tx'.xlayer = "none"
    BY <1>1, <1>4 DEF TxDisconnect, TxStates
  <2> QED
    BY <1>1, <2>1 DEF SyncInv, InSync
<1>5. CASE Quiet
  <2>1. tx'.sync = tx.sync /\ tx'.status = tx.status /\ tx'.xlayer = tx.xlayer
    BY <1>5, QuietFacts
  <2> QED
    BY <1>1, <2>1 DEF SyncInv, InSync
<1> QED
  BY <1>2, <1>3, <1>4, <1>5 DEF Next, Quiet

(* A coordinator with cfg.tx_sync_frame_on_syncing puts data on air only    *)
(* while it is connected, so that a header-only frame has gone first.       *)
THEOREM SyncGoesFirst == Spec => []SyncBeforeData
<1>1. LinkInv /\ SyncInv /\ [Next]_vars => SyncInv'
  BY SyncStep
<1>2. SyncInv => SyncBeforeData
  BY DEF SyncInv, InSync, SyncBeforeData
<1> QED
  BY <1>1, <1>2, SyncInit, LinkInvariant, PTL DEF Spec

-----------------------------------------------------------------------------
(* No frame is taken in twice but across a reset *)

\* Where the receiver holds the frame at the head of the queue, that frame is
\* what goes on air next, with the number the receiver holds already.
Repeated ==
  InHand = tx.head =>
    /\ CreditAvailable(cfg.credit, tx.credits)
    /\ tx.xlayer # "empty"
    /\ \/ RxSeqInHand = tx.seq
       \/ tx.seq = TX_DEFAULT_SAW_INDEX
       \/ RxSeqInHand = RX_DEFAULT_SAW_INDEX

\* Without the ARQ a frame goes on air once.
SentOnce == ~cfg.saw /\ (air.tx = "NONE" \/ tx.xlayer # "data") => InHand < tx.head

RepeatInv ==
  /\ tx.xlayer = "data" => CreditAvailable(cfg.credit, tx.credits)
  /\ air.tx = "ACK" => tx.xlayer # "none"
  /\ ~cfg.syncFrame => Repeated
  /\ SentOnce
  /\ RepeatOnlyAfterReset

LEMMA LinkTypes ==
  ASSUME LinkInv
  PROVE  /\ cfg \in Configurations /\ cfg.saw \in BOOLEAN /\ cfg.syncFrame \in BOOLEAN
         /\ cfg.credit \in BOOLEAN
         /\ queueEnd \in Nat /\ tx \in TxStates /\ rx \in RxStates /\ air \in AirStates
         /\ last \in Nat /\ tx.head \in Nat /\ tx.seq \in TxSeqNums /\ tx.xlayer \in Xlayers
         /\ tx.sync \in BOOLEAN /\ tx.credits \in Nat
         /\ air.tx \in {"NONE", "ACK", "NACK"} /\ air.ack \in Nat
         /\ rx.seq \in RxSeqNums /\ rx.node \in BOOLEAN /\ rx.ack \in Nat
         /\ rx.queue \in Seq(Nat) /\ Len(rx.queue) \in Nat
         /\ air.frame.id \in Nat
         /\ InHand \in Nat /\ InHand <= tx.head /\ InHand <= queueEnd
         /\ tx.head <= queueEnd + 1
<1>1. /\ cfg \in Configurations /\ queueEnd \in Nat /\ tx \in TxStates /\ rx \in RxStates
      /\ air \in AirStates /\ last \in Nat /\ QueueSizeOf(tx) \in 0 .. TxQueueSize
      /\ InHand <= tx.head /\ InHand <= queueEnd
  BY DEF LinkInv, TypeOK
<1>2. cfg.saw \in BOOLEAN /\ cfg.syncFrame \in BOOLEAN /\ cfg.credit \in BOOLEAN
  BY <1>1 DEF ConfigurationType
<1>3. /\ tx.head \in Nat /\ tx.seq \in TxSeqNums /\ tx.xlayer \in Xlayers
      /\ tx.sync \in BOOLEAN /\ tx.credits \in Nat
      /\ rx.seq \in RxSeqNums /\ rx.node \in BOOLEAN /\ rx.ack \in Nat
      /\ rx.queue \in Seq(Nat)
  BY <1>1 DEF TxStates, RxStates
<1>4. /\ air.tx \in {"NONE", "ACK", "NACK"} /\ air.ack \in Nat /\ air.frame.id \in Nat
  BY <1>1 DEF AirStates, FrameType
<1>5. InHand \in Nat
  BY <1>1, <1>4 DEF InHand
<1>6. Len(rx.queue) \in Nat
  BY <1>3
<1>7. tx.head <= queueEnd + 1
  BY <1>1, <1>3 DEF QueueSizeOf
<1> QED
  BY <1>1, <1>2, <1>3, <1>4, <1>5, <1>6, <1>7

LEMMA RepeatInit == Init => RepeatInv
<1> SUFFICES ASSUME Init PROVE RepeatInv
  OBVIOUS
<1>1. tx.xlayer = "none" /\ tx.head = 1 /\ air.tx = "NONE" /\ air.rx = "NONE" /\ last = 0
  BY DEF Init
<1>2. InHand = 0
  BY <1>1 DEF InHand
<1> QED
  BY <1>1, <1>2 DEF RepeatInv, Repeated, SentOnce, RepeatOnlyAfterReset

\* A step of the transmitter or of an application shows the receiver nothing.
LEMMA HandStays ==
  ASSUME LinkInv, cfg' = cfg, air'.rx = air.rx, air'.frame = air.frame, rx'.seq = rx.seq,
         last' = last
  PROVE  /\ InHand' = InHand /\ RxSeqInHand' = RxSeqInHand
         /\ IsFresh(rx, air.frame)' <=> IsFresh(rx, air.frame)
         /\ RepeatOnlyAfterReset => RepeatOnlyAfterReset'
BY DEF InHand, RxSeqInHand, IsFresh, RepeatOnlyAfterReset

\* The transmitter prepares a slot: the frame the receiver holds is repeated.
LEMMA RepeatTxCallback ==
  ASSUME LinkInv, SyncInv, RepeatInv, TxCallback
  PROVE  RepeatInv'
<1>1. /\ cfg' = cfg /\ rx' = rx /\ last' = last /\ queueEnd' = queueEnd
      /\ air.tx # "NONE" /\ air' = [air EXCEPT !.tx = "NONE"]
  BY DEF TxCallback
<1>2. air'.tx = "NONE" /\ air'.rx = air.rx /\ air'.frame = air.frame
  BY <1>1, LinkTypes DEF AirStates
<1>3. InHand' = InHand /\ RxSeqInHand' = RxSeqInHand /\ RepeatOnlyAfterReset'
  BY <1>1, <1>2, HandStays DEF RepeatInv
<1>4. /\ tx'.head \in Nat /\ tx.head <= tx'.head
      /\ tx'.seq = IF air.tx = "ACK" /\ (cfg.saw \/ tx.xlayer # "data")
                   THEN IncSeqNum(tx.seq) ELSE tx.seq
  BY TxCallbackFacts DEF GoodTx, TxStates
<1>5. InHand \in Nat /\ tx.head \in Nat /\ InHand <= tx.head /\ InHand <= queueEnd
      /\ air.tx \in {"ACK", "NACK"} /\ tx.xlayer \in {"none", "empty", "data"}
      /\ cfg.saw \in BOOLEAN
  BY <1>1, LinkTypes DEF Xlayers
<1>6. ASSUME ~cfg.syncFrame, InHand = tx'.head
      PROVE  /\ CreditAvailable(cfg.credit, tx'.credits)
             /\ tx'.xlayer = "data"
             /\ \/ RxSeqInHand = tx'.seq
                \/ tx'.seq = TX_DEFAULT_SAW_INDEX
                \/ RxSeqInHand = RX_DEFAULT_SAW_INDEX
  <2>1. InHand = tx.head /\ tx'.head = tx.head /\ tx'.head <= queueEnd
    BY <1>4, <1>5, <1>6
  <2>2. /\ CreditAvailable(cfg.credit, tx.credits)
        /\ tx.xlayer # "empty"
        /\ \/ RxSeqInHand = tx.seq
           \/ tx.seq = TX_DEFAULT_SAW_INDEX
           \/ RxSeqInHand = RX_DEFAULT_SAW_INDEX
    BY <1>6, <2>1 DEF RepeatInv, Repeated
  <2>3. air.tx = "NACK"
    <3>1. ~(tx.xlayer = "data" /\ air.tx = "ACK")
      BY <1>4, <1>5, <2>1, TxCallbackFlow
    <3>2. air.tx = "ACK" => tx.xlayer # "none"
      BY DEF RepeatInv
    <3> QED
      BY <1>5, <2>2, <3>1, <3>2
  <2>4. tx'.seq = tx.seq
    BY <1>4, <2>3
  <2>5. tx'.credits = tx.credits /\ tx'.sync = FALSE
    BY <1>6, <2>3, TxCallbackFlow DEF SyncInv
  <2>6. tx'.xlayer = "data"
    BY <2>1, <2>2, <2>5, TxCallbackFlow
  <2> QED
    BY <2>2, <2>4, <2>5, <2>6
<1>7. ASSUME ~cfg.saw PROVE InHand < tx'.head
  <2>1. CASE tx.xlayer = "data"
    <3>1. tx'.head > tx.head
      BY <1>7, <2>1, TxCallbackFlow
    <3> QED
      BY <1>4, <1>5, <3>1
  <2>2. CASE tx.xlayer # "data"
    <3>1. InHand < tx.head
      BY <1>7, <2>2 DEF RepeatInv, SentOnce
    <3> QED
      BY <1>4, <1>5, <3>1
  <2> QED
    BY <2>1, <2>2
<1>8. tx'.xlayer = "data" => CreditAvailable(cfg.credit, tx'.credits)
  BY TxCallbackFlow
<1> QED
  BY <1>1, <1>2, <1>3, <1>6, <1>7, <1>8 DEF RepeatInv, Repeated, SentOnce

LEMMA RepeatTxConnect ==
  ASSUME LinkInv, SyncInv, RepeatInv, TxConnect
  PROVE  RepeatInv'
<1>1. /\ cfg' = cfg /\ rx' = rx /\ last' = last /\ queueEnd' = queueEnd /\ air' = air /\ ~tx.up
  BY DEF TxConnect
<1>2. InHand' = InHand /\ RxSeqInHand' = RxSeqInHand /\ RepeatOnlyAfterReset'
  BY <1>1, HandStays DEF RepeatInv
<1>3. tx'.head \in Nat /\ tx.head <= tx'.head /\ tx'.seq = tx.seq
  BY TxConnectFacts DEF GoodTx, TxStates
<1>4. /\ tx'.sync = tx.sync /\ tx'.credits = tx.credits
      /\ tx'.xlayer = "data" => CreditAvailable(cfg.credit, tx'.credits)
      /\ ~tx'.sync /\ CreditAvailable(cfg.credit, tx'.credits) /\ tx'.head <= queueEnd =>
           tx'.xlayer = "data"
  BY TxConnectFlow
<1>5. InHand \in Nat /\ tx.head \in Nat /\ InHand <= tx.head /\ InHand <= queueEnd
  BY LinkTypes
<1>6. air.tx = "NONE"
  BY <1>1 DEF LinkInv
<1>7. ASSUME ~cfg.syncFrame, InHand = tx'.head
      PROVE  InHand = tx.head /\ CreditAvailable(cfg.credit, tx'.credits) /\ tx'.xlayer = "data"
  <2>1. InHand = tx.head /\ tx'.head <= queueEnd
    BY <1>3, <1>5, <1>7
  <2>2. CreditAvailable(cfg.credit, tx.credits) /\ tx.sync = FALSE
    BY <1>7, <2>1 DEF RepeatInv, Repeated, SyncInv
  <2> QED
    BY <1>4, <2>1, <2>2
<1>8. ASSUME ~cfg.saw PROVE InHand < tx'.head
  <2>1. InHand < tx.head
    BY <1>6, <1>8 DEF RepeatInv, SentOnce
  <2> QED
    BY <1>3, <1>5, <2>1
<1>9. ~cfg.syncFrame => Repeated'
  BY <1>1, <1>2, <1>3, <1>7 DEF RepeatInv, Repeated
<1> QED
  BY <1>1, <1>2, <1>4, <1>6, <1>8, <1>9 DEF RepeatInv, SentOnce

\* A frame that the receiver holds already comes with the number it holds.
LEMMA RepeatSlot ==
  ASSUME LinkInv, RepeatInv, NEW outcome \in {"LOST", "ACK_LOST", "ACKED"}, Slot(outcome)
  PROVE  RepeatInv'
<1>1. cfg' = cfg /\ tx' = tx /\ rx' = rx /\ last' = last /\ air.tx = "NONE" /\ air.rx = "NONE"
  BY DEF Slot
<1>2. /\ InHand = last /\ RxSeqInHand = rx.seq
      /\ outcome = "LOST" => air'.tx # "ACK" /\ InHand' = last /\ RxSeqInHand' = rx.seq
      /\ outcome # "LOST" =>
           /\ air'.tx # "NONE" /\ tx.xlayer # "none" /\ RxSeqInHand' = RxSeqNum(tx.seq)
           /\ InHand' = IF tx.xlayer = "data" /\ ~(cfg.saw /\ tx.seq = rx.seq)
                        THEN tx.head ELSE last
  BY SlotFacts
<1>3. tx.seq # TX_DEFAULT_SAW_INDEX => RxSeqNum(tx.seq) = tx.seq
  BY LinkTypes, IncSeqNumType
<1>4. /\ tx.head \in Nat /\ last \in Nat /\ last <= tx.head /\ cfg.saw \in BOOLEAN
      /\ cfg.syncFrame \in BOOLEAN
  BY <1>2, LinkTypes
<1>5. ASSUME ~cfg.syncFrame, InHand' = tx.head
      PROVE  /\ CreditAvailable(cfg.credit, tx.credits)
             /\ tx.xlayer # "empty"
             /\ \/ RxSeqInHand' = tx.seq
                \/ tx.seq = TX_DEFAULT_SAW_INDEX
                \/ RxSeqInHand' = RX_DEFAULT_SAW_INDEX
  <2>1. CASE InHand' = InHand
    <3>1. /\ CreditAvailable(cfg.credit, tx.credits)
          /\ tx.xlayer # "empty"
          /\ \/ RxSeqInHand = tx.seq
             \/ tx.seq = TX_DEFAULT_SAW_INDEX
             \/ RxSeqInHand = RX_DEFAULT_SAW_INDEX
      BY <1>5, <2>1 DEF RepeatInv, Repeated
    <3> QED
      BY <1>2, <1>3, <3>1
  <2>2. CASE InHand' # InHand
    <3>1. tx.xlayer = "data" /\ RxSeqInHand' = RxSeqNum(tx.seq)
      BY <1>2, <2>2
    <3>2. CreditAvailable(cfg.credit, tx.credits)
      BY <3>1 DEF RepeatInv
    <3> QED
      BY <1>3, <3>1, <3>2
  <2> QED
    BY <2>1, <2>2
<1>6. ASSUME ~cfg.saw, air'.tx = "NONE" \/ tx.xlayer # "data" PROVE InHand' < tx.head
  <2>1. InHand < tx.head
    BY <1>1, <1>6 DEF RepeatInv, SentOnce
  <2>2. InHand' = InHand
    BY <1>2, <1>6
  <2> QED
    BY <2>1, <2>2
<1>7. RepeatOnlyAfterReset'
  <2> SUFFICES ASSUME air'.rx = "RECEIVED", IsFresh(rx, air.frame)', air'.frame.id <= last,
                      ~cfg.syncFrame
               PROVE  air'.frame.seq = TX_DEFAULT_SAW_INDEX \/ rx.seq = RX_DEFAULT_SAW_INDEX
    BY <1>1 DEF RepeatOnlyAfterReset
  <2>1. /\ outcome # "LOST"
        /\ air'.frame.xlayer = tx.xlayer /\ air'.frame.id = tx.head /\ air'.frame.seq = tx.seq
    <3> DEFINE fr == IF outcome = "LOST" THEN NoFrame
                     ELSE [xlayer |-> tx.xlayer, id |-> tx.head, seq |-> tx.seq]
               at == IF ~tx.up THEN "NONE" ELSE IF outcome = "ACKED" THEN "ACK" ELSE "NACK"
               ar == IF ~rx.up THEN "NONE" ELSE IF outcome = "LOST" THEN "MISSED" ELSE "RECEIVED"
    <3>1. air' = [tx |-> at, rx |-> ar, frame |-> fr, ack |-> rx.ack]
      BY DEF Slot
    <3>2. air'.rx = ar /\ air'.frame = fr
      BY <3>1
    <3> QED
      BY <3>2
  <2>2. tx.xlayer = "data" /\ ~(cfg.saw /\ tx.seq = rx.seq)
    BY <1>1, <2>1 DEF IsFresh, RxFrameDuplicate
  <2>3. InHand = tx.head
    BY <1>2, <1>4, <2>1
  <2>4. cfg.saw
    BY <1>1, <1>2, <1>4, <2>3 DEF RepeatInv, SentOnce
  <2> QED
    BY <1>2, <2>1, <2>2, <2>3, <2>4 DEF RepeatInv, Repeated
<1>8. ~cfg.syncFrame => Repeated'
  BY <1>1, <1>5 DEF Repeated
<1>9. SentOnce'
  BY <1>1, <1>6 DEF SentOnce
<1> QED
  BY <1>1, <1>2, <1>7, <1>8, <1>9 DEF RepeatInv

LEMMA RepeatStep ==
  ASSUME LinkInv, SyncInv, RepeatInv, [Next]_vars
  PROVE  RepeatInv'
<1>1. cfg' = cfg /\ rx \in RxStates /\ air \in AirStates
  BY SettingsKept, LinkTypes
<1>2. CASE RxCallback
  <2>1. tx' = tx /\ InHand' = InHand /\ RxSeqInHand' = RxSeqInHand /\ air'.tx = air.tx
        /\ air'.rx = "NONE"
    BY <1>2, RxCallbackFacts DEF RxCallback
  <2> QED
    BY <1>1, <2>1 DEF RepeatInv, Repeated, SentOnce, RepeatOnlyAfterReset
<1>3. CASE Send \/ Read \/ FlushRequest \/ UNCHANGED vars
  <2>1. air' = air /\ last' = last /\ rx'.seq = rx.seq
    BY <1>1, <1>3 DEF Send, Read, FlushRequest, vars, RxStates
  <2>2. tx'.head = tx.head /\ tx'.seq = tx.seq /\ tx'.xlayer = tx.xlayer /\ tx'.credits = tx.credits
    <3>1. Quiet /\ ~(TxFlushQueue /\ ~(tx'.head = tx.head /\ tx'.seq = tx.seq))
      BY <1>3, LinkTypes DEF Quiet, Send, Read, FlushRequest, vars, TxStates
    <3> QED
      BY <3>1, QuietFacts
  <2>3. InHand' = InHand /\ RxSeqInHand' = RxSeqInHand /\ RepeatOnlyAfterReset'
    BY <1>1, <2>1, HandStays DEF RepeatInv
  <2> QED
    BY <1>1, <2>1, <2>2, <2>3 DEF RepeatInv, Repeated, SentOnce
<1>4. CASE RxConnect \/ RxDisconnect \/ RxFlushQueue
  <2>1. tx' = tx /\ air' = air /\ last' = last
    BY <1>4 DEF RxConnect, RxDisconnect, RxFlushQueue
  <2>2. air.rx = "NONE"
    BY <1>4 DEF RxConnect, RxDisconnect, RxFlushQueue, LinkInv
  <2>3. rx'.seq = rx.seq \/ rx'.seq = RX_DEFAULT_SAW_INDEX
    <3>1. CASE RxConnect
      <4> DEFINE a == CreditToSend(RxQueueSize - Len(rx.queue))
                 b == RxQueueSize - Len(rx.queue) > 0
      <4>1. rx' = [[rx EXCEPT !.ack = a, !.node = b] EXCEPT !.up = TRUE]
        BY <3>1 DEF RxConnect, PrepareRxMain
      <4> HIDE DEF a, b
      <4> QED
        BY <1>1, <4>1 DEF RxStates
    <3>2. CASE RxDisconnect
      BY <1>1, <3>2 DEF RxDisconnect, RxStates
    <3>3. CASE RxFlushQueue
      <4> DEFINE s == IF cfg.saw THEN RX_DEFAULT_SAW_INDEX ELSE rx.seq
      <4>1. rx' = [rx EXCEPT !.queue = <<>>, !.seq = s]
        BY <3>3 DEF RxFlushQueue
      <4>2. s = rx.seq \/ s = RX_DEFAULT_SAW_INDEX
        OBVIOUS
      <4> HIDE DEF s
      <4>3. rx'.seq = s
        BY <1>1, <4>1 DEF RxStates
      <4> QED
        BY <4>2, <4>3
    <3> QED
      BY <1>4, <3>1, <3>2, <3>3
  <2>4. InHand' = InHand /\ RxSeqInHand = rx.seq /\ RxSeqInHand' = rx'.seq
    BY <2>1, <2>2 DEF InHand, RxSeqInHand
  <2> QED
    BY <1>1, <2>1, <2>2, <2>3, <2>4 DEF RepeatInv, Repeated, SentOnce, RepeatOnlyAfterReset
<1>5. CASE TxDisconnect
  <2>1. rx' = rx /\ air' = air /\ last' = last
        /\ tx' = [tx EXCEPT !.up = FALSE, !.xlayer = "none",
                            !.status = ConnectStatusReset, !.sync = cfg.syncFrame]
    BY <1>5 DEF TxDisconnect
  <2>2. tx'.head = tx.head /\ tx'.seq = tx.seq /\ tx'.xlayer = "none" /\ tx'.credits = tx.credits
    BY <2>1, LinkTypes DEF TxStates
  <2>3. InHand' = InHand /\ RxSeqInHand' = RxSeqInHand /\ RepeatOnlyAfterReset'
    BY <1>1, <2>1, HandStays DEF RepeatInv
  <2>4. air.tx = "NONE"
    BY <1>5 DEF TxDisconnect
  <2> QED
    BY <1>1, <2>1, <2>2, <2>3, <2>4 DEF RepeatInv, Repeated, SentOnce
<1>6. CASE TxFlushQueue
  <2> DEFINE h == queueEnd + 1
             s == IF cfg.saw THEN TX_DEFAULT_SAW_INDEX ELSE tx.seq
  <2>1. rx' = rx /\ air' = air /\ last' = last /\ ~tx.up
        /\ tx' = [tx EXCEPT !.head = h, !.retry = 0, !.seq = s]
    BY <1>6 DEF TxFlushQueue
  <2>2. InHand \in Nat /\ InHand < h
    BY LinkTypes
  <2> HIDE DEF h, s
  <2>3. tx'.head = h /\ tx'.xlayer = tx.xlayer
    BY <2>1, LinkTypes DEF TxStates
  <2>4. InHand' = InHand /\ RepeatOnlyAfterReset'
    BY <1>1, <2>1, HandStays DEF RepeatInv
  <2>5. air.tx = "NONE" /\ tx.xlayer = "none"
    BY <2>1 DEF LinkInv
  <2>6. InHand' < tx'.head /\ InHand' # tx'.head
    <3>1. h \in Nat
      BY LinkTypes DEF h
    <3> QED
      BY <2>2, <2>3, <2>4, <3>1
  <2> QED
    BY <1>1, <2>1, <2>3, <2>4, <2>5, <2>6 DEF RepeatInv, Repeated, SentOnce
<1>7. CASE SlotLost \/ SlotAckLost \/ SlotAcked
  BY <1>7, RepeatSlot DEF SlotLost, SlotAckLost, SlotAcked
<1> QED
  BY <1>2, <1>3, <1>4, <1>5, <1>6, <1>7, RepeatTxCallback, RepeatTxConnect DEF Next

LEMMA RepeatInvariant == Spec => [](LinkInv /\ SyncInv /\ RepeatInv)
<1>1. Init => LinkInv /\ SyncInv /\ RepeatInv
  BY InitInv, SyncInit, RepeatInit
<1>2. LinkInv /\ SyncInv /\ RepeatInv /\ [Next]_vars => (LinkInv /\ SyncInv /\ RepeatInv)'
  BY StepInv, SyncStep, RepeatStep
<1> QED
  BY <1>1, <1>2, PTL DEF Spec

(* The receiver takes a frame in again only as the first frame after a      *)
(* reset of a sequence number, or on a connection that sends sync frames.   *)
THEOREM FramesNotRepeated == Spec => []RepeatOnlyAfterReset
<1>1. RepeatInv => RepeatOnlyAfterReset
  BY DEF RepeatInv
<1> QED
  BY <1>1, RepeatInvariant, PTL

-----------------------------------------------------------------------------
(* Credits keep the receive queue from overrunning *)

Room == RxQueueSize - Len(rx.queue)

\* The receiver has a frame in hand that goes to the queue.
Stored == air.rx = "RECEIVED" /\ IsFresh(rx, air.frame) /\ rx.node /\ Room > 0

\* When the next slot opens there is a place in the queue and a node for it.
Ready ==
  /\ Room > IF Stored THEN 1 ELSE 0
  /\ rx.up /\ air.rx = "NONE" => rx.node

\* What a credit is worth.  The receiver announces one place less than it has,
\* for the frame in hand; once the transmitter counts on the announcement,
\* the receiver stays ready until it takes a frame in.
Worth ==
  /\ rx.ack > 0 => Room > 1
  /\ air.tx = "ACK" /\ air.ack > 0 => Ready
  /\ /\ air.tx # "ACK" /\ tx.credits > 0
     /\ RxSeqInHand # tx.seq /\ tx.seq # TX_DEFAULT_SAW_INDEX
     => Ready

CreditInv == cfg.credit /\ cfg.saw => Worth /\ CreditPreventsOverrun

LEMMA CreditInit == Init => CreditInv
<1> SUFFICES ASSUME Init, cfg.saw PROVE Worth /\ CreditPreventsOverrun
  BY DEF CreditInv
<1>1. /\ tx.seq = TX_DEFAULT_SAW_INDEX /\ rx.ack = 0
      /\ air.tx = "NONE" /\ air.rx = "NONE"
  BY DEF Init
<1> QED
  BY <1>1 DEF Worth, CreditPreventsOverrun

\* A step of the transmitter or of its application.
LEMMA ReceiverStays ==
  ASSUME cfg' = cfg, rx' = rx, air'.rx = air.rx, air'.frame = air.frame
  PROVE  /\ Room' = Room /\ (Ready' <=> Ready) /\ RxSeqInHand' = RxSeqInHand
         /\ CreditPreventsOverrun => CreditPreventsOverrun'
BY DEF Room, Ready, Stored, IsFresh, RxSeqInHand, CreditPreventsOverrun

\* A step of the receiving application, or of a receiver that is down.
LEMMA ReceiverMakesRoom ==
  ASSUME cfg' = cfg, tx' = tx, air' = air, rx.queue \in Seq(Nat), rx'.queue \in Seq(Nat),
         Len(rx'.queue) <= Len(rx.queue), rx'.ack = rx.ack \/ (rx'.ack > 0 => Room' > 1),
         \/ air.rx = "NONE" /\ (Ready => Ready') /\ (rx'.seq = rx.seq \/ Ready')
         \/ rx'.up = rx.up /\ rx'.node = rx.node /\ rx'.seq = rx.seq,
         cfg.credit, cfg.saw, Worth, CreditPreventsOverrun
  PROVE  Worth' /\ CreditPreventsOverrun'
<1>1. /\ Room \in Int /\ Room' \in Int /\ Room <= Room'
      /\ Len(rx.queue) \in Nat /\ Len(rx'.queue) \in Nat
  BY LinkAssumption DEF Room
<1>2. rx'.ack > 0 => Room' > 1
  BY <1>1 DEF Worth
<1>3. CASE air.rx = "NONE" /\ (Ready => Ready') /\ (rx'.seq = rx.seq \/ Ready')
  <2>1. RxSeqInHand = rx.seq /\ RxSeqInHand' = rx'.seq
    BY <1>3 DEF RxSeqInHand
  <2>2. CreditPreventsOverrun'
    BY <1>3 DEF CreditPreventsOverrun
  <2> QED
    BY <1>2, <1>3, <2>1, <2>2 DEF Worth
<1>4. CASE rx'.up = rx.up /\ rx'.node = rx.node /\ rx'.seq = rx.seq
  <2>1. RxSeqInHand' = RxSeqInHand /\ (IsFresh(rx, air.frame)' <=> IsFresh(rx, air.frame))
    BY <1>4 DEF RxSeqInHand, IsFresh
  <2>2. Ready => Ready'
    BY <1>1, <1>4, <2>1 DEF Ready, Stored
  <2>3. CreditPreventsOverrun'
    BY <1>1, <1>4, <2>1 DEF CreditPreventsOverrun
  <2> QED
    BY <1>2, <2>1, <2>2, <2>3 DEF Worth
<1> QED
  BY <1>3, <1>4

LEMMA PrepareRxFacts ==
  ASSUME NEW r \in RxStates
  PROVE  LET p == PrepareRxMain(r)
             room == RxQueueSize - Len(r.queue)
         IN  /\ p \in RxStates /\ p.up = r.up /\ p.seq = r.seq /\ p.queue = r.queue
             /\ p.node <=> room > 0
             /\ p.ack > 0 => room > 1
<1> DEFINE room == RxQueueSize - Len(r.queue)
           a == CreditToSend(room)
           b == room > 0
           p == PrepareRxMain(r)
<1>1. room \in Int
  BY DEF RxStates
<1>2. a \in Nat /\ (a > 0 => room > 1)
  <2> HIDE DEF room
  <2> QED
    BY <1>1 DEF CreditToSend, CREDIT_FLOW_CONTROL_MAX_VALUE
<1>3. p = [r EXCEPT !.ack = a, !.node = b]
  BY DEF PrepareRxMain
<1>4. b \in BOOLEAN /\ (b <=> room > 0)
  OBVIOUS
<1> HIDE DEF a, b, p
<1>5. /\ p \in RxStates /\ p.up = r.up /\ p.seq = r.seq /\ p.queue = r.queue
      /\ p.node = b /\ p.ack = a
  BY <1>2, <1>3, <1>4 DEF RxStates
<1> QED
  BY <1>2, <1>4, <1>5 DEF p

\* The frame in hand goes to the queue, and nothing else does.
LEMMA CreditRxCallback ==
  ASSUME LinkInv, CreditInv, RxCallback
  PROVE  CreditInv'
<1> SUFFICES ASSUME cfg.credit, cfg.saw PROVE Worth' /\ CreditPreventsOverrun'
  BY DEF CreditInv, RxCallback
<1>1. /\ tx' = tx /\ cfg' = cfg /\ air' = [air EXCEPT !.rx = "NONE", !.frame = NoFrame]
      /\ air.rx # "NONE"
  BY DEF RxCallback
<1>2. air'.tx = air.tx /\ air'.rx = "NONE" /\ air'.ack = air.ack
  BY <1>1, LinkTypes DEF AirStates
<1>3. RxSeqInHand' = RxSeqInHand
  BY RxCallbackFacts
<1> DEFINE r == IF air.rx = "RECEIVED" THEN ProcessRxMain(rx, air.frame) ELSE rx
           room == RxQueueSize - Len(r.queue)
<1>4. rx' = PrepareRxMain(r)
  BY DEF RxCallback
<1>5. r \in RxStates /\ room = IF Stored THEN Room - 1 ELSE Room
  <2> DEFINE s == RxSeqNum(air.frame.seq)
             taken == IsFresh(rx, air.frame) /\ rx.node /\ Len(rx.queue) < RxQueueSize
             q == IF taken THEN Append(rx.queue, air.frame.id) ELSE rx.queue
  <2>1. rx \in RxStates /\ air.frame.id \in Nat /\ rx.queue \in Seq(Nat) /\ Len(rx.queue) \in Nat
        /\ air.frame.seq \in TxSeqNums
    BY LinkTypes DEF AirStates, FrameType
  <2>2. s \in RxSeqNums
    BY <2>1, IncSeqNumType
  <2>3. ProcessRxMain(rx, air.frame) = [rx EXCEPT !.seq = s, !.queue = q]
    BY DEF ProcessRxMain
  <2>4. taken <=> IsFresh(rx, air.frame) /\ rx.node /\ Room > 0
    BY <2>1 DEF Room
  <2> HIDE DEF taken
  <2>5. q \in Seq(Nat) /\ Len(q) = IF taken THEN Len(rx.queue) + 1 ELSE Len(rx.queue)
    BY <2>1
  <2> HIDE DEF s, q
  <2>6. CASE air.rx = "RECEIVED"
    <3>1. r = [rx EXCEPT !.seq = s, !.queue = q]
      BY <2>3, <2>6
    <3> HIDE DEF r
    <3>2. r \in RxStates /\ r.queue = q
      BY <2>1, <2>2, <2>5, <3>1 DEF RxStates
    <3>3. Stored <=> taken
      BY <2>4, <2>6 DEF Stored
    <3>4. RxQueueSize \in Nat /\ room = RxQueueSize - Len(q)
      BY <3>2
    <3> HIDE DEF room
    <3>5. CASE taken
      BY <2>1, <2>5, <3>2, <3>3, <3>4, <3>5 DEF Room
    <3>6. CASE ~taken
      BY <2>1, <2>5, <3>2, <3>3, <3>4, <3>6 DEF Room
    <3> QED
      BY <3>5, <3>6
  <2>7. CASE air.rx # "RECEIVED"
    BY <2>1, <2>7 DEF Stored, Room
  <2> QED
    BY <2>6, <2>7
<1> HIDE DEF r
<1>6. rx'.queue = r.queue /\ (rx'.node <=> room > 0) /\ (rx'.ack > 0 => room > 1)
  BY <1>4, <1>5, PrepareRxFacts
<1>7. Room' = room /\ Room \in Int
  BY <1>6, LinkTypes DEF Room
<1> HIDE DEF room
<1>8. Ready => Ready'
  BY <1>2, <1>5, <1>6, <1>7 DEF Ready, Stored
<1>9. CreditPreventsOverrun'
  BY <1>2 DEF CreditPreventsOverrun
<1>10. rx'.ack > 0 => Room' > 1
  BY <1>6, <1>7
<1> QED
  BY <1>1, <1>2, <1>3, <1>8, <1>9, <1>10 DEF Worth, CreditInv

\* The radio takes up the announcement, and a frame the transmitter has credit for.
LEMMA CreditSlot ==
  ASSUME LinkInv, RepeatInv, CreditInv,
         NEW outcome \in {"LOST", "ACK_LOST", "ACKED"}, Slot(outcome)
  PROVE  CreditInv'
<1> SUFFICES ASSUME cfg.credit, cfg.saw PROVE Worth' /\ CreditPreventsOverrun'
  BY DEF CreditInv, Slot
<1>1. /\ cfg' = cfg /\ tx' = tx /\ rx' = rx /\ air.tx = "NONE" /\ air.rx = "NONE"
      /\ outcome # "LOST" => tx.up /\ rx.up
  BY DEF Slot
<1>2. Worth
  BY DEF CreditInv
<1> DEFINE fr == IF outcome = "LOST" THEN NoFrame
                 ELSE [xlayer |-> tx.xlayer, id |-> tx.head, seq |-> tx.seq]
           at == IF ~tx.up THEN "NONE" ELSE IF outcome = "ACKED" THEN "ACK" ELSE "NACK"
           ar == IF ~rx.up THEN "NONE" ELSE IF outcome = "LOST" THEN "MISSED" ELSE "RECEIVED"
<1>3. air' = [tx |-> at, rx |-> ar, frame |-> fr, ack |-> rx.ack]
  BY DEF Slot
<1>4. air'.tx = at /\ air'.rx = ar /\ air'.frame = fr /\ air'.ack = rx.ack
  BY <1>3
<1>5. Room \in Int /\ Room' = Room /\ RxSeqInHand = rx.seq
  BY <1>1, LinkTypes DEF Room, RxSeqInHand
<1>6. Room > 1 => Ready'
  <2>1. air'.rx = "NONE" => ~rx.up
    BY <1>4
  <2> QED
    BY <1>1, <1>5, <2>1 DEF Ready
<1>7. ASSUME outcome = "LOST" PROVE Ready => Ready'
  <2>1. air'.rx # "RECEIVED" /\ (air'.rx = "NONE" => ~rx.up)
    BY <1>4, <1>7
  <2> QED
    BY <1>1, <1>5, <2>1 DEF Ready, Stored
<1>8. air'.tx = "ACK" /\ air'.ack > 0 => Ready'
  BY <1>2, <1>4, <1>6 DEF Worth
<1>9. ASSUME air'.tx # "ACK", tx.credits > 0, RxSeqInHand' # tx.seq, tx.seq # TX_DEFAULT_SAW_INDEX
      PROVE  Ready'
  <2>1. CASE outcome = "LOST"
    <3>1. RxSeqInHand' = RxSeqInHand
      BY <1>5, <2>1, SlotFacts
    <3> QED
      BY <1>1, <1>2, <1>7, <1>9, <2>1, <3>1 DEF Worth
  <2>2. CASE outcome = "ACK_LOST"
    <3>1. RxSeqInHand' = RxSeqNum(tx.seq)
      BY <2>2, SlotFacts
    <3>2. RxSeqNum(tx.seq) = tx.seq
      BY <1>9, LinkTypes, IncSeqNumType
    <3> QED
      BY <1>9, <3>1, <3>2
  <2>3. CASE outcome = "ACKED"
    BY <1>1, <1>4, <1>9, <2>3
  <2> QED
    BY <2>1, <2>2, <2>3
<1>10. CreditPreventsOverrun'
  <2> SUFFICES ASSUME air'.rx = "RECEIVED", IsFresh(rx, air.frame)',
                      air'.frame.seq # TX_DEFAULT_SAW_INDEX
               PROVE  Len(rx.queue) < RxQueueSize /\ rx.node
    BY <1>1 DEF CreditPreventsOverrun
  <2>1. outcome # "LOST" /\ rx.up
    BY <1>4
  <2>2. air'.frame.xlayer = tx.xlayer /\ air'.frame.seq = tx.seq
    BY <1>4, <2>1
  <2>3. tx.xlayer = "data" /\ tx.seq # rx.seq /\ tx.seq # TX_DEFAULT_SAW_INDEX
    BY <1>1, <2>2 DEF IsFresh, RxFrameDuplicate
  <2>4. tx.credits > 0
    BY <2>3 DEF RepeatInv, CreditAvailable
  <2>5. Ready
    BY <1>1, <1>2, <1>5, <2>3, <2>4 DEF Worth
  <2>6. Room > 0 /\ rx.node
    BY <1>1, <1>5, <2>1, <2>5 DEF Ready, Stored
  <2> QED
    BY <2>6, LinkTypes DEF Room
<1>11. rx'.ack > 0 => Room' > 1
  BY <1>1, <1>2, <1>5 DEF Worth
<1> QED
  BY <1>1, <1>8, <1>9, <1>10, <1>11 DEF Worth

LEMMA CreditTxCallback ==
  ASSUME LinkInv, CreditInv, TxCallback
  PROVE  CreditInv'
<1> SUFFICES ASSUME cfg.credit, cfg.saw PROVE Worth' /\ CreditPreventsOverrun'
  BY DEF CreditInv, TxCallback
<1>1. /\ cfg' = cfg /\ rx' = rx /\ air' = [air EXCEPT !.tx = "NONE"]
      /\ air.tx # "NONE"
  BY DEF TxCallback
<1>2. air'.tx = "NONE" /\ air'.rx = air.rx /\ air'.frame = air.frame
  BY <1>1, LinkTypes DEF AirStates
<1>3. /\ Room' = Room /\ (Ready' <=> Ready) /\ RxSeqInHand' = RxSeqInHand
      /\ CreditPreventsOverrun'
  BY <1>1, <1>2, ReceiverStays DEF CreditInv
<1>4. tx'.seq = IF air.tx = "ACK" /\ (cfg.saw \/ tx.xlayer # "data")
                THEN IncSeqNum(tx.seq) ELSE tx.seq
  BY TxCallbackFacts
<1>5. /\ air.tx = "NACK" => tx'.credits = tx.credits
      /\ air.tx = "ACK" => tx'.credits = air.ack
  BY TxCallbackFlow
<1>6. air.tx \in {"ACK", "NACK"}
  BY <1>1, LinkTypes
<1>7. ASSUME tx'.credits > 0, RxSeqInHand' # tx'.seq, tx'.seq # TX_DEFAULT_SAW_INDEX
      PROVE  Ready'
  <2>1. CASE air.tx = "ACK"
    BY <1>3, <1>5, <1>7, <2>1 DEF CreditInv, Worth
  <2>2. CASE air.tx = "NACK"
    BY <1>3, <1>4, <1>5, <1>7, <2>2 DEF CreditInv, Worth
  <2> QED
    BY <1>6, <2>1, <2>2
<1> QED
  BY <1>1, <1>2, <1>3, <1>7 DEF Worth, CreditInv

LEMMA CreditStep ==
  ASSUME LinkInv, RepeatInv, CreditInv, [Next]_vars
  PROVE  CreditInv'
<1> SUFFICES ASSUME cfg.credit, cfg.saw PROVE Worth' /\ CreditPreventsOverrun'
  BY SettingsKept DEF CreditInv
<1>1. /\ cfg' = cfg /\ rx \in RxStates /\ rx.queue \in Seq(Nat) /\ Len(rx.queue) \in Nat
      /\ Room \in Int /\ Worth /\ CreditPreventsOverrun
  BY SettingsKept, LinkTypes DEF Room, CreditInv
<1>2. CASE Send \/ FlushRequest \/ TxConnect \/ TxDisconnect \/ UNCHANGED vars
  <2>1. rx' = rx /\ air' = air
    BY <1>2 DEF Send, FlushRequest, TxConnect, TxDisconnect, vars
  <2>2. tx'.seq = tx.seq /\ tx'.credits = tx.credits
    <3>1. CASE Send \/ FlushRequest \/ UNCHANGED vars
      BY <3>1, LinkTypes DEF Send, FlushRequest, vars, TxStates
    <3>2. CASE TxConnect
      BY <3>2, TxConnectFacts, TxConnectFlow
    <3>3. CASE TxDisconnect
      <4>1. tx' = [tx EXCEPT !.up = FALSE, !.xlayer = "none",
                             !.status = ConnectStatusReset, !.sync = cfg.syncFrame]
        BY <3>3 DEF TxDisconnect
      <4> QED
        BY <4>1, LinkTypes DEF TxStates
    <3> QED
      BY <1>2, <3>1, <3>2, <3>3
  <2>3. /\ Room' = Room /\ (Ready' <=> Ready) /\ RxSeqInHand' = RxSeqInHand
        /\ CreditPreventsOverrun'
    BY <1>1, <2>1, ReceiverStays
  <2> QED
    BY <1>1, <2>1, <2>2, <2>3 DEF Worth
<1>3. CASE TxFlushQueue
  <2> DEFINE h == queueEnd + 1
  <2>1. rx' = rx /\ air' = air /\ ~tx.up
        /\ tx' = [tx EXCEPT !.head = h, !.retry = 0, !.seq = TX_DEFAULT_SAW_INDEX]
    BY <1>3 DEF TxFlushQueue
  <2> HIDE DEF h
  <2>2. tx'.seq = TX_DEFAULT_SAW_INDEX
    BY <2>1, LinkTypes DEF TxStates
  <2>3. air.tx = "NONE"
    BY <2>1 DEF LinkInv
  <2>4. Room' = Room /\ CreditPreventsOverrun'
    BY <1>1, <2>1, ReceiverStays
  <2> QED
    BY <1>1, <2>1, <2>2, <2>3, <2>4 DEF Worth
<1>4. CASE Read
  <2> DEFINE q == Tail(rx.queue)
  <2>1. tx' = tx /\ air' = air /\ rx' = [rx EXCEPT !.queue = q] /\ rx.queue # <<>>
    BY <1>4 DEF Read
  <2>2. q \in Seq(Nat) /\ Len(q) <= Len(rx.queue)
    BY SMTT(30), <1>1, <2>1
  <2> HIDE DEF q
  <2>3. /\ rx'.queue = q /\ rx'.ack = rx.ack
        /\ rx'.up = rx.up /\ rx'.node = rx.node /\ rx'.seq = rx.seq
    BY <1>1, <2>1 DEF RxStates
  <2> QED
    BY <1>1, <2>1, <2>2, <2>3, ReceiverMakesRoom
<1>5. CASE RxConnect
  <2> DEFINE p == PrepareRxMain(rx)
  <2>1. tx' = tx /\ air' = air /\ ~rx.up /\ rx' = [p EXCEPT !.up = TRUE]
    BY <1>5 DEF RxConnect
  <2>2. /\ p \in RxStates /\ p.seq = rx.seq /\ p.queue = rx.queue
        /\ p.node <=> Room > 0
        /\ p.ack > 0 => Room > 1
    BY <1>1, PrepareRxFacts DEF Room
  <2> HIDE DEF p
  <2>3. /\ rx'.queue = rx.queue /\ rx'.seq = rx.seq /\ rx'.node = p.node /\ rx'.ack = p.ack
    BY <2>1, <2>2 DEF RxStates
  <2>4. Room' = Room /\ air.rx = "NONE"
    BY <2>1, <2>3 DEF Room, LinkInv
  <2>5. Ready => Ready'
    BY <1>1, <2>1, <2>2, <2>3, <2>4 DEF Ready, Stored
  <2>6. rx'.ack > 0 => Room' > 1
    BY <2>2, <2>3, <2>4
  <2>7. Len(rx'.queue) <= Len(rx.queue) /\ rx'.queue \in Seq(Nat)
    BY <1>1, <2>3
  <2> QED
    BY <1>1, <2>1, <2>3, <2>4, <2>5, <2>6, <2>7, ReceiverMakesRoom
<1>6. CASE RxDisconnect
  <2>1. tx' = tx /\ air' = air /\ rx' = [rx EXCEPT !.up = FALSE] /\ air.rx = "NONE"
    BY <1>6 DEF RxDisconnect
  <2>2. /\ rx'.queue = rx.queue /\ rx'.seq = rx.seq /\ rx'.up = FALSE /\ rx'.ack = rx.ack
    BY <1>1, <2>1 DEF RxStates
  <2>3. Room' = Room
    BY <2>2 DEF Room
  <2>4. Ready => Ready'
    BY <1>1, <2>1, <2>2, <2>3 DEF Ready, Stored
  <2>5. Len(rx'.queue) <= Len(rx.queue) /\ rx'.queue \in Seq(Nat)
    BY <1>1, <2>2
  <2> QED
    BY <1>1, <2>1, <2>2, <2>4, <2>5, ReceiverMakesRoom
<1>7. CASE RxFlushQueue
  <2> DEFINE q == <<>>
  <2>1. tx' = tx /\ air' = air /\ ~rx.up
        /\ rx' = [rx EXCEPT !.queue = q, !.seq = RX_DEFAULT_SAW_INDEX]
    BY <1>7 DEF RxFlushQueue
  <2>2. q \in Seq(Nat) /\ Len(q) = 0
    OBVIOUS
  <2> HIDE DEF q
  <2>3. rx'.queue = q /\ rx'.up = rx.up /\ rx'.ack = rx.ack
    BY <1>1, <2>1 DEF RxStates
  <2>4. air.rx = "NONE"
    BY <2>1 DEF LinkInv
  <2>5. Room' > 0
    BY <2>2, <2>3 DEF Room
  <2>6. Ready'
    BY <2>1, <2>3, <2>4, <2>5 DEF Ready, Stored
  <2>7. Len(rx'.queue) <= Len(rx.queue) /\ rx'.queue \in Seq(Nat)
    BY <1>1, <2>2, <2>3
  <2> QED
    BY <1>1, <2>1, <2>3, <2>4, <2>6, <2>7, ReceiverMakesRoom
<1>8. CASE SlotLost \/ SlotAckLost \/ SlotAcked
  <2>1. CreditInv'
    BY <1>8, CreditSlot DEF SlotLost, SlotAckLost, SlotAcked
  <2> QED
    BY <1>1, <2>1 DEF CreditInv
<1>9. CASE TxCallback
  BY <1>1, <1>9, CreditTxCallback DEF CreditInv
<1>10. CASE RxCallback
  BY <1>1, <1>10, CreditRxCallback DEF CreditInv
<1> QED
  BY <1>2, <1>3, <1>4, <1>5, <1>6, <1>7, <1>8, <1>9, <1>10 DEF Next

(* With credits no frame finds the receive queue full, or a slot without a  *)
(* node, but the first after a reset of the transmitter's sequence number.  *)
THEOREM CreditsPreventOverrun == Spec => []CreditPreventsOverrun
<1>1. LinkInv /\ RepeatInv /\ CreditInv /\ [Next]_vars => CreditInv'
  BY CreditStep
<1>2. CreditInv => CreditPreventsOverrun
  BY DEF CreditInv, CreditPreventsOverrun
<1> QED
  BY <1>1, <1>2, CreditInit, RepeatInvariant, PTL DEF Spec
=============================================================================
