---------------------------- MODULE WpsLinkProofs ----------------------------
(***************************************************************************)
(* Proofs about WpsLink, for every choice of settings, queue sizes and     *)
(* bounds.                                                                 *)
(***************************************************************************)
EXTENDS WpsLink, TLAPS

USE LinkAssumption, ConnectStatusAssumption, CreditAssumption

\* A transmitter state within its type and its queue bound.
GoodTx(t) == t \in TxStates /\ QueueSizeOf(t) \in 0 .. TxQueueSize

-----------------------------------------------------------------------------
(* The operators the transmitter's handlers are composed of *)

LEMMA UpdateConnectStatusType ==
  ASSUME NEW cs \in ConnectStatuses, NEW outcome
  PROVE  UpdateConnectStatus(cs, outcome) \in ConnectStatuses
BY DEF ConnectStatuses, UpdateConnectStatus, ConnectStatusReset, ConnectStatusUp

LEMMA IncSeqNumType ==
  ASSUME NEW seq \in TxSeqNums
  PROVE  /\ IncSeqNum(seq) \in {0, 1}
         /\ IncSeqNum(seq) \in TxSeqNums
         /\ RxSeqNum(seq) \in {0, 1}
         /\ RxSeqNum(seq) \in RxSeqNums
         /\ IncSeqNum(seq) # RxSeqNum(seq)
         /\ seq # TX_DEFAULT_SAW_INDEX => RxSeqNum(seq) = seq
BY DEF TxSeqNums, RxSeqNums, IncSeqNum, RxSeqNum, TX_DEFAULT_SAW_INDEX

LEMMA UpdateConnectStatusMainFacts ==
  ASSUME cfg \in Configurations, queueEnd \in Nat, NEW t, GoodTx(t), NEW outcome
  PROVE  LET u == UpdateConnectStatusMain(t, outcome)
         IN  /\ GoodTx(u)
             /\ u.up = t.up /\ u.head = t.head /\ u.seq = t.seq
             /\ u.flush = t.flush /\ u.xlayer = t.xlayer
             /\ u.credits = t.credits /\ u.skipped = t.skipped
             /\ ~cfg.syncFrame /\ t.sync = FALSE => u.sync = FALSE
<1>1. cfg.syncFrame \in BOOLEAN
  BY DEF ConfigurationType
<1>2. UpdateConnectStatus(t.status, outcome) \in ConnectStatuses
  BY UpdateConnectStatusType DEF GoodTx, TxStates
<1> QED
  BY <1>1, <1>2 DEF UpdateConnectStatusMain, GoodTx, TxStates, QueueSizeOf

LEMMA SendDoneFacts ==
  ASSUME queueEnd \in Nat, NEW t, GoodTx(t)
  PROVE  LET d == SendDone(t)
         IN  /\ GoodTx(d)
             /\ d.head = IF t.head <= queueEnd THEN t.head + 1 ELSE t.head
             /\ d.up = t.up /\ d.seq = t.seq /\ d.xlayer = t.xlayer
             /\ d.credits = t.credits /\ d.skipped = t.skipped
             /\ d.sync = t.sync
             /\ d.flush = FALSE
<1> DEFINE h == IF t.head <= queueEnd THEN t.head + 1 ELSE t.head
           d == SendDone(t)
<1>1. t \in TxStates /\ t.head \in Nat /\ t.head <= queueEnd + 1
  BY DEF GoodTx, TxStates, QueueSizeOf
<1>2. h \in Nat /\ queueEnd + 1 - h \in 0 .. TxQueueSize
  BY <1>1 DEF GoodTx, QueueSizeOf
<1>3. d = [t EXCEPT !.head = h, !.retry = 0, !.flush = FALSE]
  BY DEF SendDone
<1> HIDE DEF d, h
<1>4. /\ d \in TxStates
      /\ d.head = h
      /\ d.up = t.up /\ d.seq = t.seq /\ d.xlayer = t.xlayer
      /\ d.credits = t.credits /\ d.skipped = t.skipped
      /\ d.sync = t.sync
      /\ d.flush = FALSE
  BY <1>1, <1>2, <1>3 DEF TxStates
<1>5. GoodTx(d)
  BY <1>2, <1>4 DEF GoodTx, QueueSizeOf
<1> QED
  BY <1>4, <1>5 DEF d, h

\* The outcome of the slot, at the transmitter.
LEMMA OutcomeFacts ==
  ASSUME cfg \in Configurations, queueEnd \in Nat, NEW t, GoodTx(t),
         t.xlayer = "data" => t.head <= queueEnd,
         NEW signal \in {"ACK", "NACK"}, NEW credits \in Nat
  PROVE  LET o == ProcessAutoFrameOutcome(ProcessMainFrameOutcome(t, signal), signal, credits)
         IN  /\ GoodTx(o)
             /\ o.up = t.up
             /\ o.head = IF t.xlayer = "data" /\ (signal = "ACK" \/ ~cfg.saw)
                         THEN t.head + 1 ELSE t.head
             /\ o.seq = IF signal = "ACK" /\ (cfg.saw \/ t.xlayer # "data")
                        THEN IncSeqNum(t.seq) ELSE t.seq
             /\ t.flush = FALSE => o.flush = FALSE
             /\ ~cfg.syncFrame /\ t.sync = FALSE => o.sync = FALSE
<1> DEFINE m == ProcessMainFrameOutcome(t, signal)
           o == ProcessAutoFrameOutcome(m, signal, credits)
           Moved(u) ==
             /\ GoodTx(u)
             /\ u.up = t.up
             /\ u.head = IF t.xlayer = "data" /\ (signal = "ACK" \/ ~cfg.saw)
                         THEN t.head + 1 ELSE t.head
             /\ u.seq = IF signal = "ACK" /\ (cfg.saw \/ t.xlayer # "data")
                        THEN IncSeqNum(t.seq) ELSE t.seq
             /\ t.flush = FALSE => u.flush = FALSE
             /\ ~cfg.syncFrame /\ t.sync = FALSE => u.sync = FALSE
<1>1. ASSUME t.xlayer = "data", signal = "ACK" PROVE Moved(m)
  <2> DEFINE k == UpdateConnectStatusMain(t, "SENT_ACK")
             c == [k EXCEPT !.seq = IncSeqNum(@), !.credits = SpendCredit(@), !.skipped = 0]
             b == IF cfg.saw THEN c ELSE k
  <2>1. /\ GoodTx(k)
        /\ k.up = t.up /\ k.head = t.head /\ k.seq = t.seq /\ k.flush = t.flush
        /\ ~cfg.syncFrame /\ t.sync = FALSE => k.sync = FALSE
    BY UpdateConnectStatusMainFacts
  <2>2. IncSeqNum(k.seq) \in TxSeqNums /\ SpendCredit(k.credits) \in Nat
    BY <2>1, IncSeqNumType DEF GoodTx, TxStates, SpendCredit
  <2> HIDE DEF k
  <2>3. GoodTx(c) /\ c.up = k.up /\ c.head = k.head /\ c.seq = IncSeqNum(k.seq)
        /\ c.sync = k.sync
    BY <2>1, <2>2 DEF GoodTx, TxStates, QueueSizeOf
  <2> HIDE DEF c
  <2>4. /\ GoodTx(b) /\ b.up = t.up /\ b.head = t.head
        /\ b.seq = IF cfg.saw THEN IncSeqNum(t.seq) ELSE t.seq
        /\ ~cfg.syncFrame /\ t.sync = FALSE => b.sync = FALSE
    BY <2>1, <2>3
  <2>5. m = SendDone(b)
    BY <1>1 DEF ProcessMainFrameOutcome, ProcessTxMain, k, c
  <2> HIDE DEF b, m
  <2>6. /\ GoodTx(m) /\ m.up = b.up /\ m.seq = b.seq /\ m.sync = b.sync /\ m.flush = FALSE
        /\ m.head = b.head + 1
    BY <1>1, <2>4, <2>5, SendDoneFacts
  <2> QED
    BY <1>1, <2>4, <2>6
<1>2. ASSUME t.xlayer = "data", signal = "NACK" PROVE Moved(m)
  <2> DEFINE k == UpdateConnectStatusMain(t, "SENT_ACK_LOST")
  <2>1. /\ GoodTx(k)
        /\ k.up = t.up /\ k.head = t.head /\ k.seq = t.seq /\ k.flush = t.flush
        /\ ~cfg.syncFrame /\ t.sync = FALSE => k.sync = FALSE
    BY UpdateConnectStatusMainFacts
  <2>2. m = IF cfg.saw THEN k ELSE SendDone(k)
    BY <1>2 DEF ProcessMainFrameOutcome, ProcessTxMain
  <2> HIDE DEF k, m
  <2>3. ASSUME ~cfg.saw PROVE
        /\ GoodTx(m) /\ m.up = k.up /\ m.seq = k.seq /\ m.sync = k.sync /\ m.flush = FALSE
        /\ m.head = k.head + 1
    BY <1>2, <2>1, <2>2, <2>3, SendDoneFacts
  <2>4. cfg.saw \in BOOLEAN
    BY DEF ConfigurationType
  <2>5. ASSUME cfg.saw PROVE m = k
    BY <2>2, <2>5
  <2> QED
    BY <1>2, <2>1, <2>3, <2>4, <2>5
<1>3. ASSUME t.xlayer # "data" PROVE Moved(m)
  <2> DEFINE outcome == IF signal = "ACK" THEN "SENT_ACK"
                        ELSE IF t.xlayer = "empty" THEN "SENT_ACK_LOST" ELSE "WAIT"
             k == UpdateConnectStatusMain(t, outcome)
             s == k.sync /\ ~k.status.connected
             q == IF signal = "ACK" THEN IncSeqNum(k.seq) ELSE k.seq
  <2>1. /\ GoodTx(k)
        /\ k.up = t.up /\ k.head = t.head /\ k.seq = t.seq /\ k.flush = t.flush
        /\ ~cfg.syncFrame /\ t.sync = FALSE => k.sync = FALSE
    BY UpdateConnectStatusMainFacts
  <2>2. m = [k EXCEPT !.sync = s, !.seq = q]
    BY <1>3 DEF ProcessMainFrameOutcome, ProcessTxMainEmpty
  <2>3. q \in TxSeqNums /\ s \in BOOLEAN
    BY <2>1, IncSeqNumType DEF GoodTx, TxStates
  <2>4. /\ q = IF signal = "ACK" THEN IncSeqNum(t.seq) ELSE t.seq
        /\ k.sync = FALSE => s = FALSE
    BY <2>1
  <2> HIDE DEF k, m, s, q
  <2>5. GoodTx(m) /\ m.up = k.up /\ m.head = k.head /\ m.seq = q /\ m.flush = k.flush
        /\ m.sync = s
    BY <2>1, <2>2, <2>3 DEF GoodTx, TxStates, QueueSizeOf
  <2> QED
    BY <1>3, <2>1, <2>4, <2>5
<1>4. Moved(m)
  BY <1>1, <1>2, <1>3 DEF GoodTx, TxStates, Xlayers
<1> HIDE DEF m
<1>5. GoodTx(o) /\ o.up = m.up /\ o.head = m.head /\ o.seq = m.seq /\ o.flush = m.flush
      /\ o.sync = m.sync
  BY <1>4 DEF ProcessAutoFrameOutcome, GoodTx, TxStates, QueueSizeOf
<1> QED
  BY <1>4, <1>5 DEF m

\* Dropping expired frames and serving a flush request move the head only
\* when the connection is not in guaranteed delivery.
LEMMA FlushTimeoutFacts ==
  ASSUME cfg \in Configurations, queueEnd \in Nat, NEW t, GoodTx(t),
         NEW n \in TimeoutDrops(t)
  PROVE  LET f == FlushTimeoutFrames(t, n)
         IN  /\ GoodTx(f)
             /\ f.up = t.up /\ f.seq = t.seq /\ f.head = t.head + n /\ f.sync = t.sync
             /\ f.head <= queueEnd + 1
             /\ t.flush = FALSE => f.flush = FALSE
<1> DEFINE f == FlushTimeoutFrames(t, n)
           h == t.head + n
           seen == IF n = 0 THEN t.retry + 1 ELSE 1
           r == IF n = QueueSizeOf(t) THEN 0
                ELSE IF seen > cfg.ttlRetries THEN cfg.ttlRetries ELSE seen
           u == t.flush /\ n = 0
<1>1. /\ t \in TxStates /\ t.head \in Nat /\ t.retry \in Nat
      /\ queueEnd + 1 - t.head \in 0 .. TxQueueSize
  BY DEF GoodTx, TxStates, QueueSizeOf
<1>2. n \in 0 .. queueEnd + 1 - t.head
  BY DEF TimeoutDrops, QueueSizeOf
<1>3. h \in Nat /\ queueEnd + 1 - h \in 0 .. TxQueueSize /\ h <= queueEnd + 1
  BY <1>1, <1>2
<1>4. cfg.ttlRetries \in Nat
  BY DEF ConfigurationType
<1>5. r \in Nat /\ u \in BOOLEAN
  BY <1>1, <1>4
<1>6. f = [t EXCEPT !.head = h, !.retry = r, !.flush = u]
  BY DEF FlushTimeoutFrames
<1>7. t.flush = FALSE => u = FALSE
  OBVIOUS
<1> HIDE DEF f, h, r, u
<1>8. /\ f \in TxStates /\ f.head = h
      /\ f.up = t.up /\ f.seq = t.seq /\ f.flush = u /\ f.sync = t.sync
  BY <1>1, <1>3, <1>5, <1>6 DEF TxStates
<1>9. GoodTx(f)
  BY <1>3, <1>8 DEF GoodTx, QueueSizeOf
<1> QED
  BY <1>3, <1>7, <1>8, <1>9 DEF f, h

LEMMA GetXlayerFacts ==
  ASSUME queueEnd \in Nat, NEW t, GoodTx(t)
  PROVE  LET g == GetXlayerForTxMain(t)
         IN  /\ GoodTx(g)
             /\ g.up = t.up /\ g.seq = t.seq /\ g.head = t.head /\ g.flush = t.flush
             /\ g.sync = t.sync
             /\ g.xlayer = "data" => g.head <= queueEnd
             /\ t.sync = FALSE /\ ~cfg.autoSync /\ ~cfg.credit => g.xlayer # "empty"
<1> DEFINE g == GetXlayerForTxMain(t)
           k == CountSkipped(cfg.credit, t.credits, t.skipped)
           node == CreditAvailable(cfg.credit, t.credits) /\ QueueSizeOf(t) > 0
           headerOnly == \/ node /\ t.sync
                         \/ ~node /\ (cfg.autoSync \/ SkippedFramesExceed(cfg.credit, k))
           x == CASE headerOnly -> "empty"
                  [] node /\ ~t.sync -> "data"
                  [] OTHER -> "none"
<1>1. t \in TxStates /\ t.head \in Nat /\ t.skipped \in Nat
  BY DEF GoodTx, TxStates
<1>2. k \in Nat
  BY <1>1 DEF CountSkipped
<1>3. x \in Xlayers /\ (x = "data" => node)
  BY Zenon DEF Xlayers
<1> HIDE DEF node
<1>8. t.sync = FALSE /\ ~cfg.autoSync /\ ~cfg.credit => x # "empty"
  BY Zenon DEF SkippedFramesExceed
<1> USE DEF node
<1>4. node => t.head <= queueEnd
  BY <1>1 DEF QueueSizeOf
<1>5. g = [t EXCEPT !.skipped = k, !.xlayer = x]
  BY DEF GetXlayerForTxMain
<1> HIDE DEF g, k, x, node
<1>6. /\ g \in TxStates /\ g.head = t.head /\ g.xlayer = x
      /\ g.up = t.up /\ g.seq = t.seq /\ g.flush = t.flush /\ g.sync = t.sync
  BY <1>1, <1>2, <1>3, <1>5 DEF TxStates
<1>7. GoodTx(g)
  BY <1>6 DEF GoodTx, QueueSizeOf
<1> QED
  BY <1>3, <1>4, <1>6, <1>7, <1>8 DEF g

LEMMA PrepareFacts ==
  ASSUME cfg \in Configurations, queueEnd \in Nat, NEW t, GoodTx(t),
         NEW n \in TimeoutDrops(t)
  PROVE  LET p == PrepareTxMain(t, n)
         IN  /\ GoodTx(p)
             /\ p.up = t.up /\ p.seq = t.seq
             /\ t.head <= p.head /\ p.head <= queueEnd + 1
             /\ p.xlayer = "data" => p.head <= queueEnd
             /\ t.flush = FALSE => p.flush = FALSE
             /\ p.sync = t.sync
             /\ GuaranteedMode /\ t.flush = FALSE => p.head = t.head
             /\ t.sync = FALSE /\ ~cfg.autoSync /\ ~cfg.credit => p.xlayer # "empty"
<1> DEFINE k == IF cfg.saw /\ ~GuaranteedMode THEN FlushTimeoutFrames(t, n) ELSE t
           f == FlushTxFrame(k)
           p == PrepareTxMain(t, n)
<1>1. /\ t.head \in Nat /\ t.head <= queueEnd + 1 /\ n \in Nat
  BY DEF GoodTx, TxStates, QueueSizeOf, TimeoutDrops
<1>2. /\ GoodTx(k)
      /\ k.up = t.up /\ k.seq = t.seq /\ k.sync = t.sync
      /\ t.head <= k.head /\ k.head <= queueEnd + 1
      /\ t.flush = FALSE => k.flush = FALSE
      /\ GuaranteedMode => k.head = t.head
  <2>1. CASE cfg.saw /\ ~GuaranteedMode
    <3> DEFINE w == FlushTimeoutFrames(t, n)
    <3>1. /\ GoodTx(w)
          /\ w.up = t.up /\ w.seq = t.seq /\ w.head = t.head + n /\ w.sync = t.sync
          /\ w.head <= queueEnd + 1
          /\ t.flush = FALSE => w.flush = FALSE
      BY FlushTimeoutFacts
    <3>2. k = w
      BY <2>1
    <3> HIDE DEF w, k
    <3>3. t.head <= w.head
      BY <1>1, <3>1
    <3> QED
      BY <2>1, <3>1, <3>2, <3>3
  <2>2. CASE ~(cfg.saw /\ ~GuaranteedMode)
    <3>1. k = t
      BY <2>2
    <3> HIDE DEF k
    <3> QED
      BY <1>1, <3>1
  <2> QED
    BY <2>1, <2>2
<1>3. p = GetXlayerForTxMain(f)
  BY DEF PrepareTxMain
<1> HIDE DEF k
<1>4. k.head \in Nat
  BY <1>2 DEF GoodTx, TxStates
<1>5. /\ GoodTx(f)
      /\ f.up = k.up /\ f.seq = k.seq /\ f.sync = k.sync
      /\ k.head <= f.head /\ f.head <= queueEnd + 1
      /\ k.flush = FALSE => f.flush = FALSE /\ f.head = k.head
  <2> DEFINE w == SendDone(k)
  <2>1. /\ GoodTx(w)
        /\ w.head = IF k.head <= queueEnd THEN k.head + 1 ELSE k.head
        /\ w.up = k.up /\ w.seq = k.seq /\ w.sync = k.sync
        /\ w.flush = FALSE
    BY <1>2, SendDoneFacts
  <2>2. f = IF k.flush THEN w ELSE k
    BY DEF FlushTxFrame
  <2> HIDE DEF w, f
  <2>3. k.head <= w.head /\ w.head <= queueEnd + 1
    BY <1>2, <1>4, <2>1
  <2> QED
    BY <1>2, <1>4, <2>1, <2>2, <2>3
<1> HIDE DEF f, p
<1>6. /\ GoodTx(p)
      /\ p.up = f.up /\ p.seq = f.seq /\ p.head = f.head /\ p.flush = f.flush
      /\ p.sync = f.sync
      /\ p.xlayer = "data" => p.head <= queueEnd
      /\ f.sync = FALSE /\ ~cfg.autoSync /\ ~cfg.credit => p.xlayer # "empty"
  BY <1>3, <1>5, GetXlayerFacts
<1>7. f.head \in Nat
  BY <1>5 DEF GoodTx, TxStates
<1> QED
  BY <1>1, <1>2, <1>4, <1>5, <1>6, <1>7 DEF p
-----------------------------------------------------------------------------
(* The inductive invariant *)

LEMMA GuaranteedSettings ==
  ASSUME cfg \in Configurations
  PROVE  GuaranteedDelivery \in BOOLEAN
BY DEF GuaranteedDelivery, GuaranteedMode, GuaranteedDeliveryMode, ConfigurationType

LEMMA InitInv == Init => LinkInv
<1> SUFFICES ASSUME Init PROVE LinkInv
  OBVIOUS
<1>1. cfg \in ConfigurationType
  BY DEF Init
<1>2. /\ tx \in TxStates
      /\ tx.head = 1 /\ tx.flush = FALSE /\ tx.sync = cfg.syncFrame /\ tx.xlayer = "none"
      /\ tx.seq = IF cfg.saw THEN TX_DEFAULT_SAW_INDEX ELSE 0
  BY <1>1 DEF Init, TxStates, ConfigurationType, TxSeqNums, TX_DEFAULT_SAW_INDEX,
              ConnectStatuses, ConnectStatusReset, WPS_MIN_QUEUE_SIZE, Xlayers
<1>3. rx \in RxStates /\ rx.seq = IF cfg.saw THEN RX_DEFAULT_SAW_INDEX ELSE 0
  BY DEF Init, RxStates, RxSeqNums, RX_DEFAULT_SAW_INDEX
<1>4. air \in AirStates /\ air.tx = "NONE" /\ air.rx = "NONE"
  BY DEF Init, AirStates, FrameType, NoFrame, Xlayers, TxSeqNums
<1>5. TypeOK
  <2>1. QueueSizeOf(tx) = 0 /\ queueEnd \in Nat /\ last \in Nat /\ sessions \in Nat
    BY <1>2 DEF Init, QueueSizeOf
  <2>2. cfg \in Configurations /\ suspect \in BOOLEAN
    BY DEF Init
  <2> QED
    BY <1>2, <1>3, <1>4, <2>1, <2>2 DEF TypeOK
<1>6. GuaranteedDelivery => tx.sync = FALSE
  BY <1>1, <1>2 DEF GuaranteedDelivery, ConfigurationType
<1>7. InHand = 0 /\ RxSeqInHand = rx.seq
  BY <1>4 DEF Init, InHand, RxSeqInHand
<1>8. cfg.saw => RxSeqInHand # tx.seq
  BY <1>2, <1>3, <1>7 DEF TX_DEFAULT_SAW_INDEX, RX_DEFAULT_SAW_INDEX
<1> QED
  BY <1>2, <1>4, <1>5, <1>6, <1>7, <1>8 DEF Init, LinkInv

\* What the transmitting interrupt does to the frames and the numbers.
LEMMA TxCallbackFacts ==
  ASSUME LinkInv, TxCallback
  PROVE  /\ GoodTx(tx) /\ GoodTx(tx)' /\ tx'.up = tx.up
         /\ tx'.seq = IF air.tx = "ACK" /\ (cfg.saw \/ tx.xlayer # "data")
                      THEN IncSeqNum(tx.seq) ELSE tx.seq
         /\ tx.head <= tx'.head /\ tx'.head <= queueEnd + 1
         /\ tx'.xlayer = "data" => tx'.head <= queueEnd
         /\ suspect' \in BOOLEAN
         /\ air.tx = "NACK" /\ (suspect = TRUE \/ tx.xlayer = "empty") => suspect' = TRUE
         /\ tx'.head > tx.head =>
              \/ suspect' = TRUE
              \/ /\ tx'.head = tx.head + 1 /\ tx.xlayer = "data"
                 /\ air.tx = "ACK" \/ ~cfg.saw
         /\ GuaranteedDelivery =>
              /\ tx'.flush = FALSE /\ tx'.sync = FALSE /\ suspect' = FALSE
              /\ tx'.xlayer # "empty"
<1> DEFINE o == ProcessAutoFrameOutcome(ProcessMainFrameOutcome(tx, air.tx), air.tx, air.ack)
<1>1. /\ cfg \in Configurations /\ queueEnd \in Nat /\ GoodTx(tx)
      /\ tx.xlayer = "data" => tx.head <= queueEnd
      /\ air.tx \in {"ACK", "NACK"} /\ air.ack \in Nat /\ suspect \in BOOLEAN
  BY DEF LinkInv, TypeOK, GoodTx, TxCallback, AirStates
<1>2. PICK n \in TimeoutDrops(o) :
         /\ tx' = PrepareTxMain(o, n)
         /\ suspect' = \/ tx'.head > o.head
                       \/ air.tx = "NACK" /\ (suspect \/ tx.xlayer = "empty")
  BY DEF TxCallback
<1>3. cfg' = cfg /\ queueEnd' = queueEnd
  BY DEF TxCallback
<1>4. /\ GoodTx(o)
      /\ o.up = tx.up
      /\ o.head = IF tx.xlayer = "data" /\ (air.tx = "ACK" \/ ~cfg.saw)
                  THEN tx.head + 1 ELSE tx.head
      /\ o.seq = IF air.tx = "ACK" /\ (cfg.saw \/ tx.xlayer # "data")
                 THEN IncSeqNum(tx.seq) ELSE tx.seq
      /\ tx.flush = FALSE => o.flush = FALSE
      /\ ~cfg.syncFrame /\ tx.sync = FALSE => o.sync = FALSE
  BY <1>1, OutcomeFacts
<1> HIDE DEF o
<1>5. /\ GoodTx(tx')
      /\ tx'.up = o.up /\ tx'.seq = o.seq
      /\ o.head <= tx'.head /\ tx'.head <= queueEnd + 1
      /\ tx'.xlayer = "data" => tx'.head <= queueEnd
      /\ o.flush = FALSE => tx'.flush = FALSE
      /\ tx'.sync = o.sync
      /\ GuaranteedMode /\ o.flush = FALSE => tx'.head = o.head
      /\ o.sync = FALSE /\ ~cfg.autoSync /\ ~cfg.credit => tx'.xlayer # "empty"
  <2> DEFINE p == PrepareTxMain(o, n)
  <2>1. /\ GoodTx(p)
        /\ p.up = o.up /\ p.seq = o.seq
        /\ o.head <= p.head /\ p.head <= queueEnd + 1
        /\ p.xlayer = "data" => p.head <= queueEnd
        /\ o.flush = FALSE => p.flush = FALSE
        /\ p.sync = o.sync
        /\ GuaranteedMode /\ o.flush = FALSE => p.head = o.head
        /\ o.sync = FALSE /\ ~cfg.autoSync /\ ~cfg.credit => p.xlayer # "empty"
    <3>1. cfg \in Configurations /\ queueEnd \in Nat /\ GoodTx(o) /\ n \in TimeoutDrops(o)
      BY <1>1, <1>4
    <3> QED
      BY <3>1, PrepareFacts
  <2>2. tx' = p
    BY <1>2
  <2> HIDE DEF p
  <2> QED
    BY <2>1, <2>2
<1>6. GoodTx(tx)'
  BY <1>3, <1>5 DEF GoodTx, QueueSizeOf
<1>7. tx.head \in Nat /\ o.head \in Nat /\ tx'.head \in Nat
  BY <1>1, <1>4, <1>5 DEF GoodTx, TxStates
<1>8. ASSUME GuaranteedDelivery
      PROVE  /\ tx'.flush = FALSE /\ tx'.sync = FALSE /\ suspect' = FALSE
             /\ tx'.xlayer # "empty"
  <2>1. /\ GuaranteedMode /\ ~cfg.syncFrame /\ ~cfg.autoSync /\ ~cfg.credit
        /\ tx.flush = FALSE /\ tx.sync = FALSE /\ suspect = FALSE /\ tx.xlayer # "empty"
    BY <1>8 DEF GuaranteedDelivery, LinkInv
  <2>2. /\ o.flush = FALSE /\ o.sync = FALSE
    BY <1>4, <2>1
  <2>3. /\ tx'.flush = FALSE /\ tx'.sync = FALSE /\ tx'.head = o.head
        /\ tx'.xlayer # "empty"
    BY <1>5, <2>1, <2>2
  <2>4. ~(tx'.head > o.head)
    BY <1>7, <2>3
  <2>5. suspect' = FALSE
    BY <1>2, <2>1, <2>4
  <2> QED
    BY <2>3, <2>5
<1>9. tx.head <= tx'.head /\ tx'.head <= queueEnd + 1
  BY <1>4, <1>5, <1>7
<1>10. tx'.head > tx.head =>
         \/ suspect' = TRUE
         \/ /\ tx'.head = tx.head + 1 /\ tx.xlayer = "data"
            /\ air.tx = "ACK" \/ ~cfg.saw
  <2>1. CASE tx'.head > o.head
    BY <1>2, <2>1
  <2>2. CASE ~(tx'.head > o.head)
    BY <1>4, <1>5, <1>7, <2>2
  <2> QED
    BY <2>1, <2>2
<1>11. /\ suspect' \in BOOLEAN
       /\ air.tx = "NACK" /\ (suspect = TRUE \/ tx.xlayer = "empty") => suspect' = TRUE
  BY <1>2
<1> QED
  BY <1>1, <1>4, <1>5, <1>6, <1>8, <1>9, <1>10, <1>11
\* Connecting the transmitter prepares a slot and nothing else.
LEMMA TxConnectFacts ==
  ASSUME LinkInv, TxConnect
  PROVE  /\ GoodTx(tx)' /\ tx'.up = TRUE /\ tx'.seq = tx.seq
         /\ tx.head <= tx'.head /\ tx'.head <= queueEnd + 1
         /\ tx'.xlayer = "data" => tx'.head <= queueEnd
         /\ suspect' \in BOOLEAN
         /\ suspect = TRUE \/ tx'.head > tx.head => suspect' = TRUE
         /\ GuaranteedDelivery =>
              /\ tx'.flush = FALSE /\ tx'.sync = FALSE /\ suspect' = FALSE
              /\ tx'.xlayer # "empty" /\ tx'.head = tx.head
<1>1. PICK n \in TimeoutDrops(tx) :
         /\ tx' = [PrepareTxMain(tx, n) EXCEPT !.up = TRUE]
         /\ suspect' = (suspect \/ tx'.head > tx.head)
  BY DEF TxConnect
<1> DEFINE p == PrepareTxMain(tx, n)
<1>2. /\ cfg \in Configurations /\ queueEnd \in Nat /\ GoodTx(tx)
      /\ n \in TimeoutDrops(tx) /\ suspect \in BOOLEAN
  BY DEF LinkInv, TypeOK, GoodTx
<1>3. /\ GoodTx(p)
      /\ p.seq = tx.seq
      /\ tx.head <= p.head /\ p.head <= queueEnd + 1
      /\ p.xlayer = "data" => p.head <= queueEnd
      /\ tx.flush = FALSE => p.flush = FALSE
      /\ p.sync = tx.sync
      /\ GuaranteedMode /\ tx.flush = FALSE => p.head = tx.head
      /\ tx.sync = FALSE /\ ~cfg.autoSync /\ ~cfg.credit => p.xlayer # "empty"
  BY <1>2, PrepareFacts
<1> HIDE DEF p
<1>4. /\ GoodTx(tx')
      /\ tx'.up = TRUE /\ tx'.seq = p.seq /\ tx'.head = p.head /\ tx'.xlayer = p.xlayer
      /\ tx'.flush = p.flush /\ tx'.sync = p.sync
  <2>1. tx' = [p EXCEPT !.up = TRUE]
    BY <1>1 DEF p
  <2> QED
    BY <1>3, <2>1 DEF GoodTx, TxStates, QueueSizeOf
<1>5. GoodTx(tx)'
  BY <1>4 DEF GoodTx, QueueSizeOf, TxConnect
<1>6. /\ suspect' \in BOOLEAN
      /\ suspect = TRUE \/ tx'.head > tx.head => suspect' = TRUE
  BY <1>1
<1>7. ASSUME GuaranteedDelivery
      PROVE  /\ tx'.flush = FALSE /\ tx'.sync = FALSE /\ suspect' = FALSE
             /\ tx'.xlayer # "empty" /\ tx'.head = tx.head
  <2>1. /\ GuaranteedMode /\ ~cfg.autoSync /\ ~cfg.credit
        /\ tx.flush = FALSE /\ tx.sync = FALSE /\ suspect = FALSE
    BY <1>7 DEF GuaranteedDelivery, LinkInv
  <2>2. /\ tx'.flush = FALSE /\ tx'.sync = FALSE /\ tx'.head = tx.head
        /\ tx'.xlayer # "empty"
    BY <1>3, <1>4, <2>1
  <2>3. ~(tx'.head > tx.head)
    BY <1>2, <2>2 DEF GoodTx, TxStates
  <2> QED
    BY <1>1, <2>1, <2>2, <2>3
<1> QED
  BY <1>3, <1>4, <1>5, <1>6, <1>7

\* A frame in hand is taken in as it was foreseen.
LEMMA RxCallbackFacts ==
  ASSUME LinkInv, RxCallback
  PROVE  /\ InHand' = InHand /\ RxSeqInHand' = RxSeqInHand
         /\ rx' \in RxStates /\ rx'.up = rx.up
         /\ air' \in AirStates /\ air'.tx = air.tx /\ air'.rx = "NONE"
         /\ last' \in Nat
<1>1. rx \in RxStates /\ air \in AirStates /\ last \in Nat
  BY DEF LinkInv, TypeOK
<1>2. air' \in AirStates /\ air'.tx = air.tx /\ air'.rx = "NONE"
  <2>1. NoFrame \in FrameType
    BY DEF FrameType, NoFrame, Xlayers, TxSeqNums
  <2>2. air' = [air EXCEPT !.rx = "NONE", !.frame = NoFrame]
    BY DEF RxCallback
  <2> QED
    BY <1>1, <2>1, <2>2 DEF AirStates
<1>3. InHand' = last' /\ RxSeqInHand' = rx'.seq
  BY <1>2 DEF InHand, RxSeqInHand
<1>4. ASSUME NEW r \in RxStates
      PROVE  PrepareRxMain(r) \in RxStates /\ PrepareRxMain(r).up = r.up
             /\ PrepareRxMain(r).seq = r.seq
  <2> DEFINE a == CreditToSend(RxQueueSize - Len(r.queue))
             b == RxQueueSize - Len(r.queue) > 0
  <2>1. Len(r.queue) \in Nat
    BY DEF RxStates
  <2>2. a \in Nat
    BY <2>1 DEF CreditToSend, CREDIT_FLOW_CONTROL_MAX_VALUE
  <2>3. PrepareRxMain(r) = [r EXCEPT !.ack = a, !.node = b]
    BY DEF PrepareRxMain
  <2>4. b \in BOOLEAN
    OBVIOUS
  <2> HIDE DEF a, b
  <2> QED
    BY <2>2, <2>3, <2>4 DEF RxStates
<1>5. CASE air.rx = "RECEIVED"
  <2> DEFINE u == ProcessRxMain(rx, air.frame)
             q == IF IsFresh(rx, air.frame) /\ rx.node /\ Len(rx.queue) < RxQueueSize
                  THEN Append(rx.queue, air.frame.id) ELSE rx.queue
             s == RxSeqNum(air.frame.seq)
  <2>1. air.frame \in FrameType
    BY <1>1 DEF AirStates
  <2>2. q \in Seq(Nat)
    <3>1. rx.queue \in Seq(Nat) /\ air.frame.id \in Nat
      BY <1>1, <2>1 DEF RxStates, FrameType
    <3> QED
      BY <3>1
  <2>3. s \in RxSeqNums
    BY <2>1, IncSeqNumType DEF FrameType
  <2>4. u = [rx EXCEPT !.seq = s, !.queue = q]
    BY DEF ProcessRxMain
  <2> HIDE DEF q, s
  <2>5. u \in RxStates /\ u.up = rx.up /\ u.seq = s
    BY <1>1, <2>2, <2>3, <2>4 DEF RxStates
  <2>6. rx' = PrepareRxMain(u)
    BY <1>5 DEF RxCallback
  <2> HIDE DEF u
  <2>7. rx' \in RxStates /\ rx'.up = rx.up /\ rx'.seq = s
    BY <1>4, <2>5, <2>6
  <2>8. last' = InHand /\ RxSeqInHand = s
    BY <1>5 DEF RxCallback, InHand, RxSeqInHand, s
  <2>9. last' \in Nat
    BY <1>1, <2>1, <2>8 DEF InHand, FrameType
  <2> QED
    BY <1>2, <1>3, <2>7, <2>8, <2>9
<1>6. CASE air.rx # "RECEIVED"
  <2>1. rx' = PrepareRxMain(rx) /\ last' = last
    BY <1>6 DEF RxCallback
  <2>2. InHand = last /\ RxSeqInHand = rx.seq
    BY <1>6 DEF InHand, RxSeqInHand
  <2> QED
    BY <1>1, <1>2, <1>3, <1>4, <2>1, <2>2
<1> QED
  BY <1>5, <1>6

\* What a timeslot brings to the receiver.
LEMMA SlotFacts ==
  ASSUME LinkInv, NEW outcome \in {"LOST", "ACK_LOST", "ACKED"}, Slot(outcome)
  PROVE  /\ air' \in AirStates
         /\ ~tx.up => air'.tx = "NONE"
         /\ ~rx.up => air'.rx = "NONE"
         /\ InHand = last /\ RxSeqInHand = rx.seq
         /\ outcome = "LOST" =>
              /\ air'.tx # "ACK" /\ InHand' = last /\ RxSeqInHand' = rx.seq
         /\ outcome # "LOST" =>
              /\ tx.up /\ air'.tx = IF outcome = "ACKED" THEN "ACK" ELSE "NACK"
              /\ tx.xlayer # "none"
              /\ RxSeqInHand' = RxSeqNum(tx.seq)
              /\ InHand' = IF tx.xlayer = "data" /\ ~(cfg.saw /\ tx.seq = rx.seq)
                           THEN tx.head ELSE last
<1> DEFINE fr == IF outcome = "LOST" THEN NoFrame
                 ELSE [xlayer |-> tx.xlayer, id |-> tx.head, seq |-> tx.seq]
           at == IF ~tx.up THEN "NONE" ELSE IF outcome = "ACKED" THEN "ACK" ELSE "NACK"
           ar == IF ~rx.up THEN "NONE" ELSE IF outcome = "LOST" THEN "MISSED" ELSE "RECEIVED"
<1>1. /\ tx.head \in Nat /\ tx.xlayer \in Xlayers /\ tx.seq \in TxSeqNums
      /\ rx.ack \in Nat
  BY DEF LinkInv, TypeOK, TxStates, RxStates
<1>2. fr \in FrameType
  BY <1>1 DEF FrameType, NoFrame, Xlayers, TxSeqNums
<1>3. air' = [tx |-> at, rx |-> ar, frame |-> fr, ack |-> rx.ack]
  BY DEF Slot
<1>4. /\ air.tx = "NONE" /\ air.rx = "NONE"
      /\ outcome # "LOST" => tx.up /\ rx.up /\ tx.xlayer # "none"
      /\ cfg' = cfg /\ rx' = rx /\ last' = last
  BY DEF Slot
<1> HIDE DEF fr
<1>5. air' \in AirStates /\ air'.tx = at /\ air'.rx = ar /\ air'.frame = fr
  BY <1>1, <1>2, <1>3 DEF AirStates
<1>6. InHand = last /\ RxSeqInHand = rx.seq
  BY <1>4 DEF InHand, RxSeqInHand
<1>7. ASSUME outcome = "LOST" PROVE InHand' = last /\ RxSeqInHand' = rx.seq
  BY <1>4, <1>5, <1>7 DEF InHand, RxSeqInHand
<1>8. ASSUME outcome # "LOST"
      PROVE  /\ RxSeqInHand' = RxSeqNum(tx.seq)
             /\ InHand' = IF tx.xlayer = "data" /\ ~(cfg.saw /\ tx.seq = rx.seq)
                          THEN tx.head ELSE last
  <2>1. fr.xlayer = tx.xlayer /\ fr.id = tx.head /\ fr.seq = tx.seq
    BY <1>8 DEF fr
  <2>2. air'.rx = "RECEIVED" /\ air'.frame = fr
    BY <1>4, <1>5, <1>8
  <2>3. InHand' = IF fr.xlayer = "data" /\ ~(cfg.saw /\ fr.seq = rx.seq) THEN fr.id ELSE last
    BY <1>4, <2>2 DEF InHand, IsFresh, RxFrameDuplicate
  <2>4. RxSeqInHand' = RxSeqNum(fr.seq)
    BY <2>2 DEF RxSeqInHand
  <2> QED
    BY <2>1, <2>3, <2>4
<1> QED
  BY <1>4, <1>5, <1>6, <1>7, <1>8

LEMMA StepInv == LinkInv /\ [Next]_vars => LinkInv'
<1> SUFFICES ASSUME LinkInv, [Next]_vars PROVE LinkInv'
  OBVIOUS
<1>1. /\ cfg \in Configurations /\ queueEnd \in Nat /\ tx \in TxStates /\ rx \in RxStates
      /\ air \in AirStates /\ last \in Nat /\ suspect \in BOOLEAN /\ sessions \in Nat
      /\ QueueSizeOf(tx) \in 0 .. TxQueueSize
  BY DEF LinkInv, TypeOK
<1>2. /\ tx.head \in Nat /\ tx.seq \in TxSeqNums /\ tx.xlayer \in Xlayers
      /\ tx.head <= queueEnd + 1 /\ tx.up \in BOOLEAN
      /\ air.tx \in {"NONE", "ACK", "NACK"}
  BY <1>1 DEF TxStates, QueueSizeOf, AirStates
<1>3. cfg.saw \in BOOLEAN /\ cfg.syncFrame \in BOOLEAN
  BY <1>1 DEF ConfigurationType
<1>4. InHand \in Nat /\ RxSeqInHand \in RxSeqNums
  <2>1. air.frame.id \in Nat /\ air.frame.seq \in TxSeqNums /\ rx.seq \in RxSeqNums
    BY <1>1 DEF AirStates, FrameType, RxStates
  <2> QED
    BY <1>1, <2>1, IncSeqNumType DEF InHand, RxSeqInHand
<1>5. /\ IncSeqNum(tx.seq) \in {0, 1} /\ RxSeqNum(tx.seq) \in {0, 1}
      /\ IncSeqNum(tx.seq) # RxSeqNum(tx.seq)
      /\ tx.seq \in 0 .. 2 /\ RxSeqInHand \in {0, 1, 3}
  BY <1>2, <1>4, IncSeqNumType DEF TxSeqNums, RxSeqNums
<1>6. CASE TxCallback
  <2>1. cfg' = cfg /\ queueEnd' = queueEnd /\ rx' = rx /\ last' = last /\ sessions' = sessions
        /\ air' = [air EXCEPT !.tx = "NONE"] /\ air.tx # "NONE"
    BY <1>6 DEF TxCallback
  <2>2. air' \in AirStates /\ air'.tx = "NONE" /\ air'.rx = air.rx /\ air'.frame = air.frame
    BY <1>1, <2>1 DEF AirStates
  <2>3. InHand' = InHand /\ RxSeqInHand' = RxSeqInHand /\ GuaranteedDelivery' = GuaranteedDelivery
    BY <2>1, <2>2 DEF InHand, RxSeqInHand, IsFresh, GuaranteedDelivery, GuaranteedMode
  <2>4. tx' \in TxStates /\ tx'.head \in Nat /\ QueueSizeOf(tx)' \in 0 .. TxQueueSize
    BY <1>6, TxCallbackFacts DEF GoodTx, TxStates
  <2>5. /\ tx.head <= tx'.head /\ tx'.head <= queueEnd + 1
        /\ tx'.head > tx.head => suspect' = TRUE \/ air.tx = "ACK" \/ ~cfg.saw
    BY <1>6, TxCallbackFacts
  <2>6. TypeOK'
    BY <1>1, <1>6, <2>1, <2>2, <2>4, TxCallbackFacts DEF TypeOK
  <2>7. ASSUME cfg.saw, RxSeqInHand = tx'.seq PROVE InHand = tx'.head \/ suspect' = TRUE
    <3>1. air.tx = "NACK" /\ tx'.seq = tx.seq
      BY <1>2, <1>6, <2>1, <2>7, TxCallbackFacts DEF LinkInv
    <3>2. tx'.head = tx.head \/ suspect' = TRUE
      BY <1>2, <2>4, <2>7, <2>5, <3>1
    <3>3. InHand = tx.head \/ suspect' = TRUE
      BY <1>1, <1>6, <2>7, <3>1, TxCallbackFacts DEF LinkInv
    <3> QED
      BY <3>2, <3>3
  <2>8. InHand <= tx'.head /\ InHand <= queueEnd
    BY <1>2, <1>4, <2>4, <2>5 DEF LinkInv
  <2> QED
    BY <1>6, <2>1, <2>2, <2>3, <2>6, <2>7, <2>8, TxCallbackFacts DEF LinkInv
<1>7. CASE RxCallback
  <2>1. cfg' = cfg /\ queueEnd' = queueEnd /\ tx' = tx /\ suspect' = suspect
        /\ sessions' = sessions
    BY <1>7 DEF RxCallback
  <2>2. TypeOK'
    BY <1>1, <1>7, <2>1, RxCallbackFacts DEF TypeOK, QueueSizeOf
  <2>3. GuaranteedDelivery' = GuaranteedDelivery
    BY <2>1 DEF GuaranteedDelivery, GuaranteedMode
  <2> QED
    BY <1>7, <2>1, <2>2, <2>3, RxCallbackFacts DEF LinkInv
<1>8. ASSUME NEW outcome \in {"LOST", "ACK_LOST", "ACKED"}, Slot(outcome) PROVE LinkInv'
  <2>1. cfg' = cfg /\ queueEnd' = queueEnd /\ tx' = tx /\ rx' = rx /\ last' = last
        /\ suspect' = suspect /\ sessions' = sessions /\ air.tx = "NONE" /\ air.rx = "NONE"
    BY <1>8 DEF Slot
  <2>2. TypeOK'
    BY <1>1, <1>8, <2>1, SlotFacts DEF TypeOK, QueueSizeOf
  <2>3. GuaranteedDelivery' = GuaranteedDelivery
    BY <2>1 DEF GuaranteedDelivery, GuaranteedMode
  <2>4. CASE outcome = "LOST"
    <3>1. InHand' = InHand /\ RxSeqInHand' = RxSeqInHand /\ air'.tx # "ACK"
          /\ (~tx.up => air'.tx = "NONE") /\ (~rx.up => air'.rx = "NONE")
      BY <1>8, <2>4, SlotFacts
    <3> QED
      BY <2>1, <2>2, <2>3, <3>1 DEF LinkInv
  <2>5. CASE outcome # "LOST"
    <3>1. /\ RxSeqInHand' = RxSeqNum(tx.seq)
          /\ InHand = last /\ RxSeqInHand = rx.seq
          /\ InHand' = IF tx.xlayer = "data" /\ ~(cfg.saw /\ tx.seq = rx.seq)
                       THEN tx.head ELSE last
          /\ tx.up /\ air'.tx \in {"ACK", "NACK"} /\ tx.xlayer # "none"
          /\ ~rx.up => air'.rx = "NONE"
      BY <1>8, <2>5, SlotFacts
    <3>2. InHand' <= tx.head /\ InHand' <= queueEnd
      BY <1>2, <3>1 DEF LinkInv
    <3>3. tx.xlayer = "data" => InHand' = tx.head \/ suspect
      BY <2>1, <3>1 DEF LinkInv
    <3>4. tx.xlayer # "data" => tx.xlayer = "empty"
      BY <1>2, <3>1 DEF Xlayers
    <3>5. RxSeqInHand' # IncSeqNum(tx.seq)
      BY <1>5, <3>1
    <3> QED
      BY <2>1, <2>2, <2>3, <3>1, <3>2, <3>3, <3>4, <3>5 DEF LinkInv
  <2> QED
    BY <2>4, <2>5
<1>9. CASE SlotLost \/ SlotAckLost \/ SlotAcked
  BY <1>8, <1>9 DEF SlotLost, SlotAckLost, SlotAcked
<1>10. CASE Send
  <2>1. cfg' = cfg /\ queueEnd' = queueEnd + 1 /\ tx' = tx /\ rx' = rx /\ last' = last
        /\ air' = air /\ suspect' = suspect /\ sessions' = sessions
        /\ QueueSizeOf(tx) < TxQueueSize
    BY <1>10 DEF Send
  <2>2. QueueSizeOf(tx)' = QueueSizeOf(tx) + 1
    BY <1>1, <1>2, <2>1 DEF QueueSizeOf
  <2>3. TypeOK'
    BY <1>1, <2>1, <2>2 DEF TypeOK
  <2>4. InHand' = InHand /\ RxSeqInHand' = RxSeqInHand /\ GuaranteedDelivery' = GuaranteedDelivery
    BY <2>1 DEF InHand, RxSeqInHand, IsFresh, GuaranteedDelivery, GuaranteedMode
  <2> QED
    BY <1>1, <1>2, <1>4, <2>1, <2>3, <2>4 DEF LinkInv
<1>11. CASE Read
  <2>1. cfg' = cfg /\ queueEnd' = queueEnd /\ tx' = tx /\ last' = last /\ air' = air
        /\ suspect' = suspect /\ sessions' = sessions
        /\ rx' = [rx EXCEPT !.queue = Tail(@)] /\ rx.queue # <<>>
    BY <1>11 DEF Read
  <2>2. rx' \in RxStates /\ rx'.up = rx.up /\ rx'.seq = rx.seq
    <3>1. Tail(rx.queue) \in Seq(Nat)
      BY <1>1, <2>1 DEF RxStates
    <3> DEFINE q == Tail(rx.queue)
    <3>2. rx' = [rx EXCEPT !.queue = q]
      BY <2>1
    <3> HIDE DEF q
    <3>3. q \in Seq(Nat)
      BY <3>1 DEF q
    <3> QED
      BY <1>1, <3>2, <3>3 DEF RxStates
  <2>3. TypeOK'
    BY <1>1, <2>1, <2>2 DEF TypeOK, QueueSizeOf
  <2>4. InHand' = InHand /\ RxSeqInHand' = RxSeqInHand /\ GuaranteedDelivery' = GuaranteedDelivery
    BY <2>1, <2>2 DEF InHand, RxSeqInHand, IsFresh, GuaranteedDelivery, GuaranteedMode
  <2> QED
    BY <2>1, <2>2, <2>3, <2>4 DEF LinkInv
<1>12. CASE FlushRequest
  <2>1. cfg' = cfg /\ queueEnd' = queueEnd /\ rx' = rx /\ last' = last /\ air' = air
        /\ suspect' = suspect /\ sessions' = sessions
        /\ tx' = [tx EXCEPT !.flush = TRUE] /\ cfg.flush
    BY <1>12 DEF FlushRequest
  <2>2. tx' \in TxStates /\ tx'.up = tx.up /\ tx'.seq = tx.seq /\ tx'.head = tx.head
        /\ tx'.xlayer = tx.xlayer
    BY <1>1, <2>1 DEF TxStates
  <2>3. TypeOK'
    BY <1>1, <2>1, <2>2 DEF TypeOK, QueueSizeOf
  <2>4. InHand' = InHand /\ RxSeqInHand' = RxSeqInHand /\ ~GuaranteedDelivery'
    BY <2>1 DEF InHand, RxSeqInHand, IsFresh, GuaranteedDelivery
  <2> QED
    BY <2>1, <2>2, <2>3, <2>4 DEF LinkInv
<1>13. CASE TxConnect
  <2>1. cfg' = cfg /\ queueEnd' = queueEnd /\ rx' = rx /\ last' = last /\ air' = air
        /\ sessions' = sessions /\ ~tx.up
    BY <1>13 DEF TxConnect
  <2>2. tx' \in TxStates /\ tx'.head \in Nat /\ QueueSizeOf(tx)' \in 0 .. TxQueueSize
    BY <1>13, TxConnectFacts DEF GoodTx, TxStates
  <2>3. /\ tx.head <= tx'.head
        /\ suspect = TRUE \/ tx'.head > tx.head => suspect' = TRUE
    BY <1>13, TxConnectFacts
  <2>4. TypeOK'
    BY <1>1, <1>13, <2>1, <2>2, TxConnectFacts DEF TypeOK
  <2>5. InHand' = InHand /\ RxSeqInHand' = RxSeqInHand /\ GuaranteedDelivery' = GuaranteedDelivery
    BY <2>1 DEF InHand, RxSeqInHand, IsFresh, GuaranteedDelivery, GuaranteedMode
  <2>6. air.tx = "NONE"
    BY <2>1 DEF LinkInv
  <2>7. InHand <= tx'.head /\ InHand <= queueEnd
    BY <1>2, <1>4, <2>2, <2>3 DEF LinkInv
  <2>8. ASSUME cfg.saw, RxSeqInHand = tx'.seq PROVE InHand = tx'.head \/ suspect' = TRUE
    <3>1. InHand = tx.head \/ suspect = TRUE
      BY <1>1, <1>13, <2>6, <2>8, TxConnectFacts DEF LinkInv
    <3> QED
      BY <1>2, <2>2, <2>3, <3>1
  <2> QED
    BY <1>13, <2>1, <2>4, <2>5, <2>6, <2>7, <2>8, TxConnectFacts DEF LinkInv
<1>14. CASE RxConnect
  <2>1. cfg' = cfg /\ queueEnd' = queueEnd /\ tx' = tx /\ last' = last /\ air' = air
        /\ suspect' = suspect /\ sessions' = sessions /\ ~rx.up
        /\ rx' = [PrepareRxMain(rx) EXCEPT !.up = TRUE]
    BY <1>14 DEF RxConnect
  <2> DEFINE a == CreditToSend(RxQueueSize - Len(rx.queue))
             b == RxQueueSize - Len(rx.queue) > 0
  <2>2. a \in Nat /\ b \in BOOLEAN
    BY <1>1 DEF RxStates, CreditToSend, CREDIT_FLOW_CONTROL_MAX_VALUE
  <2>3. rx' = [[rx EXCEPT !.ack = a, !.node = b] EXCEPT !.up = TRUE]
    BY <2>1 DEF PrepareRxMain
  <2> HIDE DEF a, b
  <2>4. rx' \in RxStates /\ rx'.seq = rx.seq
    BY <1>1, <2>2, <2>3 DEF RxStates
  <2>5. TypeOK'
    BY <1>1, <2>1, <2>4 DEF TypeOK, QueueSizeOf
  <2>6. InHand' = InHand /\ RxSeqInHand' = RxSeqInHand /\ GuaranteedDelivery' = GuaranteedDelivery
    <3>1. air.rx = "NONE"
      BY <2>1 DEF LinkInv
    <3> QED
      BY <2>1, <2>4, <3>1 DEF InHand, RxSeqInHand, GuaranteedDelivery, GuaranteedMode
  <2> QED
    BY <2>1, <2>5, <2>6 DEF LinkInv
<1>15. CASE TxDisconnect
  <2>1. cfg' = cfg /\ queueEnd' = queueEnd /\ rx' = rx /\ last' = last /\ air' = air
        /\ suspect' = suspect /\ sessions' = sessions + 1 /\ air.tx = "NONE"
        /\ tx' = [tx EXCEPT !.up = FALSE, !.xlayer = "none",
                            !.status = ConnectStatusReset, !.sync = cfg.syncFrame]
    BY <1>15 DEF TxDisconnect
  <2>2. ConnectStatusReset \in ConnectStatuses
    BY DEF ConnectStatuses, ConnectStatusReset
  <2>3. tx' \in TxStates /\ tx'.seq = tx.seq /\ tx'.head = tx.head /\ tx'.flush = tx.flush
        /\ tx'.xlayer = "none" /\ tx'.sync = cfg.syncFrame
    BY <1>1, <1>3, <2>1, <2>2 DEF TxStates, Xlayers
  <2>4. TypeOK'
    BY <1>1, <2>1, <2>3 DEF TypeOK, QueueSizeOf
  <2>5. InHand' = InHand /\ RxSeqInHand' = RxSeqInHand /\ GuaranteedDelivery' = GuaranteedDelivery
    BY <2>1 DEF InHand, RxSeqInHand, IsFresh, GuaranteedDelivery, GuaranteedMode
  <2>6. GuaranteedDelivery => cfg.syncFrame = FALSE
    BY <1>3 DEF GuaranteedDelivery
  <2> QED
    BY <2>1, <2>3, <2>4, <2>5, <2>6 DEF LinkInv
<1>16. CASE RxDisconnect
  <2>1. cfg' = cfg /\ queueEnd' = queueEnd /\ tx' = tx /\ last' = last /\ air' = air
        /\ suspect' = suspect /\ sessions' = sessions + 1 /\ air.rx = "NONE"
        /\ rx' = [rx EXCEPT !.up = FALSE]
    BY <1>16 DEF RxDisconnect
  <2>2. rx' \in RxStates /\ rx'.seq = rx.seq
    BY <1>1, <2>1 DEF RxStates
  <2>3. TypeOK'
    BY <1>1, <2>1, <2>2 DEF TypeOK, QueueSizeOf
  <2>4. InHand' = InHand /\ RxSeqInHand' = RxSeqInHand /\ GuaranteedDelivery' = GuaranteedDelivery
    BY <2>1, <2>2 DEF InHand, RxSeqInHand, GuaranteedDelivery, GuaranteedMode
  <2> QED
    BY <2>1, <2>3, <2>4 DEF LinkInv
<1>17. CASE TxFlushQueue
  <2> DEFINE s == IF cfg.saw THEN TX_DEFAULT_SAW_INDEX ELSE tx.seq
  <2>1. cfg' = cfg /\ queueEnd' = queueEnd /\ rx' = rx /\ last' = last /\ air' = air
        /\ suspect' = suspect /\ sessions' = sessions /\ ~tx.up
        /\ tx' = [tx EXCEPT !.head = queueEnd + 1, !.retry = 0, !.seq = s]
    BY <1>17 DEF TxFlushQueue
  <2>2. s \in TxSeqNums /\ (cfg.saw => s = 2)
    BY <1>2 DEF TxSeqNums, TX_DEFAULT_SAW_INDEX
  <2> HIDE DEF s
  <2>3. tx' \in TxStates /\ tx'.up = tx.up /\ tx'.seq = s /\ tx'.head = queueEnd + 1
        /\ tx'.flush = tx.flush /\ tx'.xlayer = tx.xlayer /\ tx'.sync = tx.sync
    <3> DEFINE h == queueEnd + 1
    <3>1. h \in Nat /\ tx' = [tx EXCEPT !.head = h, !.retry = 0, !.seq = s]
      BY <1>1, <2>1
    <3> HIDE DEF h
    <3>2. tx' \in TxStates /\ tx'.up = tx.up /\ tx'.seq = s /\ tx'.head = h
          /\ tx'.flush = tx.flush /\ tx'.xlayer = tx.xlayer /\ tx'.sync = tx.sync
      BY <1>1, <2>2, <3>1 DEF TxStates
    <3> QED
      BY <3>2 DEF h
  <2>4. QueueSizeOf(tx)' = 0
    BY <1>1, <2>1, <2>3 DEF QueueSizeOf
  <2>5. TypeOK'
    BY <1>1, <2>1, <2>3, <2>4 DEF TypeOK
  <2>6. InHand' = InHand /\ RxSeqInHand' = RxSeqInHand /\ GuaranteedDelivery' = GuaranteedDelivery
    BY <2>1 DEF InHand, RxSeqInHand, IsFresh, GuaranteedDelivery, GuaranteedMode
  <2>7. InHand <= queueEnd + 1 /\ InHand <= queueEnd /\ air.tx = "NONE"
        /\ (cfg.saw => RxSeqInHand # s)
    BY <1>1, <1>4, <1>5, <2>1, <2>2 DEF LinkInv
  <2>8. tx'.xlayer # "data"
    BY <2>1, <2>3 DEF LinkInv
  <2> QED
    BY <1>1, <1>4, <2>1, <2>3, <2>5, <2>6, <2>7, <2>8 DEF LinkInv
<1>18. CASE RxFlushQueue
  <2> DEFINE s == IF cfg.saw THEN RX_DEFAULT_SAW_INDEX ELSE rx.seq
  <2>1. cfg' = cfg /\ queueEnd' = queueEnd /\ tx' = tx /\ last' = last /\ air' = air
        /\ suspect' = suspect /\ sessions' = sessions /\ ~rx.up
        /\ rx' = [rx EXCEPT !.queue = <<>>, !.seq = s]
    BY <1>18 DEF RxFlushQueue
  <2>2. s \in RxSeqNums /\ (cfg.saw => s = 3)
    BY <1>1 DEF RxSeqNums, RX_DEFAULT_SAW_INDEX, RxStates
  <2> HIDE DEF s
  <2>3. rx' \in RxStates /\ rx'.up = rx.up /\ rx'.seq = s
    <3> DEFINE e == <<>>
    <3>1. e \in Seq(Nat) /\ rx' = [rx EXCEPT !.queue = e, !.seq = s]
      BY <2>1
    <3> HIDE DEF e
    <3> QED
      BY <1>1, <2>2, <3>1 DEF RxStates
  <2>4. TypeOK'
    BY <1>1, <2>1, <2>3 DEF TypeOK, QueueSizeOf
  <2>5. air.rx = "NONE"
    BY <2>1 DEF LinkInv
  <2>6. InHand' = InHand /\ RxSeqInHand' = s /\ GuaranteedDelivery' = GuaranteedDelivery
    BY <2>1, <2>3, <2>5 DEF InHand, RxSeqInHand, GuaranteedDelivery, GuaranteedMode
  <2> QED
    BY <1>5, <2>1, <2>2, <2>3, <2>4, <2>6 DEF LinkInv
<1>19. CASE UNCHANGED vars
  BY <1>19 DEF vars, LinkInv, TypeOK, QueueSizeOf, GuaranteedDelivery, GuaranteedMode,
               InHand, IsFresh, RxSeqInHand
<1> QED
  BY <1>6, <1>7, <1>9, <1>10, <1>11, <1>12, <1>13, <1>14, <1>15, <1>16, <1>17, <1>18, <1>19
  DEF Next

-----------------------------------------------------------------------------
(* The theorems *)

(* LinkInv is an invariant of the connection, whatever the settings, the    *)
(* queue sizes, the number of frames and the number of disconnections.      *)
THEOREM LinkInvariant == Spec => []LinkInv
<1>1. Init => LinkInv
  BY InitInv
<1>2. LinkInv /\ [Next]_vars => LinkInv'
  BY StepInv
<1> QED
  BY <1>1, <1>2, PTL DEF Spec

(* Every variable of the connection keeps its type and the transmit queue   *)
(* never holds more than fifo_buffer_size frames (xlayer_queue.c).          *)
THEOREM TypeCorrect == Spec => []TypeOK
<1>1. LinkInv => TypeOK
  BY DEF LinkInv
<1> QED
  BY <1>1, LinkInvariant, PTL

(* A frame reported as sent (tx_success, process_tx_main) has reached the   *)
(* receiver, unless one was given up since the last acknowledgement, which  *)
(* a connection set up for guaranteed delivery never does.                  *)
THEOREM AcknowledgedFramesArrived == Spec => []AckedWasReceived
<1>1. LinkInv => AckedWasReceived
  <2> SUFFICES ASSUME LinkInv, air.tx = "ACK", tx.xlayer = "data"
               PROVE  InHand >= tx.head \/ (suspect /\ ~GuaranteedDelivery)
    BY DEF AckedWasReceived
  <2>1. tx.head \in Nat /\ suspect \in BOOLEAN
    BY DEF LinkInv, TypeOK, TxStates
  <2>2. InHand = tx.head \/ suspect = TRUE
    BY <2>1 DEF LinkInv
  <2>3. suspect = TRUE => ~GuaranteedDelivery
    BY DEF LinkInv
  <2> QED
    BY <2>1, <2>2, <2>3
<1> QED
  BY <1>1, LinkInvariant, PTL

-----------------------------------------------------------------------------
(* The connection implements ReliableFifo *)

LEMMA InitRefines == Init => Fifo!Init
<1> SUFFICES ASSUME Init PROVE Fifo!Init
  OBVIOUS
<1>1. GuaranteedDelivery \in BOOLEAN
  BY GuaranteedSettings DEF Init
<1>2. InHand = 0 /\ queueEnd = 0 /\ tx.head - 1 = 0
  BY DEF Init, InHand
<1> QED
  BY <1>1, <1>2 DEF Fifo!Init

LEMMA StepRefines == LinkInv /\ LinkInv' /\ [Next]_vars => [Fifo!Next]_Fifo!vars
<1> SUFFICES ASSUME LinkInv, LinkInv', [Next]_vars PROVE [Fifo!Next]_Fifo!vars
  OBVIOUS
<1>1. /\ queueEnd \in Nat /\ tx.head \in Nat /\ tx'.head \in Nat /\ InHand \in Nat
      /\ InHand <= tx.head /\ tx.head <= queueEnd + 1 /\ suspect' \in BOOLEAN
  <2>1. air.frame.id \in Nat
    BY DEF LinkInv, TypeOK, AirStates, FrameType
  <2> QED
    BY <2>1 DEF LinkInv, TypeOK, TxStates, QueueSizeOf, InHand
<1>2. cfg' = cfg /\ (GuaranteedDelivery' <=> GuaranteedDelivery)
  <2>1. cfg' = cfg
    BY DEF Next, vars, TxCallback, RxCallback, SlotLost, SlotAckLost, SlotAcked, Slot, Send,
           Read, FlushRequest, TxConnect, RxConnect, TxDisconnect, RxDisconnect,
           TxFlushQueue, RxFlushQueue
  <2> QED
    BY <2>1 DEF GuaranteedDelivery, GuaranteedMode
<1>3. GuaranteedDelivery' = GuaranteedDelivery
  BY <1>2, GuaranteedSettings DEF LinkInv, TypeOK
\* The transmitter lets frames go, InHand and queueEnd standing still.
<1>4. ASSUME queueEnd' = queueEnd, InHand' = InHand, tx'.head > tx.head,
             tx'.head <= queueEnd + 1,
             GuaranteedDelivery => tx'.head = tx.head + 1 /\ InHand = tx.head
      PROVE  Fifo!Next
  <2>1. CASE GuaranteedDelivery
    BY <1>1, <1>3, <1>4, <2>1 DEF Fifo!Next, Fifo!Confirm
  <2>2. CASE ~GuaranteedDelivery
    BY <1>1, <1>3, <1>4, <2>2 DEF Fifo!Next, Fifo!LetGo
  <2> QED
    BY <2>1, <2>2
\* Nothing the abstract specification sees has changed.
<1>5. ASSUME queueEnd' = queueEnd, InHand' = InHand, tx'.head = tx.head
      PROVE  UNCHANGED Fifo!vars
  BY <1>3, <1>5 DEF Fifo!vars
<1>6. CASE TxCallback
  <2>1. queueEnd' = queueEnd /\ InHand' = InHand /\ air.tx # "NONE"
    <3>1. rx' = rx /\ last' = last /\ queueEnd' = queueEnd /\ air.tx # "NONE"
          /\ air' = [air EXCEPT !.tx = "NONE"]
      BY <1>6 DEF TxCallback
    <3>2. air'.rx = air.rx /\ air'.frame = air.frame
      BY <3>1 DEF LinkInv, TypeOK, AirStates
    <3> QED
      BY <1>2, <3>1, <3>2 DEF InHand, IsFresh
  <2>2. /\ tx.head <= tx'.head /\ tx'.head <= queueEnd + 1
        /\ tx'.head > tx.head =>
             \/ suspect' = TRUE
             \/ /\ tx'.head = tx.head + 1 /\ tx.xlayer = "data"
                /\ air.tx = "ACK" \/ ~cfg.saw
        /\ GuaranteedDelivery => suspect' = FALSE
    BY <1>6, TxCallbackFacts
  <2>3. CASE tx'.head = tx.head
    BY <1>5, <2>1, <2>3
  <2>4. CASE tx'.head # tx.head
    <3>1. tx'.head > tx.head
      BY <1>1, <2>2, <2>4
    <3>2. ASSUME GuaranteedDelivery PROVE tx'.head = tx.head + 1 /\ InHand = tx.head
      <4>1. cfg.saw /\ suspect = FALSE /\ suspect' = FALSE
        BY <2>2, <3>2 DEF LinkInv, GuaranteedDelivery
      <4>2. tx'.head = tx.head + 1 /\ tx.xlayer = "data" /\ air.tx = "ACK"
        BY <2>2, <3>1, <4>1
      <4> QED
        BY <4>1, <4>2 DEF LinkInv
    <3> QED
      BY <1>4, <2>1, <2>2, <3>1, <3>2
  <2> QED
    BY <2>3, <2>4
<1>7. CASE RxCallback
  BY <1>5, <1>7, RxCallbackFacts DEF RxCallback
<1>8. ASSUME NEW outcome \in {"LOST", "ACK_LOST", "ACKED"}, Slot(outcome)
      PROVE  [Fifo!Next]_Fifo!vars
  <2>1. queueEnd' = queueEnd /\ tx' = tx
    BY <1>8 DEF Slot
  <2>2. InHand' = InHand \/ (tx.xlayer = "data" /\ InHand' = tx.head)
    BY <1>8, SlotFacts
  <2>3. CASE InHand' = InHand
    BY <1>5, <2>1, <2>3
  <2>4. CASE InHand' # InHand
    <3>1. tx.head <= queueEnd /\ InHand' = tx.head /\ InHand < tx.head
      BY <1>1, <2>2, <2>4 DEF LinkInv
    <3> QED
      BY <1>1, <1>3, <2>1, <3>1 DEF Fifo!Next, Fifo!Receive
  <2> QED
    BY <2>3, <2>4
<1>9. CASE SlotLost \/ SlotAckLost \/ SlotAcked
  BY <1>8, <1>9 DEF SlotLost, SlotAckLost, SlotAcked
<1>10. CASE Send
  <2>1. queueEnd' = queueEnd + 1 /\ InHand' = InHand /\ tx' = tx
    BY <1>2, <1>10 DEF Send, InHand, IsFresh
  <2> QED
    BY <1>3, <2>1 DEF Fifo!Next, Fifo!Accept
<1>11. CASE Read
  <2>1. queueEnd' = queueEnd /\ tx' = tx /\ air' = air /\ last' = last /\ rx'.seq = rx.seq
    BY <1>11 DEF Read, LinkInv, TypeOK, RxStates
  <2>2. InHand' = InHand
    BY <1>2, <2>1 DEF InHand, IsFresh
  <2> QED
    BY <1>5, <2>1, <2>2
<1>12. CASE FlushRequest
  <2>1. queueEnd' = queueEnd /\ tx'.head = tx.head /\ InHand' = InHand
    BY <1>2, <1>12 DEF FlushRequest, InHand, IsFresh, LinkInv, TypeOK, TxStates
  <2> QED
    BY <1>5, <2>1
<1>13. CASE TxConnect
  <2>1. queueEnd' = queueEnd /\ InHand' = InHand
    BY <1>2, <1>13 DEF TxConnect, InHand, IsFresh
  <2>2. /\ tx.head <= tx'.head /\ tx'.head <= queueEnd + 1
        /\ GuaranteedDelivery => tx'.head = tx.head
    BY <1>13, TxConnectFacts
  <2>3. CASE tx'.head = tx.head
    BY <1>5, <2>1, <2>3
  <2>4. CASE tx'.head # tx.head
    BY <1>1, <1>4, <2>1, <2>2, <2>4
  <2> QED
    BY <2>3, <2>4
<1>14. CASE RxConnect \/ RxDisconnect \/ RxFlushQueue
  <2>1. queueEnd' = queueEnd /\ tx' = tx /\ air' = air /\ last' = last
    BY <1>14 DEF RxConnect, RxDisconnect, RxFlushQueue
  <2>2. air.rx = "NONE"
    BY <1>14 DEF RxConnect, RxDisconnect, RxFlushQueue, LinkInv
  <2>3. InHand' = InHand
    BY <2>1, <2>2 DEF InHand
  <2> QED
    BY <1>5, <2>1, <2>3
<1>15. CASE TxDisconnect
  <2>1. queueEnd' = queueEnd /\ tx'.head = tx.head /\ InHand' = InHand
    BY <1>2, <1>15 DEF TxDisconnect, InHand, IsFresh, LinkInv, TypeOK, TxStates
  <2> QED
    BY <1>5, <2>1
<1>16. CASE TxFlushQueue
  <2>1. queueEnd' = queueEnd /\ InHand' = InHand /\ tx'.head - 1 = queueEnd
    BY <1>1, <1>2, <1>16 DEF TxFlushQueue, InHand, IsFresh, LinkInv, TypeOK, TxStates
  <2> QED
    BY <1>3, <2>1 DEF Fifo!Next, Fifo!Discard
<1>17. CASE UNCHANGED vars
  BY <1>5, <1>17 DEF vars, InHand, IsFresh
<1> QED
  BY <1>6, <1>7, <1>9, <1>10, <1>11, <1>12, <1>13, <1>14, <1>15, <1>16, <1>17 DEF Next

(* The connection implements ReliableFifo: frames reach the receiver in the *)
(* order wps_send accepted them, and where delivery is guaranteed none is   *)
(* let go before it arrived.                                                *)
THEOREM ImplementsReliableFifo == Spec => FifoSpec
<1>1. Init => Fifo!Init
  BY InitRefines
<1>2. LinkInv /\ LinkInv' /\ [Next]_vars => [Fifo!Next]_Fifo!vars
  BY StepRefines
<1> QED
  BY <1>1, <1>2, LinkInvariant, PTL DEF Spec, FifoSpec, Fifo!Spec
=============================================================================
