------------------------------- MODULE WpsFrag -------------------------------
(***************************************************************************)
(* Fragmentation of payloads over one connection                           *)
(* (src/core/wireless/protocol_stack/wps_frag.c).  The sender cuts a       *)
(* payload into fragments and queues them one by one; the connection       *)
(* carries them in order, and drops some if it has a deadline; the         *)
(* receiver follows each fragment in a callback and reads whole payloads.  *)
(*                                                                         *)
(* The connection below is what WpsLink promises, with the receiver kept   *)
(* from overrunning.  Each fragment carries, besides its header, the       *)
(* number of its payload, which stands for its bytes.                      *)
(*                                                                         *)
(* A definition named Bug... is not part of the model: it is the one below *)
(* it with a plausible slip, kept to show that a property notices.         *)
(***************************************************************************)
EXTENDS Integers, Sequences, FiniteSets

CONSTANTS
  Settings,         \* how the connection is set up and used
  Sizes,            \* bytes of the payloads the application sends
  PayloadSize,      \* payload_size of the connection: bytes of a fragment
  TxQueueSize, RxQueueSize,
  MaxTransactionId, \* MAX_TRANSACTION_ID, 32 in the code
  CountModulus      \* range of the uint16_t enqueued_count, 65536 in the code

SettingsType ==
  [lossy : BOOLEAN,    \* the connection has a deadline
   prompt : BOOLEAN,   \* the application reads a payload as soon as told of it
   preempt : BOOLEAN,  \* callbacks run while the application is in wps_frag_send
   other : BOOLEAN,    \* another fragmented connection sends too
   buffer : Nat,       \* bytes of the buffer the application reads into
   payloads : Nat]     \* bound: payloads the application sends

ASSUME FragAssumption ==
  /\ Settings \subseteq SettingsType
  /\ PayloadSize \in Nat /\ PayloadSize > 4
  /\ Sizes \subseteq Nat \ {0}
  /\ TxQueueSize \in Nat \ {0} /\ RxQueueSize \in Nat \ {0}
  /\ MaxTransactionId \in Nat \ {0}
  /\ CountModulus \in Nat \ {0} /\ RxQueueSize < CountModulus

VARIABLES
  cfg,    \* the setting, fixed at set-up
  tx,     \* the sender: its application, its queue and its callbacks
  rx,     \* the receiver: its queues and the state of reassembly
  out,    \* what the last successful wps_frag_read returned
  sizes,  \* history: bytes of each payload handed to wps_frag_send
  reads   \* history: the payloads wps_frag_read returned pieces of

vars == <<cfg, tx, rx, out, sizes, reads>>

\* sizeof full_frame_t, first_fragment_t, middle_fragment_t
FullOverhead == 1
FirstOverhead == 4
MiddleOverhead == 2

\* Payloads handed to wps_frag_send so far.
Started == Len(sizes)

-----------------------------------------------------------------------------
(* The sender *)

\* check_queue_space
FragmentsNeeded(size) ==
  IF size + FullOverhead <= PayloadSize THEN 1
  ELSE 1 + (size - (PayloadSize - FirstOverhead) + PayloadSize - MiddleOverhead - 1)
             \div (PayloadSize - MiddleOverhead)

\* How many the loop of wps_frag_send queues: a first fragment, middle ones
\* as long as a whole one is left, and a last one with the rest, if any.
FragmentsSent(size) ==
  IF size + FullOverhead <= PayloadSize THEN 1
  ELSE 2 + (size - (PayloadSize - FirstOverhead)) \div (PayloadSize - MiddleOverhead)

BugFragment(p, num, n, id) ==
  [kind |-> CASE n = 1 -> "full" [] n > 1 /\ num >= n - 2 -> "last" [] OTHER -> "more",
   id |-> id, num |-> num, payload |-> p]

\* The fragment number num of payload p out of n.
Fragment(p, num, n, id) ==
  [kind |-> CASE n = 1 -> "full" [] n > 1 /\ num = n - 1 -> "last" [] OTHER -> "more",
   id |-> id, num |-> num, payload |-> p]

Sending == tx.count > 0

StartSend(size) ==
  /\ ~Sending /\ Started < cfg.payloads
  /\ FragmentsNeeded(size) <= TxQueueSize - Len(tx.queue)
  /\ sizes' = Append(sizes, size)
  /\ tx' = [tx EXCEPT !.count = FragmentsSent(size), !.done = 0]
  /\ UNCHANGED <<cfg, rx, out, reads>>

BugSendFragment ==
  /\ Sending /\ tx.done < tx.count
  /\ tx' = [tx EXCEPT !.queue = Append(@, Fragment(Started, tx.done, tx.count, tx.id)),
                     !.done = @ + 1]
  /\ UNCHANGED <<cfg, rx, out, sizes, reads>>

\* send_full_frame, send_first_fragment, send_middle_fragment and
\* send_last_fragment: without a free slot wps_frag_send returns at once.
SendFragment ==
  /\ Sending /\ tx.done < tx.count
  /\ tx' = IF Len(tx.queue) < TxQueueSize
           THEN [tx EXCEPT !.queue = Append(@, Fragment(Started, tx.done, tx.count, tx.id)),
                           !.done = @ + 1]
           ELSE [tx EXCEPT !.count = 0, !.torn = @ \cup {Started}]
  /\ UNCHANGED <<cfg, rx, out, sizes, reads>>

\* The end of wps_frag_send: the meta-data queue remembers how many fragments
\* to wait for.
FinishSend ==
  /\ Sending /\ tx.done = tx.count
  /\ LET fragments == IF tx.count = 1 THEN 1 ELSE tx.count - 1
         noted == Len(tx.meta) < TxQueueSize
     IN tx' = [tx EXCEPT !.count = 0,
                         !.meta = IF noted THEN Append(@, fragments) ELSE @,
                         !.remaining = IF noted /\ @ = 0 THEN fragments ELSE @,
                         !.unnoted = @ \/ ~noted,
                         !.id = (@ + 1) % MaxTransactionId]
  /\ UNCHANGED <<cfg, rx, out, sizes, reads>>

\* The number of transactions is a static of wps_frag_send, counted for all
\* connections together and read anew for each fragment: a callback that
\* comes inside a send, and sends over another connection, moves it between
\* two fragments of one payload.
OtherSend ==
  /\ cfg.other
  /\ Sending => cfg.preempt
  /\ tx' = [tx EXCEPT !.id = (@ + 1) % MaxTransactionId,
                     !.moved = IF Sending THEN @ \cup {Started} ELSE @]
  /\ UNCHANGED <<cfg, rx, out, sizes, reads>>

BugTxSuccess(t) ==
  [t EXCEPT !.acks = @ - 1, !.reported = @ + 1]

\* wps_frag_tx_success_callback: with nothing remaining, the payload at the
\* head of the meta-data queue has been sent.
TxSuccess(t) ==
  LET waited == [t EXCEPT !.acks = @ - 1]
  IN CASE t.remaining > 0 -> [waited EXCEPT !.remaining = @ - 1]
       [] t.remaining = 0 /\ Len(t.meta) > 1 ->
            [waited EXCEPT !.reported = @ + 1, !.meta = Tail(@), !.remaining = t.meta[2]]
       [] OTHER -> [waited EXCEPT !.reported = @ + 1, !.meta = <<>>]

TxSuccessCallback ==
  /\ tx.acks > 0
  /\ Sending => cfg.preempt
  /\ tx' = TxSuccess(tx)
  /\ UNCHANGED <<cfg, rx, out, sizes, reads>>

-----------------------------------------------------------------------------
(* The connection *)

Ends(f) == f.kind \in {"full", "last"}

\* The fragment at the head of the queue arrives, is dropped, or is dropped
\* after it arrived.  Each arrival enqueues the callback of the receiver,
\* each acknowledgement that of the sender.
Carry(arrives, acknowledged) ==
  /\ tx.queue # <<>>
  /\ arrives => Len(rx.fresh) + Len(rx.queue) < RxQueueSize
  /\ LET f == Head(tx.queue)
     IN /\ tx' = [tx EXCEPT !.queue = Tail(@),
                            !.acks = IF acknowledged THEN @ + 1 ELSE @,
                            !.sent = IF acknowledged /\ Ends(f) THEN @ + 1 ELSE @]
        /\ rx' = IF arrives THEN [rx EXCEPT !.fresh = Append(@, f)] ELSE rx
  /\ UNCHANGED <<cfg, out, sizes, reads>>

Deliver == Carry(TRUE, TRUE)
Drop == cfg.lossy /\ \E arrives \in BOOLEAN : Carry(arrives, FALSE)

-----------------------------------------------------------------------------
(* The receiver's callback *)

\* The first of some places of q, or one past the end.
FirstOf(places, q) ==
  IF places = {} THEN Len(q) + 1 ELSE CHOOSE k \in places : \A j \in places : k <= j

From(q, i) == SubSeq(q, i, Len(q))

Told(r) == [r EXCEPT !.count = (@ + 1) % CountModulus]

\* wps_frag_flush_last_transaction: the transaction at the head of the queue
\* goes; what follows it is taken for the first fragment of the next.
FlushLastTransaction(r) ==
  LET k == FirstOf({i \in DOMAIN r.queue : r.queue[i].id # r.queue[1].id}, r.queue)
  IN IF k > Len(r.queue) THEN [r EXCEPT !.queue = <<>>]
     ELSE [r EXCEPT !.queue = From(@, k), !.id = r.queue[k].id, !.index = 1]

\* wps_frag_read_process_fail: everything goes up to a full frame or to the
\* first fragment of a new transaction.
ReadProcessFail(r, id) ==
  LET Starts(f) == f.kind = "full" \/ (f.kind = "more" /\ f.num = 0 /\ r.id # id)
      k == FirstOf({i \in DOMAIN r.queue : Starts(r.queue[i])}, r.queue)
      failed == [r EXCEPT !.queue = From(@, k), !.dropped = TRUE, !.index = 0]
  IN CASE k > Len(r.queue) -> failed
       [] k <= Len(r.queue) /\ r.queue[k].kind = "full" -> Told(failed)
       [] OTHER -> [failed EXCEPT !.dropped = FALSE, !.id = r.queue[k].id, !.index = 1]

BugFollowSameId(r, f) ==
  CASE f.kind = "full" -> Told(r)
    [] f.kind = "more" /\ f.num = r.index /\ f.id = r.id -> [r EXCEPT !.index = @ + 1]
    [] f.kind = "last" /\ f.num = r.index -> Told([r EXCEPT !.index = 0])
    [] OTHER -> ReadProcessFail(r, f.id)

\* The transfer types in wps_frag_read_process.
Follow(r, f) ==
  CASE f.kind = "full" -> Told(r)
    [] f.kind = "more" /\ f.num = r.index /\ (f.id = r.id \/ f.num = 0) ->
         [r EXCEPT !.index = @ + 1, !.id = f.id]
    [] f.kind = "more" /\ f.num # r.index /\ f.id # r.id -> FlushLastTransaction(r)
    [] f.kind = "last" /\ f.num = r.index -> Told([r EXCEPT !.index = 0])
    [] OTHER -> ReadProcessFail(r, f.id)

\* wps_frag_read_process, f at the end of the queue by then.
ReadProcess(r, f) ==
  CASE r.dropped /\ f.kind # "full" /\ f.id # r.id -> ReadProcessFail(r, f.id)
    [] r.dropped /\ f.kind # "full" /\ f.id = r.id /\ f.num # r.index ->
         [r EXCEPT !.queue = Tail(@)]
    [] OTHER -> Follow([r EXCEPT !.dropped = @ /\ f.kind # "full"], f)

\* frag_read moves the oldest fresh fragment to the queue of the connection.
RxSuccessCallback ==
  /\ rx.fresh # <<>>
  /\ cfg.prompt => rx.count = 0
  /\ LET f == Head(rx.fresh)
     IN rx' = ReadProcess([rx EXCEPT !.fresh = Tail(@), !.queue = Append(@, f)], f)
  /\ UNCHANGED <<cfg, tx, out, sizes, reads>>

-----------------------------------------------------------------------------
(* The receiving application *)

BugLess(count, n) == count

\* enqueued_count is unsigned.
Less(count, n) == (count - n) % CountModulus

\* wps_read_error_flush: everything up to a last fragment.
ErrorFlush(q) == From(q, FirstOf({i \in DOMAIN q : q[i].kind = "last"}, q) + 1)

PayloadsIn(pieces) == {pieces[i].payload : i \in DOMAIN pieces}

Returns(r, pieces) ==
  /\ rx' = r
  /\ out' = pieces
  /\ reads' = reads \cup PayloadsIn(pieces)

\* wps_frag_read
FragRead ==
  /\ rx.count > 0
  /\ LET q == rx.queue
         end == FirstOf({i \in 2 .. Len(q) : q[i].kind # "more"}, q)
         counted == [rx EXCEPT !.count = Less(@, 1)]
     IN \/ q = <<>> /\ Returns(counted, out)
        \/ /\ q # <<>> /\ q[1].kind = "full"
           /\ Returns([counted EXCEPT !.queue = Tail(q)], <<q[1]>>)
        \/ /\ q # <<>> /\ q[1].kind = "last"
           /\ Returns([rx EXCEPT !.queue = ErrorFlush(q)], out)
        \/ /\ q # <<>> /\ q[1].kind = "more"
           /\ q[1].num # 0 \/ sizes[q[1].payload] > cfg.buffer
           /\ Returns([counted EXCEPT !.queue = ErrorFlush(q)], out)
        \/ /\ q # <<>> /\ q[1].kind = "more"
           /\ q[1].num = 0 /\ sizes[q[1].payload] <= cfg.buffer
           /\ CASE end > Len(q) -> Returns([counted EXCEPT !.queue = <<>>], out)
                [] end <= Len(q) /\ q[end].kind = "last" ->
                     Returns([counted EXCEPT !.queue = From(q, end + 1)], SubSeq(q, 1, end))
                [] OTHER -> Returns([counted EXCEPT !.queue = ErrorFlush(From(q, end))], out)
  /\ UNCHANGED <<cfg, tx, sizes>>

\* wps_frag_get_read_payload_size, which clears away what does not begin a
\* payload.
GetReadPayloadSize ==
  /\ rx.queue # <<>>
  /\ Head(rx.queue).kind = "last" \/ (Head(rx.queue).kind = "more" /\ Head(rx.queue).num # 0)
  /\ LET left == ErrorFlush(rx.queue)
     IN rx' = [rx EXCEPT !.queue = left, !.count = Less(@, Len(rx.queue) - Len(left))]
  /\ UNCHANGED <<cfg, tx, out, sizes, reads>>

-----------------------------------------------------------------------------
Init ==
  /\ cfg \in Settings
  /\ tx = [queue |-> <<>>, count |-> 0, done |-> 0, id |-> 0, torn |-> {}, moved |-> {},
           unnoted |-> FALSE, meta |-> <<>>, remaining |-> 0, acks |-> 0, sent |-> 0, reported |-> 0]
  /\ rx = [fresh |-> <<>>, queue |-> <<>>, index |-> 0, id |-> 0, dropped |-> FALSE, count |-> 0]
  /\ out = <<>>
  /\ sizes = <<>>
  /\ reads = {}

Next ==
  \/ \E size \in Sizes : StartSend(size)
  \/ SendFragment \/ FinishSend \/ OtherSend \/ TxSuccessCallback
  \/ Deliver \/ Drop
  \/ RxSuccessCallback \/ FragRead \/ GetReadPayloadSize

Spec == Init /\ [][Next]_vars

-----------------------------------------------------------------------------
(* Properties *)

FragmentType ==
  [kind : {"full", "more", "last"}, id : 0 .. MaxTransactionId - 1, num : Nat, payload : Nat]

TxStates ==
  [queue : Seq(FragmentType), count : Nat, done : Nat, id : 0 .. MaxTransactionId - 1,
   torn : SUBSET Nat,    \* history: payloads queued in part
   moved : SUBSET Nat,   \* history: payloads inside whose send another connection sent
   unnoted : BOOLEAN,    \* history: a payload had no place in the meta-data queue
   meta : Seq(Nat), remaining : Nat,
   acks : Nat, sent : Nat, reported : Nat]

RxStates ==
  [fresh : Seq(FragmentType), queue : Seq(FragmentType), index : Nat,
   id : 0 .. MaxTransactionId - 1, dropped : BOOLEAN, count : 0 .. CountModulus - 1]

(* Every variable has its type, and the queues their bounds. *)
TypeOK ==
  /\ cfg \in Settings
  /\ tx \in TxStates
  /\ Len(tx.queue) <= TxQueueSize /\ Len(tx.meta) <= TxQueueSize
  /\ rx \in RxStates
  /\ Len(rx.fresh) + Len(rx.queue) <= RxQueueSize
  /\ out \in Seq(FragmentType)
  /\ sizes \in Seq(Sizes)
  /\ reads \in SUBSET Nat

IsWhole(s, p) ==
  /\ Len(s) = FragmentsSent(sizes[p])
  /\ \A i \in DOMAIN s : s[i].payload = p /\ s[i].num = i - 1

IsForward(s, after) ==
  \A i \in DOMAIN s : s[i].payload >= IF i = 1 THEN after + 1 ELSE s[i - 1].payload

LastRead == IF out = <<>> THEN 0 ELSE out[Len(out)].payload

\* Fragments follow each other with none missing, and those of one payload
\* carry one number.
InStep == ~cfg.lossy /\ tx.torn = {} /\ tx.moved = {}

(* What wps_frag_read returns is a payload as it was sent, and later than   *)
(* what it returned before.  With a deadline, once a payload was queued in  *)
(* part, or once another connection sent inside wps_frag_send, it may mix   *)
(* payloads, but never goes back.                                           *)
ReadsWhole ==
  [][out' # out => IF InStep THEN \E p \in LastRead + 1 .. Started : IsWhole(out', p)
                   ELSE IsForward(out', LastRead)]_vars

(* wps_frag_get_fifo_size: without losses, with no payload queued in part   *)
(* and no send of another connection inside wps_frag_send, the count kept   *)
(* beside the queue is the number of payloads whose end is in the queue.    *)
CountComplete ==
  InStep => rx.count = Cardinality({i \in DOMAIN rx.queue : Ends(rx.queue[i])})

\* Nothing is under way and the application has read what it was told of.
Quiet == ~Sending /\ tx.queue = <<>> /\ rx.fresh = <<>> /\ rx.count = 0

\* The application's buffer holds the longest payload.
Large == \A size \in Sizes : size <= cfg.buffer

(* Without losses, with no payload queued in part and a buffer for the      *)
(* longest, every payload sent has been read once nothing is under way:     *)
(* reassembly never loses its place, however often the transaction number   *)
(* comes round, and however other connections move it, as long as they do   *)
(* so between two calls of wps_frag_send and not inside one.                *)
AllRead == InStep /\ Large /\ Quiet => reads = 1 .. Started

(* The header says two things of the success callback: wps_frag.h:59, that  *)
(* it is executed "when a payload is successfully transmitted", and the     *)
(* note at line 61, that it "is raised every time a fragment is             *)
(* successfully transmitted".  The code keeps a count in order to do the    *)
(* first, and does not do the second.  Of the first: no payload is reported *)
(* before all of it is acknowledged, unless the callback comes in the       *)
(* middle of wps_frag_send, or the meta-data queue had no place for a       *)
(* payload.                                                                 *)
SuccessNotEarly ==
  ~cfg.lossy /\ ~cfg.preempt /\ tx.torn = {} /\ ~tx.unnoted => tx.reported <= tx.sent

(* swc_api.h: with fragmentation "the receiver (RX) can aggregate the       *)
(* received payload."  What is read holds fragments of one payload only.    *)
NeverMixed == \A i \in DOMAIN out : out[i].payload = LastRead
=============================================================================
