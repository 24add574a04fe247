------------------------------- MODULE SawArq -------------------------------
(***************************************************************************)
(* Stop-and-wait ARQ of one connection (src/core/wireless/link/            *)
(* link_saw_arq.c and link_saw_arq.h).                                     *)
(*                                                                         *)
(* The sequence number is one bit once traffic flows, but both ends start  *)
(* (and restart, when the application flushes a queue) from a default that *)
(* is outside 0..1: 2 at the transmitter, 3 at the receiver.  The header   *)
(* field is two bits wide, so the default itself goes on air.              *)
(***************************************************************************)
EXTENDS Naturals

TX_DEFAULT_SAW_INDEX == 2
RX_DEFAULT_SAW_INDEX == 3

TxSeqNums == 0 .. 2
RxSeqNums == {0, 1, 3}

BugIncSeqNum(seq) == seq % 2

\* seq_num &= 1; seq_num ^= 1
IncSeqNum(seq) == 1 - (seq % 2)

BugRxFrameDuplicateLowBit(stored, seq) == seq % 2 = stored % 2

\* The received number against the one the last frame left behind.
RxFrameDuplicate(stored, seq) == seq = stored

\* What a received number leaves behind: its low bit.
RxSeqNum(seq) == seq % 2

\* A deadline of zero is no deadline.
GuaranteedDeliveryMode(ttlTick, ttlRetries) == ttlTick = 0 /\ ttlRetries = 0
RetriesTimeout(ttlRetries, retryCount) == ttlRetries # 0 /\ retryCount >= ttlRetries
=============================================================================
