---------------------------- MODULE WpsFragProofs ----------------------------
(***************************************************************************)
(* Proofs about WpsFrag, for every size of payloads, fragments and queues, *)
(* and every number of payloads.                                           *)
(***************************************************************************)
EXTENDS WpsFrag, SetInduction, FiniteSetTheorems, SequenceTheorems, TLAPS

-----------------------------------------------------------------------------
(* Numbers *)

LEMMA SizeFacts ==
  ASSUME FragAssumption
  PROVE  /\ PayloadSize \in Nat /\ PayloadSize > 4
         /\ TxQueueSize \in Nat /\ TxQueueSize > 0 /\ RxQueueSize \in Nat /\ RxQueueSize > 0
         /\ MaxTransactionId \in Nat /\ MaxTransactionId > 0
         /\ CountModulus \in Nat /\ RxQueueSize < CountModulus
         /\ Sizes \subseteq Nat
  BY DEF FragAssumption

\* A remainder is one of the values below the modulus.
LEMMA RemainderFacts ==
  ASSUME NEW a \in Int, NEW m \in Nat, m > 0
  PROVE  /\ a % m \in 0 .. m - 1
         /\ 0 <= a /\ a < m => a % m = a
  OBVIOUS

\* A payload takes a fragment at least.
LEMMA FragmentsSentType ==
  ASSUME FragAssumption, NEW size \in Nat
  PROVE  FragmentsSent(size) \in Nat /\ FragmentsSent(size) >= 1
<1>1. PayloadSize \in Nat /\ PayloadSize > 4
  BY SizeFacts
<1>2. CASE size + FullOverhead <= PayloadSize
  BY <1>2 DEF FragmentsSent
<1>3. CASE ~(size + FullOverhead <= PayloadSize)
  <2> DEFINE rest == size - (PayloadSize - FirstOverhead)
             part == PayloadSize - MiddleOverhead
  <2>1. rest \in Nat /\ part \in Nat /\ part > 0
    BY <1>1, <1>3 DEF FullOverhead, FirstOverhead, MiddleOverhead
  <2>2. FragmentsSent(size) = 2 + rest \div part
    BY <1>3 DEF FragmentsSent
  <2> HIDE DEF rest, part
  <2>3. rest \div part \in Nat
    BY <2>1
  <2> QED
    BY <2>2, <2>3
<1> QED
  BY <1>2, <1>3

\* Where a payload ends, and where the fragments of it are numbered.
LEMMA FragmentFacts ==
  ASSUME NEW p \in Nat, NEW num \in Nat, NEW n \in Nat, num < n, NEW id \in 0 .. MaxTransactionId - 1
  PROVE  /\ Fragment(p, num, n, id) \in FragmentType
         /\ Fragment(p, num, n, id).payload = p /\ Fragment(p, num, n, id).num = num
         /\ Fragment(p, num, n, id).id = id
         /\ Ends(Fragment(p, num, n, id)) <=> num = n - 1
         /\ Fragment(p, num, n, id).kind = "full" <=> n = 1
         /\ Fragment(p, num, n, id).kind = "last" <=> n > 1 /\ num = n - 1
<1>1. CASE n = 1
  BY <1>1 DEF Fragment, FragmentType, Ends
<1>2. CASE n > 1 /\ num = n - 1
  <2>1. Fragment(p, num, n, id) = [kind |-> "last", id |-> id, num |-> num, payload |-> p]
    BY <1>2 DEF Fragment
  <2> QED
    BY <1>2, <2>1 DEF FragmentType, Ends
<1>3. CASE n > 1 /\ num # n - 1
  <2>1. Fragment(p, num, n, id) = [kind |-> "more", id |-> id, num |-> num, payload |-> p]
    BY <1>3 DEF Fragment
  <2> QED
    BY <1>3, <2>1 DEF FragmentType, Ends
<1> QED
  BY <1>1, <1>2, <1>3

-----------------------------------------------------------------------------
(* Sequences of fragments *)

LEMMA FirstOfFacts ==
  ASSUME NEW S, NEW q \in Seq(S), NEW places \in SUBSET DOMAIN q
  PROVE  /\ FirstOf(places, q) \in 1 .. Len(q) + 1
         /\ places = {} => FirstOf(places, q) = Len(q) + 1
         /\ places # {} => FirstOf(places, q) \in places
         /\ \A j \in places : FirstOf(places, q) <= j
         /\ FirstOf(places, q) <= Len(q) => FirstOf(places, q) \in places
<1>1. Len(q) \in Nat /\ DOMAIN q = 1 .. Len(q)
  OBVIOUS
<1>2. CASE places = {}
  BY <1>1, <1>2 DEF FirstOf
<1>3. CASE places # {}
  <2>1. places \in SUBSET Nat
    BY <1>1
  <2>2. \E k \in places : \A j \in places : k <= j
    BY <1>3, <2>1, LeastElement
  <2>3. FirstOf(places, q) \in places /\ \A j \in places : FirstOf(places, q) <= j
    BY <1>3, <2>2 DEF FirstOf
  <2> QED
    BY <1>1, <1>3, <2>3
<1> QED
  BY <1>2, <1>3

LEMMA FromFacts ==
  ASSUME NEW S, NEW q \in Seq(S), NEW i \in Nat, i >= 1
  PROVE  /\ From(q, i) \in Seq(S)
         /\ Len(From(q, i)) = IF i <= Len(q) THEN Len(q) - i + 1 ELSE 0
         /\ \A j \in DOMAIN From(q, i) : i + j - 1 \in DOMAIN q /\ From(q, i)[j] = q[i + j - 1]
         /\ Len(From(q, i)) <= Len(q)
<1>1. Len(q) \in Nat /\ DOMAIN q = 1 .. Len(q) /\ \A j \in i .. Len(q) : q[j] \in S
  OBVIOUS
<1>2. /\ From(q, i) \in Seq(S)
      /\ Len(From(q, i)) = IF i <= Len(q) THEN Len(q) - i + 1 ELSE 0
      /\ \A j \in 1 .. Len(q) - i + 1 : From(q, i)[j] = q[i + j - 1]
  BY <1>1, SubSeqProperties DEF From
<1>3. DOMAIN From(q, i) = 1 .. Len(From(q, i))
  BY <1>2
<1> QED
  BY <1>1, <1>2, <1>3

\* The tail of a sequence, and its head.
LEMMA TailOf ==
  ASSUME NEW S, NEW q \in Seq(S), q # <<>>
  PROVE  /\ Tail(q) \in Seq(S) /\ Head(q) \in S /\ Head(q) = q[1] /\ 1 \in DOMAIN q
         /\ Len(q) \in Nat /\ Len(q) >= 1 /\ Len(Tail(q)) = Len(q) - 1
         /\ \A j \in DOMAIN Tail(q) : j + 1 \in DOMAIN q /\ Tail(q)[j] = q[j + 1]
  OBVIOUS

LEMMA AppendTo ==
  ASSUME NEW S, NEW q \in Seq(S), NEW x \in S
  PROVE  /\ Append(q, x) \in Seq(S) /\ Len(q) \in Nat /\ Len(Append(q, x)) = Len(q) + 1
         /\ Append(q, x) # <<>> /\ Append(q, x)[Len(q) + 1] = x
         /\ \A j \in DOMAIN q : j \in DOMAIN Append(q, x) /\ Append(q, x)[j] = q[j]
         /\ \A j \in DOMAIN Append(q, x) : j = Len(q) + 1 \/ j \in DOMAIN q
  OBVIOUS

-----------------------------------------------------------------------------
(* Types *)

\* A send under way is that of the last payload handed to it.
SendOK ==
  Sending => /\ Started >= 1
             /\ tx.count = FragmentsSent(sizes[Started])
             /\ tx.done <= tx.count

TypeInv == TypeOK /\ SendOK

LEMMA TxFields ==
  ASSUME TypeOK
  PROVE  /\ tx.queue \in Seq(FragmentType) /\ Len(tx.queue) \in Nat /\ tx.count \in Nat
         /\ tx.done \in Nat /\ tx.id \in 0 .. MaxTransactionId - 1
         /\ tx.torn \in SUBSET Nat /\ tx.moved \in SUBSET Nat /\ tx.unnoted \in BOOLEAN
         /\ tx.meta \in Seq(Nat) /\ Len(tx.meta) \in Nat
         /\ tx.remaining \in Nat /\ tx.acks \in Nat /\ tx.sent \in Nat /\ tx.reported \in Nat
         /\ sizes \in Seq(Sizes) /\ Started \in Nat /\ reads \in SUBSET Nat
  BY DEF TypeOK, TxStates, Started

LEMMA RxFields ==
  ASSUME NEW r \in RxStates
  PROVE  /\ r.fresh \in Seq(FragmentType) /\ Len(r.fresh) \in Nat
         /\ r.queue \in Seq(FragmentType) /\ Len(r.queue) \in Nat
         /\ r.index \in Nat /\ r.id \in 0 .. MaxTransactionId - 1
         /\ r.dropped \in BOOLEAN /\ r.count \in 0 .. CountModulus - 1
  BY DEF RxStates

LEMMA SendGoesOn ==
  ASSUME SendOK, sizes' = sizes, tx'.count = tx.count, tx'.done = tx.done
  PROVE  SendOK'
  BY DEF SendOK, Sending, Started

LEMMA StartSendType ==
  ASSUME FragAssumption, TypeInv, NEW size \in Sizes, StartSend(size)
  PROVE  TypeInv'
<1>1. /\ sizes' \in Seq(Sizes) /\ Len(sizes') = Started + 1 /\ sizes'[Started + 1] = size
      /\ Started \in Nat
  BY AppendTo, TxFields DEF TypeInv, StartSend, Started
<1>2. FragmentsSent(size) \in Nat
  BY FragmentsSentType, SizeFacts
<1>3. tx' \in TxStates /\ tx'.queue = tx.queue /\ tx'.meta = tx.meta
      /\ tx'.count = FragmentsSent(size) /\ tx'.done = 0
  BY <1>2 DEF TypeInv, TypeOK, TxStates, StartSend
<1>4. TypeOK'
  BY <1>1, <1>3 DEF TypeInv, TypeOK, StartSend
<1>5. SendOK'
  BY <1>1, <1>2, <1>3 DEF SendOK, Started
<1> QED
  BY <1>4, <1>5 DEF TypeInv

LEMMA SendFragmentType ==
  ASSUME FragAssumption, TypeInv, SendFragment
  PROVE  /\ TypeInv'
         /\ Len(tx.queue) < TxQueueSize =>
              Fragment(Started, tx.done, tx.count, tx.id) \in FragmentType
<1> DEFINE f == Fragment(Started, tx.done, tx.count, tx.id)
<1>1. tx \in TxStates /\ tx.done < tx.count /\ Started >= 1 /\ tx.count = FragmentsSent(sizes[Started])
  BY DEF TypeInv, TypeOK, SendOK, SendFragment
<1>2. f \in FragmentType
  BY SMTT(30), <1>1, FragmentFacts, TxFields DEF TypeInv
<1> HIDE DEF f
<1>3. CASE Len(tx.queue) < TxQueueSize
  <2>1. tx' = [tx EXCEPT !.queue = Append(@, f), !.done = @ + 1]
    BY <1>3 DEF SendFragment, f
  <2>2. Append(tx.queue, f) \in Seq(FragmentType) /\ Len(Append(tx.queue, f)) <= TxQueueSize
    BY <1>2, <1>3, AppendTo, TxFields, SizeFacts DEF TypeInv
  <2>3. tx' \in TxStates /\ tx'.queue = Append(tx.queue, f) /\ tx'.meta = tx.meta
        /\ tx'.count = tx.count /\ tx'.done = tx.done + 1
    <3>1. tx.done + 1 \in Nat
      BY TxFields DEF TypeInv
    <3> QED
      BY <1>1, <2>1, <2>2, <3>1 DEF TxStates
  <2>4. TypeOK'
    BY <2>2, <2>3 DEF TypeInv, TypeOK, SendFragment
  <2>5. SendOK'
    <3>1. sizes' = sizes /\ tx.done + 1 <= tx.count
      BY SMTT(30), <1>1, TxFields DEF TypeInv, SendFragment
    <3> QED
      BY <1>1, <2>3, <3>1 DEF SendOK, Started
  <2> QED
    BY <2>4, <2>5, <1>2 DEF TypeInv, f
<1>4. CASE ~(Len(tx.queue) < TxQueueSize)
  <2>1. tx' = [tx EXCEPT !.count = 0, !.torn = @ \cup {Started}]
    BY <1>4 DEF SendFragment
  <2>2. tx' \in TxStates /\ tx'.queue = tx.queue /\ tx'.meta = tx.meta /\ tx'.count = 0
    BY <1>1, <2>1, TxFields DEF TxStates, TypeInv
  <2>3. TypeOK'
    BY <2>2 DEF TypeInv, TypeOK, SendFragment
  <2> QED
    BY <1>4, <2>2, <2>3 DEF TypeInv, SendOK, Sending
<1> QED
  BY <1>3, <1>4

LEMMA NextId ==
  ASSUME FragAssumption, NEW id \in 0 .. MaxTransactionId - 1
  PROVE  (id + 1) % MaxTransactionId \in 0 .. MaxTransactionId - 1
  BY SizeFacts, RemainderFacts

\* What the end of a send does.
LEMMA FinishSendFields ==
  ASSUME FragAssumption, TypeInv, FinishSend
  PROVE  /\ tx' \in TxStates /\ tx.done = tx.count /\ Sending
         /\ tx'.queue = tx.queue /\ tx'.count = 0 /\ tx'.acks = tx.acks
         /\ tx'.sent = tx.sent /\ tx'.reported = tx.reported /\ tx'.torn = tx.torn
         /\ tx'.moved = tx.moved
         /\ \E fragments \in Nat :
              /\ fragments + 1 >= tx.count
              /\ \/ /\ Len(tx.meta) < TxQueueSize /\ tx'.meta = Append(tx.meta, fragments)
                    /\ tx'.remaining = IF tx.remaining = 0 THEN fragments ELSE tx.remaining
                    /\ tx'.unnoted = tx.unnoted
                 \/ /\ tx'.meta = tx.meta /\ tx'.remaining = tx.remaining /\ tx'.unnoted
<1> DEFINE fragments == IF tx.count = 1 THEN 1 ELSE tx.count - 1
           noted == Len(tx.meta) < TxQueueSize
<1>1. tx \in TxStates /\ tx.count > 0 /\ tx.done = tx.count
  BY DEF TypeInv, TypeOK, FinishSend, Sending
<1>2. tx' = [tx EXCEPT !.count = 0,
                       !.meta = IF noted THEN Append(@, fragments) ELSE @,
                       !.remaining = IF noted /\ @ = 0 THEN fragments ELSE @,
                       !.unnoted = @ \/ ~noted,
                       !.id = (@ + 1) % MaxTransactionId]
  BY DEF FinishSend
<1>3. fragments \in Nat /\ fragments + 1 >= tx.count
  BY <1>1, TxFields DEF TypeInv
<1> HIDE DEF fragments
<1>4. Append(tx.meta, fragments) \in Seq(Nat) /\ (tx.id + 1) % MaxTransactionId \in 0 .. MaxTransactionId - 1
  BY <1>3, AppendTo, NextId, TxFields DEF TypeInv
<1>5. CASE noted
  <2>1. tx' = [tx EXCEPT !.count = 0, !.meta = Append(@, fragments),
                         !.remaining = IF @ = 0 THEN fragments ELSE @,
                         !.unnoted = @ \/ FALSE, !.id = (@ + 1) % MaxTransactionId]
    BY <1>2, <1>5
  <2>2. (tx.unnoted \/ FALSE) = tx.unnoted
    BY TxFields DEF TypeInv
  <2> QED
    BY ZenonT(30), <1>1, <1>3, <1>4, <1>5, <2>1, <2>2 DEF TxStates, Sending
<1>6. CASE ~noted
  <2>1. tx' = [tx EXCEPT !.count = 0, !.unnoted = TRUE, !.id = (@ + 1) % MaxTransactionId]
    <3>1. (tx.unnoted \/ ~noted) = TRUE
      BY <1>6
    <3> QED
      BY <1>1, <1>2, <1>6, <3>1 DEF TxStates
  <2> QED
    BY <1>1, <1>3, <1>4, <2>1 DEF TxStates, Sending
<1> QED
  BY <1>5, <1>6

LEMMA FinishSendType ==
  ASSUME FragAssumption, TypeInv, FinishSend
  PROVE  TypeInv'
<1>1. tx' \in TxStates /\ tx'.queue = tx.queue /\ tx'.count = 0
      /\ (tx'.meta = tx.meta \/ Len(tx'.meta) <= TxQueueSize)
  <2>1. tx' \in TxStates /\ tx'.queue = tx.queue /\ tx'.count = 0
    BY FinishSendFields
  <2>2. PICK fragments \in Nat :
          \/ Len(tx.meta) < TxQueueSize /\ tx'.meta = Append(tx.meta, fragments)
          \/ tx'.meta = tx.meta
    BY FinishSendFields
  <2>3. Len(Append(tx.meta, fragments)) = Len(tx.meta) + 1
    BY AppendTo, TxFields DEF TypeInv
  <2> QED
    BY <2>1, <2>2, <2>3, TxFields, SizeFacts DEF TypeInv
<1>2. TypeOK'
  BY <1>1 DEF TypeInv, TypeOK, FinishSend
<1> QED
  BY <1>1, <1>2 DEF TypeInv, SendOK, Sending

\* What a send of another connection does.
LEMMA OtherSendFields ==
  ASSUME FragAssumption, TypeInv, OtherSend
  PROVE  /\ tx' \in TxStates /\ tx'.queue = tx.queue /\ tx'.count = tx.count /\ tx'.done = tx.done
         /\ tx'.meta = tx.meta /\ tx'.remaining = tx.remaining /\ tx'.acks = tx.acks
         /\ tx'.sent = tx.sent /\ tx'.reported = tx.reported
         /\ tx'.torn = tx.torn /\ tx'.unnoted = tx.unnoted /\ tx.moved \subseteq tx'.moved
         /\ Sending => tx'.moved # {}
<1> DEFINE after == IF Sending THEN tx.moved \cup {Started} ELSE tx.moved
<1>1. tx \in TxStates /\ tx' = [tx EXCEPT !.id = (@ + 1) % MaxTransactionId, !.moved = after]
  BY DEF TypeInv, TypeOK, OtherSend
<1>2. (tx.id + 1) % MaxTransactionId \in 0 .. MaxTransactionId - 1
  BY NextId, TxFields DEF TypeInv
<1>3. after \in SUBSET Nat /\ tx.moved \subseteq after /\ (Sending => after # {})
  BY TxFields DEF TypeInv
<1> HIDE DEF after
<1> QED
  BY <1>1, <1>2, <1>3 DEF TxStates

LEMMA OtherSendType ==
  ASSUME FragAssumption, TypeInv, OtherSend
  PROVE  TypeInv'
<1>1. /\ tx' \in TxStates /\ tx'.queue = tx.queue /\ tx'.meta = tx.meta
      /\ tx'.count = tx.count /\ tx'.done = tx.done
  BY OtherSendFields
<1>2. TypeOK'
  BY <1>1 DEF TypeInv, TypeOK, OtherSend
<1> QED
  BY <1>1, <1>2, SendGoesOn DEF TypeInv, OtherSend

\* What the callback of the sender does.
LEMMA TxSuccessFields ==
  ASSUME FragAssumption, TypeInv, TxSuccessCallback
  PROVE  /\ tx' \in TxStates /\ tx.acks > 0 /\ tx'.acks = tx.acks - 1
         /\ tx'.queue = tx.queue /\ tx'.count = tx.count /\ tx'.done = tx.done /\ tx'.id = tx.id
         /\ tx'.torn = tx.torn /\ tx'.moved = tx.moved
         /\ tx'.unnoted = tx.unnoted /\ tx'.sent = tx.sent
         /\ Len(tx'.meta) <= Len(tx.meta)
         /\ \/ /\ tx.remaining > 0 /\ tx'.remaining = tx.remaining - 1
               /\ tx'.meta = tx.meta /\ tx'.reported = tx.reported
            \/ /\ tx.remaining = 0 /\ tx'.reported = tx.reported + 1
               /\ Len(tx.meta) > 1 /\ tx'.meta = Tail(tx.meta) /\ tx'.remaining = tx.meta[2]
            \/ /\ tx.remaining = 0 /\ tx'.reported = tx.reported + 1
               /\ Len(tx.meta) <= 1 /\ tx'.meta = <<>> /\ tx'.remaining = 0
<1>1. tx \in TxStates /\ tx.acks > 0 /\ tx' = TxSuccess(tx)
  BY DEF TypeInv, TypeOK, TxSuccessCallback
<1>2. tx.acks \in Nat /\ tx.remaining \in Nat /\ tx.reported \in Nat
      /\ tx.meta \in Seq(Nat) /\ Len(tx.meta) \in Nat
  BY TxFields DEF TypeInv
<1>3. CASE tx.remaining > 0
  <2>1. tx' = [tx EXCEPT !.acks = @ - 1, !.remaining = @ - 1]
    BY <1>1, <1>2, <1>3 DEF TxSuccess, TxStates
  <2>2. tx.acks - 1 \in Nat /\ tx.remaining - 1 \in Nat
    BY <1>1, <1>2, <1>3
  <2>3. /\ tx' \in TxStates /\ tx'.acks = tx.acks - 1 /\ tx'.remaining = tx.remaining - 1
        /\ tx'.queue = tx.queue /\ tx'.count = tx.count /\ tx'.done = tx.done /\ tx'.id = tx.id
        /\ tx'.torn = tx.torn /\ tx'.moved = tx.moved /\ tx'.unnoted = tx.unnoted /\ tx'.sent = tx.sent
        /\ tx'.meta = tx.meta /\ tx'.reported = tx.reported
    BY <1>1, <2>1, <2>2 DEF TxStates
  <2> QED
    BY <1>1, <1>2, <1>3, <2>3
<1>4. CASE tx.remaining = 0 /\ Len(tx.meta) > 1
  <2>1. tx' = [tx EXCEPT !.acks = @ - 1, !.reported = @ + 1, !.meta = Tail(@), !.remaining = tx.meta[2]]
    BY <1>1, <1>2, <1>4 DEF TxSuccess, TxStates
  <2>2. tx.meta[2] \in Nat /\ Tail(tx.meta) \in Seq(Nat) /\ Len(Tail(tx.meta)) <= Len(tx.meta)
    BY SMTT(30), <1>2, <1>4
  <2>3. tx.acks - 1 \in Nat /\ tx.reported + 1 \in Nat
    BY <1>1, <1>2
  <2>4. /\ tx' \in TxStates /\ tx'.acks = tx.acks - 1 /\ tx'.remaining = tx.meta[2]
        /\ tx'.queue = tx.queue /\ tx'.count = tx.count /\ tx'.done = tx.done /\ tx'.id = tx.id
        /\ tx'.torn = tx.torn /\ tx'.moved = tx.moved /\ tx'.unnoted = tx.unnoted /\ tx'.sent = tx.sent
        /\ tx'.meta = Tail(tx.meta) /\ tx'.reported = tx.reported + 1
    BY ZenonT(30), <1>1, <2>1, <2>2, <2>3 DEF TxStates
  <2> QED
    BY <1>1, <1>2, <1>4, <2>2, <2>4
<1>5. CASE tx.remaining = 0 /\ Len(tx.meta) <= 1
  <2>1. tx' = [tx EXCEPT !.acks = @ - 1, !.reported = @ + 1, !.meta = <<>>]
    BY <1>1, <1>2, <1>5 DEF TxSuccess, TxStates
  <2>2. <<>> \in Seq(Nat) /\ Len(<<>>) <= Len(tx.meta)
    BY <1>2
  <2>3. tx.acks - 1 \in Nat /\ tx.reported + 1 \in Nat
    BY <1>1, <1>2
  <2>4. /\ tx' \in TxStates /\ tx'.acks = tx.acks - 1 /\ tx'.remaining = tx.remaining
        /\ tx'.queue = tx.queue /\ tx'.count = tx.count /\ tx'.done = tx.done /\ tx'.id = tx.id
        /\ tx'.torn = tx.torn /\ tx'.moved = tx.moved /\ tx'.unnoted = tx.unnoted /\ tx'.sent = tx.sent
        /\ tx'.meta = <<>> /\ tx'.reported = tx.reported + 1
    BY <1>1, <2>1, <2>2, <2>3 DEF TxStates
  <2> QED
    BY <1>1, <1>2, <1>5, <2>2, <2>4
<1> QED
  BY <1>2, <1>3, <1>4, <1>5

LEMMA TxSuccessType ==
  ASSUME FragAssumption, TypeInv, TxSuccessCallback
  PROVE  TypeInv'
<1>1. /\ tx' \in TxStates /\ tx'.queue = tx.queue /\ tx'.count = tx.count /\ tx'.done = tx.done
      /\ Len(tx'.meta) <= Len(tx.meta) /\ Len(tx.meta) <= TxQueueSize
  BY TxSuccessFields DEF TypeInv, TypeOK
<1>2. Len(tx'.meta) <= TxQueueSize
  <2>1. Len(tx'.meta) \in Nat /\ Len(tx.meta) \in Nat
    BY <1>1, TxFields DEF TypeInv, TxStates
  <2> QED
    BY <1>1, <2>1, SizeFacts
<1>3. TypeOK'
  BY <1>1, <1>2 DEF TypeInv, TypeOK, TxSuccessCallback
<1> QED
  BY <1>1, <1>3, SendGoesOn DEF TypeInv, TxSuccessCallback

\* What the connection does with the fragment at the head of the queue.
LEMMA CarryFields ==
  ASSUME FragAssumption, TypeInv, NEW arrives \in BOOLEAN, NEW acknowledged \in BOOLEAN,
         Carry(arrives, acknowledged)
  PROVE  /\ tx.queue # <<>> /\ Head(tx.queue) \in FragmentType
         /\ tx' \in TxStates /\ tx'.queue = Tail(tx.queue)
         /\ tx'.acks = IF acknowledged THEN tx.acks + 1 ELSE tx.acks
         /\ tx'.sent = IF acknowledged /\ Ends(Head(tx.queue)) THEN tx.sent + 1 ELSE tx.sent
         /\ tx'.count = tx.count /\ tx'.done = tx.done /\ tx'.id = tx.id /\ tx'.torn = tx.torn
         /\ tx'.moved = tx.moved /\ tx'.unnoted = tx.unnoted /\ tx'.meta = tx.meta /\ tx'.remaining = tx.remaining
         /\ tx'.reported = tx.reported
         /\ rx' \in RxStates /\ rx'.queue = rx.queue /\ rx'.index = rx.index /\ rx'.id = rx.id
         /\ rx'.dropped = rx.dropped /\ rx'.count = rx.count
         /\ rx'.fresh = IF arrives THEN Append(rx.fresh, Head(tx.queue)) ELSE rx.fresh
         /\ arrives => Len(rx.fresh) + Len(rx.queue) < RxQueueSize
<1>1. tx \in TxStates /\ rx \in RxStates /\ tx.queue # <<>>
  BY DEF TypeInv, TypeOK, Carry
<1> DEFINE f == Head(tx.queue)
           a == IF acknowledged THEN tx.acks + 1 ELSE tx.acks
           n == IF acknowledged /\ Ends(f) THEN tx.sent + 1 ELSE tx.sent
<1>2. f \in FragmentType /\ Tail(tx.queue) \in Seq(FragmentType)
  BY <1>1, TailOf, TxFields DEF TypeInv
<1>3. tx' = [tx EXCEPT !.queue = Tail(@), !.acks = a, !.sent = n]
  BY DEF Carry
<1>4. a \in Nat /\ n \in Nat
  <2>1. tx.acks \in Nat /\ tx.acks + 1 \in Nat /\ tx.sent \in Nat /\ tx.sent + 1 \in Nat
    BY SMTT(30), TxFields DEF TypeInv
  <2> QED
    BY <2>1
<1> HIDE DEF a, n, f
<1>5. /\ tx' \in TxStates /\ tx'.queue = Tail(tx.queue) /\ tx'.acks = a /\ tx'.sent = n
      /\ tx'.count = tx.count /\ tx'.done = tx.done /\ tx'.id = tx.id /\ tx'.torn = tx.torn
      /\ tx'.moved = tx.moved /\ tx'.unnoted = tx.unnoted /\ tx'.meta = tx.meta /\ tx'.remaining = tx.remaining
      /\ tx'.reported = tx.reported
  BY <1>1, <1>2, <1>3, <1>4 DEF TxStates
<1>6. CASE arrives
  <2>1. rx' = [rx EXCEPT !.fresh = Append(@, f)] /\ Len(rx.fresh) + Len(rx.queue) < RxQueueSize
    BY <1>6 DEF Carry, f
  <2>2. Append(rx.fresh, f) \in Seq(FragmentType)
    BY <1>1, <1>2, AppendTo, RxFields
  <2>3. rx' \in RxStates /\ rx'.queue = rx.queue /\ rx'.index = rx.index /\ rx'.id = rx.id
        /\ rx'.dropped = rx.dropped /\ rx'.count = rx.count /\ rx'.fresh = Append(rx.fresh, f)
    BY <1>1, <2>1, <2>2 DEF RxStates
  <2> QED
    BY <1>1, <1>2, <1>5, <1>6, <2>1, <2>3 DEF f, a, n
<1>7. CASE ~arrives
  <2>1. rx' = rx
    BY <1>7 DEF Carry
  <2> QED
    BY <1>1, <1>2, <1>5, <1>7, <2>1 DEF f, a, n
<1> QED
  BY <1>6, <1>7

LEMMA CarryType ==
  ASSUME FragAssumption, TypeInv, NEW arrives \in BOOLEAN, NEW acknowledged \in BOOLEAN,
         Carry(arrives, acknowledged)
  PROVE  TypeInv'
<1>1. /\ tx' \in TxStates /\ tx'.queue = Tail(tx.queue) /\ tx'.meta = tx.meta
      /\ tx'.count = tx.count /\ tx'.done = tx.done
      /\ rx' \in RxStates /\ rx'.queue = rx.queue
      /\ tx.queue # <<>> /\ Head(tx.queue) \in FragmentType
      /\ rx'.fresh = IF arrives THEN Append(rx.fresh, Head(tx.queue)) ELSE rx.fresh
      /\ arrives => Len(rx.fresh) + Len(rx.queue) < RxQueueSize
  BY CarryFields
<1>2. rx \in RxStates /\ tx.queue \in Seq(FragmentType) /\ Len(tx.queue) <= TxQueueSize
      /\ Len(rx.fresh) + Len(rx.queue) <= RxQueueSize
  BY DEF TypeInv, TypeOK, TxStates
<1>3. Len(tx'.queue) <= TxQueueSize
  BY <1>1, <1>2, TailOf, SizeFacts
<1>4. Len(rx'.fresh) + Len(rx'.queue) <= RxQueueSize
  <2>1. rx.fresh \in Seq(FragmentType) /\ Len(rx.fresh) \in Nat /\ Len(rx.queue) \in Nat
    BY <1>2, RxFields
  <2>2. CASE arrives
    <3>1. Len(rx'.fresh) = Len(rx.fresh) + 1 /\ rx'.queue = rx.queue
      <4>1. rx'.fresh = Append(rx.fresh, Head(tx.queue)) /\ Head(tx.queue) \in FragmentType
        BY <1>1, <2>2
      <4> QED
        BY <1>1, <2>1, <4>1, AppendTo
    <3> DEFINE a == Len(rx.fresh)
               b == Len(rx.queue)
    <3>2. a \in Nat /\ b \in Nat /\ a + b < RxQueueSize /\ RxQueueSize \in Nat
      BY <1>1, <2>1, <2>2, SizeFacts
    <3>3. Len(rx'.fresh) = a + 1 /\ Len(rx'.queue) = b
      BY <3>1
    <3> HIDE DEF a, b
    <3> QED
      BY <3>2, <3>3
  <2>3. CASE ~arrives
    BY <1>1, <1>2, <2>3
  <2> QED
    BY <2>2, <2>3
<1>5. TypeOK'
  BY <1>1, <1>3, <1>4 DEF TypeInv, TypeOK, Carry
<1> QED
  BY <1>1, <1>5, SendGoesOn DEF TypeInv, Carry

-----------------------------------------------------------------------------
(* The receiver *)

\* What is left of a queue is its end.
LeftOf(q, left) == \E k \in 1 .. Len(q) + 1 : left = From(q, k)

LEMMA FromEdges ==
  ASSUME NEW S, NEW q \in Seq(S)
  PROVE  /\ From(q, 1) = q
         /\ From(q, Len(q) + 1) = <<>>
         /\ q # <<>> => Tail(q) = From(q, 2)
<1>1. Len(q) \in Nat
  OBVIOUS
<1>2. From(q, 1) = q
  <2>1. Len(From(q, 1)) = Len(q) /\ From(q, 1) \in Seq(S) /\ \A j \in DOMAIN From(q, 1) : From(q, 1)[j] = q[j]
    BY <1>1, FromFacts
  <2> QED
    BY <2>1, SeqEqual
<1>3. From(q, Len(q) + 1) = <<>>
  <2>1. Len(From(q, Len(q) + 1)) = 0 /\ From(q, Len(q) + 1) \in Seq(S)
    BY <1>1, FromFacts
  <2> QED
    BY <2>1
<1>4. q # <<>> => Tail(q) = From(q, 2)
  <2> SUFFICES ASSUME q # <<>> PROVE Tail(q) = From(q, 2)
    OBVIOUS
  <2>1. From(q, 2) \in Seq(S) /\ Len(From(q, 2)) = (IF 2 <= Len(q) THEN Len(q) - 1 ELSE 0)
        /\ \A j \in DOMAIN From(q, 2) : From(q, 2)[j] = q[2 + j - 1]
    BY <1>1, FromFacts
  <2>2. Tail(q) \in Seq(S) /\ Len(q) >= 1 /\ Len(Tail(q)) = Len(q) - 1
        /\ \A j \in DOMAIN Tail(q) : j + 1 \in DOMAIN q /\ Tail(q)[j] = q[j + 1]
    BY TailOf, Zenon
  <2> DEFINE a == From(q, 2)
             b == Tail(q)
             n == Len(q)
  <2>3. a \in Seq(S) /\ b \in Seq(S) /\ Len(a) = Len(q) - 1 /\ Len(b) = Len(q) - 1
    <3>1. n \in Nat /\ n >= 1 /\ Len(a) = IF 2 <= n THEN n - 1 ELSE 0
      BY ZenonT(30), <1>1, <2>1, <2>2
    <3>2. a \in Seq(S) /\ b \in Seq(S) /\ Len(b) = n - 1
      BY <2>1, <2>2
    <3> HIDE DEF a, b, n
    <3>3. Len(a) = n - 1
      BY <3>1
    <3> QED
      BY SMTT(30), <3>2, <3>3 DEF n
  <2>4. \A j \in DOMAIN a : a[j] = q[2 + j - 1]
    BY <2>1
  <2>5. \A j \in DOMAIN b : b[j] = q[j + 1]
    BY <2>2
  <2> HIDE DEF a, b
  <2>6. DOMAIN a = 1 .. Len(q) - 1 /\ DOMAIN b = 1 .. Len(q) - 1
    BY <2>3
  <2>7. \A j \in 1 .. Len(q) - 1 : a[j] = b[j]
    BY <1>1, <2>4, <2>5, <2>6
  <2>8. a = b
    BY <2>3, <2>6, <2>7
  <2> QED
    BY <2>8 DEF a, b
<1> QED
  BY <1>2, <1>3, <1>4

LEMMA TellFacts ==
  ASSUME FragAssumption, NEW r \in RxStates
  PROVE  Told(r) \in RxStates /\ Told(r).fresh = r.fresh /\ Told(r).queue = r.queue
         /\ Told(r).index = r.index /\ Told(r).id = r.id /\ Told(r).dropped = r.dropped
         /\ Told(r).count = (r.count + 1) % CountModulus
<1>1. (r.count + 1) % CountModulus \in 0 .. CountModulus - 1
  BY RxFields, RemainderFacts, SizeFacts
<1> QED
  BY <1>1 DEF Told, RxStates

LEMMA ReadProcessFailType ==
  ASSUME FragAssumption, NEW r \in RxStates, NEW id
  PROVE  /\ ReadProcessFail(r, id) \in RxStates
         /\ ReadProcessFail(r, id).fresh = r.fresh
         /\ LeftOf(r.queue, ReadProcessFail(r, id).queue)
<1> DEFINE Starts(f) == f.kind = "full" \/ (f.kind = "more" /\ f.num = 0 /\ r.id # id)
           places == {i \in DOMAIN r.queue : Starts(r.queue[i])}
           k == FirstOf(places, r.queue)
           failed == [r EXCEPT !.queue = From(@, k), !.dropped = TRUE, !.index = 0]
<1>1. r.queue \in Seq(FragmentType) /\ Len(r.queue) \in Nat /\ places \in SUBSET DOMAIN r.queue
  BY RxFields
<1>2. k \in 1 .. Len(r.queue) + 1 /\ (k <= Len(r.queue) => k \in places)
  <2> HIDE DEF places
  <2> QED
    BY <1>1, FirstOfFacts
<1>3. ReadProcessFail(r, id) =
        CASE k > Len(r.queue) -> failed
          [] k <= Len(r.queue) /\ r.queue[k].kind = "full" -> Told(failed)
          [] OTHER -> [failed EXCEPT !.dropped = FALSE, !.id = r.queue[k].id, !.index = 1]
  BY DEF ReadProcessFail
<1> HIDE DEF k
<1>4. From(r.queue, k) \in Seq(FragmentType)
  BY <1>1, <1>2, FromFacts
<1>5. failed \in RxStates /\ failed.fresh = r.fresh /\ failed.queue = From(r.queue, k)
  BY <1>4 DEF RxStates
<1>6. LeftOf(r.queue, failed.queue)
  BY <1>2, <1>5 DEF LeftOf
<1> HIDE DEF failed
<1>7. CASE k > Len(r.queue)
  <2>1. ReadProcessFail(r, id) = failed
    BY <1>1, <1>2, <1>3, <1>7
  <2> QED
    BY <1>5, <1>6, <2>1
<1>8. CASE k <= Len(r.queue) /\ r.queue[k].kind = "full"
  <2>1. ReadProcessFail(r, id) = Told(failed)
    BY <1>1, <1>2, <1>3, <1>8
  <2> QED
    BY <1>5, <1>6, <2>1, TellFacts
<1>9. CASE k <= Len(r.queue) /\ r.queue[k].kind # "full"
  <2>1. ReadProcessFail(r, id) = [failed EXCEPT !.dropped = FALSE, !.id = r.queue[k].id, !.index = 1]
    BY <1>1, <1>2, <1>3, <1>9
  <2>2. k \in DOMAIN r.queue /\ r.queue[k] \in FragmentType
    BY <1>1, <1>2, <1>9
  <2>3. r.queue[k].id \in 0 .. MaxTransactionId - 1
    BY <2>2 DEF FragmentType
  <2> DEFINE d == r.queue[k].id
  <2>4. d \in 0 .. MaxTransactionId - 1
        /\ ReadProcessFail(r, id) = [failed EXCEPT !.dropped = FALSE, !.id = d, !.index = 1]
    BY <2>1, <2>3
  <2> HIDE DEF d
  <2> DEFINE onward == [failed EXCEPT !.dropped = FALSE, !.id = d, !.index = 1]
  <2>5. onward \in RxStates /\ onward.fresh = failed.fresh /\ onward.queue = failed.queue
    BY <1>5, <2>4 DEF RxStates
  <2>6. ReadProcessFail(r, id) = onward
    BY <2>4
  <2> HIDE DEF onward
  <2> QED
    BY <1>5, <1>6, <2>5, <2>6
<1> QED
  BY <1>1, <1>2, <1>7, <1>8, <1>9

LEMMA FlushType ==
  ASSUME FragAssumption, NEW r \in RxStates
  PROVE  /\ FlushLastTransaction(r) \in RxStates
         /\ FlushLastTransaction(r).fresh = r.fresh
         /\ LeftOf(r.queue, FlushLastTransaction(r).queue)
<1> DEFINE places == {i \in DOMAIN r.queue : r.queue[i].id # r.queue[1].id}
           k == FirstOf(places, r.queue)
<1>1. r.queue \in Seq(FragmentType) /\ Len(r.queue) \in Nat /\ places \in SUBSET DOMAIN r.queue
  BY RxFields
<1>2. k \in 1 .. Len(r.queue) + 1 /\ (k <= Len(r.queue) => k \in DOMAIN r.queue)
  <2> HIDE DEF places
  <2> QED
    BY <1>1, FirstOfFacts
<1>3. FlushLastTransaction(r) =
        IF k > Len(r.queue) THEN [r EXCEPT !.queue = <<>>]
        ELSE [r EXCEPT !.queue = From(@, k), !.id = r.queue[k].id, !.index = 1]
  BY DEF FlushLastTransaction
<1> HIDE DEF k
<1>4. CASE k > Len(r.queue)
  <2>1. FlushLastTransaction(r) \in RxStates /\ FlushLastTransaction(r).fresh = r.fresh
        /\ FlushLastTransaction(r).queue = <<>>
    <3>1. FlushLastTransaction(r) = [r EXCEPT !.queue = <<>>] /\ <<>> \in Seq(FragmentType)
      BY <1>3, <1>4
    <3> QED
      BY <3>1 DEF RxStates
  <2>2. <<>> = From(r.queue, Len(r.queue) + 1) /\ Len(r.queue) + 1 \in 1 .. Len(r.queue) + 1
    BY <1>1, FromEdges
  <2> QED
    BY <2>1, <2>2 DEF LeftOf
<1>5. CASE ~(k > Len(r.queue))
  <2>1. k \in DOMAIN r.queue /\ From(r.queue, k) \in Seq(FragmentType)
    BY <1>1, <1>2, <1>5, FromFacts
  <2>2. r.queue[k].id \in 0 .. MaxTransactionId - 1
    <3>1. r.queue[k] \in FragmentType
      BY <1>1, <2>1
    <3> QED
      BY <3>1 DEF FragmentType
  <2> DEFINE d == r.queue[k].id
             left == From(r.queue, k)
  <2>3. FlushLastTransaction(r) \in RxStates /\ FlushLastTransaction(r).fresh = r.fresh
        /\ FlushLastTransaction(r).queue = left
    <3>1. FlushLastTransaction(r) = [r EXCEPT !.queue = left, !.id = d, !.index = 1]
      BY <1>3, <1>5
    <3>2. d \in 0 .. MaxTransactionId - 1 /\ left \in Seq(FragmentType)
      BY <2>1, <2>2
    <3> HIDE DEF d, left
    <3> DEFINE onward == [r EXCEPT !.queue = left, !.id = d, !.index = 1]
    <3>3. onward \in RxStates /\ onward.fresh = r.fresh /\ onward.queue = left
      BY <3>2 DEF RxStates
    <3> HIDE DEF onward
    <3> QED
      BY <3>1, <3>3 DEF onward
  <2> QED
    BY <1>2, <2>3 DEF LeftOf
<1> QED
  BY <1>4, <1>5

LEMMA FollowType ==
  ASSUME FragAssumption, NEW r \in RxStates, NEW f \in FragmentType
  PROVE  /\ Follow(r, f) \in RxStates
         /\ Follow(r, f).fresh = r.fresh
         /\ LeftOf(r.queue, Follow(r, f).queue)
<1>1. r.queue \in Seq(FragmentType) /\ Len(r.queue) \in Nat /\ r.index \in Nat
      /\ f.id \in 0 .. MaxTransactionId - 1
  BY RxFields DEF FragmentType
<1>2. LeftOf(r.queue, r.queue)
  <2>1. r.queue = From(r.queue, 1) /\ 1 \in 1 .. Len(r.queue) + 1
    BY <1>1, FromEdges
  <2> QED
    BY <2>1 DEF LeftOf
<1> DEFINE onward == [r EXCEPT !.index = @ + 1, !.id = f.id]
           ended == [r EXCEPT !.index = 0]
<1>3. onward \in RxStates /\ onward.fresh = r.fresh /\ onward.queue = r.queue
  <2>1. r.index + 1 \in Nat
    BY <1>1
  <2> QED
    BY <1>1, <2>1 DEF RxStates
<1>4. ended \in RxStates /\ ended.fresh = r.fresh /\ ended.queue = r.queue
  BY DEF RxStates
<1>5. Follow(r, f) \in {Told(r), onward, FlushLastTransaction(r), Told(ended), ReadProcessFail(r, f.id)}
  BY DEF Follow
<1> HIDE DEF onward, ended
<1> QED
  BY <1>2, <1>3, <1>4, <1>5, TellFacts, FlushType, ReadProcessFailType

LEMMA ReadProcessType ==
  ASSUME FragAssumption, NEW r \in RxStates, r.queue # <<>>, NEW f \in FragmentType
  PROVE  /\ ReadProcess(r, f) \in RxStates
         /\ ReadProcess(r, f).fresh = r.fresh
         /\ LeftOf(r.queue, ReadProcess(r, f).queue)
<1>1. r.queue \in Seq(FragmentType) /\ Len(r.queue) \in Nat /\ Len(r.queue) >= 1
  BY RxFields
<1> DEFINE cut == [r EXCEPT !.queue = Tail(@)]
           seen == [r EXCEPT !.dropped = @ /\ f.kind # "full"]
<1>2. cut \in RxStates /\ cut.fresh = r.fresh /\ LeftOf(r.queue, cut.queue)
  <2>1. Tail(r.queue) \in Seq(FragmentType) /\ Tail(r.queue) = From(r.queue, 2)
    BY <1>1, TailOf, FromEdges
  <2>2. cut \in RxStates /\ cut.fresh = r.fresh /\ cut.queue = From(r.queue, 2)
    BY <2>1 DEF RxStates
  <2>3. 2 \in 1 .. Len(r.queue) + 1
    BY <1>1
  <2> QED
    BY <2>2, <2>3 DEF LeftOf
<1>3. seen \in RxStates /\ seen.fresh = r.fresh /\ seen.queue = r.queue
  <2>1. (r.dropped /\ f.kind # "full") \in BOOLEAN
    OBVIOUS
  <2> QED
    BY <2>1 DEF RxStates
<1>4. ReadProcess(r, f) \in {ReadProcessFail(r, f.id), cut, Follow(seen, f)}
  BY DEF ReadProcess
<1> HIDE DEF cut, seen
<1>5. /\ Follow(seen, f) \in RxStates
      /\ Follow(seen, f).fresh = r.fresh
      /\ LeftOf(r.queue, Follow(seen, f).queue)
  <2>1. LeftOf(seen.queue, Follow(seen, f).queue) /\ Follow(seen, f) \in RxStates
        /\ Follow(seen, f).fresh = r.fresh
    BY <1>3, FollowType
  <2> QED
    BY <1>3, <2>1 DEF LeftOf
<1> QED
  BY <1>2, <1>4, <1>5, ReadProcessFailType

LEMMA LeftFacts ==
  ASSUME NEW S, NEW q \in Seq(S), NEW left, LeftOf(q, left)
  PROVE  left \in Seq(S) /\ Len(left) \in Nat /\ Len(left) <= Len(q)
<1>1. PICK k \in 1 .. Len(q) + 1 : left = From(q, k)
  BY DEF LeftOf
<1>2. k \in Nat /\ k >= 1
  OBVIOUS
<1> QED
  BY <1>1, <1>2, FromFacts

LEMMA FromLeft ==
  ASSUME NEW S, NEW q \in Seq(S), NEW k \in Nat, k >= 1
  PROVE  LeftOf(q, From(q, k))
<1>1. Len(q) \in Nat
  OBVIOUS
<1>2. CASE k <= Len(q) + 1
  BY <1>1, <1>2 DEF LeftOf
<1>3. CASE k > Len(q) + 1
  <2>1. Len(From(q, k)) = 0 /\ From(q, k) \in Seq(S)
    <3>1. ~(k <= Len(q))
      BY <1>1, <1>3
    <3> QED
      BY <3>1, FromFacts
  <2>2. From(q, k) = From(q, Len(q) + 1)
    BY <2>1, FromEdges
  <2> QED
    BY <1>1, <2>2 DEF LeftOf
<1> QED
  BY <1>1, <1>2, <1>3

LEMMA LeftAgain ==
  ASSUME NEW S, NEW q \in Seq(S), NEW left, LeftOf(q, left), NEW less, LeftOf(left, less)
  PROVE  LeftOf(q, less)
<1>1. PICK k \in 1 .. Len(q) + 1 : left = From(q, k)
  BY DEF LeftOf
<1>2. PICK j \in 1 .. Len(left) + 1 : less = From(left, j)
  BY DEF LeftOf
<1>3. Len(q) \in Nat /\ left \in Seq(S) /\ Len(left) = (IF k <= Len(q) THEN Len(q) - k + 1 ELSE 0)
      /\ \A i \in DOMAIN left : left[i] = q[k + i - 1]
  <2>1. k \in Nat /\ k >= 1 /\ Len(q) \in Nat
    OBVIOUS
  <2>2. From(q, k) \in Seq(S) /\ Len(From(q, k)) = (IF k <= Len(q) THEN Len(q) - k + 1 ELSE 0)
        /\ \A i \in DOMAIN From(q, k) : From(q, k)[i] = q[k + i - 1]
    BY <2>1, FromFacts
  <2> QED
    BY <1>1, <2>1, <2>2
<1>4. Len(left) = Len(q) - k + 1
  <2> DEFINE n == Len(q)
             m == Len(left)
  <2>1. n \in Nat /\ k \in 1 .. n + 1 /\ m = IF k <= n THEN n - k + 1 ELSE 0
    BY <1>3
  <2> HIDE DEF n, m
  <2>2. m = n - k + 1
    BY <2>1
  <2> QED
    BY <2>2 DEF n, m
<1> DEFINE i == k + j - 1
<1>5. i \in 1 .. Len(q) + 1 /\ j \in Nat /\ j >= 1
  BY <1>3, <1>4
<1>6. less \in Seq(S) /\ From(q, i) \in Seq(S)
  BY <1>2, <1>3, <1>5, FromFacts
<1>7. Len(less) = Len(left) - j + 1 /\ Len(From(q, i)) = Len(q) - i + 1
  <2> DEFINE n == Len(q)
             m == Len(left)
             a == Len(less)
             b == Len(From(q, i))
  <2>1. a = (IF j <= m THEN m - j + 1 ELSE 0) /\ b = (IF i <= n THEN n - i + 1 ELSE 0)
    <3>1. Len(From(left, j)) = IF j <= Len(left) THEN Len(left) - j + 1 ELSE 0
      BY <1>3, <1>5, FromFacts
    <3>2. i \in Nat /\ i >= 1
      BY <1>5
    <3> HIDE DEF i
    <3>3. Len(From(q, i)) = IF i <= Len(q) THEN Len(q) - i + 1 ELSE 0
      BY <3>2, FromFacts
    <3> QED
      BY <1>2, <3>1, <3>3
  <2>2. n \in Nat /\ m \in Nat /\ i \in 1 .. n + 1 /\ j \in 1 .. m + 1
    BY <1>3, <1>5
  <2> HIDE DEF n, m, a, b, i
  <2>3. a = m - j + 1 /\ b = n - i + 1
    BY <2>1, <2>2
  <2> QED
    BY <2>3 DEF n, m, a, b
<1>8. Len(less) = Len(From(q, i))
  BY <1>3, <1>4, <1>5, <1>7
<1>9. ASSUME NEW x \in DOMAIN less PROVE less[x] = From(q, i)[x]
  <2>1. j + x - 1 \in DOMAIN left /\ less[x] = left[j + x - 1]
    BY <1>2, <1>3, <1>5, FromFacts
  <2>2. x \in DOMAIN From(q, i)
    BY <1>6, <1>8
  <2>3. From(q, i)[x] = q[i + x - 1]
    BY <1>3, <1>5, <2>2, FromFacts
  <2>4. left[j + x - 1] = q[k + (j + x - 1) - 1]
    BY <1>3, <2>1
  <2>5. k + (j + x - 1) - 1 = i + x - 1
    <3>1. x \in Nat
      BY <1>6
    <3> QED
      BY <1>5, <3>1
  <2> QED
    BY <2>1, <2>3, <2>4, <2>5
<1>10. less = From(q, i)
  <2> DEFINE b == From(q, i)
  <2>1. b \in Seq(S) /\ less \in Seq(S) /\ Len(less) = Len(b) /\ \A x \in DOMAIN less : less[x] = b[x]
    BY <1>6, <1>8, <1>9
  <2> HIDE DEF b
  <2>2. less = b
    BY <2>1
  <2> QED
    BY <2>2 DEF b
<1> QED
  BY <1>5, <1>10 DEF LeftOf

LEMMA ErrorFlushFacts ==
  ASSUME NEW q \in Seq(FragmentType)
  PROVE  LeftOf(q, ErrorFlush(q))
<1> DEFINE places == {i \in DOMAIN q : q[i].kind = "last"}
<1>1. FirstOf(places, q) \in 1 .. Len(q) + 1
  <2>1. places \in SUBSET DOMAIN q
    OBVIOUS
  <2> HIDE DEF places
  <2> QED
    BY <2>1, FirstOfFacts
<1>2. ErrorFlush(q) = From(q, FirstOf(places, q) + 1)
  BY DEF ErrorFlush
<1> HIDE DEF places
<1>3. FirstOf(places, q) + 1 \in Nat /\ FirstOf(places, q) + 1 >= 1
  BY <1>1
<1> QED
  BY <1>2, <1>3, FromLeft

\* The end of the payload the application reads.
ReadEnd(q) == FirstOf({i \in 2 .. Len(q) : q[i].kind # "more"}, q)

\* What wps_frag_read does.
LEMMA FragReadFields ==
  ASSUME FragAssumption, TypeInv, FragRead
  PROVE  /\ rx' \in RxStates /\ LeftOf(rx.queue, rx'.queue)
         /\ rx'.fresh = rx.fresh /\ rx'.index = rx.index /\ rx'.id = rx.id
         /\ rx'.dropped = rx.dropped
         /\ out' \in Seq(FragmentType)
         /\ \/ /\ out' = out
               /\ \/ rx.queue = <<>>
                  \/ rx.queue[1].kind = "last"
                  \/ rx.queue[1].kind = "more" /\ rx.queue[1].num # 0
                  \/ /\ rx.queue[1].kind = "more" /\ ReadEnd(rx.queue) > Len(rx.queue)
                  \/ /\ rx.queue[1].kind = "more" /\ ReadEnd(rx.queue) <= Len(rx.queue)
                     /\ rx.queue[ReadEnd(rx.queue)].kind # "last"
            \/ /\ rx.queue # <<>> /\ rx.queue[1].kind = "more"
               /\ sizes[rx.queue[1].payload] > cfg.buffer
               /\ out' = out
               /\ rx'.queue = ErrorFlush(rx.queue) /\ rx'.count = (rx.count - 1) % CountModulus
            \/ /\ rx.queue # <<>> /\ rx.queue[1].kind = "full"
               /\ out' = <<rx.queue[1]>>
               /\ rx'.queue = From(rx.queue, 2) /\ rx'.count = (rx.count - 1) % CountModulus
            \/ /\ rx.queue # <<>> /\ rx.queue[1].kind = "more" /\ rx.queue[1].num = 0
               /\ ReadEnd(rx.queue) <= Len(rx.queue)
               /\ rx.queue[ReadEnd(rx.queue)].kind = "last"
               /\ out' = SubSeq(rx.queue, 1, ReadEnd(rx.queue))
               /\ rx'.queue = From(rx.queue, ReadEnd(rx.queue) + 1)
               /\ rx'.count = (rx.count - 1) % CountModulus
<1> DEFINE q == rx.queue
           end == ReadEnd(q)
           n == Less(rx.count, 1)
           counted == [rx EXCEPT !.count = Less(@, 1)]
<1>1. rx \in RxStates /\ out \in Seq(FragmentType)
  BY DEF TypeInv, TypeOK
<1>2. q \in Seq(FragmentType) /\ Len(q) \in Nat
  BY <1>1, RxFields
<1>3. n = (rx.count - 1) % CountModulus /\ n \in 0 .. CountModulus - 1
  BY <1>1, RxFields, RemainderFacts, SizeFacts DEF Less
<1>4. counted = [rx EXCEPT !.count = n]
  BY DEF Less
<1>5. end \in 1 .. Len(q) + 1
  <2> DEFINE places == {i \in 2 .. Len(q) : q[i].kind # "more"}
  <2>1. places \in SUBSET DOMAIN q
    BY <1>2
  <2> HIDE DEF places
  <2>2. FirstOf(places, q) \in 1 .. Len(q) + 1
    BY SMTT(30), <1>2, <2>1, FirstOfFacts
  <2> QED
    BY <2>2 DEF ReadEnd, places
<1>6. \/ q = <<>> /\ Returns(counted, out)
      \/ /\ q # <<>> /\ q[1].kind = "full"
         /\ Returns([counted EXCEPT !.queue = Tail(q)], <<q[1]>>)
      \/ /\ q # <<>> /\ q[1].kind = "last"
         /\ Returns([rx EXCEPT !.queue = ErrorFlush(q)], out)
      \/ /\ q # <<>> /\ q[1].kind = "more"
         /\ q[1].num # 0 \/ sizes[q[1].payload] > cfg.buffer
         /\ Returns([counted EXCEPT !.queue = ErrorFlush(q)], out)
      \/ /\ q # <<>> /\ q[1].kind = "more"
         /\ q[1].num = 0 /\ sizes[q[1].payload] <= cfg.buffer
         /\ CASE end > Len(q) -> Returns([counted EXCEPT !.queue = <<>>], out)
              [] end <= Len(q) /\ q[end].kind = "last" ->
                   Returns([counted EXCEPT !.queue = From(q, end + 1)], SubSeq(q, 1, end))
              [] OTHER -> Returns([counted EXCEPT !.queue = ErrorFlush(From(q, end))], out)
  BY DEF FragRead, ReadEnd
<1> HIDE DEF n, end, counted
<1> DEFINE Out(left) == [counted EXCEPT !.queue = left]
           Kept == /\ rx' \in RxStates /\ LeftOf(q, rx'.queue)
                   /\ rx'.fresh = rx.fresh /\ rx'.index = rx.index /\ rx'.id = rx.id
                   /\ rx'.dropped = rx.dropped
\* The queue and the count of every outcome.
<1>7. ASSUME NEW left, LeftOf(q, left), rx' = Out(left)
      PROVE  Kept /\ rx'.queue = left /\ rx'.count = (rx.count - 1) % CountModulus
  <2>1. left \in Seq(FragmentType)
    BY <1>2, <1>7, LeftFacts
  <2>2. counted \in RxStates /\ counted.count = n
        /\ counted.fresh = rx.fresh /\ counted.index = rx.index /\ counted.id = rx.id
        /\ counted.dropped = rx.dropped
    BY <1>1, <1>3, <1>4 DEF RxStates
  <2>3. Out(left) \in RxStates /\ Out(left).queue = left /\ Out(left).count = n
        /\ Out(left).fresh = rx.fresh /\ Out(left).index = rx.index /\ Out(left).id = rx.id
        /\ Out(left).dropped = rx.dropped
    BY <2>1, <2>2 DEF RxStates
  <2> HIDE DEF Out
  <2> QED
    BY <1>3, <1>7, <2>3
<1>8. CASE q = <<>> /\ Returns(counted, out)
  <2>1. /\ counted \in RxStates /\ counted.queue = q
        /\ counted.fresh = rx.fresh /\ counted.index = rx.index /\ counted.id = rx.id
        /\ counted.dropped = rx.dropped
    BY <1>1, <1>3, <1>4 DEF RxStates
  <2>2. LeftOf(q, q)
    <3>1. From(q, 1) = q /\ LeftOf(q, From(q, 1))
      BY <1>2, FromEdges, FromLeft
    <3> QED
      BY <3>1
  <2>3. rx' = counted /\ out' = out
    BY <1>8 DEF Returns
  <2> QED
    BY <1>1, <1>8, <2>1, <2>2, <2>3
<1>9. CASE q # <<>> /\ q[1].kind = "full" /\ Returns([counted EXCEPT !.queue = Tail(q)], <<q[1]>>)
  <2>1. Tail(q) = From(q, 2) /\ LeftOf(q, From(q, 2))
    <3>1. Tail(q) = From(q, 2)
      BY <1>2, <1>9, FromEdges
    <3>2. LeftOf(q, From(q, 2))
      BY <1>2, FromLeft
    <3> QED
      BY <3>1, <3>2
  <2>2. <<q[1]>> \in Seq(FragmentType)
    <3>1. q[1] \in FragmentType
      BY <1>2, <1>9
    <3> QED
      BY <3>1
  <2>3. rx' = Out(From(q, 2)) /\ out' = <<q[1]>>
    BY <1>9, <2>1 DEF Returns
  <2>4. Kept /\ rx'.queue = From(q, 2) /\ rx'.count = (rx.count - 1) % CountModulus
    BY <1>7, <2>1, <2>3
  <2> QED
    BY <1>9, <2>2, <2>3, <2>4
<1>10. CASE q # <<>> /\ q[1].kind = "last" /\ Returns([rx EXCEPT !.queue = ErrorFlush(q)], out)
  <2> DEFINE left == ErrorFlush(q)
  <2>1. LeftOf(q, left) /\ left \in Seq(FragmentType)
    BY <1>2, ErrorFlushFacts, LeftFacts
  <2> HIDE DEF left
  <2> DEFINE r == [rx EXCEPT !.queue = left]
  <2>2. r \in RxStates /\ r.queue = left /\ r.fresh = rx.fresh /\ r.index = rx.index
        /\ r.id = rx.id /\ r.dropped = rx.dropped
    BY <1>1, <2>1 DEF RxStates
  <2>3. rx' = r /\ out' = out
    BY <1>10 DEF Returns, left
  <2> HIDE DEF r
  <2> QED
    BY <1>1, <1>10, <2>1, <2>2, <2>3
<1>11. CASE /\ q # <<>> /\ q[1].kind = "more"
            /\ q[1].num # 0 \/ sizes[q[1].payload] > cfg.buffer
            /\ Returns([counted EXCEPT !.queue = ErrorFlush(q)], out)
  <2>1. LeftOf(q, ErrorFlush(q))
    BY <1>2, ErrorFlushFacts
  <2>2. rx' = Out(ErrorFlush(q)) /\ out' = out
    BY <1>11 DEF Returns
  <2>3. Kept /\ rx'.queue = ErrorFlush(q) /\ rx'.count = (rx.count - 1) % CountModulus
    BY <1>7, <2>1, <2>2
  <2> QED
    BY <1>1, <1>11, <2>2, <2>3
<1>12. CASE /\ q # <<>> /\ q[1].kind = "more" /\ q[1].num = 0
            /\ CASE end > Len(q) -> Returns([counted EXCEPT !.queue = <<>>], out)
                 [] end <= Len(q) /\ q[end].kind = "last" ->
                      Returns([counted EXCEPT !.queue = From(q, end + 1)], SubSeq(q, 1, end))
                 [] OTHER -> Returns([counted EXCEPT !.queue = ErrorFlush(From(q, end))], out)
  <2>1. CASE end > Len(q)
    <3>1. Returns([counted EXCEPT !.queue = <<>>], out)
      BY <1>12, <2>1, <1>2, <1>5
    <3>2. LeftOf(q, <<>>)
      <4>1. Len(q) + 1 \in Nat /\ Len(q) + 1 >= 1
        BY <1>2
      <4>2. LeftOf(q, From(q, Len(q) + 1)) /\ From(q, Len(q) + 1) = <<>>
        BY <1>2, <4>1, FromEdges, FromLeft
      <4> QED
        BY <4>2
    <3>3. rx' = Out(<<>>) /\ out' = out
      BY <3>1 DEF Returns
    <3>4. Kept
      BY <1>7, <3>2, <3>3
    <3> QED
      BY <1>1, <1>12, <2>1, <3>3, <3>4 DEF end
  <2>2. CASE end <= Len(q) /\ q[end].kind = "last"
    <3>1. Returns([counted EXCEPT !.queue = From(q, end + 1)], SubSeq(q, 1, end))
      BY <1>12, <2>2, <1>2, <1>5
    <3>2. LeftOf(q, From(q, end + 1))
      <4>1. end + 1 \in Nat /\ end + 1 >= 1
        BY <1>5
      <4> QED
        BY <1>2, <4>1, FromLeft
    <3>3. SubSeq(q, 1, end) \in Seq(FragmentType)
      <4>1. \A i \in 1 .. end : q[i] \in FragmentType
        BY <1>2, <1>5, <2>2
      <4> QED
        BY <1>2, <1>5, <4>1, SubSeqProperties
    <3>4. rx' = Out(From(q, end + 1)) /\ out' = SubSeq(q, 1, end)
      BY <3>1 DEF Returns
    <3>5. Kept /\ rx'.queue = From(q, end + 1) /\ rx'.count = (rx.count - 1) % CountModulus
      BY <1>7, <3>2, <3>4
    <3> QED
      BY <1>12, <2>2, <3>3, <3>4, <3>5 DEF end
  <2>3. CASE end <= Len(q) /\ q[end].kind # "last"
    <3>1. Returns([counted EXCEPT !.queue = ErrorFlush(From(q, end))], out)
      BY <1>12, <2>3, <1>2, <1>5
    <3>2. LeftOf(q, ErrorFlush(From(q, end)))
      <4>1. end \in Nat /\ end >= 1
        BY <1>5
      <4>2. LeftOf(q, From(q, end)) /\ From(q, end) \in Seq(FragmentType)
        BY <1>2, <4>1, FromLeft, FromFacts
      <4>3. LeftOf(From(q, end), ErrorFlush(From(q, end)))
        BY <4>2, ErrorFlushFacts
      <4> QED
        BY <1>2, <4>2, <4>3, LeftAgain
    <3>3. rx' = Out(ErrorFlush(From(q, end))) /\ out' = out
      BY <3>1 DEF Returns
    <3>4. Kept
      BY <1>7, <3>2, <3>3
    <3> QED
      BY <1>1, <1>12, <2>3, <3>3, <3>4 DEF end
  <2> QED
    BY <1>2, <1>5, <2>1, <2>2, <2>3
<1> QED
  BY <1>6, <1>8, <1>9, <1>10, <1>11, <1>12

LEMMA PayloadsInType ==
  ASSUME NEW s \in Seq(FragmentType)
  PROVE  PayloadsIn(s) \in SUBSET Nat
<1>1. ASSUME NEW i \in DOMAIN s PROVE s[i].payload \in Nat
  <2>1. s[i] \in FragmentType
    BY <1>1
  <2> QED
    BY <2>1 DEF FragmentType
<1> QED
  BY <1>1 DEF PayloadsIn

\* A read notes the payloads it returned pieces of.
LEMMA FragReadNotes ==
  ASSUME FragRead
  PROVE  reads' = reads \cup PayloadsIn(out')
<1> DEFINE noted == reads' = reads \cup PayloadsIn(out')
           q == rx.queue
           end == FirstOf({i \in 2 .. Len(q) : q[i].kind # "more"}, q)
           counted == [rx EXCEPT !.count = Less(@, 1)]
<1>1. ASSUME NEW r, NEW pieces, Returns(r, pieces) PROVE noted
  BY <1>1 DEF Returns
<1>2. \/ Returns(counted, out)
      \/ Returns([counted EXCEPT !.queue = Tail(q)], <<q[1]>>)
      \/ Returns([rx EXCEPT !.queue = ErrorFlush(q)], out)
      \/ Returns([counted EXCEPT !.queue = ErrorFlush(q)], out)
      \/ CASE end > Len(q) -> Returns([counted EXCEPT !.queue = <<>>], out)
           [] end <= Len(q) /\ q[end].kind = "last" ->
                Returns([counted EXCEPT !.queue = From(q, end + 1)], SubSeq(q, 1, end))
           [] OTHER -> Returns([counted EXCEPT !.queue = ErrorFlush(From(q, end))], out)
  BY DEF FragRead
<1> HIDE DEF noted, q, end, counted
<1> QED
  BY <1>1, <1>2 DEF noted

LEMMA RxSuccessFields ==
  ASSUME FragAssumption, TypeInv, RxSuccessCallback
  PROVE  \E r \in RxStates :
           /\ rx.fresh # <<>> /\ Head(rx.fresh) \in FragmentType
           /\ r.fresh = Tail(rx.fresh) /\ r.queue = Append(rx.queue, Head(rx.fresh))
           /\ r.index = rx.index /\ r.id = rx.id /\ r.dropped = rx.dropped /\ r.count = rx.count
           /\ rx' = ReadProcess(r, Head(rx.fresh))
           /\ rx' \in RxStates /\ rx'.fresh = r.fresh /\ LeftOf(r.queue, rx'.queue)
<1> DEFINE f == Head(rx.fresh)
           r == [rx EXCEPT !.fresh = Tail(@), !.queue = Append(@, f)]
<1>1. rx \in RxStates /\ rx.fresh # <<>> /\ rx' = ReadProcess(r, f)
  BY DEF TypeInv, TypeOK, RxSuccessCallback
<1>2. f \in FragmentType /\ Tail(rx.fresh) \in Seq(FragmentType)
  BY <1>1, TailOf, RxFields
<1> HIDE DEF f
<1>3. Append(rx.queue, f) \in Seq(FragmentType) /\ Append(rx.queue, f) # <<>>
  BY SMTT(30), <1>1, <1>2, AppendTo, RxFields
<1>4. /\ r \in RxStates /\ r.fresh = Tail(rx.fresh) /\ r.queue = Append(rx.queue, f)
      /\ r.index = rx.index /\ r.id = rx.id /\ r.dropped = rx.dropped /\ r.count = rx.count
  BY <1>1, <1>2, <1>3 DEF RxStates
<1> HIDE DEF r
<1>5. rx' \in RxStates /\ rx'.fresh = r.fresh /\ LeftOf(r.queue, rx'.queue)
  BY <1>1, <1>2, <1>3, <1>4, ReadProcessType
<1> QED
  BY <1>1, <1>2, <1>4, <1>5 DEF f

LEMMA RxSuccessType ==
  ASSUME FragAssumption, TypeInv, RxSuccessCallback
  PROVE  TypeInv'
<1> DEFINE f == Head(rx.fresh)
<1>1. rx \in RxStates /\ Len(rx.fresh) + Len(rx.queue) <= RxQueueSize
  BY DEF TypeInv, TypeOK
<1>2. PICK r \in RxStates :
        /\ rx.fresh # <<>> /\ f \in FragmentType
        /\ r.fresh = Tail(rx.fresh) /\ r.queue = Append(rx.queue, f)
        /\ rx' \in RxStates /\ rx'.fresh = r.fresh /\ LeftOf(r.queue, rx'.queue)
  BY RxSuccessFields
<1>3. Len(rx'.fresh) + Len(rx'.queue) <= RxQueueSize
  <2> DEFINE a == Len(rx.fresh)
             b == Len(rx.queue)
             c == Len(rx'.queue)
  <2>1. a \in Nat /\ b \in Nat /\ a + b <= RxQueueSize /\ RxQueueSize \in Nat
    BY <1>1, RxFields, SizeFacts
  <2>2. Len(rx'.fresh) = a - 1
    BY <1>1, <1>2, TailOf, RxFields
  <2>3. c \in Nat /\ c <= b + 1
    <3>1. r.queue \in Seq(FragmentType) /\ Len(r.queue) = b + 1
      BY <1>1, <1>2, AppendTo, RxFields
    <3>2. c \in Nat /\ c <= Len(r.queue)
      BY <1>2, <3>1, LeftFacts
    <3> QED
      BY <3>1, <3>2
  <2> HIDE DEF a, b, c
  <2>4. (a - 1) + c <= RxQueueSize
    BY <2>1, <2>3
  <2> QED
    BY <2>2, <2>4 DEF c
<1>4. TypeOK'
  BY <1>2, <1>3 DEF TypeInv, TypeOK, RxSuccessCallback
<1> QED
  BY <1>4, SendGoesOn DEF TypeInv, RxSuccessCallback

LEMMA FragReadType ==
  ASSUME FragAssumption, TypeInv, FragRead
  PROVE  TypeInv'
<1>1. rx' \in RxStates /\ LeftOf(rx.queue, rx'.queue) /\ rx'.fresh = rx.fresh
      /\ out' \in Seq(FragmentType)
  BY FragReadFields
<1>2. rx \in RxStates /\ Len(rx.fresh) + Len(rx.queue) <= RxQueueSize
  BY DEF TypeInv, TypeOK
<1>3. Len(rx'.fresh) + Len(rx'.queue) <= RxQueueSize
  <2> DEFINE a == Len(rx.fresh)
             b == Len(rx.queue)
             c == Len(rx'.queue)
  <2>1. a \in Nat /\ b \in Nat /\ a + b <= RxQueueSize /\ RxQueueSize \in Nat
    BY <1>2, RxFields, SizeFacts
  <2>2. c \in Nat /\ c <= b /\ Len(rx'.fresh) = a
    BY <1>1, <1>2, LeftFacts, RxFields
  <2> HIDE DEF a, b, c
  <2>3. a + c <= RxQueueSize
    BY <2>1, <2>2
  <2> QED
    BY <2>2, <2>3 DEF c
<1>4. reads' \in SUBSET Nat
  BY <1>1, PayloadsInType, FragReadNotes, TxFields DEF TypeInv
<1>5. TypeOK'
  BY <1>1, <1>3, <1>4 DEF TypeInv, TypeOK, FragRead
<1> QED
  BY <1>5, SendGoesOn DEF TypeInv, FragRead

LEMMA GetSizeType ==
  ASSUME FragAssumption, TypeInv, GetReadPayloadSize
  PROVE  TypeInv' /\ LeftOf(rx.queue, rx'.queue) /\ rx'.fresh = rx.fresh
<1> DEFINE left == ErrorFlush(rx.queue)
           n == Less(rx.count, Len(rx.queue) - Len(left))
<1>1. rx \in RxStates /\ Len(rx.fresh) + Len(rx.queue) <= RxQueueSize
      /\ rx' = [rx EXCEPT !.queue = left, !.count = n]
  BY DEF TypeInv, TypeOK, GetReadPayloadSize
<1>2. LeftOf(rx.queue, left) /\ left \in Seq(FragmentType) /\ Len(left) \in Nat
      /\ Len(left) <= Len(rx.queue) /\ Len(rx.queue) \in Nat /\ Len(rx.fresh) \in Nat
  <2>1. rx.queue \in Seq(FragmentType) /\ Len(rx.queue) \in Nat /\ Len(rx.fresh) \in Nat
    BY <1>1, RxFields
  <2>2. LeftOf(rx.queue, left)
    BY <2>1, ErrorFlushFacts
  <2> HIDE DEF left
  <2> QED
    BY <2>1, <2>2, LeftFacts
<1>3. n \in 0 .. CountModulus - 1
  <2> DEFINE d == rx.count - (Len(rx.queue) - Len(left))
  <2>1. d \in Int
    <3>1. rx.count \in Nat
      <4>1. rx.count \in 0 .. CountModulus - 1 /\ CountModulus \in Nat
        BY <1>1, RxFields, SizeFacts
      <4> QED
        BY <4>1
    <3>2. Len(left) \in Nat /\ Len(rx.queue) \in Nat
      BY <1>2
    <3> HIDE DEF left
    <3> QED
      BY <3>1, <3>2
  <2>2. n = d % CountModulus /\ CountModulus \in Nat /\ CountModulus > 0
    BY SizeFacts DEF Less
  <2> HIDE DEF d, n
  <2> QED
    BY <2>1, <2>2, RemainderFacts
<1> HIDE DEF left, n
<1>4. rx' \in RxStates /\ rx'.queue = left /\ rx'.fresh = rx.fresh
  BY <1>1, <1>2, <1>3 DEF RxStates
<1>5. Len(rx'.fresh) + Len(rx'.queue) <= RxQueueSize
  <2> DEFINE a == Len(rx.fresh)
             b == Len(rx.queue)
             c == Len(left)
  <2>1. a \in Nat /\ b \in Nat /\ c \in Nat /\ c <= b /\ a + b <= RxQueueSize /\ RxQueueSize \in Nat
    BY <1>1, <1>2, SizeFacts
  <2>2. Len(rx'.fresh) = a /\ Len(rx'.queue) = c
    BY <1>4
  <2> HIDE DEF a, b, c
  <2> QED
    BY <2>1, <2>2
<1>6. TypeOK'
  BY <1>4, <1>5 DEF TypeInv, TypeOK, GetReadPayloadSize
<1> QED
  BY <1>2, <1>4, <1>6, SendGoesOn DEF TypeInv, GetReadPayloadSize

LEMMA InitType ==
  ASSUME FragAssumption, Init
  PROVE  TypeInv
<1>1. tx \in TxStates /\ rx \in RxStates
  BY SizeFacts DEF Init, TxStates, RxStates
<1>2. out \in Seq(FragmentType) /\ sizes \in Seq(Sizes) /\ reads \in SUBSET Nat
  BY DEF Init
<1>3. Len(tx.queue) <= TxQueueSize /\ Len(tx.meta) <= TxQueueSize
      /\ Len(rx.fresh) + Len(rx.queue) <= RxQueueSize
  BY SizeFacts DEF Init
<1>4. SendOK
  BY DEF Init, SendOK, Sending
<1> QED
  BY <1>1, <1>2, <1>3, <1>4 DEF Init, TypeInv, TypeOK

LEMMA StepType ==
  ASSUME FragAssumption, TypeInv, [Next]_vars
  PROVE  TypeInv'
<1>1. CASE UNCHANGED vars
  BY <1>1 DEF vars, TypeInv, TypeOK, SendOK, Sending, Started
<1>2. CASE Next
  <2>1. ASSUME NEW arrives \in BOOLEAN, NEW acknowledged \in BOOLEAN, Carry(arrives, acknowledged)
        PROVE  TypeInv'
    BY <2>1, CarryType
  <2>2. Deliver \/ Drop => TypeInv'
    BY <2>1 DEF Deliver, Drop
  <2> QED
    BY <1>2, <2>2, StartSendType, SendFragmentType, FinishSendType, OtherSendType,
       TxSuccessType, RxSuccessType, FragReadType, GetSizeType DEF Next
<1> QED
  BY <1>1, <1>2

LEMMA TypeInvAlways ==
  ASSUME FragAssumption
  PROVE  Spec => []TypeInv
<1>1. Init => TypeInv
  BY InitType
<1>2. TypeInv /\ [Next]_vars => TypeInv'
  BY StepType
<1> QED
  BY <1>1, <1>2, PTL DEF Spec

(* The queues stay within their sizes, the count of complete payloads       *)
(* within its 16 bits, and every variable has its type: wps_frag_send       *)
(* checks for room before each fragment, and frag_read only moves one that  *)
(* already has its place.                                                   *)
THEOREM FragTypeOK == Spec => []TypeOK
<1>1. TypeInv => TypeOK
  BY DEF TypeInv
<1> QED
  BY <1>1, FragAssumption, TypeInvAlways, PTL

-----------------------------------------------------------------------------
(* Reports of success *)

\* Nothing is dropped or given up, no callback comes in the middle of a send,
\* and the meta-data queue had a place for every payload.
AllSent == ~cfg.lossy /\ ~cfg.preempt /\ tx.torn = {} /\ ~tx.unnoted

\* Payloads wps_frag_send has ended.
Finished == IF Sending THEN Started - 1 ELSE Started

\* T[k] fragments in the first k payloads.
Totals(T) ==
  /\ T \in [0 .. Started -> Nat] /\ T[0] = 0
  /\ \A k \in 1 .. Started : T[k] = T[k - 1] + FragmentsSent(sizes[k])
  /\ \A j \in 0 .. Started, k \in 0 .. Started : j < k => T[j] < T[k]

\* Fragments acknowledged, and those of them whose callback has run.
Acked(T) == T[Finished] + (IF Sending THEN tx.done ELSE 0) - Len(tx.queue)
Called(T) == Acked(T) - tx.acks

\* The meta-data queue waits for enough fragments of each payload.
Reports(T) ==
  /\ tx.reported + Len(tx.meta) = Finished
  /\ \A i \in DOMAIN tx.meta : tx.meta[i] + 1 >= T[tx.reported + i] - T[tx.reported + i - 1]
  /\ tx.meta # <<>> => Called(T) + tx.remaining + 1 >= T[tx.reported + 1]
  /\ tx.meta = <<>> => tx.remaining = 0
  /\ Called(T) >= T[tx.reported]

\* A payload whose fragments are acknowledged has been sent, and the others
\* end in the queue.
Arrivals(T) ==
  /\ \A k \in 0 .. Started : T[k] <= Acked(T) => k <= tx.sent
  /\ \A i \in DOMAIN tx.queue, k \in 1 .. Started : Acked(T) + i = T[k] => Ends(tx.queue[i])

SuccessInv == AllSent => \E T : Totals(T) /\ Reports(T) /\ Arrivals(T)

\* What is acknowledged lies between nothing and everything handed over.
LEMMA AckedFacts ==
  ASSUME TypeInv, NEW T, Totals(T)
  PROVE  /\ Finished \in 0 .. Started /\ Started \in Nat /\ T[Finished] \in Nat
         /\ Acked(T) \in Int /\ Called(T) \in Int
         /\ ~Sending => Finished = Started /\ Acked(T) = T[Started] - Len(tx.queue)
         /\ Sending => /\ Finished = Started - 1 /\ Started >= 1 /\ T[Started] \in Nat
                       /\ T[Started] = T[Finished] + tx.count
                       /\ Acked(T) = T[Finished] + tx.done - Len(tx.queue)
<1>1. Started \in Nat /\ tx.done \in Nat /\ Len(tx.queue) \in Nat /\ tx.acks \in Nat /\ tx.count \in Nat
  BY TxFields DEF TypeInv
<1>2. Sending => Started >= 1 /\ tx.count = FragmentsSent(sizes[Started])
  BY DEF TypeInv, SendOK
<1>3. Finished \in 0 .. Started
  BY <1>1, <1>2 DEF Finished
<1>4. T[Finished] \in Nat
  BY <1>3 DEF Totals
<1>5. Acked(T) \in Int /\ Called(T) \in Int
  <2> DEFINE f == T[Finished]
             d == IF Sending THEN tx.done ELSE 0
             l == Len(tx.queue)
  <2>1. f \in Nat /\ d \in Nat /\ l \in Nat
    BY <1>1, <1>4
  <2>2. Acked(T) = f + d - l
    BY DEF Acked
  <2> HIDE DEF f, d, l
  <2> QED
    BY <1>1, <2>1, <2>2 DEF Called
<1>6. Sending => Finished = Started - 1 /\ T[Started] = T[Finished] + tx.count /\ T[Started] \in Nat
  BY <1>1, <1>2 DEF Finished, Totals
<1> QED
  BY <1>1, <1>2, <1>3, <1>4, <1>5, <1>6 DEF Finished, Acked

\* The steps that leave the sends alone leave the totals.
LEMMA TotalsStay ==
  ASSUME NEW T, Totals(T), sizes' = sizes
  PROVE  Totals(T)'
  BY DEF Totals, Started

LEMMA StartSendFields ==
  ASSUME FragAssumption, TypeInv, NEW size \in Sizes, StartSend(size)
  PROVE  /\ tx'.queue = tx.queue /\ tx'.meta = tx.meta /\ tx'.acks = tx.acks /\ tx'.sent = tx.sent
         /\ tx'.reported = tx.reported /\ tx'.remaining = tx.remaining /\ tx'.id = tx.id
         /\ tx'.count = FragmentsSent(size) /\ tx'.done = 0
         /\ tx'.torn = tx.torn /\ tx'.moved = tx.moved /\ tx'.unnoted = tx.unnoted
         /\ cfg' = cfg /\ rx' = rx /\ out' = out /\ reads' = reads /\ sizes' = Append(sizes, size)
         /\ ~Sending
<1>1. tx' = [tx EXCEPT !.count = FragmentsSent(size), !.done = 0]
  BY DEF StartSend
<1>2. tx \in TxStates
  BY DEF TypeInv, TypeOK
<1>3. /\ tx'.queue = tx.queue /\ tx'.meta = tx.meta /\ tx'.acks = tx.acks /\ tx'.sent = tx.sent
      /\ tx'.reported = tx.reported /\ tx'.remaining = tx.remaining /\ tx'.id = tx.id
      /\ tx'.count = FragmentsSent(size) /\ tx'.done = 0
      /\ tx'.torn = tx.torn /\ tx'.moved = tx.moved /\ tx'.unnoted = tx.unnoted
  BY <1>1, <1>2 DEF TxStates
<1> QED
  BY <1>3 DEF StartSend

\* A new payload adds its fragments to the totals.
LEMMA StartSendTotals ==
  ASSUME FragAssumption, TypeInv, NEW size \in Sizes, StartSend(size), NEW T, Totals(T)
  PROVE  /\ Started \in Nat /\ Started' = Started + 1
         /\ Finished = Started /\ Finished' = Started
         /\ T[Started] \in Nat /\ FragmentsSent(size) \in Nat /\ FragmentsSent(size) >= 1
         /\ Acked(T) = T[Started] - Len(tx.queue) /\ Acked(T) \in Int /\ Called(T) \in Int
         /\ \E U : /\ Totals(U)' /\ U[Started + 1] = T[Started] + FragmentsSent(size)
                   /\ \A k \in 0 .. Started : U[k] = T[k]
                   /\ Acked(U)' = Acked(T) /\ Called(U)' = Called(T)
<1>1. sizes' = Append(sizes, size) /\ ~Sending
  BY DEF StartSend
<1>2. /\ tx'.queue = tx.queue /\ tx'.acks = tx.acks
      /\ tx'.count = FragmentsSent(size) /\ tx'.done = 0
  BY StartSendFields
<1>3. Totals(T)
  OBVIOUS
<1>4. /\ Started \in Nat /\ Started' = Started + 1 /\ sizes'[Started + 1] = size
      /\ \A k \in 1 .. Started : sizes'[k] = sizes[k]
  BY <1>1, AppendTo, TxFields DEF TypeInv, Started
<1>5. FragmentsSent(size) \in Nat /\ FragmentsSent(size) >= 1
  BY FragmentsSentType, SizeFacts
<1> DEFINE n == FragmentsSent(size)
<1>6. T[Started] \in Nat /\ T \in [0 .. Started -> Nat]
  BY <1>4 DEF Totals
<1>7. PICK U : /\ U \in [0 .. Started + 1 -> Nat] /\ U[Started + 1] = T[Started] + n
               /\ \A k \in 0 .. Started : U[k] = T[k]
  <2> DEFINE V == [k \in 0 .. Started + 1 |-> IF k = Started + 1 THEN T[Started] + n ELSE T[k]]
  <2>1. /\ V \in [0 .. Started + 1 -> Nat] /\ V[Started + 1] = T[Started] + n
        /\ \A k \in 0 .. Started : V[k] = T[k]
    BY <1>4, <1>5, <1>6
  <2> HIDE DEF V
  <2> QED
    BY <2>1
<1>8. Totals(U)'
  <2>1. U[0] = 0
    BY <1>3, <1>4, <1>7 DEF Totals
  <2>2. ASSUME NEW k \in 1 .. Started + 1 PROVE U[k] = U[k - 1] + FragmentsSent(sizes'[k])
    <3>1. CASE k = Started + 1
      BY <1>4, <1>7, <3>1
    <3>2. CASE k # Started + 1
      <4>1. k \in 1 .. Started /\ k - 1 \in 0 .. Started /\ k \in 0 .. Started
        BY <1>4, <3>2
      <4> QED
        BY <1>3, <1>4, <1>7, <4>1 DEF Totals
    <3> QED
      BY <3>1, <3>2
  <2>3. ASSUME NEW j \in 0 .. Started + 1, NEW k \in 0 .. Started + 1, j < k PROVE U[j] < U[k]
    <3>1. j \in 0 .. Started /\ U[j] = T[j] /\ T[j] \in Nat
      BY <1>4, <1>6, <1>7, <2>3
    <3>2. CASE k = Started + 1
      <4>1. CASE j = Started
        BY <1>4, <1>5, <1>6, <1>7, <3>1, <3>2, <4>1
      <4>2. CASE j # Started
        <5>1. T[j] < T[Started]
          BY <1>3, <1>4, <3>1, <4>2 DEF Totals
        <5> QED
          BY <1>5, <1>6, <1>7, <3>1, <3>2, <5>1
      <4> QED
        BY <4>1, <4>2
    <3>3. CASE k # Started + 1
      <4>1. k \in 0 .. Started
        BY <1>4, <3>3
      <4> QED
        BY <1>3, <1>7, <2>3, <3>1, <4>1 DEF Totals
    <3> QED
      BY <3>2, <3>3
  <2> QED
    BY <1>4, <1>7, <2>1, <2>2, <2>3 DEF Totals
<1>9. /\ Finished = Started /\ Finished' = Started
      /\ Acked(T) = T[Started] - Len(tx.queue) /\ Acked(T) \in Int /\ Called(T) \in Int
  <2>1. Sending'
    BY <1>2, <1>5 DEF Sending
  <2> QED
    BY <1>1, <1>3, <1>4, <2>1, AckedFacts DEF Finished
<1>10. Acked(U)' = Acked(T) /\ Called(U)' = Called(T)
  <2>1. U[Finished'] = T[Started]
    BY <1>4, <1>7, <1>9
  <2>2. Acked(U)' = U[Finished'] + (IF Sending' THEN tx'.done ELSE 0) - Len(tx'.queue)
    BY DEF Acked
  <2>3. Acked(U)' = T[Started] - Len(tx.queue)
    <3>1. Len(tx.queue) \in Nat
      BY TxFields DEF TypeInv
    <3> QED
      BY <1>2, <1>6, <2>1, <2>2, <3>1
  <2> QED
    BY <1>2, <1>9, <2>3 DEF Called
<1> QED
  BY <1>4, <1>5, <1>6, <1>7, <1>8, <1>9, <1>10

LEMMA StartSendReports ==
  ASSUME FragAssumption, TypeInv, SuccessInv, NEW size \in Sizes, StartSend(size)
  PROVE  SuccessInv'
<1> SUFFICES ASSUME AllSent' PROVE \E T : Totals(T)' /\ Reports(T)' /\ Arrivals(T)'
  BY DEF SuccessInv
<1>1. /\ tx'.queue = tx.queue /\ tx'.meta = tx.meta /\ tx'.acks = tx.acks /\ tx'.sent = tx.sent
      /\ tx'.reported = tx.reported /\ tx'.remaining = tx.remaining
      /\ tx'.torn = tx.torn /\ tx'.unnoted = tx.unnoted /\ cfg' = cfg
  BY StartSendFields
<1>2. PICK T : Totals(T) /\ Reports(T) /\ Arrivals(T)
  BY <1>1 DEF SuccessInv, AllSent
<1> DEFINE n == FragmentsSent(size)
<1>3. /\ Started \in Nat /\ Started' = Started + 1 /\ Finished = Started /\ Finished' = Started
      /\ T[Started] \in Nat /\ n \in Nat /\ n >= 1
      /\ Acked(T) = T[Started] - Len(tx.queue) /\ Acked(T) \in Int /\ Called(T) \in Int
  BY <1>2, StartSendTotals
<1>4. PICK U : /\ Totals(U)' /\ U[Started + 1] = T[Started] + n
               /\ \A k \in 0 .. Started : U[k] = T[k]
               /\ Acked(U)' = Acked(T) /\ Called(U)' = Called(T)
  BY <1>2, StartSendTotals
<1> HIDE DEF n
<1>5. tx.reported \in Nat /\ Len(tx.meta) \in Nat /\ Len(tx.queue) \in Nat
       /\ DOMAIN tx.meta = 1 .. Len(tx.meta) /\ DOMAIN tx.queue = 1 .. Len(tx.queue)
       /\ tx.reported + Len(tx.meta) = Started /\ (tx.meta # <<>> => Len(tx.meta) >= 1)
  BY SMTT(30), <1>2, <1>3, TxFields DEF TypeInv, Reports
<1>6. Reports(U)'
  <2>1. U[tx.reported] = T[tx.reported]
    <3>1. tx.reported \in 0 .. Started
      BY <1>3, <1>5
    <3> QED
      BY <1>4, <3>1
  <2>2. tx.meta # <<>> => U[tx.reported + 1] = T[tx.reported + 1]
    <3>1. tx.meta # <<>> => tx.reported + 1 \in 0 .. Started
      BY SMTT(30), <1>3, <1>5
    <3> QED
      BY <1>4, <3>1
  <2>3. ASSUME NEW i \in DOMAIN tx.meta
        PROVE  tx.meta[i] + 1 >= U[tx.reported + i] - U[tx.reported + i - 1]
    <3>1. tx.reported + i \in 0 .. Started /\ tx.reported + i - 1 \in 0 .. Started
      <4> DEFINE r == tx.reported
                 m == Len(tx.meta)
      <4>1. r \in Nat /\ m \in Nat /\ i \in 1 .. m /\ Started = r + m
        BY <1>5
      <4> HIDE DEF r, m
      <4>2. r + i \in 0 .. Started /\ r + i - 1 \in 0 .. Started
        BY <4>1
      <4> QED
        BY <4>2 DEF r
    <3>2. U[tx.reported + i] = T[tx.reported + i] /\ U[tx.reported + i - 1] = T[tx.reported + i - 1]
      BY <1>4, <3>1
    <3>3. tx.meta[i] + 1 >= T[tx.reported + i] - T[tx.reported + i - 1]
      BY <1>2 DEF Reports
    <3> QED
      BY <3>2, <3>3
  <2> QED
    BY <1>1, <1>2, <1>3, <1>4, <2>1, <2>2, <2>3 DEF Reports
<1>7. Arrivals(U)'
  <2>1. ASSUME NEW k \in 0 .. Started + 1, U[k] <= Acked(T) PROVE k <= tx.sent
    <3>1. CASE k = Started + 1
      BY SMTT(30), <1>3, <1>4, <1>5, <2>1, <3>1
    <3>2. CASE k # Started + 1
      <4>1. k \in 0 .. Started
        BY <1>3, <3>2
      <4> QED
        BY <1>2, <1>4, <2>1, <4>1 DEF Arrivals
    <3> QED
      BY <3>1, <3>2
  <2>2. ASSUME NEW i \in DOMAIN tx.queue, NEW k \in 1 .. Started + 1, Acked(T) + i = U[k]
        PROVE  Ends(tx.queue[i])
    <3>1. CASE k = Started + 1
      BY SMTT(30), <1>3, <1>4, <1>5, <2>2, <3>1
    <3>2. CASE k # Started + 1
      <4>1. k \in 1 .. Started /\ k \in 0 .. Started
        BY <1>3, <3>2
      <4> QED
        BY <1>2, <1>4, <2>2, <4>1 DEF Arrivals
    <3> QED
      BY <3>1, <3>2
  <2> QED
    BY <1>1, <1>3, <1>4, <2>1, <2>2 DEF Arrivals, Ends
<1> QED
  BY <1>4, <1>6, <1>7

\* The totals grow strictly, so a number between two of them is none.
LEMMA NoTotalBetween ==
  ASSUME TypeInv, NEW T, Totals(T), Started >= 1, NEW k \in 1 .. Started, NEW a \in Int,
         T[Started - 1] < a, a = T[k]
  PROVE  k = Started /\ a = T[Started]
<1>1. Started \in Nat /\ Started - 1 \in 0 .. Started /\ k \in 0 .. Started
  BY SMTT(30), TxFields DEF TypeInv
<1>2. T[Started - 1] \in Nat /\ T[k] \in Nat
  BY <1>1 DEF Totals
<1>3. CASE k < Started - 1
  BY <1>1, <1>2, <1>3 DEF Totals
<1>4. CASE k = Started - 1
  BY <1>2, <1>4
<1> QED
  BY <1>1, <1>3, <1>4

\* What a fragment carries that wps_frag_send queues, and at which place.
LEMMA SendFragmentFields ==
  ASSUME FragAssumption, TypeInv, SendFragment, tx'.torn = {}, NEW T, Totals(T)
  PROVE  \E f \in FragmentType :
           /\ tx'.queue = Append(tx.queue, f) /\ f.payload = Started /\ f.num = tx.done /\ f.id = tx.id
           /\ Ends(f) <=> tx.done = tx.count - 1
           /\ f.kind = "full" <=> tx.count = 1
           /\ f.kind = "last" <=> tx.count > 1 /\ tx.done = tx.count - 1
           /\ tx'.done = tx.done + 1 /\ tx'.count = tx.count /\ tx'.id = tx.id
           /\ tx'.meta = tx.meta /\ tx'.acks = tx.acks /\ tx'.sent = tx.sent
           /\ tx'.reported = tx.reported /\ tx'.remaining = tx.remaining
           /\ tx'.torn = tx.torn /\ tx'.moved = tx.moved /\ tx'.unnoted = tx.unnoted
           /\ Sending /\ tx.done < tx.count
           /\ cfg' = cfg /\ sizes' = sizes /\ rx' = rx /\ out' = out /\ reads' = reads
           /\ Acked(T)' = Acked(T)
<1> DEFINE f == Fragment(Started, tx.done, tx.count, tx.id)
<1>1. /\ tx \in TxStates /\ Sending /\ tx.done < tx.count
      /\ cfg' = cfg /\ sizes' = sizes /\ rx' = rx /\ out' = out /\ reads' = reads
  BY DEF SendFragment, TypeInv, TypeOK
<1>2. Len(tx.queue) < TxQueueSize
  <2> SUFFICES ASSUME ~(Len(tx.queue) < TxQueueSize) PROVE FALSE
    OBVIOUS
  <2>1. tx' = [tx EXCEPT !.count = 0, !.torn = @ \cup {Started}]
    BY DEF SendFragment
  <2>2. Started \in tx'.torn
    BY <1>1, <2>1 DEF TxStates
  <2> QED
    BY <2>2
<1>3. /\ f \in FragmentType /\ f.payload = Started /\ f.num = tx.done /\ f.id = tx.id
      /\ Ends(f) <=> tx.done = tx.count - 1
      /\ f.kind = "full" <=> tx.count = 1
      /\ f.kind = "last" <=> tx.count > 1 /\ tx.done = tx.count - 1
  <2> DEFINE d == tx.done
             n == tx.count
             s == Started
             id == tx.id
  <2>1. s \in Nat /\ d \in Nat /\ n \in Nat /\ id \in 0 .. MaxTransactionId - 1 /\ d < n
    BY <1>1, TxFields DEF TypeInv
  <2>2. f = Fragment(s, d, n, id)
    OBVIOUS
  <2> HIDE DEF d, n, s, id, f
  <2>3. /\ f \in FragmentType /\ f.payload = s /\ f.num = d /\ f.id = id
        /\ Ends(f) <=> d = n - 1
        /\ f.kind = "full" <=> n = 1
        /\ f.kind = "last" <=> n > 1 /\ d = n - 1
    BY <2>1, <2>2, FragmentFacts
  <2> QED
    BY <2>3 DEF d, n, s, id
<1>4. tx' = [tx EXCEPT !.queue = Append(@, f), !.done = @ + 1]
  BY <1>2 DEF SendFragment
<1> HIDE DEF f
<1>5. /\ tx'.queue = Append(tx.queue, f) /\ tx'.done = tx.done + 1 /\ tx'.count = tx.count
      /\ tx'.id = tx.id /\ tx'.meta = tx.meta /\ tx'.acks = tx.acks /\ tx'.sent = tx.sent
      /\ tx'.reported = tx.reported /\ tx'.remaining = tx.remaining
      /\ tx'.torn = tx.torn /\ tx'.moved = tx.moved /\ tx'.unnoted = tx.unnoted
  BY <1>1, <1>4 DEF TxStates
<1>6. Sending' /\ Finished' = Finished
  BY <1>1, <1>5 DEF Sending, Started, Finished
<1>7. T[Finished] \in Nat /\ Acked(T) = T[Finished] + tx.done - Len(tx.queue)
  BY <1>1, AckedFacts
<1>8. tx.done \in Nat /\ Len(tx.queue) \in Nat /\ Len(tx'.queue) = Len(tx.queue) + 1
  <2>1. tx.queue \in Seq(FragmentType) /\ tx.done \in Nat
    BY TxFields DEF TypeInv
  <2> QED
    BY <1>3, <1>5, <2>1
<1>9. Acked(T)' = Acked(T)
  <2> DEFINE d == tx.done
             q == Len(tx.queue)
             b == T[Finished]
  <2>1. Acked(T)' = b + (d + 1) - (q + 1)
    <3>1. Acked(T)' = T[Finished]' + (IF Sending' THEN tx'.done ELSE 0) - Len(tx'.queue)
      BY DEF Acked
    <3>2. T[Finished]' = b
      BY <1>6
    <3> QED
      BY <1>5, <1>6, <1>8, <3>1, <3>2
  <2>2. Acked(T) = b + d - q /\ b \in Nat /\ d \in Nat /\ q \in Nat
    BY <1>7, <1>8
  <2> HIDE DEF d, q, b
  <2> QED
    BY <2>1, <2>2
<1> QED
  BY <1>1, <1>3, <1>5, <1>9

LEMMA SendFragmentReports ==
  ASSUME FragAssumption, TypeInv, SuccessInv, SendFragment
  PROVE  SuccessInv'
<1> SUFFICES ASSUME AllSent' PROVE \E T : Totals(T)' /\ Reports(T)' /\ Arrivals(T)'
  BY DEF SuccessInv
<1>1. cfg' = cfg /\ sizes' = sizes /\ tx'.torn = {} /\ ~cfg.lossy /\ ~cfg.preempt /\ ~tx'.unnoted
  BY DEF AllSent, SendFragment
<1>2. AllSent
  <2>1. tx'.unnoted = tx.unnoted /\ tx.torn \subseteq tx'.torn
    <3>1. tx \in TxStates
      BY DEF TypeInv, TypeOK
    <3>2. \/ tx' = [tx EXCEPT !.queue = tx'.queue, !.done = @ + 1]
          \/ tx' = [tx EXCEPT !.count = 0, !.torn = @ \cup {Started}]
      BY <3>1 DEF SendFragment, TxStates
    <3> QED
      BY <3>1, <3>2 DEF TxStates
  <2> QED
    BY <1>1, <2>1 DEF AllSent
<1>3. PICK T : Totals(T) /\ Reports(T) /\ Arrivals(T)
  BY <1>2 DEF SuccessInv
<1>4. PICK f \in FragmentType :
        /\ tx'.queue = Append(tx.queue, f) /\ (Ends(f) <=> tx.done = tx.count - 1)
        /\ tx'.count = tx.count /\ tx'.meta = tx.meta /\ tx'.acks = tx.acks /\ tx'.sent = tx.sent
        /\ tx'.reported = tx.reported /\ tx'.remaining = tx.remaining
        /\ Sending /\ Acked(T)' = Acked(T)
  BY <1>1, <1>3, SendFragmentFields
<1>5. Started' = Started /\ Finished' = Finished
  BY <1>1, <1>4 DEF Sending, Started, Finished
<1>6. Called(T)' = Called(T)
  BY <1>4 DEF Called
<1>7. /\ Finished = Started - 1 /\ Started >= 1 /\ Started \in Nat
      /\ T[Started] \in Nat /\ T[Finished] \in Nat /\ T[Started] = T[Finished] + tx.count
      /\ Acked(T) = T[Finished] + tx.done - Len(tx.queue) /\ Acked(T) \in Int
  BY <1>3, <1>4, AckedFacts
<1>8. tx.done \in Nat /\ tx.count \in Nat /\ Len(tx.queue) \in Nat /\ Len(tx'.queue) = Len(tx.queue) + 1
      /\ DOMAIN tx.queue = 1 .. Len(tx.queue) /\ DOMAIN tx'.queue = 1 .. Len(tx.queue) + 1
      /\ tx'.queue[Len(tx.queue) + 1] = f /\ \A i \in DOMAIN tx.queue : tx'.queue[i] = tx.queue[i]
  <2>1. tx.queue \in Seq(FragmentType) /\ tx.done \in Nat /\ tx.count \in Nat
    BY TxFields DEF TypeInv
  <2> QED
    BY <1>4, <2>1
<1>9. Reports(T)'
  BY <1>3, <1>4, <1>5, <1>6 DEF Reports
<1>10. ASSUME NEW i \in DOMAIN tx'.queue, NEW k \in 1 .. Started, Acked(T) + i = T[k]
       PROVE  Ends(tx'.queue[i])
  <2>1. CASE i = Len(tx.queue) + 1
    <3> DEFINE d == tx.done
               n == tx.count
               q == Len(tx.queue)
               b == T[Finished]
               a == b + d + 1
    <3>1. /\ b \in Nat /\ d \in Nat /\ q \in Nat /\ n \in Nat /\ b = T[Started - 1]
          /\ T[Started] = b + n /\ (b + d - q) + (q + 1) = T[k]
      BY <1>7, <1>8, <1>10, <2>1
    <3> HIDE DEF b, d, n, q
    <3>2. a = T[k] /\ a \in Int /\ T[Started - 1] < a
      BY <3>1
    <3> HIDE DEF a
    <3>3. a = T[Started]
      BY <1>3, <1>7, <3>2, NoTotalBetween
    <3>4. d = n - 1
      BY <3>1, <3>3 DEF a
    <3>5. tx.done = tx.count - 1
      BY <3>4 DEF d, n
    <3> QED
      BY <1>4, <1>8, <2>1, <3>5
  <2>2. CASE i # Len(tx.queue) + 1
    <3>1. i \in DOMAIN tx.queue
      BY <1>8, <2>2
    <3> QED
      BY <1>3, <1>8, <1>10, <3>1 DEF Arrivals
  <2> QED
    BY <2>1, <2>2
<1>11. Arrivals(T)'
  BY <1>3, <1>4, <1>5, <1>10 DEF Arrivals, Ends
<1> QED
  BY <1>1, <1>3, <1>9, <1>11, TotalsStay

LEMMA FinishSendAcked ==
  ASSUME FragAssumption, TypeInv, FinishSend, NEW T, Totals(T)
  PROVE  Acked(T)' = Acked(T)
<1>1. tx.done = tx.count /\ Sending /\ tx'.queue = tx.queue /\ tx'.count = 0 /\ sizes' = sizes
  BY FinishSendFields DEF FinishSend
<1>2. /\ Started \in Nat /\ T[Started] \in Nat /\ T[Finished] \in Nat
      /\ T[Started] = T[Finished] + tx.count /\ Acked(T) = T[Finished] + tx.done - Len(tx.queue)
  BY <1>1, AckedFacts
<1>3. Started' = Started /\ ~Sending' /\ Finished' = Started
  BY <1>1 DEF Sending, Started, Finished
<1>4. tx.count \in Nat /\ Len(tx.queue) \in Nat
  BY TxFields DEF TypeInv
<1>5. Acked(T)' = T[Started] + 0 - Len(tx.queue)
  BY <1>1, <1>3 DEF Acked
<1> QED
  BY <1>1, <1>2, <1>4, <1>5

LEMMA FinishSendReports ==
  ASSUME FragAssumption, TypeInv, SuccessInv, FinishSend
  PROVE  SuccessInv'
<1> SUFFICES ASSUME AllSent' PROVE \E T : Totals(T)' /\ Reports(T)' /\ Arrivals(T)'
  BY DEF SuccessInv
<1>1. /\ tx' \in TxStates /\ tx.done = tx.count /\ Sending
      /\ tx'.queue = tx.queue /\ tx'.count = 0 /\ tx'.acks = tx.acks
      /\ tx'.sent = tx.sent /\ tx'.reported = tx.reported /\ tx'.torn = tx.torn
      /\ cfg' = cfg /\ sizes' = sizes
  BY FinishSendFields DEF FinishSend
<1>2. PICK fragments \in Nat :
        /\ fragments + 1 >= tx.count
        /\ tx'.meta = Append(tx.meta, fragments)
        /\ tx'.remaining = IF tx.remaining = 0 THEN fragments ELSE tx.remaining
        /\ tx'.unnoted = tx.unnoted
  BY FinishSendFields DEF AllSent
<1>3. PICK T : Totals(T) /\ Reports(T) /\ Arrivals(T)
  BY <1>1, <1>2 DEF SuccessInv, AllSent
<1>4. /\ Finished = Started - 1 /\ Started >= 1 /\ Started \in Nat
      /\ T[Started] \in Nat /\ T[Finished] \in Nat /\ T[Started] = T[Finished] + tx.count
      /\ Acked(T) = T[Finished] + tx.done - Len(tx.queue) /\ Acked(T) \in Int /\ Called(T) \in Int
  BY <1>1, <1>3, AckedFacts
<1>5. Started' = Started /\ ~Sending' /\ Finished' = Started
  BY <1>1 DEF Sending, Started, Finished
<1>6. /\ tx.meta \in Seq(Nat) /\ Len(tx.meta) \in Nat /\ tx.reported \in Nat /\ tx.remaining \in Nat
      /\ tx.count \in Nat /\ Len(tx.queue) \in Nat
  BY TxFields DEF TypeInv
<1>7. /\ Len(tx'.meta) = Len(tx.meta) + 1 /\ tx'.meta # <<>>
      /\ tx'.meta[Len(tx.meta) + 1] = fragments /\ \A i \in DOMAIN tx.meta : tx'.meta[i] = tx.meta[i]
      /\ \A i \in DOMAIN tx'.meta : i = Len(tx.meta) + 1 \/ i \in DOMAIN tx.meta
  <2> DEFINE m == tx.meta
             w == tx'.meta
  <2>1. m \in Seq(Nat) /\ w = Append(m, fragments)
    BY <1>2, <1>6
  <2> HIDE DEF m, w
  <2>2. /\ Len(w) = Len(m) + 1 /\ w # <<>> /\ w[Len(m) + 1] = fragments
        /\ \A i \in DOMAIN m : w[i] = m[i]
        /\ \A i \in DOMAIN w : i = Len(m) + 1 \/ i \in DOMAIN m
    BY <2>1, AppendTo
  <2> QED
    BY <2>2 DEF m, w
<1>8. Acked(T)' = Acked(T) /\ Called(T)' = Called(T)
  <2>1. Acked(T)' = Acked(T)
    BY <1>3, FinishSendAcked
  <2> QED
    BY <1>1, <2>1 DEF Called
<1>9. tx.reported + Len(tx.meta) = Started - 1
  BY <1>3, <1>4 DEF Reports
<1>10. Reports(T)'
  <2> DEFINE r == tx.reported
             m == Len(tx.meta)
             n == tx.count
             b == T[Finished]
             c == Called(T)
             e == tx.remaining
  <2>0. /\ r \in Nat /\ m \in Nat /\ n \in Nat /\ b \in Nat /\ c \in Int /\ e \in Nat
        /\ Started \in Nat /\ r + m = Started - 1 /\ T[Started] = b + n /\ fragments \in Nat
        /\ fragments + 1 >= n /\ tx'.remaining = IF e = 0 THEN fragments ELSE e
    BY <1>2, <1>4, <1>6, <1>9
  <2>1. tx'.reported + Len(tx'.meta) = Finished'
    <3>1. tx'.reported = r /\ Len(tx'.meta) = m + 1 /\ Finished' = Started
      BY <1>1, <1>5, <1>7
    <3> HIDE DEF r, m, n, b, c, e
    <3> QED
      BY <2>0, <3>1
  <2>2. ASSUME NEW i \in DOMAIN tx'.meta
        PROVE  tx'.meta[i] + 1 >= T[tx.reported + i] - T[tx.reported + i - 1]
    <3>1. CASE i = Len(tx.meta) + 1
      <4>1. i = m + 1 /\ b = T[Started - 1] /\ tx'.meta[i] = fragments
        BY <1>4, <1>7, <3>1
      <4> HIDE DEF r, m, n, b, c, e
      <4>2. r + i = Started /\ r + i - 1 = Started - 1
        BY <2>0, <4>1
      <4>3. fragments + 1 >= T[r + i] - T[r + i - 1]
        BY <2>0, <4>1, <4>2
      <4> QED
        BY <4>1, <4>3 DEF r
    <3>2. CASE i # Len(tx.meta) + 1
      <4>1. i \in DOMAIN tx.meta
        BY <1>7, <3>2
      <4> QED
        BY <1>3, <1>7, <4>1 DEF Reports
    <3> QED
      BY <3>1, <3>2
  <2>3. Called(T) + tx'.remaining + 1 >= T[tx.reported + 1]
    <3>1. CASE tx.meta = <<>>
      <4>1. m = 0 /\ e = 0 /\ c >= T[r] /\ b = T[Started - 1]
        BY <1>3, <1>4, <3>1 DEF Reports
      <4> HIDE DEF r, m, n, b, c, e
      <4>2. r = Started - 1 /\ r + 1 = Started /\ tx'.remaining = fragments
        BY <2>0, <4>1
      <4>3. c >= b /\ T[r + 1] = b + n
        BY <2>0, <4>1, <4>2
      <4>4. c + tx'.remaining + 1 >= T[r + 1]
        BY <2>0, <4>2, <4>3
      <4> QED
        BY <4>4 DEF c, r
    <3>2. CASE tx.meta # <<>>
      <4>1. c + e + 1 >= T[r + 1] /\ m >= 1
        BY <1>3, <1>6, <3>2 DEF Reports
      <4> HIDE DEF r, m, n, b, c, e
      <4>2. r + 1 \in 0 .. Started
        BY <2>0, <4>1
      <4>3. T[r + 1] \in Nat
        BY <1>3, <4>2 DEF Totals
      <4>4. tx'.remaining \in Nat /\ tx'.remaining >= e
        BY <2>0
      <4>5. c + tx'.remaining + 1 >= T[r + 1]
        BY <2>0, <4>1, <4>3, <4>4
      <4> QED
        BY <4>5 DEF c, r
    <3> QED
      BY <3>1, <3>2
  <2> QED
    BY <1>1, <1>3, <1>7, <1>8, <2>1, <2>2, <2>3 DEF Reports
<1>11. Arrivals(T)'
  BY <1>1, <1>3, <1>5, <1>8 DEF Arrivals, Ends
<1> QED
  BY <1>1, <1>3, <1>10, <1>11, TotalsStay

LEMMA TxSuccessReports ==
  ASSUME FragAssumption, TypeInv, SuccessInv, TxSuccessCallback
  PROVE  SuccessInv'
<1> SUFFICES ASSUME AllSent' PROVE \E T : Totals(T)' /\ Reports(T)' /\ Arrivals(T)'
  BY DEF SuccessInv
<1>1. /\ tx' \in TxStates /\ tx.acks > 0 /\ tx'.acks = tx.acks - 1
      /\ tx'.queue = tx.queue /\ tx'.count = tx.count /\ tx'.done = tx.done
      /\ tx'.torn = tx.torn /\ tx'.unnoted = tx.unnoted /\ tx'.sent = tx.sent
  BY TxSuccessFields
<1>2. cfg' = cfg /\ sizes' = sizes /\ (Sending => cfg.preempt)
  BY DEF TxSuccessCallback
<1>3. PICK T : Totals(T) /\ Reports(T) /\ Arrivals(T)
  BY <1>1, <1>2 DEF SuccessInv, AllSent
<1>4. ~Sending /\ ~Sending' /\ Started' = Started /\ Finished' = Finished
  BY <1>1, <1>2 DEF AllSent, Sending, Started, Finished
<1>5. /\ Finished = Started /\ Started \in Nat /\ T[Started] \in Nat
      /\ Acked(T) = T[Started] - Len(tx.queue) /\ Acked(T) \in Int /\ Called(T) \in Int
  <2>1. T[Finished] \in Nat /\ Finished = Started
    BY <1>3, <1>4, AckedFacts
  <2> QED
    BY <1>3, <1>4, <2>1, AckedFacts
<1>6. /\ tx.meta \in Seq(Nat) /\ Len(tx.meta) \in Nat /\ tx.reported \in Nat /\ tx.remaining \in Nat
      /\ tx.acks \in Nat /\ Len(tx.queue) \in Nat
  BY TxFields DEF TypeInv
<1>7. Acked(T)' = Acked(T) /\ Called(T)' = Called(T) + 1
  <2>1. Acked(T)' = Acked(T)
    BY <1>1, <1>4 DEF Acked
  <2> QED
    BY <1>1, <1>5, <1>6, <2>1 DEF Called
<1>8. Arrivals(T)'
  BY <1>1, <1>3, <1>4, <1>7 DEF Arrivals, Ends
<1>9. tx.reported + Len(tx.meta) = Started
  BY <1>3, <1>5 DEF Reports
<1>10. tx.reported \in 0 .. Started /\ T[tx.reported] \in Nat /\ Called(T) >= T[tx.reported]
  <2>1. tx.reported \in 0 .. Started
    BY <1>5, <1>6, <1>9
  <2> QED
    BY <1>3, <2>1 DEF Totals, Reports
<1>11. tx.meta # <<>>
  <2> SUFFICES ASSUME tx.meta = <<>> PROVE FALSE
    OBVIOUS
  <2>1. tx.reported = Started
    BY <1>6, <1>9
  <2>2. Called(T) = T[Started] - Len(tx.queue) - tx.acks
    BY <1>5 DEF Called
  <2> QED
    BY SMTT(30), <1>1, <1>5, <1>6, <1>10, <2>1, <2>2
<1>12. /\ Len(tx.meta) >= 1 /\ tx.reported + 1 \in 0 .. Started /\ T[tx.reported + 1] \in Nat
       /\ Called(T) + tx.remaining + 1 >= T[tx.reported + 1]
  <2>1. Len(tx.meta) >= 1
    BY <1>6, <1>11
  <2>2. tx.reported + 1 \in 0 .. Started
    BY SMTT(30), <1>5, <1>6, <1>9, <2>1
  <2> QED
    BY <1>3, <1>11, <2>1, <2>2 DEF Totals, Reports
<1>13. CASE /\ tx.remaining > 0 /\ tx'.remaining = tx.remaining - 1
            /\ tx'.meta = tx.meta /\ tx'.reported = tx.reported
  <2>1. (Called(T) + 1) + tx'.remaining + 1 >= T[tx.reported + 1]
    BY SMTT(30), <1>5, <1>6, <1>12, <1>13
  <2>2. Called(T) + 1 >= T[tx.reported]
    BY <1>5, <1>10
  <2>3. Reports(T)'
    BY <1>3, <1>4, <1>7, <1>11, <1>13, <2>1, <2>2 DEF Reports
  <2> QED
    BY <1>2, <1>3, <1>8, <2>3, TotalsStay
<1>14. CASE /\ tx.remaining = 0 /\ tx'.reported = tx.reported + 1
            /\ Len(tx.meta) > 1 /\ tx'.meta = Tail(tx.meta) /\ tx'.remaining = tx.meta[2]
  <2> DEFINE r == tx.reported
             m == Len(tx.meta)
             c == Called(T)
  <2>0. /\ r \in Nat /\ m \in Nat /\ m > 1 /\ c \in Int /\ Started \in Nat /\ r + m = Started
        /\ r + 1 \in 0 .. Started /\ T[r + 1] \in Nat /\ c + 1 >= T[r + 1]
    <3>1. c + 0 + 1 >= T[r + 1]
      BY <1>12, <1>14
    <3>2. c + 1 >= T[r + 1]
      BY <1>5, <3>1
    <3> QED
      BY <1>5, <1>6, <1>9, <1>12, <1>14, <3>2
  <2>1. /\ Len(tx'.meta) = m - 1 /\ tx'.meta # <<>> /\ 2 \in DOMAIN tx.meta /\ tx.meta[2] \in Nat
        /\ \A i \in DOMAIN tx'.meta : i + 1 \in DOMAIN tx.meta /\ tx'.meta[i] = tx.meta[i + 1]
        /\ \A i \in DOMAIN tx'.meta : i \in Nat
    <3> DEFINE w == tx.meta
    <3>1. w \in Seq(Nat) /\ Len(w) > 1 /\ tx'.meta = Tail(w)
      BY <1>6, <1>14
    <3> HIDE DEF w
    <3>2. w # <<>> /\ 2 \in DOMAIN w /\ w[2] \in Nat
      BY <3>1
    <3>3. /\ Tail(w) \in Seq(Nat) /\ Len(Tail(w)) = Len(w) - 1
          /\ \A i \in DOMAIN Tail(w) : i + 1 \in DOMAIN w /\ Tail(w)[i] = w[i + 1]
      <4>1. w \in Seq(Nat) /\ w # <<>>
        BY <3>1, <3>2
      <4> QED
        BY <4>1, TailOf
    <3>4. Tail(w) # <<>> /\ DOMAIN Tail(w) = 1 .. Len(Tail(w)) /\ Len(Tail(w)) \in Nat
      <4> DEFINE v == Tail(w)
      <4>1. v \in Seq(Nat) /\ Len(v) = Len(w) - 1 /\ Len(w) \in Nat /\ Len(w) > 1
        BY <3>1, <3>3
      <4> HIDE DEF v
      <4>2. v # <<>> /\ DOMAIN v = 1 .. Len(v) /\ Len(v) \in Nat
        BY <4>1
      <4> QED
        BY <4>2 DEF v
    <3>5. \A i \in DOMAIN Tail(w) : i \in Nat
      BY <3>4
    <3> QED
      BY <3>1, <3>2, <3>3, <3>4, <3>5 DEF w
  <2>2. tx'.reported + Len(tx'.meta) = Finished'
    <3>1. tx'.reported = r + 1 /\ Finished' = Started
      BY <1>4, <1>5, <1>14
    <3> HIDE DEF r, m, c
    <3> QED
      BY <2>0, <2>1, <3>1
  <2>3. ASSUME NEW i \in DOMAIN tx'.meta
        PROVE  tx'.meta[i] + 1 >= T[tx'.reported + i] - T[tx'.reported + i - 1]
    <3>1. i \in Nat /\ i + 1 \in DOMAIN tx.meta /\ tx'.meta[i] = tx.meta[i + 1] /\ tx'.reported = r + 1
      BY <1>14, <2>1
    <3>2. tx.meta[i + 1] + 1 >= T[r + (i + 1)] - T[r + (i + 1) - 1]
      BY <1>3, <3>1 DEF Reports
    <3> HIDE DEF r, m, c
    <3>3. tx'.reported + i = r + (i + 1) /\ tx'.reported + i - 1 = r + (i + 1) - 1
      BY <2>0, <3>1
    <3> QED
      BY <3>1, <3>2, <3>3
  <2>4. c + 1 + tx'.remaining + 1 >= T[tx'.reported + 1]
    <3> DEFINE e == tx.meta[2]
    <3>1. e + 1 >= T[r + 2] - T[r + 2 - 1]
      BY <1>3, <2>1 DEF Reports
    <3>2. e \in Nat /\ tx'.remaining = e /\ tx'.reported = r + 1
      BY <1>14, <2>1
    <3> HIDE DEF r, m, c, e
    <3>3. r + 2 \in 0 .. Started /\ r + 2 - 1 = r + 1 /\ tx'.reported + 1 = r + 2
      BY <2>0, <3>2
    <3>4. T[r + 2] \in Nat
      BY <1>3, <3>3 DEF Totals
    <3> QED
      BY <2>0, <3>1, <3>2, <3>3, <3>4
  <2>5. c + 1 >= T[tx'.reported]
    BY <1>14, <2>0
  <2>6. tx'.meta # <<>>
    BY <2>1
  <2>7. Reports(T)'
    BY <1>7, <2>2, <2>3, <2>4, <2>5, <2>6 DEF Reports
  <2> QED
    BY <1>2, <1>3, <1>8, <2>7, TotalsStay
<1>15. CASE /\ tx.remaining = 0 /\ tx'.reported = tx.reported + 1
            /\ Len(tx.meta) <= 1 /\ tx'.meta = <<>> /\ tx'.remaining = 0
  <2>1. tx'.reported + Len(tx'.meta) = Finished'
    BY <1>4, <1>5, <1>6, <1>9, <1>12, <1>15
  <2>2. Called(T) + 1 >= T[tx'.reported]
    BY <1>5, <1>12, <1>15
  <2>3. Reports(T)'
    BY <1>7, <1>15, <2>1, <2>2 DEF Reports
  <2> QED
    BY <1>2, <1>3, <1>8, <2>3, TotalsStay
<1> QED
  BY <1>13, <1>14, <1>15, TxSuccessFields

LEMMA CarryReports ==
  ASSUME FragAssumption, TypeInv, SuccessInv, NEW arrives \in BOOLEAN, NEW acknowledged \in BOOLEAN,
         Carry(arrives, acknowledged), acknowledged
  PROVE  SuccessInv'
<1> SUFFICES ASSUME AllSent' PROVE \E T : Totals(T)' /\ Reports(T)' /\ Arrivals(T)'
  BY DEF SuccessInv
<1>1. /\ tx.queue # <<>> /\ tx'.queue = Tail(tx.queue) /\ tx'.acks = tx.acks + 1
      /\ tx'.sent = IF Ends(Head(tx.queue)) THEN tx.sent + 1 ELSE tx.sent
      /\ tx'.count = tx.count /\ tx'.done = tx.done /\ tx'.torn = tx.torn
      /\ tx'.unnoted = tx.unnoted /\ tx'.meta = tx.meta /\ tx'.remaining = tx.remaining
      /\ tx'.reported = tx.reported /\ cfg' = cfg /\ sizes' = sizes
  BY CarryFields DEF Carry
<1>2. PICK T : Totals(T) /\ Reports(T) /\ Arrivals(T)
  BY <1>1 DEF SuccessInv, AllSent
<1>3. (Sending' <=> Sending) /\ Started' = Started /\ Finished' = Finished
  BY <1>1 DEF Sending, Started, Finished
<1>4. Acked(T) \in Int /\ Called(T) \in Int /\ Started \in Nat /\ T[Finished] \in Nat
  BY <1>2, AckedFacts
<1>5. /\ tx.queue \in Seq(FragmentType) /\ Len(tx.queue) \in Nat /\ tx.acks \in Nat /\ tx.sent \in Nat
      /\ tx.done \in Nat
  BY TxFields DEF TypeInv
<1>6. /\ Head(tx.queue) = tx.queue[1] /\ 1 \in DOMAIN tx.queue /\ Len(tx'.queue) = Len(tx.queue) - 1
      /\ \A i \in DOMAIN tx'.queue : i + 1 \in DOMAIN tx.queue /\ tx'.queue[i] = tx.queue[i + 1]
      /\ \A i \in DOMAIN tx'.queue : i \in Nat
  BY <1>1, <1>5, TailOf
<1>7. Acked(T)' = Acked(T) + 1 /\ Called(T)' = Called(T)
  <2> DEFINE d == IF Sending THEN tx.done ELSE 0
             q == Len(tx.queue)
             b == T[Finished]
  <2>1. d \in Nat /\ q \in Nat /\ b \in Nat /\ Acked(T) = b + d - q
    BY <1>4, <1>5 DEF Acked
  <2>2. Acked(T)' = b + d - (q - 1)
    <3>1. Acked(T)' = T[Finished]' + (IF Sending' THEN tx'.done ELSE 0) - Len(tx'.queue)
      BY DEF Acked
    <3>2. T[Finished]' = b
      BY <1>3
    <3>3. (IF Sending' THEN tx'.done ELSE 0) = d
      BY <1>1, <1>3
    <3> QED
      BY <1>6, <3>1, <3>2, <3>3
  <2> HIDE DEF d, q, b
  <2> DEFINE a == Acked(T)
  <2>3. Acked(T)' = a + 1
    BY <2>1, <2>2
  <2>4. Called(T)' = (a + 1) - (tx.acks + 1) /\ Called(T) = a - tx.acks
    BY <1>1, <2>3 DEF Called
  <2>5. a \in Int /\ tx.acks \in Nat
    BY <1>4, <1>5
  <2> HIDE DEF a
  <2>6. Called(T)' = Called(T)
    BY <2>4, <2>5
  <2> QED
    BY <2>3, <2>6 DEF a
<1>8. Reports(T)'
  BY <1>1, <1>2, <1>3, <1>7 DEF Reports
<1>9. ASSUME NEW k \in 0 .. Started, T[k] <= Acked(T) + 1 PROVE k <= tx'.sent
  <2>1. T[k] \in Nat
    BY <1>2 DEF Totals
  <2>2. tx'.sent \in Nat /\ tx'.sent >= tx.sent
    BY <1>1, <1>5
  <2>3. CASE T[k] <= Acked(T)
    <3>1. k <= tx.sent
      BY <1>2, <2>3 DEF Arrivals
    <3> QED
      BY <1>4, <1>5, <2>2, <3>1
  <2>4. CASE T[k] = Acked(T) + 1 /\ k # 0
    <3>1. k \in 1 .. Started /\ k - 1 \in 0 .. Started
      BY <1>4, <2>4
    <3>2. Ends(tx.queue[1])
      BY <1>2, <1>6, <2>4, <3>1 DEF Arrivals
    <3>3. T[k - 1] < T[k] /\ T[k - 1] \in Nat
      BY <1>2, <1>4, <3>1 DEF Totals
    <3>4. k - 1 <= tx.sent
      BY <1>2, <1>4, <2>1, <2>4, <3>1, <3>3 DEF Arrivals
    <3> QED
      BY <1>1, <1>5, <1>6, <3>2, <3>4
  <2>5. CASE k = 0
    BY <2>2, <2>5
  <2> QED
    BY <1>4, <1>9, <2>1, <2>3, <2>4, <2>5
<1>10. ASSUME NEW i \in DOMAIN tx'.queue, NEW k \in 1 .. Started, Acked(T) + 1 + i = T[k]
       PROVE  Ends(tx'.queue[i])
  <2>1. Acked(T) + (i + 1) = T[k]
    BY SMTT(30), <1>4, <1>6, <1>10
  <2> QED
    BY <1>2, <1>6, <2>1 DEF Arrivals
<1>11. Arrivals(T)'
  BY <1>3, <1>7, <1>9, <1>10 DEF Arrivals, Ends
<1> QED
  BY <1>1, <1>2, <1>8, <1>11, TotalsStay

\* What the other connection and the receiver do.
LEMMA OtherReports ==
  ASSUME FragAssumption, TypeInv, SuccessInv, cfg' = cfg, sizes' = sizes,
         tx'.queue = tx.queue, tx'.meta = tx.meta, tx'.acks = tx.acks, tx'.sent = tx.sent,
         tx'.reported = tx.reported, tx'.remaining = tx.remaining,
         tx'.count = tx.count, tx'.done = tx.done, tx'.torn = tx.torn, tx'.unnoted = tx.unnoted
  PROVE  SuccessInv'
<1>1. (Sending' <=> Sending) /\ Started' = Started /\ Finished' = Finished
  BY DEF Sending, Started, Finished
<1> SUFFICES ASSUME AllSent' PROVE \E T : Totals(T)' /\ Reports(T)' /\ Arrivals(T)'
  BY DEF SuccessInv
<1>2. PICK T : Totals(T) /\ Reports(T) /\ Arrivals(T)
  BY DEF SuccessInv, AllSent
<1>3. Acked(T)' = Acked(T) /\ Called(T)' = Called(T)
  BY <1>1 DEF Acked, Called
<1>4. Reports(T)' /\ Arrivals(T)'
  BY <1>1, <1>2, <1>3 DEF Reports, Arrivals, Ends
<1> QED
  BY <1>2, <1>4, TotalsStay

LEMMA StepReports ==
  ASSUME FragAssumption, TypeInv, SuccessInv, [Next]_vars
  PROVE  SuccessInv'
<1>1. CASE UNCHANGED vars
  BY <1>1, OtherReports DEF vars
<1>2. CASE OtherSend \/ RxSuccessCallback \/ FragRead \/ GetReadPayloadSize
  <2>1. cfg' = cfg /\ sizes' = sizes /\ (tx' = tx \/ OtherSend)
    BY <1>2 DEF OtherSend, RxSuccessCallback, FragRead, GetReadPayloadSize
  <2>2. CASE tx' = tx
    BY <2>1, <2>2, OtherReports
  <2>3. CASE OtherSend
    BY <2>1, <2>3, OtherSendFields, OtherReports
  <2> QED
    BY <2>1, <2>2, <2>3
<1>3. CASE Deliver
  BY <1>3, CarryReports DEF Deliver
<1>4. CASE Drop
  <2>1. cfg.lossy /\ cfg' = cfg
    BY <1>4 DEF Drop, Carry
  <2> QED
    BY <2>1 DEF SuccessInv, AllSent
<1> QED
  BY <1>1, <1>2, <1>3, <1>4, StartSendReports, SendFragmentReports, FinishSendReports,
     TxSuccessReports DEF Next

LEMMA InitReports ==
  ASSUME FragAssumption, Init
  PROVE  SuccessInv
<1>1. Started = 0 /\ ~Sending /\ Finished = 0 /\ tx.queue = <<>> /\ tx.meta = <<>>
      /\ tx.acks = 0 /\ tx.reported = 0 /\ tx.remaining = 0 /\ tx.sent = 0
  BY DEF Init, Started, Sending, Finished
<1> DEFINE T == [k \in 0 .. 0 |-> 0]
<1>2. T \in [0 .. 0 -> Nat] /\ T[0] = 0
  OBVIOUS
<1> HIDE DEF T
<1>3. Totals(T)
  BY <1>1, <1>2 DEF Totals
<1>4. Acked(T) = 0 /\ Called(T) = 0
  BY <1>1, <1>2 DEF Acked, Called
<1>5. Reports(T) /\ Arrivals(T)
  BY <1>1, <1>2, <1>4 DEF Reports, Arrivals
<1> QED
  BY <1>3, <1>5 DEF SuccessInv

LEMMA SuccessFollows ==
  ASSUME TypeInv, SuccessInv
  PROVE  SuccessNotEarly
<1> SUFFICES ASSUME AllSent PROVE tx.reported <= tx.sent
  BY DEF SuccessNotEarly, AllSent
<1>1. PICK T : Totals(T) /\ Reports(T) /\ Arrivals(T)
  BY DEF SuccessInv
<1>2. Finished \in 0 .. Started /\ Started \in Nat /\ Acked(T) \in Int
  BY <1>1, AckedFacts
<1>3. tx.reported \in Nat /\ Len(tx.meta) \in Nat /\ tx.acks \in Nat
  BY TxFields DEF TypeInv
<1>4. tx.reported \in 0 .. Started
  BY <1>1, <1>2, <1>3 DEF Reports
<1>5. T[tx.reported] \in Nat /\ T[tx.reported] <= Acked(T) - tx.acks
  BY <1>1, <1>4 DEF Totals, Reports, Called
<1>6. T[tx.reported] <= Acked(T)
  BY <1>2, <1>3, <1>5
<1> QED
  BY <1>1, <1>4, <1>6 DEF Arrivals

(* A payload is reported as sent only once all its fragments are            *)
(* acknowledged: wps_frag_tx_success_callback counts at least as many       *)
(* callbacks as the payload has fragments, whatever was sent before it and  *)
(* however late the callbacks run, as long as the meta-data queue has room. *)
THEOREM FragSuccessNotEarly == Spec => []SuccessNotEarly
<1> DEFINE Inv == TypeInv /\ SuccessInv
<1>1. Init => Inv
  BY FragAssumption, InitType, InitReports
<1>2. Inv /\ [Next]_vars => Inv'
  BY FragAssumption, StepType, StepReports
<1>3. Inv => SuccessNotEarly
  BY SuccessFollows
<1> QED
  BY <1>1, <1>2, <1>3, PTL DEF Spec

-----------------------------------------------------------------------------
(* Payloads never go back *)

\* One fragment was sent before another: of an earlier payload, or of the
\* same one that has not ended.
Precedes(f, g) == f.payload <= g.payload /\ (Ends(f) => f.payload < g.payload)

Chain(s) == \A i \in DOMAIN s, j \in DOMAIN s : i < j => Precedes(s[i], s[j])
Before(s, t) == \A i \in DOMAIN s, j \in DOMAIN t : Precedes(s[i], t[j])

\* The fragments of the three queues are in the order in which they were sent.
Lined(q, r, t) ==
  Chain(q) /\ Chain(r) /\ Chain(t) /\ Before(q, r) /\ Before(q, t) /\ Before(r, t)

Within(s, t) == \A i \in DOMAIN s : \E j \in DOMAIN t : s[i] = t[j]

LEMMA LeftWithin ==
  ASSUME NEW S, NEW q \in Seq(S), NEW left, LeftOf(q, left)
  PROVE  Within(left, q) /\ (Chain(q) => Chain(left))
<1>1. PICK k \in 1 .. Len(q) + 1 : left = From(q, k)
  BY DEF LeftOf
<1>2. \A i \in DOMAIN left : k + i - 1 \in DOMAIN q /\ left[i] = q[k + i - 1]
  BY <1>1, FromFacts
<1>3. \A i \in DOMAIN left : i \in Nat
  BY LeftFacts
<1>4. Within(left, q)
  BY <1>2 DEF Within
<1>5. ASSUME Chain(q), NEW i \in DOMAIN left, NEW j \in DOMAIN left, i < j
      PROVE  Precedes(left[i], left[j])
  <2>1. k + i - 1 < k + j - 1
    BY <1>3, <1>5
  <2> QED
    BY <1>2, <1>5, <2>1 DEF Chain
<1> QED
  BY <1>4, <1>5 DEF Chain

LEMMA TailWithin ==
  ASSUME NEW S, NEW q \in Seq(S), q # <<>>
  PROVE  /\ Within(Tail(q), q) /\ (Chain(q) => Chain(Tail(q)))
         /\ \A i \in DOMAIN Tail(q) : Chain(q) => Precedes(Head(q), Tail(q)[i])
<1>1. Tail(q) = From(q, 2)
  BY FromEdges
<1>2. LeftOf(q, From(q, 2))
  BY FromLeft
<1>3. LeftOf(q, Tail(q))
  BY <1>1, <1>2
<1>4. Within(Tail(q), q) /\ (Chain(q) => Chain(Tail(q)))
  BY <1>3, LeftWithin
<1>5. ASSUME Chain(q), NEW i \in DOMAIN Tail(q) PROVE Precedes(Head(q), Tail(q)[i])
  <2>1. Head(q) = q[1] /\ 1 \in DOMAIN q /\ i + 1 \in DOMAIN q /\ Tail(q)[i] = q[i + 1] /\ 1 < i + 1
    BY TailOf
  <2> QED
    BY <1>5, <2>1 DEF Chain
<1> QED
  BY <1>4, <1>5

LEMMA BeforeWithin ==
  ASSUME NEW s, NEW t, Before(s, t), NEW a, NEW b, Within(a, s), Within(b, t)
  PROVE  Before(a, b)
<1> SUFFICES ASSUME NEW i \in DOMAIN a, NEW j \in DOMAIN b PROVE Precedes(a[i], b[j])
  BY DEF Before
<1>1. PICK k \in DOMAIN s : a[i] = s[k]
  BY DEF Within
<1>2. PICK l \in DOMAIN t : b[j] = t[l]
  BY DEF Within
<1> QED
  BY <1>1, <1>2 DEF Before

LEMMA WithinSelf ==
  ASSUME NEW s
  PROVE  Within(s, s)
  BY DEF Within

\* A fragment after all of a chain lengthens it.
LEMMA ChainAppend ==
  ASSUME NEW S, NEW q \in Seq(S), Chain(q), NEW f \in S, \A i \in DOMAIN q : Precedes(q[i], f)
  PROVE  Chain(Append(q, f))
<1> DEFINE w == Append(q, f)
<1>1. /\ Len(q) \in Nat /\ w[Len(q) + 1] = f /\ DOMAIN q = 1 .. Len(q)
      /\ \A j \in DOMAIN q : w[j] = q[j]
      /\ \A j \in DOMAIN w : j = Len(q) + 1 \/ j \in DOMAIN q
  BY AppendTo
<1> HIDE DEF w
<1> SUFFICES ASSUME NEW i \in DOMAIN w, NEW j \in DOMAIN w, i < j PROVE Precedes(w[i], w[j])
  BY DEF Chain, w
<1>2. i \in DOMAIN q
  BY <1>1
<1>3. CASE j = Len(q) + 1
  BY <1>1, <1>2, <1>3
<1>4. CASE j \in DOMAIN q
  BY <1>1, <1>2, <1>4 DEF Chain
<1> QED
  BY <1>1, <1>3, <1>4

\* The elements of a sequence and one more.
LEMMA BeforeAppend ==
  ASSUME NEW S, NEW q \in Seq(S), NEW f \in S, NEW t
  PROVE  /\ Before(q, t) /\ (\A j \in DOMAIN t : Precedes(f, t[j])) => Before(Append(q, f), t)
         /\ Before(t, q) /\ (\A j \in DOMAIN t : Precedes(t[j], f)) => Before(t, Append(q, f))
<1> DEFINE w == Append(q, f)
<1>1. /\ w[Len(q) + 1] = f /\ \A j \in DOMAIN q : w[j] = q[j]
      /\ \A j \in DOMAIN w : j = Len(q) + 1 \/ j \in DOMAIN q
  BY AppendTo
<1> HIDE DEF w
<1>2. ASSUME Before(q, t), \A j \in DOMAIN t : Precedes(f, t[j]) PROVE Before(w, t)
  BY <1>1, <1>2 DEF Before
<1>3. ASSUME Before(t, q), \A j \in DOMAIN t : Precedes(t[j], f) PROVE Before(t, w)
  BY <1>1, <1>3 DEF Before
<1> QED
  BY <1>2, <1>3 DEF w

\* The head of one queue goes to the end of the one before it.
LEMMA MoveHead ==
  ASSUME NEW a \in Seq(FragmentType), NEW b \in Seq(FragmentType), b # <<>>,
         Chain(a), Chain(b), Before(a, b)
  PROVE  /\ Chain(Append(a, Head(b))) /\ Chain(Tail(b)) /\ Before(Append(a, Head(b)), Tail(b))
         /\ \A t : Before(a, t) /\ Before(b, t) => Before(Append(a, Head(b)), t)
         /\ \A t : Before(t, a) /\ Before(t, b) => Before(t, Append(a, Head(b)))
<1> DEFINE h == Head(b)
<1>1. h \in FragmentType /\ h = b[1] /\ 1 \in DOMAIN b
  BY TailOf
<1>2. Within(Tail(b), b) /\ Chain(Tail(b)) /\ \A i \in DOMAIN Tail(b) : Precedes(h, Tail(b)[i])
  BY TailWithin
<1> HIDE DEF h
<1>3. \A i \in DOMAIN a : Precedes(a[i], h)
  BY <1>1 DEF Before
<1>4. Chain(Append(a, h))
  BY <1>1, <1>3, ChainAppend
<1>5. Before(a, Tail(b))
  BY <1>2, BeforeWithin, WithinSelf
<1>6. Before(Append(a, h), Tail(b))
  BY <1>1, <1>2, <1>5, BeforeAppend
<1>7. ASSUME NEW t, Before(a, t), Before(b, t) PROVE Before(Append(a, h), t)
  <2>1. \A j \in DOMAIN t : Precedes(h, t[j])
    BY <1>1, <1>7 DEF Before
  <2> QED
    BY <1>1, <1>7, <2>1, BeforeAppend
<1>8. ASSUME NEW t, Before(t, a), Before(t, b) PROVE Before(t, Append(a, h))
  <2>1. \A j \in DOMAIN t : Precedes(t[j], h)
    BY <1>1, <1>8 DEF Before
  <2> QED
    BY <1>1, <1>8, <2>1, BeforeAppend
<1> QED
  BY <1>2, <1>4, <1>6, <1>7, <1>8 DEF h

LEMMA LinedSteps ==
  ASSUME NEW q \in Seq(FragmentType), NEW r \in Seq(FragmentType), NEW t \in Seq(FragmentType),
         Lined(q, r, t)
  PROVE  /\ t # <<>> => Lined(q, Append(r, Head(t)), Tail(t)) /\ Lined(q, r, Tail(t))
         /\ r # <<>> => Lined(Append(q, Head(r)), Tail(r), t)
         /\ \A left : LeftOf(q, left) => Lined(left, r, t)
<1>1. Chain(q) /\ Chain(r) /\ Chain(t) /\ Before(q, r) /\ Before(q, t) /\ Before(r, t)
  BY DEF Lined
<1>2. ASSUME t # <<>> PROVE Lined(q, Append(r, Head(t)), Tail(t)) /\ Lined(q, r, Tail(t))
  <2>1. /\ Chain(Append(r, Head(t))) /\ Chain(Tail(t)) /\ Before(Append(r, Head(t)), Tail(t))
        /\ Before(q, Append(r, Head(t)))
    BY <1>1, <1>2, MoveHead
  <2>2. Within(Tail(t), t)
    BY <1>2, TailWithin
  <2>3. Before(q, Tail(t)) /\ Before(r, Tail(t))
    BY <1>1, <2>2, BeforeWithin, WithinSelf
  <2> QED
    BY <1>1, <2>1, <2>3 DEF Lined
<1>3. ASSUME r # <<>> PROVE Lined(Append(q, Head(r)), Tail(r), t)
  <2>1. /\ Chain(Append(q, Head(r))) /\ Chain(Tail(r)) /\ Before(Append(q, Head(r)), Tail(r))
        /\ Before(Append(q, Head(r)), t)
    BY <1>1, <1>3, MoveHead
  <2>2. Within(Tail(r), r)
    BY <1>3, TailWithin
  <2>3. Before(Tail(r), t)
    BY <1>1, <2>2, BeforeWithin, WithinSelf
  <2> QED
    BY <1>1, <2>1, <2>3 DEF Lined
<1>4. ASSUME NEW left, LeftOf(q, left) PROVE Lined(left, r, t)
  <2>1. Within(left, q) /\ Chain(left)
    BY <1>1, <1>4, LeftWithin
  <2>2. Before(left, r) /\ Before(left, t)
    BY <1>1, <2>1, BeforeWithin, WithinSelf
  <2> QED
    BY <1>1, <2>1, <2>2 DEF Lined
<1> QED
  BY <1>2, <1>3, <1>4

\* A send that has fragments left.
Open == Sending /\ tx.done < tx.count

\* A fragment on its way is of a payload later than what was read, and does
\* not end the last payload when fragments of it are left to send.
Fine(f, read, started, open) ==
  /\ f.payload \in read + 1 .. started
  /\ open /\ Ends(f) => f.payload < started

AllFine(s, read, started, open) == \A i \in DOMAIN s : Fine(s[i], read, started, open)

ForwardInv ==
  /\ Lined(rx.queue, rx.fresh, tx.queue)
  /\ AllFine(rx.queue, LastRead, Started, Open)
  /\ AllFine(rx.fresh, LastRead, Started, Open)
  /\ AllFine(tx.queue, LastRead, Started, Open)
  /\ LastRead <= Started /\ (Open => LastRead < Started)

LEMMA LastReadType ==
  ASSUME TypeInv
  PROVE  LastRead \in Nat /\ Started \in Nat
<1>1. out \in Seq(FragmentType) /\ Started \in Nat
  BY TxFields DEF TypeInv, TypeOK
<1>2. CASE out = <<>>
  BY <1>1, <1>2 DEF LastRead
<1>3. CASE out # <<>>
  <2>1. out[Len(out)] \in FragmentType
    BY <1>1, <1>3
  <2> QED
    BY <1>1, <1>3, <2>1 DEF LastRead, FragmentType
<1> QED
  BY <1>2, <1>3

LEMMA FineWithin ==
  ASSUME NEW s, NEW t, Within(s, t), NEW read, NEW started, NEW open,
         AllFine(t, read, started, open)
  PROVE  AllFine(s, read, started, open)
  BY DEF Within, AllFine

LEMMA FineAppend ==
  ASSUME NEW s \in Seq(FragmentType), NEW f \in FragmentType, NEW read, NEW started, NEW open,
         AllFine(s, read, started, open), Fine(f, read, started, open)
  PROVE  AllFine(Append(s, f), read, started, open)
<1> DEFINE w == Append(s, f)
<1>1. /\ w[Len(s) + 1] = f /\ \A j \in DOMAIN s : w[j] = s[j]
      /\ \A j \in DOMAIN w : j = Len(s) + 1 \/ j \in DOMAIN s
  BY AppendTo
<1> HIDE DEF w
<1>2. \A j \in DOMAIN w : Fine(w[j], read, started, open)
  BY <1>1 DEF AllFine
<1> QED
  BY <1>2 DEF AllFine, w

LEMMA FineLater ==
  ASSUME NEW s, NEW read \in Nat, NEW started \in Nat, NEW open \in BOOLEAN,
         NEW now \in Nat, NEW opened \in BOOLEAN, now >= started,
         opened => open \/ now > started, AllFine(s, read, started, open)
  PROVE  AllFine(s, read, now, opened)
<1> SUFFICES ASSUME NEW i \in DOMAIN s PROVE Fine(s[i], read, now, opened)
  BY DEF AllFine
<1>1. Fine(s[i], read, started, open)
  BY DEF AllFine
<1> QED
  BY <1>1 DEF Fine

\* A step that reads nothing keeps the order when the queues keep theirs.
LEMMA KeepForward ==
  ASSUME TypeInv, TypeInv', ForwardInv, out' = out, Started' >= Started,
         Open' => Open \/ Started' > Started,
         Lined(rx'.queue, rx'.fresh, tx'.queue),
         AllFine(rx'.queue, LastRead, Started, Open), AllFine(rx'.fresh, LastRead, Started, Open),
         AllFine(tx'.queue, LastRead, Started, Open)
  PROVE  ForwardInv'
<1>1. LastRead' = LastRead /\ LastRead \in Nat /\ Started \in Nat /\ Started' \in Nat
  <2>1. sizes' \in Seq(Sizes)
    BY DEF TypeInv, TypeOK
  <2> QED
    BY <2>1, LastReadType DEF LastRead, Started
<1>2. Open \in BOOLEAN /\ Open' \in BOOLEAN
  BY DEF Open
<1>3. /\ AllFine(rx'.queue, LastRead, Started', Open')
      /\ AllFine(rx'.fresh, LastRead, Started', Open')
      /\ AllFine(tx'.queue, LastRead, Started', Open')
  BY <1>1, <1>2, FineLater
<1>4. LastRead' <= Started' /\ (Open' => LastRead' < Started')
  BY <1>1 DEF ForwardInv
<1> QED
  BY <1>1, <1>3, <1>4 DEF ForwardInv, Lined, Chain, Before, Precedes, AllFine, Fine, Ends

\* The fragment wps_frag_send queues next follows all others.
LEMMA NextFollows ==
  ASSUME TypeInv, ForwardInv, Open, NEW f \in FragmentType, f.payload = Started
  PROVE  Lined(rx.queue, rx.fresh, Append(tx.queue, f))
<1>1. LastRead \in Nat /\ LastRead < Started /\ Started \in Nat
  BY LastReadType DEF ForwardInv
<1>2. ASSUME NEW g, Fine(g, LastRead, Started, Open) PROVE Precedes(g, f)
  <2>1. g.payload \in LastRead + 1 .. Started /\ (Ends(g) => g.payload < Started)
    BY <1>2 DEF Fine
  <2> QED
    BY <1>1, <2>1 DEF Precedes
<1>3. tx.queue \in Seq(FragmentType)
  BY TxFields DEF TypeInv
<1>4. /\ \A i \in DOMAIN rx.queue : Precedes(rx.queue[i], f)
      /\ \A i \in DOMAIN rx.fresh : Precedes(rx.fresh[i], f)
      /\ \A i \in DOMAIN tx.queue : Precedes(tx.queue[i], f)
  BY <1>2 DEF ForwardInv, AllFine
<1>5. Chain(Append(tx.queue, f))
  BY <1>3, <1>4, ChainAppend DEF ForwardInv, Lined
<1>6. Before(rx.queue, Append(tx.queue, f)) /\ Before(rx.fresh, Append(tx.queue, f))
  BY <1>3, <1>4, BeforeAppend DEF ForwardInv, Lined
<1> QED
  BY <1>5, <1>6 DEF ForwardInv, Lined

LEMMA SendForward ==
  ASSUME FragAssumption, TypeInv, TypeInv', ForwardInv, SendFragment
  PROVE  ForwardInv'
<1>1. tx \in TxStates /\ Open /\ rx' = rx /\ out' = out /\ sizes' = sizes /\ Started' = Started
      /\ Started \in Nat
  BY TxFields DEF SendFragment, TypeInv, TypeOK, Open, Started
<1>2. CASE ~(Len(tx.queue) < TxQueueSize)
  <2>1. tx' = [tx EXCEPT !.count = 0, !.torn = @ \cup {Started}]
    BY <1>2 DEF SendFragment
  <2>2. tx'.queue = tx.queue /\ ~Open'
    BY <1>1, <2>1 DEF TxStates, Open, Sending
  <2> QED
    BY <1>1, <2>2, KeepForward DEF ForwardInv
<1>3. CASE Len(tx.queue) < TxQueueSize
  <2>1. tx.done \in Nat /\ tx.count \in Nat /\ tx.done < tx.count /\ tx.id \in 0 .. MaxTransactionId - 1
    BY <1>1, TxFields DEF TypeInv, Open
  <2>2. PICK f \in FragmentType : /\ f = Fragment(Started, tx.done, tx.count, tx.id)
                                  /\ f.payload = Started /\ (Ends(f) <=> tx.done = tx.count - 1)
    <3> DEFINE d == tx.done
               n == tx.count
               s == Started
               id == tx.id
    <3>1. s \in Nat /\ d \in Nat /\ n \in Nat /\ id \in 0 .. MaxTransactionId - 1 /\ d < n
      BY <1>1, <2>1
    <3> HIDE DEF d, n, s, id
    <3>2. /\ Fragment(s, d, n, id) \in FragmentType /\ Fragment(s, d, n, id).payload = s
          /\ (Ends(Fragment(s, d, n, id)) <=> d = n - 1)
      BY <3>1, FragmentFacts
    <3> QED
      BY <3>2 DEF d, n, s, id
  <2>3. tx' = [tx EXCEPT !.queue = Append(@, f), !.done = @ + 1]
    BY <1>3, <2>2 DEF SendFragment
  <2>4. tx'.queue = Append(tx.queue, f) /\ tx'.done = tx.done + 1 /\ tx'.count = tx.count
    BY <1>1, <2>3 DEF TxStates
  <2>5. Lined(rx.queue, rx.fresh, Append(tx.queue, f))
    BY <1>1, <2>2, NextFollows
  <2>6. LastRead \in Nat /\ LastRead < Started /\ LastRead' = LastRead
    BY <1>1, LastReadType DEF ForwardInv, LastRead
  <2>7. Open' \in BOOLEAN /\ Open \in BOOLEAN /\ (Open' => ~Ends(f))
    BY <2>1, <2>2, <2>4 DEF Open
  <2>8. Fine(f, LastRead, Started, Open')
    BY <1>1, <2>2, <2>6, <2>7 DEF Fine
  <2>9. /\ AllFine(rx.queue, LastRead, Started, Open')
        /\ AllFine(rx.fresh, LastRead, Started, Open')
        /\ AllFine(tx.queue, LastRead, Started, Open')
    <3>1. /\ AllFine(rx.queue, LastRead, Started, Open) /\ AllFine(rx.fresh, LastRead, Started, Open)
          /\ AllFine(tx.queue, LastRead, Started, Open)
      BY DEF ForwardInv
    <3>2. Started >= Started /\ (Open' => Open \/ Started > Started)
      BY <1>1
    <3> QED
      BY ZenonT(30), <1>1, <2>6, <2>7, <3>1, <3>2, FineLater
  <2>10. AllFine(Append(tx.queue, f), LastRead, Started, Open')
    BY <2>2, <2>8, <2>9, FineAppend, TxFields DEF TypeInv
  <2> QED
    BY <1>1, <2>4, <2>5, <2>6, <2>9, <2>10
    DEF ForwardInv, Lined, Chain, Before, Precedes, AllFine, Fine, Ends
<1> QED
  BY <1>2, <1>3

LEMMA CarryForward ==
  ASSUME FragAssumption, TypeInv, TypeInv', ForwardInv, NEW arrives \in BOOLEAN,
         NEW acknowledged \in BOOLEAN, Carry(arrives, acknowledged)
  PROVE  ForwardInv'
<1> DEFINE h == Head(tx.queue)
<1>1. /\ tx.queue # <<>> /\ h \in FragmentType /\ tx'.queue = Tail(tx.queue)
      /\ tx'.count = tx.count /\ tx'.done = tx.done /\ rx'.queue = rx.queue
      /\ rx'.fresh = IF arrives THEN Append(rx.fresh, h) ELSE rx.fresh
  BY CarryFields
<1>2. out' = out /\ sizes' = sizes /\ Started' = Started /\ (Open' <=> Open)
  BY <1>1 DEF Carry, Started, Open, Sending
<1>3. rx.queue \in Seq(FragmentType) /\ rx.fresh \in Seq(FragmentType) /\ tx.queue \in Seq(FragmentType)
      /\ Started \in Nat
  BY RxFields, TxFields DEF TypeInv, TypeOK
<1>4. /\ Lined(rx.queue, Append(rx.fresh, h), Tail(tx.queue))
      /\ Lined(rx.queue, rx.fresh, Tail(tx.queue))
  BY <1>1, <1>3, LinedSteps DEF ForwardInv
<1>5. AllFine(Tail(tx.queue), LastRead, Started, Open)
  <2>1. Within(Tail(tx.queue), tx.queue)
    BY <1>1, <1>3, TailWithin
  <2> QED
    BY <2>1, FineWithin DEF ForwardInv
<1>6. AllFine(Append(rx.fresh, h), LastRead, Started, Open)
  <2>1. h = tx.queue[1] /\ 1 \in DOMAIN tx.queue
    BY <1>1, <1>3, TailOf
  <2>2. Fine(h, LastRead, Started, Open)
    BY <2>1 DEF ForwardInv, AllFine
  <2> QED
    BY <1>1, <1>3, <2>2, FineAppend DEF ForwardInv
<1> HIDE DEF h
<1>7. CASE arrives
  <2>1. rx'.fresh = Append(rx.fresh, h)
    BY <1>1, <1>7
  <2> QED
    BY <1>1, <1>2, <1>3, <1>4, <1>5, <1>6, <2>1, KeepForward DEF ForwardInv
<1>8. CASE ~arrives
  <2>1. rx'.fresh = rx.fresh
    BY <1>1, <1>8
  <2> QED
    BY <1>1, <1>2, <1>3, <1>4, <1>5, <2>1, KeepForward DEF ForwardInv
<1> QED
  BY <1>7, <1>8

\* What is left of the receiver's queue is no worse.
LEMMA LeftForward ==
  ASSUME NEW q \in Seq(FragmentType), NEW r \in Seq(FragmentType), NEW t \in Seq(FragmentType),
         Lined(q, r, t), NEW read, NEW started, NEW open, AllFine(q, read, started, open),
         NEW left, LeftOf(q, left)
  PROVE  Lined(left, r, t) /\ AllFine(left, read, started, open)
<1>1. Within(left, q)
  BY LeftWithin
<1> QED
  BY <1>1, FineWithin, LinedSteps

LEMMA ReceiveForward ==
  ASSUME FragAssumption, TypeInv, TypeInv', ForwardInv, RxSuccessCallback
  PROVE  ForwardInv'
<1> DEFINE h == Head(rx.fresh)
<1>1. PICK r \in RxStates :
        /\ rx.fresh # <<>> /\ h \in FragmentType
        /\ r.fresh = Tail(rx.fresh) /\ r.queue = Append(rx.queue, h)
        /\ rx'.fresh = r.fresh /\ LeftOf(r.queue, rx'.queue)
  BY RxSuccessFields
<1>2. out' = out /\ tx' = tx /\ sizes' = sizes /\ Started' = Started /\ (Open' <=> Open)
  BY DEF RxSuccessCallback, Started, Open, Sending
<1>3. rx.queue \in Seq(FragmentType) /\ rx.fresh \in Seq(FragmentType) /\ tx.queue \in Seq(FragmentType)
      /\ Started \in Nat /\ r.queue \in Seq(FragmentType)
  BY RxFields, TxFields DEF TypeInv, TypeOK
<1>4. Lined(r.queue, Tail(rx.fresh), tx.queue) /\ Tail(rx.fresh) \in Seq(FragmentType)
  BY <1>1, <1>3, LinedSteps, TailOf DEF ForwardInv
<1>5. AllFine(Tail(rx.fresh), LastRead, Started, Open)
  <2>1. Within(Tail(rx.fresh), rx.fresh)
    BY <1>1, <1>3, TailWithin
  <2> QED
    BY <2>1, FineWithin DEF ForwardInv
<1>6. AllFine(r.queue, LastRead, Started, Open)
  <2>1. h = rx.fresh[1] /\ 1 \in DOMAIN rx.fresh
    BY <1>1, <1>3, TailOf
  <2>2. Fine(h, LastRead, Started, Open)
    BY <2>1 DEF ForwardInv, AllFine
  <2> QED
    BY <1>1, <1>3, <2>2, FineAppend DEF ForwardInv
<1> HIDE DEF h
<1>7. Lined(rx'.queue, Tail(rx.fresh), tx.queue) /\ AllFine(rx'.queue, LastRead, Started, Open)
  BY <1>1, <1>3, <1>4, <1>6, LeftForward
<1>8. rx'.fresh = Tail(rx.fresh)
  BY <1>1
<1> QED
  BY <1>2, <1>3, <1>5, <1>7, <1>8, KeepForward DEF ForwardInv

\* The steps of the sender that queue nothing.
LEMMA SenderForward ==
  ASSUME FragAssumption, TypeInv, TypeInv', ForwardInv,
         \/ \E size \in Sizes : StartSend(size)
         \/ FinishSend \/ OtherSend \/ TxSuccessCallback \/ UNCHANGED vars
  PROVE  ForwardInv'
<1>1. rx' = rx /\ out' = out
  BY DEF StartSend, FinishSend, OtherSend, TxSuccessCallback, vars
<1>2. tx \in TxStates /\ Started \in Nat
  BY TxFields DEF TypeInv, TypeOK
<1>3. tx'.queue = tx.queue /\ Started' >= Started /\ (Open' => Open \/ Started' > Started)
  <2>1. ASSUME NEW size \in Sizes, StartSend(size)
        PROVE  tx'.queue = tx.queue /\ Started' = Started + 1
    <3>1. tx'.queue = tx.queue /\ sizes' = Append(sizes, size)
      BY <1>2, <2>1 DEF StartSend, TxStates
    <3> QED
      BY <3>1, AppendTo, TxFields DEF Started, TypeInv
  <2>2. CASE FinishSend
    <3>1. tx'.queue = tx.queue /\ tx'.count = 0 /\ sizes' = sizes
      BY <2>2, FinishSendFields DEF FinishSend
    <3> QED
      BY <1>2, <3>1 DEF Open, Sending, Started
  <2>3. CASE OtherSend
    <3>1. tx'.queue = tx.queue /\ tx'.count = tx.count /\ tx'.done = tx.done /\ sizes' = sizes
      BY <2>3, OtherSendFields DEF OtherSend
    <3> QED
      BY <1>2, <3>1 DEF Open, Sending, Started
  <2>4. CASE TxSuccessCallback
    <3>1. tx'.queue = tx.queue /\ tx'.count = tx.count /\ tx'.done = tx.done /\ sizes' = sizes
      BY <2>4, TxSuccessFields DEF TxSuccessCallback
    <3> QED
      BY <1>2, <3>1 DEF Open, Sending, Started
  <2>5. CASE UNCHANGED vars
    BY <1>2, <2>5 DEF vars, Open, Sending, Started
  <2> QED
    BY <1>2, <2>1, <2>2, <2>3, <2>4, <2>5
<1> QED
  BY <1>1, <1>3, KeepForward DEF ForwardInv

\* The first e fragments of a queue.
LEMMA FrontFacts ==
  ASSUME NEW q \in Seq(FragmentType), NEW e \in 1 .. Len(q)
  PROVE  /\ SubSeq(q, 1, e) \in Seq(FragmentType) /\ SubSeq(q, 1, e) # <<>>
         /\ Len(SubSeq(q, 1, e)) = e /\ DOMAIN SubSeq(q, 1, e) = 1 .. e
         /\ \A i \in 1 .. e : SubSeq(q, 1, e)[i] = q[i]
<1> DEFINE s == SubSeq(q, 1, e)
<1>1. Len(q) \in Nat /\ e \in Nat /\ e >= 1 /\ \A i \in 1 .. e : q[i] \in FragmentType /\ 1 + i - 1 = i
  OBVIOUS
<1>2. s \in Seq(FragmentType) /\ Len(s) = e /\ \A i \in 1 .. e : s[i] = q[i]
  <2>1. /\ SubSeq(q, 1, e) \in Seq(FragmentType)
        /\ Len(SubSeq(q, 1, e)) = (IF 1 <= e THEN e - 1 + 1 ELSE 0)
        /\ \A i \in 1 .. e - 1 + 1 : SubSeq(q, 1, e)[i] = q[1 + i - 1]
    BY <1>1, SubSeqProperties
  <2> HIDE DEF s
  <2> QED
    BY <1>1, <2>1 DEF s
<1> HIDE DEF s
<1>3. DOMAIN s = 1 .. e /\ s # <<>>
  BY <1>1, <1>2
<1> QED
  BY <1>2, <1>3 DEF s

\* Reading up to an end leaves fragments of later payloads.
LEMMA ReadForward ==
  ASSUME FragAssumption, TypeInv, TypeInv', ForwardInv, NEW e \in 1 .. Len(rx.queue), Ends(rx.queue[e]),
         tx' = tx, sizes' = sizes, rx'.fresh = rx.fresh, rx'.queue = From(rx.queue, e + 1),
         out' = SubSeq(rx.queue, 1, e)
  PROVE  ForwardInv' /\ IsForward(out', LastRead) /\ out' # <<>>
<1> DEFINE q == rx.queue
           last == q[e].payload
<1>1. /\ q \in Seq(FragmentType) /\ Len(q) \in Nat /\ rx.fresh \in Seq(FragmentType)
      /\ tx.queue \in Seq(FragmentType) /\ Started \in Nat /\ LastRead \in Nat
  BY RxFields, TxFields, LastReadType DEF TypeInv, TypeOK
<1>2. Started' = Started /\ (Open' <=> Open)
  BY DEF Started, Open, Sending
<1>3. e \in DOMAIN q /\ q[e] \in FragmentType
  BY <1>1
<1>4. Len(out') = e /\ out' # <<>> /\ DOMAIN out' = 1 .. e /\ \A i \in 1 .. e : out'[i] = q[i]
  BY <1>1, FrontFacts
<1>5. LastRead' = last
  <2>1. e \in 1 .. e
    BY <1>1
  <2> QED
    BY <1>4, <2>1 DEF LastRead
<1>6. Fine(q[e], LastRead, Started, Open)
  BY <1>3 DEF ForwardInv, AllFine
<1>7. last \in Nat /\ last \in LastRead + 1 .. Started /\ (Open => last < Started)
  BY <1>1, <1>3, <1>6 DEF Fine, FragmentType
<1>8. Chain(q) /\ Before(q, rx.fresh) /\ Before(q, tx.queue)
      /\ AllFine(q, LastRead, Started, Open) /\ AllFine(rx.fresh, LastRead, Started, Open)
      /\ AllFine(tx.queue, LastRead, Started, Open)
  BY DEF ForwardInv, Lined
\* Whatever follows the end that was read is fine.
<1>9. ASSUME NEW g, Fine(g, LastRead, Started, Open), Precedes(q[e], g)
      PROVE  Fine(g, last, Started, Open)
  <2>1. last < g.payload
    BY <1>9 DEF Precedes
  <2> QED
    BY <1>1, <1>7, <1>9, <2>1 DEF Fine
<1>10. e + 1 \in Nat /\ e + 1 >= 1
  BY <1>1
<1>11. AllFine(From(q, e + 1), last, Started, Open)
  <2> SUFFICES ASSUME NEW i \in DOMAIN From(q, e + 1)
               PROVE  Fine(From(q, e + 1)[i], last, Started, Open)
    BY DEF AllFine
  <2>1. (e + 1) + i - 1 \in DOMAIN q /\ From(q, e + 1)[i] = q[(e + 1) + i - 1]
    BY SMTT(30), <1>1, <1>10, FromFacts
  <2>2. i \in Nat /\ i >= 1
    <3>1. From(q, e + 1) \in Seq(FragmentType)
      BY <1>1, <1>10, FromFacts
    <3> QED
      BY <3>1
  <2>3. e < (e + 1) + i - 1
    BY <1>1, <2>2
  <2>4. Precedes(q[e], q[(e + 1) + i - 1])
    BY <1>3, <1>8, <2>1, <2>3 DEF Chain
  <2> QED
    BY <1>8, <1>9, <2>1, <2>4 DEF AllFine
<1>12. AllFine(rx.fresh, last, Started, Open) /\ AllFine(tx.queue, last, Started, Open)
  BY <1>3, <1>8, <1>9 DEF AllFine, Before
<1>13. Lined(From(q, e + 1), rx.fresh, tx.queue)
  <2>1. LeftOf(q, From(q, e + 1))
    BY <1>1, <1>10, FromLeft
  <2> QED
    BY <1>1, <2>1, LinedSteps DEF ForwardInv
<1>14. IsForward(out', LastRead)
  <2> SUFFICES ASSUME NEW i \in 1 .. e
               PROVE  out'[i].payload >= IF i = 1 THEN LastRead + 1 ELSE out'[i - 1].payload
    BY <1>4 DEF IsForward
  <2>1. i \in DOMAIN q /\ out'[i] = q[i]
    BY <1>1, <1>4
  <2>2. CASE i = 1
    <3>1. Fine(q[i], LastRead, Started, Open)
      BY <1>8, <2>1 DEF AllFine
    <3> QED
      BY <1>1, <2>1, <2>2, <3>1 DEF Fine
  <2>3. CASE i # 1
    <3>1. i - 1 \in DOMAIN q /\ i - 1 < i /\ out'[i - 1] = q[i - 1]
      BY SMTT(30), <1>1, <1>4, <2>3
    <3>2. Precedes(q[i - 1], q[i]) /\ q[i - 1] \in FragmentType /\ q[i] \in FragmentType
      BY <1>1, <1>8, <2>1, <3>1 DEF Chain
    <3> QED
      BY <2>1, <2>3, <3>1, <3>2 DEF Precedes, FragmentType
  <2> QED
    BY <2>2, <2>3
<1> HIDE DEF last
<1>15. LastRead' <= Started' /\ (Open' => LastRead' < Started')
  BY <1>1, <1>2, <1>5, <1>7
<1>16. /\ AllFine(rx'.queue, LastRead', Started', Open') /\ AllFine(rx'.fresh, LastRead', Started', Open')
       /\ AllFine(tx'.queue, LastRead', Started', Open')
  BY <1>2, <1>5, <1>11, <1>12 DEF AllFine, Fine
<1>17. Lined(rx'.queue, rx'.fresh, tx'.queue)
  BY <1>13
<1>18. ForwardInv'
  BY <1>15, <1>16, <1>17 DEF ForwardInv, Lined, Chain, Before, Precedes, AllFine, Fine, Ends
<1> QED
  BY <1>4, <1>14, <1>18

LEMMA OnlyFirst ==
  ASSUME NEW q \in Seq(FragmentType), q # <<>>
  PROVE  SubSeq(q, 1, 1) = <<q[1]>>
<1> DEFINE s == SubSeq(q, 1, 1)
<1>1. 1 \in 1 .. Len(q)
  OBVIOUS
<1>2. s \in Seq(FragmentType) /\ Len(s) = 1 /\ s[1] = q[1]
  BY <1>1, FrontFacts
<1> HIDE DEF s
<1>3. s = <<q[1]>>
  BY <1>2
<1> QED
  BY <1>3 DEF s

\* The end wps_frag_read looks for is one.
LEMMA ReadEndFacts ==
  ASSUME NEW q \in Seq(FragmentType)
  PROVE  /\ ReadEnd(q) \in 1 .. Len(q) + 1
         /\ ReadEnd(q) <= Len(q) => ReadEnd(q) >= 2 /\ q[ReadEnd(q)].kind # "more"
         /\ \A j \in 2 .. Len(q) : q[j].kind # "more" => ReadEnd(q) <= j
<1> DEFINE places == {i \in 2 .. Len(q) : q[i].kind # "more"}
<1>1. places \in SUBSET DOMAIN q /\ Len(q) \in Nat
  OBVIOUS
<1>2. ReadEnd(q) = FirstOf(places, q)
  BY DEF ReadEnd
<1>3. \A j \in 2 .. Len(q) : q[j].kind # "more" => j \in places
  OBVIOUS
<1>4. \A j \in places : j >= 2 /\ q[j].kind # "more"
  OBVIOUS
<1> HIDE DEF places
<1>5. /\ FirstOf(places, q) \in 1 .. Len(q) + 1 /\ \A j \in places : FirstOf(places, q) <= j
      /\ FirstOf(places, q) <= Len(q) => FirstOf(places, q) \in places
  BY <1>1, FirstOfFacts
<1> QED
  BY <1>2, <1>3, <1>4, <1>5

LEMMA FragReadForward ==
  ASSUME FragAssumption, TypeInv, TypeInv', ForwardInv, FragRead
  PROVE  ForwardInv' /\ (out' # out => IsForward(out', LastRead))
<1> DEFINE q == rx.queue
<1>1. rx'.fresh = rx.fresh /\ LeftOf(q, rx'.queue)
  BY FragReadFields
<1>2. tx' = tx /\ sizes' = sizes /\ Started' = Started /\ (Open' <=> Open)
  BY DEF FragRead, Started, Open, Sending
<1>3. /\ q \in Seq(FragmentType) /\ Len(q) \in Nat /\ rx.fresh \in Seq(FragmentType)
      /\ tx.queue \in Seq(FragmentType) /\ Started \in Nat
  BY RxFields, TxFields DEF TypeInv, TypeOK
<1>4. CASE out' = out
  <2>1. Lined(rx'.queue, rx.fresh, tx.queue) /\ AllFine(rx'.queue, LastRead, Started, Open)
    BY <1>1, <1>3, LeftForward DEF ForwardInv
  <2> QED
    BY <1>1, <1>2, <1>3, <1>4, <2>1, KeepForward DEF ForwardInv
<1>5. CASE /\ q # <<>> /\ q[1].kind = "full" /\ out' = <<q[1]>> /\ rx'.queue = From(q, 2)
  <2>1. 1 \in 1 .. Len(q) /\ Ends(q[1])
    BY <1>3, <1>5 DEF Ends
  <2>2. SubSeq(q, 1, 1) = <<q[1]>>
    BY <1>3, <1>5, OnlyFirst
  <2>3. rx'.queue = From(q, 1 + 1)
    BY <1>5
  <2> QED
    BY <1>1, <1>2, <1>5, <2>1, <2>2, <2>3, ReadForward
<1>6. CASE /\ q # <<>> /\ ReadEnd(q) <= Len(q) /\ q[ReadEnd(q)].kind = "last"
           /\ out' = SubSeq(q, 1, ReadEnd(q)) /\ rx'.queue = From(q, ReadEnd(q) + 1)
  <2>1. ReadEnd(q) \in 1 .. Len(q) /\ Ends(q[ReadEnd(q)])
    BY <1>3, <1>6, ReadEndFacts DEF Ends
  <2> QED
    BY <1>1, <1>2, <1>6, <2>1, ReadForward
<1> QED
  BY <1>4, <1>5, <1>6, FragReadFields

LEMMA StepForward ==
  ASSUME FragAssumption, TypeInv, TypeInv', ForwardInv, [Next]_vars
  PROVE  ForwardInv' /\ (out' # out => IsForward(out', LastRead))
<1>1. CASE FragRead
  BY <1>1, FragReadForward
<1>2. CASE GetReadPayloadSize
  <2>1. rx'.fresh = rx.fresh /\ LeftOf(rx.queue, rx'.queue)
    BY <1>2, GetSizeType
  <2>2. out' = out /\ tx' = tx /\ Started' = Started /\ (Open' <=> Open) /\ Started \in Nat
    BY <1>2, TxFields DEF GetReadPayloadSize, Started, Open, Sending, TypeInv
  <2>3. /\ rx.queue \in Seq(FragmentType) /\ rx.fresh \in Seq(FragmentType)
        /\ tx.queue \in Seq(FragmentType)
    BY RxFields, TxFields DEF TypeInv, TypeOK
  <2>4. Lined(rx'.queue, rx.fresh, tx.queue) /\ AllFine(rx'.queue, LastRead, Started, Open)
    BY <2>1, <2>3, LeftForward DEF ForwardInv
  <2> QED
    BY <2>1, <2>2, <2>4, KeepForward DEF ForwardInv
<1>3. CASE \/ \E size \in Sizes : StartSend(size)
           \/ FinishSend \/ OtherSend \/ TxSuccessCallback \/ UNCHANGED vars
  <2>1. out' = out
    BY <1>3 DEF StartSend, FinishSend, OtherSend, TxSuccessCallback, vars
  <2> QED
    BY <1>3, <2>1, SenderForward
<1>4. CASE SendFragment
  BY <1>4, SendForward DEF SendFragment
<1>5. CASE RxSuccessCallback
  BY <1>5, ReceiveForward DEF RxSuccessCallback
<1>6. CASE Deliver \/ Drop
  <2>1. ASSUME NEW arrives \in BOOLEAN, NEW acknowledged \in BOOLEAN, Carry(arrives, acknowledged)
        PROVE  ForwardInv' /\ out' = out
    BY <2>1, CarryForward DEF Carry
  <2> QED
    BY <1>6, <2>1 DEF Deliver, Drop
<1> QED
  BY <1>1, <1>2, <1>3, <1>4, <1>5, <1>6 DEF Next

LEMMA InitForward ==
  ASSUME FragAssumption, Init
  PROVE  ForwardInv
<1>1. rx.queue = <<>> /\ rx.fresh = <<>> /\ tx.queue = <<>> /\ LastRead = 0 /\ Started = 0 /\ ~Open
  BY DEF Init, LastRead, Started, Open, Sending
<1>2. Lined(<<>>, <<>>, <<>>) /\ AllFine(<<>>, LastRead, Started, Open)
  BY DEF Lined, Chain, Before, AllFine
<1> QED
  BY <1>1, <1>2 DEF ForwardInv

-----------------------------------------------------------------------------
(* Places in the stream of fragments *)

\* The fragments of all payloads, in the order of wps_frag_send, are numbered
\* from 1: those of payload k end at T[k].
Ascending(T, n) ==
  /\ n \in Nat /\ T \in [0 .. n -> Nat] /\ T[0] = 0
  /\ \A j \in 0 .. n, k \in 0 .. n : j < k => T[j] < T[k]

\* Fragment f has place i, and its payload was sent with number D[payload].
At(T, D, n, f, i) ==
  /\ f.payload \in 1 .. n
  /\ T[f.payload - 1] + f.num + 1 = i /\ i <= T[f.payload]
  /\ f.id = D[f.payload]
  /\ Ends(f) <=> i = T[f.payload]
  /\ f.kind = "full" => T[f.payload] = T[f.payload - 1] + 1
  /\ f.kind = "last" => T[f.payload] > T[f.payload - 1] + 1

\* The fragments of s have the places after place from.
Placed(T, D, n, s, from) == \A i \in DOMAIN s : At(T, D, n, s[i], from + i)

LEMMA AscendingFacts ==
  ASSUME NEW n, NEW T, Ascending(T, n), NEW j \in 0 .. n, NEW k \in 0 .. n
  PROVE  /\ n \in Nat /\ T[j] \in Nat /\ T[k] \in Nat
         /\ j < k <=> T[j] < T[k]
         /\ j <= k => T[j] <= T[k]
<1>1. n \in Nat /\ T[j] \in Nat /\ T[k] \in Nat
  BY DEF Ascending
<1>2. j < k => T[j] < T[k]
  BY DEF Ascending
<1>3. k < j => T[k] < T[j]
  BY DEF Ascending
<1>4. CASE j < k
  BY <1>1, <1>2, <1>4
<1>5. CASE k < j
  BY <1>1, <1>3, <1>5
<1>6. CASE j = k
  BY <1>1, <1>6
<1> QED
  BY <1>1, <1>4, <1>5, <1>6

\* A fragment placed after the end of a payload is of a later one.
LEMMA AtWhere ==
  ASSUME NEW n, NEW T, Ascending(T, n), NEW D, NEW f \in FragmentType, NEW i \in Int, At(T, D, n, f, i),
         NEW k \in 0 .. n
  PROVE  /\ T[k] < i <=> k < f.payload
         /\ f.num \in Nat /\ f.payload \in 1 .. n
<1> DEFINE p == f.payload
<1>1. p \in 1 .. n /\ f.num \in Nat /\ n \in Nat
  BY DEF At, FragmentType, Ascending
<1>2. p \in 0 .. n /\ p - 1 \in 0 .. n
  BY <1>1
<1>3. T[p] \in Nat /\ T[p - 1] \in Nat /\ T[k] \in Nat
  BY <1>2, AscendingFacts
<1>4. T[p - 1] < i /\ i <= T[p]
  BY <1>1, <1>3 DEF At
<1>5. CASE k < p
  <2>1. k <= p - 1
    BY <1>1, <1>5
  <2>2. T[k] <= T[p - 1]
    BY <1>2, <2>1, AscendingFacts
  <2> QED
    BY <1>1, <1>3, <1>4, <1>5, <2>2
<1>6. CASE ~(k < p)
  <2>1. p <= k
    BY <1>1, <1>6
  <2>2. T[p] <= T[k]
    BY <1>2, <2>1, AscendingFacts
  <2> QED
    BY <1>1, <1>3, <1>4, <1>6, <2>2
<1> QED
  BY <1>1, <1>5, <1>6

\* Place i is in payload m + 1.
Inside(T, n, m, i) == m \in Nat /\ m < n /\ i \in Int /\ T[m] < i /\ i <= T[m + 1]

\* Fragment f is the one of payload m + 1 with place i.
Here(T, D, m, f, i) ==
  /\ f.payload = m + 1 /\ f.num = i - T[m] - 1 /\ f.id = D[m + 1]
  /\ Ends(f) <=> i = T[m + 1]
  /\ f.kind = "full" => T[m + 1] = T[m] + 1
  /\ f.kind = "last" => T[m + 1] > T[m] + 1

LEMMA AtPlace ==
  ASSUME NEW n, NEW T, Ascending(T, n), NEW D, NEW f \in FragmentType, NEW i, At(T, D, n, f, i),
         NEW m, Inside(T, n, m, i)
  PROVE  Here(T, D, m, f, i)
<1>1. /\ n \in Nat /\ m \in 0 .. n /\ m + 1 \in 0 .. n /\ m \in Nat
      /\ i \in Int /\ T[m] < i /\ i <= T[m + 1]
  BY DEF Ascending, Inside
<1>2. T[m] \in Nat /\ T[m + 1] \in Nat
  BY <1>1, AscendingFacts
<1>3. f.payload \in 1 .. n /\ f.num \in Nat
  BY <1>1, AtWhere
<1>4. m < f.payload
  BY <1>1, AtWhere
<1>5. ~(m + 1 < f.payload)
  <2>1. ~(T[m + 1] < i)
    BY <1>1, <1>2
  <2> QED
    BY <1>1, <2>1, AtWhere
<1>6. f.payload = m + 1 /\ f.payload - 1 = m
  BY <1>1, <1>3, <1>4, <1>5
<1> QED
  BY <1>1, <1>2, <1>3, <1>6 DEF At, Here

LEMMA PlacedAppend ==
  ASSUME NEW T, NEW D, NEW n, NEW s \in Seq(FragmentType), NEW from \in Int, Placed(T, D, n, s, from),
         NEW f \in FragmentType, At(T, D, n, f, from + Len(s) + 1)
  PROVE  Placed(T, D, n, Append(s, f), from)
<1> SUFFICES ASSUME NEW i \in DOMAIN Append(s, f) PROVE At(T, D, n, Append(s, f)[i], from + i)
  BY DEF Placed
<1>1. /\ Len(s) \in Nat /\ Append(s, f)[Len(s) + 1] = f
      /\ \A j \in DOMAIN s : Append(s, f)[j] = s[j]
      /\ i = Len(s) + 1 \/ i \in DOMAIN s
  BY AppendTo
<1>2. CASE i = Len(s) + 1
  <2>1. from + i = from + Len(s) + 1
    BY <1>1, <1>2
  <2> QED
    BY <1>1, <1>2, <2>1
<1>3. CASE i \in DOMAIN s
  BY <1>1, <1>3 DEF Placed
<1> QED
  BY <1>1, <1>2, <1>3

LEMMA PlacedFrom ==
  ASSUME NEW T, NEW D, NEW n, NEW s \in Seq(FragmentType), NEW from \in Int, Placed(T, D, n, s, from),
         NEW w \in 0 .. Len(s)
  PROVE  Placed(T, D, n, From(s, w + 1), from + w)
<1> SUFFICES ASSUME NEW i \in DOMAIN From(s, w + 1)
             PROVE  At(T, D, n, From(s, w + 1)[i], from + w + i)
  BY DEF Placed
<1>1. From(s, w + 1) \in Seq(FragmentType) /\ i \in Int /\ w \in Nat /\ w + 1 \in Nat /\ w + 1 >= 1
  <2>1. w \in Nat /\ w + 1 \in Nat /\ w + 1 >= 1
    OBVIOUS
  <2>2. From(s, w + 1) \in Seq(FragmentType)
    BY <2>1, FromFacts
  <2> QED
    BY <2>1, <2>2
<1>2. (w + 1) + i - 1 \in DOMAIN s /\ From(s, w + 1)[i] = s[(w + 1) + i - 1]
  BY SMTT(30), <1>1, FromFacts
<1>3. (w + 1) + i - 1 = w + i /\ from + (w + i) = from + w + i
  BY <1>1
<1> QED
  BY <1>2, <1>3 DEF Placed

LEMMA PlacedTail ==
  ASSUME NEW T, NEW D, NEW n, NEW s \in Seq(FragmentType), NEW from \in Int, Placed(T, D, n, s, from),
         s # <<>>
  PROVE  /\ At(T, D, n, Head(s), from + 1)
         /\ Placed(T, D, n, Tail(s), from + 1)
<1>1. Len(s) >= 1 /\ Len(s) \in Nat /\ Head(s) = s[1] /\ 1 \in DOMAIN s
  BY TailOf
<1>2. Tail(s) = From(s, 1 + 1)
  BY FromEdges
<1>3. 1 \in 0 .. Len(s)
  BY <1>1
<1>4. Placed(T, D, n, From(s, 1 + 1), from + 1)
  BY <1>3, PlacedFrom
<1> QED
  BY <1>1, <1>2, <1>4 DEF Placed

\* A new payload moves none of the fragments.
LEMMA PlacedMore ==
  ASSUME NEW n \in Nat, NEW T, NEW D, NEW U, NEW E,
         \A k \in 0 .. n : U[k] = T[k], \A k \in 1 .. n : E[k] = D[k],
         NEW s, NEW from, Placed(T, D, n, s, from)
  PROVE  Placed(U, E, n + 1, s, from)
<1> SUFFICES ASSUME NEW i \in DOMAIN s PROVE At(U, E, n + 1, s[i], from + i)
  BY DEF Placed
<1> DEFINE p == s[i].payload
<1>1. At(T, D, n, s[i], from + i)
  BY DEF Placed
<1>2. p \in 1 .. n
  BY <1>1 DEF At
<1>3. p \in 1 .. n + 1 /\ p \in 0 .. n /\ p - 1 \in 0 .. n
  BY <1>2
<1>4. U[p] = T[p] /\ U[p - 1] = T[p - 1] /\ E[p] = D[p]
  BY <1>2, <1>3
<1> QED
  BY <1>1, <1>3, <1>4 DEF At

Endings(q) == {i \in DOMAIN q : Ends(q[i])}

\* In a queue that holds the fragments up to place e, and payloads b + 1 to m
\* to their end, as many fragments end a payload.
LEMMA EndsCount ==
  ASSUME NEW n, NEW T, Ascending(T, n), NEW D, NEW q \in Seq(FragmentType), NEW b \in 0 .. n,
         NEW m \in b .. n, Placed(T, D, n, q, T[b]), T[m] <= T[b] + Len(q),
         m < n => T[b] + Len(q) < T[m + 1]
  PROVE  /\ Cardinality(Endings(q)) = m - b
         /\ m - b <= Len(q)
<1> DEFINE F == Endings(q)
           g == [k \in b + 1 .. m |-> T[k] - T[b]]
           e == T[b] + Len(q)
<1>1. /\ n \in Nat /\ b \in Nat /\ m \in Nat /\ T[b] \in Nat /\ Len(q) \in Nat /\ DOMAIN q = 1 .. Len(q)
      /\ e \in Nat /\ e = T[b] + Len(q) /\ T[m] <= e /\ (m < n => e < T[m + 1])
  BY AscendingFacts DEF Ascending
<1> HIDE DEF e
<1>2. ASSUME NEW k \in b + 1 .. m
      PROVE  k \in 0 .. n /\ T[k] \in Nat /\ T[k] - T[b] \in DOMAIN q /\ Ends(q[T[k] - T[b]])
  <2>1. k \in 0 .. n /\ k - 1 \in 0 .. n /\ m \in 0 .. n /\ b < k /\ k <= m /\ k - 1 < k
    BY <1>1
  <2>2. T[k] \in Nat /\ T[b] < T[k] /\ T[k] <= T[m] /\ T[m] \in Nat /\ T[k - 1] \in Nat /\ T[k - 1] < T[k]
    BY <2>1, AscendingFacts
  <2> DEFINE i == T[k] - T[b]
  <2>3. i \in 1 .. Len(q) /\ T[b] + i = T[k]
    <3> DEFINE x == T[b]
               y == T[k]
               z == T[m]
               l == Len(q)
    <3>1. x \in Nat /\ y \in Nat /\ z \in Nat /\ l \in Nat /\ x < y /\ y <= z /\ z <= x + l
      BY <1>1, <2>2
    <3> HIDE DEF x, y, z, l
    <3>2. y - x \in 1 .. l /\ x + (y - x) = y
      BY <3>1
    <3> QED
      BY <3>2 DEF x, y, l
  <2> HIDE DEF i
  <2>4. At(T, D, n, q[i], T[k]) /\ q[i] \in FragmentType
    BY <1>1, <2>3 DEF Placed
  <2>5. k - 1 < q[i].payload /\ ~(k < q[i].payload) /\ q[i].payload \in 1 .. n
    <3> DEFINE f == q[i]
               c == T[k]
    <3>1. f \in FragmentType /\ c \in Int /\ At(T, D, n, f, c)
      BY <2>2, <2>4
    <3> HIDE DEF f, c
    <3>2. (T[k - 1] < c <=> k - 1 < f.payload) /\ f.payload \in 1 .. n
      BY <2>1, <3>1, AtWhere
    <3>3. T[k] < c <=> k < f.payload
      BY <2>1, <3>1, AtWhere
    <3> QED
      BY <2>2, <3>2, <3>3 DEF f, c
  <2>6. q[i].payload = k
    BY <1>1, <2>5
  <2>7. Ends(q[i])
    BY <2>4, <2>6 DEF At
  <2> QED
    BY <1>1, <2>1, <2>2, <2>3, <2>7 DEF i
<1>3. ASSUME NEW i \in F PROVE \E k \in b + 1 .. m : T[k] - T[b] = i
  <2> DEFINE k == q[i].payload
  <2>1. i \in 1 .. Len(q) /\ Ends(q[i]) /\ q[i] \in FragmentType /\ At(T, D, n, q[i], T[b] + i)
    BY <1>1 DEF Placed, Endings
  <2>2. k \in 1 .. n /\ T[b] + i = T[k] /\ k \in 0 .. n
    BY <1>1, <2>1 DEF At
  <2>3. T[k] \in Nat /\ T[b] < T[k]
    BY <1>1, <2>1, <2>2, AscendingFacts
  <2>4. b < k
    BY <2>2, <2>3, AscendingFacts
  <2>5. k <= m
    <3>1. CASE m < n
      <4>1. T[k] < T[m + 1] /\ m + 1 \in 0 .. n
        <5>1. m + 1 \in 0 .. n
          BY <1>1, <3>1
        <5>2. T[m + 1] \in Nat
          BY <5>1, AscendingFacts
        <5> QED
          BY SMTT(30), <1>1, <2>1, <2>2, <2>3, <3>1, <5>1, <5>2
      <4>2. k < m + 1
        BY <2>2, <4>1, AscendingFacts
      <4> QED
        BY <1>1, <2>2, <4>2
    <3>2. CASE ~(m < n)
      BY <1>1, <2>2, <3>2
    <3> QED
      BY <3>1, <3>2
  <2>6. k \in b + 1 .. m /\ T[k] - T[b] = i
    BY SMTT(30), <1>1, <2>1, <2>2, <2>3, <2>4, <2>5
  <2> QED
    BY <2>6
<1>4. ASSUME NEW j \in b + 1 .. m, NEW k \in b + 1 .. m, T[j] - T[b] = T[k] - T[b] PROVE j = k
  <2>1. j \in 0 .. n /\ k \in 0 .. n /\ T[j] = T[k] /\ T[j] \in Nat
    <3>1. j \in 0 .. n /\ T[j] \in Nat
      BY <1>2
    <3>2. k \in 0 .. n /\ T[k] \in Nat
      BY <1>2
    <3> DEFINE x == T[j]
               y == T[k]
               z == T[b]
    <3>3. x \in Nat /\ y \in Nat /\ z \in Nat /\ x - z = y - z
      BY <1>1, <1>4, <3>1, <3>2
    <3> HIDE DEF x, y, z
    <3>4. x = y
      BY <3>3
    <3> QED
      BY <3>1, <3>2, <3>4 DEF x, y
  <2>2. ~(T[j] < T[k]) /\ ~(T[k] < T[j])
    BY <2>1
  <2>3. ~(j < k) /\ ~(k < j)
    BY <2>1, <2>2, AscendingFacts
  <2> QED
    BY <1>1, <2>1, <2>3
<1>5. g \in Bijection(b + 1 .. m, F)
  <2>1. g \in [b + 1 .. m -> F]
    BY <1>2 DEF Endings
  <2> QED
    BY <1>3, <1>4, <2>1 DEF Bijection, Injection, IsInjective, Surjection
<1> HIDE DEF F
<1>6. ExistsBijection(b + 1 .. m, F)
  BY <1>5, Zenon DEF ExistsBijection
<1>7. IsFiniteSet(b + 1 .. m) /\ Cardinality(b + 1 .. m) = m - b
  <2>1. b + 1 \in Int /\ m \in Int /\ b <= m
    BY <1>1
  <2>2. IsFiniteSet(b + 1 .. m) /\ Cardinality(b + 1 .. m) = IF b + 1 > m THEN 0 ELSE m - (b + 1) + 1
    BY <2>1, FS_Interval
  <2> QED
    BY <1>1, <2>1, <2>2
<1>8. IsFiniteSet(F) /\ Cardinality(F) = m - b
  <2> DEFINE B == b + 1 .. m
  <2>1. ExistsBijection(B, F) /\ IsFiniteSet(B) /\ Cardinality(B) = m - b
    BY <1>6, <1>7
  <2> HIDE DEF B
  <2> QED
    BY <2>1, FS_Bijection
<1>9. IsFiniteSet(1 .. Len(q)) /\ Cardinality(1 .. Len(q)) = Len(q)
  <2> DEFINE l == Len(q)
  <2>1. l \in Nat /\ l \in Int /\ 1 \in Int
    BY <1>1
  <2> HIDE DEF l
  <2>2. IsFiniteSet(1 .. l) /\ Cardinality(1 .. l) = IF 1 > l THEN 0 ELSE l - 1 + 1
    BY <2>1, FS_Interval
  <2>3. Cardinality(1 .. l) = l
    BY <2>1, <2>2
  <2> QED
    BY <2>2, <2>3 DEF l
<1>10. F \in SUBSET (1 .. Len(q))
  BY <1>1 DEF F, Endings
<1>11. Cardinality(F) <= Len(q)
  BY <1>9, <1>10, FS_Subset
<1> QED
  BY <1>8, <1>11 DEF F

-----------------------------------------------------------------------------
(* The stream of fragments, from the sender to the reading application *)

\* Payloads up to b have left the queue of the receiver, and the fragments in
\* the three queues follow: places T[b] + 1 to e, e + 1 to g, and on.
Streamed(T, D, b, e, g) ==
  /\ Placed(T, D, Started, rx.queue, T[b]) /\ e = T[b] + Len(rx.queue)
  /\ Placed(T, D, Started, rx.fresh, e) /\ g = e + Len(rx.fresh)
  /\ Placed(T, D, Started, tx.queue, g) /\ g = Acked(T)
  /\ Sending => D[Started] = tx.id

\* The callback has followed the stream up to place e, in payload m + 1.
Tracked(T, D, b, m, e) ==
  /\ T[m] <= e /\ IF m < Started THEN e < T[m + 1] ELSE e = T[m]
  /\ rx.index = e - T[m] /\ (rx.index > 0 => rx.id = D[m + 1])
  /\ ~rx.dropped /\ rx.count = m - b

\* A payload longer than the buffer of the application is cleared away.
ReadUp(b) == LastRead <= b /\ (Large => reads = 1 .. b)

Stream(T, D, b, m, e, g) ==
  /\ Totals(T) /\ b \in 0 .. Started /\ m \in b .. Started /\ e \in Nat /\ g \in Nat
  /\ Streamed(T, D, b, e, g) /\ Tracked(T, D, b, m, e) /\ ReadUp(b)

StreamInv == InStep => \E T, D, b, m, e, g : Stream(T, D, b, m, e, g)

LEMMA TotalsAscend ==
  ASSUME TypeInv, NEW T, Totals(T)
  PROVE  Ascending(T, Started)
BY TxFields DEF TypeInv, Totals, Ascending

\* Callbacks of the sender, and the steps of wps_frag_send that queue nothing.
LEMMA KeepStream ==
  ASSUME StreamInv, InStep' => InStep, cfg' = cfg, sizes' = sizes, rx' = rx, out' = out,
         reads' = reads, tx'.queue = tx.queue, Sending' => Sending /\ tx'.id = tx.id,
         \A T : Totals(T) => Acked(T)' = Acked(T)
  PROVE  StreamInv'
<1> SUFFICES ASSUME InStep' PROVE \E T, D, b, m, e, g : Stream(T, D, b, m, e, g)'
  BY DEF StreamInv
<1>1. PICK T, D, b, m, e, g : Stream(T, D, b, m, e, g)
  BY DEF StreamInv
<1>2. Started' = Started /\ LastRead' = LastRead /\ Large' = Large /\ reads' = reads
  BY DEF Started, LastRead, Large
<1>3. Totals(T)' /\ Acked(T)' = Acked(T)
  BY <1>1, TotalsStay DEF Stream
<1>4. Streamed(T, D, b, e, g)'
  BY <1>1, <1>2, <1>3 DEF Stream, Streamed
<1>5. Tracked(T, D, b, m, e)' /\ ReadUp(b)'
  BY <1>1, <1>2 DEF Stream, Tracked, ReadUp
<1>6. Stream(T, D, b, m, e, g)'
  BY <1>1, <1>2, <1>3, <1>4, <1>5 DEF Stream
<1> QED
  BY <1>6

LEMMA StartSendStream ==
  ASSUME FragAssumption, TypeInv, StreamInv, NEW size \in Sizes, StartSend(size)
  PROVE  StreamInv'
<1>1. /\ tx'.queue = tx.queue /\ tx'.id = tx.id /\ tx'.torn = tx.torn /\ tx'.moved = tx.moved
      /\ cfg' = cfg /\ rx' = rx /\ out' = out /\ reads' = reads
  BY StartSendFields
<1> SUFFICES ASSUME InStep' PROVE \E T, D, b, m, e, g : Stream(T, D, b, m, e, g)'
  BY DEF StreamInv
<1>2. PICK T, D, b, m, e, g : Stream(T, D, b, m, e, g)
  BY <1>1 DEF StreamInv, InStep
<1>3. /\ Started \in Nat /\ Started' = Started + 1
      /\ T[Started] \in Nat /\ FragmentsSent(size) \in Nat /\ FragmentsSent(size) >= 1
  BY <1>2, StartSendTotals DEF Stream
<1>4. PICK U : /\ Totals(U)' /\ U[Started + 1] = T[Started] + FragmentsSent(size)
               /\ \A k \in 0 .. Started : U[k] = T[k]
               /\ Acked(U)' = Acked(T)
  BY <1>2, StartSendTotals DEF Stream
<1>5. PICK E : E[Started + 1] = tx.id /\ \A k \in 1 .. Started : E[k] = D[k]
  <2> DEFINE F == [k \in 1 .. Started + 1 |-> IF k = Started + 1 THEN tx.id ELSE D[k]]
  <2>1. F[Started + 1] = tx.id /\ \A k \in 1 .. Started : F[k] = D[k]
    BY <1>3
  <2> QED
    BY <2>1
<1>6. b \in 0 .. Started' /\ m \in b .. Started' /\ b \in 0 .. Started /\ m \in 0 .. Started /\ m \in Nat
  BY <1>2, <1>3 DEF Stream
<1>7. U[b] = T[b] /\ U[m] = T[m]
  BY <1>4, <1>6
<1>8. Streamed(U, E, b, e, g)'
  <2>1. /\ Placed(U, E, Started + 1, rx.queue, T[b]) /\ Placed(U, E, Started + 1, rx.fresh, e)
        /\ Placed(U, E, Started + 1, tx.queue, g)
    BY <1>2, <1>3, <1>4, <1>5, PlacedMore DEF Stream, Streamed
  <2>2. e = U[b] + Len(rx'.queue) /\ g = e + Len(rx'.fresh) /\ g = Acked(U)'
    BY <1>1, <1>2, <1>4, <1>7 DEF Stream, Streamed
  <2>3. E[Started'] = tx'.id
    BY <1>1, <1>3, <1>5
  <2> QED
    BY <1>1, <1>3, <1>7, <2>1, <2>2, <2>3 DEF Stream, Streamed
<1>9. Tracked(U, E, b, m, e)'
  <2>1. U[m] <= e /\ rx'.index = e - U[m] /\ ~rx'.dropped /\ rx'.count = m - b
    BY <1>1, <1>2, <1>7 DEF Stream, Tracked
  <2>2. m < Started' /\ e < U[m + 1]
    <3>1. CASE m < Started
      <4>1. m + 1 \in 0 .. Started
        BY <1>3, <1>6, <3>1
      <4> QED
        BY <1>2, <1>3, <1>4, <1>6, <3>1, <4>1 DEF Stream, Tracked
    <3>2. CASE ~(m < Started)
      <4>1. m = Started /\ e = T[Started]
        BY <1>2, <1>3, <1>6, <3>2 DEF Stream, Tracked
      <4> QED
        BY <1>3, <1>4, <4>1
    <3> QED
      BY <3>1, <3>2
  <2>3. rx'.index > 0 => rx'.id = E[m + 1]
    <3> SUFFICES ASSUME rx.index > 0 PROVE rx.id = E[m + 1]
      BY <1>1
    <3>1. m < Started
      <4> SUFFICES ASSUME ~(m < Started) PROVE FALSE
        OBVIOUS
      <4>1. e = T[m] /\ rx.index = e - T[m] /\ e \in Nat
        BY <1>2 DEF Stream, Tracked
      <4> QED
        BY <4>1
    <3>2. m + 1 \in 1 .. Started
      BY <1>3, <1>6, <3>1
    <3> QED
      BY <1>2, <1>5, <3>2 DEF Stream, Tracked
  <2> QED
    BY <2>1, <2>2, <2>3 DEF Stream, Tracked
<1>10. ReadUp(b)'
  BY <1>1, <1>2 DEF Stream, ReadUp, LastRead, Large
<1>11. Stream(U, E, b, m, e, g)'
  BY <1>2, <1>4, <1>6, <1>8, <1>9, <1>10 DEF Stream
<1> QED
  BY <1>11

LEMMA SendFragmentStream ==
  ASSUME FragAssumption, TypeInv, StreamInv, SendFragment
  PROVE  StreamInv'
<1> SUFFICES ASSUME InStep' PROVE \E T, D, b, m, e, g : Stream(T, D, b, m, e, g)'
  BY DEF StreamInv
<1>1. tx'.torn = {} /\ InStep
  <2>1. tx.torn \subseteq tx'.torn /\ tx'.moved = tx.moved
    <3>1. tx \in TxStates
      BY DEF TypeInv, TypeOK
    <3>2. \/ tx' = [tx EXCEPT !.queue = tx'.queue, !.done = @ + 1]
          \/ tx' = [tx EXCEPT !.count = 0, !.torn = @ \cup {Started}]
      BY <3>1 DEF SendFragment, TxStates
    <3> QED
      BY <3>1, <3>2 DEF TxStates
  <2> QED
    BY <2>1 DEF InStep, SendFragment
<1>2. PICK T, D, b, m, e, g : Stream(T, D, b, m, e, g)
  BY <1>1 DEF StreamInv
<1>3. Totals(T)
  BY <1>2 DEF Stream
<1>4. PICK f \in FragmentType :
        /\ tx'.queue = Append(tx.queue, f) /\ f.payload = Started /\ f.num = tx.done /\ f.id = tx.id
        /\ Ends(f) <=> tx.done = tx.count - 1
        /\ f.kind = "full" <=> tx.count = 1
        /\ f.kind = "last" <=> tx.count > 1 /\ tx.done = tx.count - 1
        /\ tx'.id = tx.id /\ Sending /\ tx.done < tx.count
        /\ cfg' = cfg /\ sizes' = sizes /\ rx' = rx /\ out' = out /\ reads' = reads
        /\ Acked(T)' = Acked(T)
  BY <1>1, <1>3, SendFragmentFields
<1>5. Started' = Started /\ LastRead' = LastRead /\ Large' = Large
  BY <1>4 DEF Started, LastRead, Large
<1>6. At(T, D, Started, f, g + Len(tx.queue) + 1)
  <2> DEFINE d == tx.done
             n == tx.count
             q == Len(tx.queue)
             c == T[Started - 1]
             i == g + q + 1
  <2>1. Started \in 1 .. Started /\ T[Started] = c + n /\ c \in Nat /\ g = c + d - q
    <3>1. /\ Finished = Started - 1 /\ Started >= 1 /\ Started \in Nat /\ T[Finished] \in Nat
          /\ T[Started] = T[Finished] + tx.count
          /\ Acked(T) = T[Finished] + tx.done - Len(tx.queue)
      BY <1>3, <1>4, AckedFacts
    <3>2. g = Acked(T)
      BY <1>2 DEF Stream, Streamed
    <3> QED
      BY <3>1, <3>2
  <2>2. d \in Nat /\ n \in Nat /\ q \in Nat /\ d < n
    BY <1>4, TxFields DEF TypeInv
  <2>3. D[Started] = tx.id
    BY <1>2, <1>4 DEF Stream, Streamed
  <2>4. f.payload = Started /\ f.num = d /\ f.id = tx.id
    BY <1>4
  <2>5. (Ends(f) <=> d = n - 1) /\ (f.kind = "full" <=> n = 1) /\ (f.kind = "last" <=> n > 1 /\ d = n - 1)
    BY <1>4
  <2> HIDE DEF d, n, q, c
  <2>6. i = c + d + 1 /\ i <= T[Started] /\ (i = T[Started] <=> d = n - 1)
    BY <2>1, <2>2
  <2>7. (n = 1 => T[Started] = c + 1) /\ (n > 1 => T[Started] > c + 1)
    BY <2>1, <2>2
  <2> HIDE DEF i
  <2>8. At(T, D, Started, f, i)
    BY <2>1, <2>3, <2>4, <2>5, <2>6, <2>7 DEF At, c
  <2> QED
    BY <2>8 DEF i, q
<1>7. Streamed(T, D, b, e, g)'
  <2>1. tx.queue \in Seq(FragmentType) /\ g \in Int
    BY <1>2, TxFields DEF TypeInv, Stream
  <2>2. Placed(T, D, Started, tx.queue, g)
    BY <1>2 DEF Stream, Streamed
  <2>3. Placed(T, D, Started, tx'.queue, g)
    BY <1>4, <1>6, <2>1, <2>2, PlacedAppend
  <2> QED
    BY <1>2, <1>4, <1>5, <2>3 DEF Stream, Streamed
<1>8. Tracked(T, D, b, m, e)' /\ ReadUp(b)'
  BY <1>2, <1>4, <1>5 DEF Stream, Tracked, ReadUp
<1>9. Stream(T, D, b, m, e, g)'
  <2>1. Totals(T)'
    BY <1>3, <1>4, TotalsStay
  <2> QED
    BY <1>2, <1>5, <1>7, <1>8, <2>1 DEF Stream
<1> QED
  BY <1>9

LEMMA DeliverStream ==
  ASSUME FragAssumption, TypeInv, StreamInv, Deliver \/ Drop
  PROVE  StreamInv'
<1> SUFFICES ASSUME InStep' PROVE \E T, D, b, m, e, g : Stream(T, D, b, m, e, g)'
  BY DEF StreamInv
<1>1. cfg' = cfg /\ sizes' = sizes /\ out' = out /\ reads' = reads /\ Carry(TRUE, TRUE)
  BY DEF Deliver, Drop, Carry, InStep
<1>2. /\ tx.queue # <<>> /\ Head(tx.queue) \in FragmentType
      /\ tx'.queue = Tail(tx.queue) /\ tx'.count = tx.count /\ tx'.done = tx.done /\ tx'.id = tx.id
      /\ tx'.torn = tx.torn /\ tx'.moved = tx.moved
      /\ rx'.queue = rx.queue /\ rx'.index = rx.index /\ rx'.id = rx.id
      /\ rx'.dropped = rx.dropped /\ rx'.count = rx.count
      /\ rx'.fresh = Append(rx.fresh, Head(tx.queue))
  BY <1>1, CarryFields
<1>3. PICK T, D, b, m, e, g : Stream(T, D, b, m, e, g)
  BY <1>1, <1>2 DEF StreamInv, InStep
<1>4. Started' = Started /\ LastRead' = LastRead /\ Large' = Large /\ Finished' = Finished
      /\ (Sending' <=> Sending)
  BY <1>1, <1>2 DEF Started, LastRead, Large, Finished, Sending
<1>5. /\ tx.queue \in Seq(FragmentType) /\ rx.fresh \in Seq(FragmentType)
      /\ Len(rx.fresh) \in Nat /\ g \in Nat /\ e \in Nat /\ g = e + Len(rx.fresh) /\ g = Acked(T)
      /\ Placed(T, D, Started, tx.queue, g) /\ Placed(T, D, Started, rx.fresh, e)
  BY <1>3, TxFields, RxFields DEF TypeInv, TypeOK, Stream, Streamed
<1>6. At(T, D, Started, Head(tx.queue), g + 1) /\ Placed(T, D, Started, tx'.queue, g + 1)
  <2> DEFINE q == tx.queue
             s == Started
  <2>1. q \in Seq(FragmentType) /\ q # <<>> /\ g \in Int /\ Placed(T, D, s, q, g)
    BY <1>2, <1>5
  <2> HIDE DEF q, s
  <2>2. At(T, D, s, Head(q), g + 1) /\ Placed(T, D, s, Tail(q), g + 1)
    BY <2>1, PlacedTail
  <2> QED
    BY <1>2, <2>2 DEF q, s
<1>7. Placed(T, D, Started, rx'.fresh, e)
  <2> DEFINE q == rx.fresh
             s == Started
             f == Head(tx.queue)
  <2>1. e + Len(q) + 1 = g + 1
    BY <1>5
  <2>2. At(T, D, s, f, e + Len(q) + 1)
    BY <1>6, <2>1
  <2>3. q \in Seq(FragmentType) /\ f \in FragmentType /\ e \in Int /\ Placed(T, D, s, q, e)
    BY <1>2, <1>5
  <2> HIDE DEF q, s, f
  <2>4. Placed(T, D, s, Append(q, f), e)
    BY <2>2, <2>3, PlacedAppend
  <2> QED
    BY <1>2, <2>4 DEF q, s, f
<1>8. g + 1 = e + Len(rx'.fresh)
  <2>1. Len(rx'.fresh) = Len(rx.fresh) + 1
    BY <1>2, <1>5, AppendTo
  <2> QED
    BY <1>5, <2>1
<1>9. Acked(T)' = g + 1
  <2> DEFINE c == T[Finished]
             x == IF Sending THEN tx.done ELSE 0
             l == Len(tx.queue)
  <2>1. Acked(T) = c + x - l /\ Acked(T)' = c + x - Len(tx'.queue)
    BY <1>2, <1>4 DEF Acked
  <2>2. c \in Nat /\ x \in Nat
    <3>1. tx.done \in Nat
      BY TxFields DEF TypeInv
    <3> QED
      BY <1>3, <3>1, AckedFacts DEF Stream
  <2>3. l \in Nat /\ Len(tx'.queue) = l - 1
    BY <1>2, <1>5, TailOf
  <2>4. g \in Nat /\ g = c + x - l
    BY <1>5, <2>1
  <2>5. Acked(T)' = c + x - (l - 1)
    BY <2>1, <2>3
  <2> HIDE DEF c, x, l
  <2>6. c + x - (l - 1) = g + 1
    BY <2>2, <2>3, <2>4
  <2> QED
    BY <2>5, <2>6
<1>10. Streamed(T, D, b, e, g + 1)'
  BY <1>2, <1>3, <1>4, <1>6, <1>7, <1>8, <1>9 DEF Stream, Streamed
<1>11. Tracked(T, D, b, m, e)' /\ ReadUp(b)'
  BY <1>1, <1>2, <1>3, <1>4 DEF Stream, Tracked, ReadUp
<1>12. Stream(T, D, b, m, e, g + 1)'
  <2>1. Totals(T)' /\ g + 1 \in Nat
    BY <1>1, <1>3, <1>5, TotalsStay DEF Stream
  <2> QED
    BY <1>3, <1>4, <1>10, <1>11, <2>1 DEF Stream
<1> QED
  BY <1>12

LEMMA StreamFacts ==
  ASSUME FragAssumption, TypeInv, NEW T, NEW D, NEW b, NEW m, NEW e, NEW g, Stream(T, D, b, m, e, g)
  PROVE  /\ Ascending(T, Started) /\ Started \in Nat
         /\ b \in 0 .. Started /\ m \in b .. Started /\ m \in 0 .. Started
         /\ b \in Nat /\ m \in Nat /\ e \in Nat /\ g \in Nat /\ T[b] \in Nat /\ T[m] \in Nat
         /\ rx.queue \in Seq(FragmentType) /\ rx.fresh \in Seq(FragmentType)
         /\ Placed(T, D, Started, rx.queue, T[b]) /\ e = T[b] + Len(rx.queue)
         /\ T[m] <= e /\ IF m < Started THEN e < T[m + 1] ELSE e = T[m]
         /\ g <= T[Started] /\ e <= g
<1>1. Totals(T)
  BY DEF Stream
<1>2. Ascending(T, Started) /\ Started \in Nat
  BY <1>1, TotalsAscend, TxFields DEF TypeInv
<1>3. b \in 0 .. Started /\ m \in b .. Started /\ e \in Nat /\ g \in Nat
  BY DEF Stream
<1>4. m \in 0 .. Started /\ m \in Nat /\ b \in Nat
  BY <1>2, <1>3
<1>5. T[b] \in Nat /\ T[m] \in Nat
  BY <1>2, <1>3, <1>4, AscendingFacts
<1>6. rx.queue \in Seq(FragmentType) /\ rx.fresh \in Seq(FragmentType)
  BY RxFields DEF TypeInv, TypeOK
<1>7. /\ Placed(T, D, Started, rx.queue, T[b]) /\ e = T[b] + Len(rx.queue)
      /\ T[m] <= e /\ IF m < Started THEN e < T[m + 1] ELSE e = T[m]
      /\ g = e + Len(rx.fresh) /\ g = Acked(T)
  BY DEF Stream, Streamed, Tracked
<1>8. g <= T[Started]
  <2> DEFINE l == Len(tx.queue)
             c == tx.count
             d == tx.done
             a == T[Finished]
             n == T[Started]
  <2>1. l \in Nat /\ c \in Nat /\ d \in Nat /\ (Sending => d <= c)
    BY TxFields DEF TypeInv, SendOK
  <2>2. a \in Nat /\ (~Sending => Finished = Started /\ g = n - l)
        /\ (Sending => n = a + c /\ g = a + d - l)
    BY <1>1, <1>7, AckedFacts
  <2>3. ~Sending => n = a
    BY <2>2
  <2> HIDE DEF l, c, d, a, n
  <2>4. g <= n
    BY <2>1, <2>2, <2>3
  <2> QED
    BY <2>4 DEF n
<1>9. e <= g
  <2>1. Len(rx.fresh) \in Nat
    BY <1>6
  <2> QED
    BY <1>3, <1>7, <2>1
<1> QED
  BY <1>2, <1>3, <1>4, <1>5, <1>6, <1>7, <1>8, <1>9

\* What wps_frag_get_fifo_size returns.
LEMMA CountFollows ==
  ASSUME FragAssumption, TypeInv, StreamInv
  PROVE  CountComplete
<1> SUFFICES ASSUME InStep
             PROVE  rx.count = Cardinality(Endings(rx.queue))
  BY DEF CountComplete, Endings
<1>1. PICK T, D, b, m, e, g : Stream(T, D, b, m, e, g)
  BY DEF StreamInv
<1>2. rx.count = m - b
  BY <1>1 DEF Stream, Tracked
<1> DEFINE q == rx.queue
           n == Started
<1>3. /\ Ascending(T, n) /\ b \in 0 .. n /\ m \in b .. n /\ e \in Nat
      /\ q \in Seq(FragmentType) /\ Placed(T, D, n, q, T[b])
      /\ T[m] <= T[b] + Len(q) /\ (m < n => T[b] + Len(q) < T[m + 1])
  <2>1. e = T[b] + Len(q) /\ T[m] <= e /\ IF m < n THEN e < T[m + 1] ELSE e = T[m]
    BY <1>1, StreamFacts
  <2>2. m < n => e < T[m + 1]
    BY <2>1
  <2> QED
    BY <1>1, <2>1, <2>2, StreamFacts
<1> HIDE DEF q, n
<1>4. Cardinality(Endings(q)) = m - b
  BY ZenonT(30), <1>3, EndsCount
<1> QED
  BY <1>2, <1>4 DEF q

LEMMA ReadFollows ==
  ASSUME FragAssumption, TypeInv, StreamInv
  PROVE  AllRead
<1> SUFFICES ASSUME InStep, Large, Quiet PROVE reads = 1 .. Started
  BY DEF AllRead
<1>1. PICK T, D, b, m, e, g : Stream(T, D, b, m, e, g)
  BY DEF StreamInv
<1>2. /\ Ascending(T, Started) /\ Started \in Nat
      /\ b \in Nat /\ m \in Nat /\ m \in 0 .. Started /\ e \in Nat /\ T[m] \in Nat
      /\ T[m] <= e /\ IF m < Started THEN e < T[m + 1] ELSE e = T[m]
  BY <1>1, StreamFacts
<1>3. m = b
  <2>1. rx.count = 0 /\ rx.count = m - b
    BY <1>1 DEF Quiet, Stream, Tracked
  <2> QED
    BY <1>2, <2>1
<1>4. e = T[Started]
  <2>1. g = e /\ g = Acked(T)
    BY <1>1, <1>2 DEF Stream, Streamed, Quiet
  <2>2. Acked(T) = T[Started]
    <3>1. T[Started] \in Nat
      BY <1>2 DEF Ascending
    <3>2. Acked(T) = T[Started] + 0 - 0
      BY DEF Quiet, Acked, Finished
    <3> QED
      BY <3>1, <3>2
  <2> QED
    BY <2>1, <2>2
<1>5. m = Started
  <2> SUFFICES ASSUME m < Started PROVE FALSE
    BY <1>2
  <2>1. m + 1 \in 0 .. Started /\ Started \in 0 .. Started /\ m + 1 <= Started
    BY <1>2
  <2>2. T[m + 1] <= T[Started] /\ T[m + 1] \in Nat /\ T[Started] \in Nat
    BY <1>2, <2>1, AscendingFacts
  <2>3. T[Started] < T[m + 1]
    BY <1>2, <1>4
  <2> QED
    BY <2>2, <2>3
<1>6. reads = 1 .. b
  BY <1>1 DEF Stream, ReadUp
<1> QED
  BY <1>3, <1>5, <1>6

\* A fragment that continues the stream is taken as such: the next of its
\* payload, or its last.
LEMMA FollowStream ==
  ASSUME FragAssumption, NEW r \in RxStates, ~r.dropped, NEW f \in FragmentType, f.num = r.index,
         f.kind = "full" => r.index = 0, r.index > 0 => f.id = r.id
  PROVE  /\ ReadProcess(r, f).queue = r.queue /\ ~ReadProcess(r, f).dropped
         /\ Ends(f) => /\ ReadProcess(r, f).index = 0
                       /\ ReadProcess(r, f).count = (r.count + 1) % CountModulus
         /\ ~Ends(f) => /\ ReadProcess(r, f).index = r.index + 1 /\ ReadProcess(r, f).id = f.id
                        /\ ReadProcess(r, f).count = r.count
<1> DEFINE s == [r EXCEPT !.dropped = @ /\ f.kind # "full"]
<1>1. s = r
  BY RxFields DEF RxStates
<1>2. ReadProcess(r, f) = Follow(r, f)
  BY <1>1 DEF ReadProcess
<1>3. f.kind \in {"full", "more", "last"} /\ f.num \in Nat /\ r.index \in Nat
  BY RxFields DEF FragmentType
<1>4. CASE f.kind = "full"
  <2>1. Follow(r, f) = Told(r)
    BY <1>4 DEF Follow
  <2> QED
    BY <1>2, <1>4, <2>1, TellFacts DEF Ends
<1>5. CASE f.kind = "more"
  <2>1. f.id = r.id \/ f.num = 0
    BY <1>3
  <2>2. Follow(r, f) = [r EXCEPT !.index = @ + 1, !.id = f.id]
    BY <1>5, <2>1 DEF Follow
  <2>3. /\ Follow(r, f).queue = r.queue /\ Follow(r, f).dropped = r.dropped
        /\ Follow(r, f).index = r.index + 1 /\ Follow(r, f).id = f.id /\ Follow(r, f).count = r.count
    BY <2>2 DEF RxStates
  <2> QED
    BY <1>2, <1>5, <2>3 DEF Ends
<1>6. CASE f.kind = "last"
  <2> DEFINE a == [r EXCEPT !.index = 0]
  <2>1. Follow(r, f) = Told(a)
    BY <1>6 DEF Follow
  <2>2. a \in RxStates /\ a.queue = r.queue /\ a.dropped = r.dropped /\ a.index = 0 /\ a.count = r.count
    BY DEF RxStates
  <2> HIDE DEF a
  <2> QED
    BY <1>2, <1>6, <2>1, <2>2, TellFacts DEF Ends
<1> QED
  BY <1>3, <1>4, <1>5, <1>6

LEMMA ReceiveStream ==
  ASSUME FragAssumption, TypeInv, TypeInv', StreamInv, RxSuccessCallback
  PROVE  StreamInv'
<1> SUFFICES ASSUME InStep' PROVE \E T, D, b, m, e, g : Stream(T, D, b, m, e, g)'
  BY DEF StreamInv
<1>1. cfg' = cfg /\ tx' = tx /\ out' = out /\ sizes' = sizes /\ reads' = reads
  BY DEF RxSuccessCallback
<1>2. PICK T, D, b, m, e, g : Stream(T, D, b, m, e, g)
  BY <1>1 DEF StreamInv, InStep
<1>3. PICK r \in RxStates :
        /\ rx.fresh # <<>> /\ Head(rx.fresh) \in FragmentType
        /\ r.fresh = Tail(rx.fresh) /\ r.queue = Append(rx.queue, Head(rx.fresh))
        /\ r.index = rx.index /\ r.id = rx.id /\ r.dropped = rx.dropped /\ r.count = rx.count
        /\ rx' = ReadProcess(r, Head(rx.fresh))
        /\ rx' \in RxStates /\ rx'.fresh = r.fresh
  BY RxSuccessFields
<1>4. /\ Ascending(T, Started) /\ Started \in Nat
      /\ b \in 0 .. Started /\ m \in b .. Started /\ m \in 0 .. Started
      /\ b \in Nat /\ m \in Nat /\ e \in Nat /\ g \in Nat /\ T[b] \in Nat /\ T[m] \in Nat
      /\ rx.queue \in Seq(FragmentType) /\ rx.fresh \in Seq(FragmentType)
      /\ Placed(T, D, Started, rx.queue, T[b]) /\ e = T[b] + Len(rx.queue)
      /\ T[m] <= e /\ IF m < Started THEN e < T[m + 1] ELSE e = T[m]
      /\ g <= T[Started] /\ e <= g
  BY <1>2, StreamFacts
<1>5. /\ rx.index = e - T[m] /\ (rx.index > 0 => rx.id = D[m + 1]) /\ ~rx.dropped /\ rx.count = m - b
      /\ Placed(T, D, Started, rx.fresh, e) /\ g = e + Len(rx.fresh) /\ g = Acked(T)
      /\ Placed(T, D, Started, tx.queue, g) /\ (Sending => D[Started] = tx.id)
  BY <1>2 DEF Stream, Streamed, Tracked
<1> DEFINE f == Head(rx.fresh)
           n == Started
<1>6. At(T, D, n, f, e + 1) /\ Placed(T, D, n, rx'.fresh, e + 1) /\ Len(rx'.fresh) = Len(rx.fresh) - 1
      /\ Len(rx.fresh) \in Nat /\ Len(rx.fresh) >= 1
  <2> DEFINE q == rx.fresh
  <2>1. q \in Seq(FragmentType) /\ q # <<>> /\ e \in Int /\ Placed(T, D, n, q, e)
    BY <1>3, <1>4, <1>5
  <2> HIDE DEF q, n
  <2>2. At(T, D, n, Head(q), e + 1) /\ Placed(T, D, n, Tail(q), e + 1)
    BY <2>1, PlacedTail
  <2>3. Len(Tail(q)) = Len(q) - 1 /\ Len(q) \in Nat /\ Len(q) >= 1
    BY <2>1, TailOf
  <2> QED
    BY <1>3, <2>2, <2>3 DEF q
<1>7. m < n /\ e < T[m + 1] /\ m + 1 \in 0 .. n /\ T[m + 1] \in Nat
  <2>1. e < g
    BY <1>4, <1>5, <1>6
  <2>2. m < n
    <3> SUFFICES ASSUME ~(m < n) PROVE FALSE
      OBVIOUS
    <3>1. m = n /\ e = T[m]
      BY <1>4
    <3>2. e = T[Started]
      BY <3>1
    <3> QED
      BY <1>4, <2>1, <3>2
  <2>3. m + 1 \in 0 .. n
    BY <1>4, <2>2
  <2>4. T[m + 1] \in Nat
    BY <1>4, <2>3, AscendingFacts
  <2> QED
    BY <1>4, <2>2, <2>3, <2>4
<1>8. /\ f.payload = m + 1 /\ f.num = rx.index /\ f.id = D[m + 1]
      /\ Ends(f) <=> e + 1 = T[m + 1]
      /\ f.kind = "full" => T[m + 1] = T[m] + 1
  <2> DEFINE i == e + 1
  <2>1. i \in Int /\ T[m] < i /\ i <= T[m + 1]
    <3> DEFINE x == T[m]
               y == T[m + 1]
    <3>1. x \in Nat /\ y \in Nat /\ e \in Nat /\ x <= e /\ e < y
      BY <1>4, <1>7
    <3> HIDE DEF x, y
    <3>2. x < e + 1 /\ e + 1 <= y
      BY <3>1
    <3> QED
      BY <1>4, <3>2 DEF x, y
  <2>2. At(T, D, n, f, i) /\ f \in FragmentType /\ Ascending(T, n) /\ m \in Nat /\ m < n
    BY <1>3, <1>4, <1>6, <1>7
  <2> HIDE DEF f, i, n
  <2>3. /\ f.payload = m + 1 /\ f.num = i - T[m] - 1 /\ f.id = D[m + 1]
        /\ Ends(f) <=> i = T[m + 1]
        /\ f.kind = "full" => T[m + 1] = T[m] + 1
    <3>1. Inside(T, n, m, i)
      BY <2>1, <2>2 DEF Inside
    <3>2. Here(T, D, m, f, i)
      BY <2>2, <3>1, AtPlace
    <3> QED
      BY <3>2 DEF Here
  <2>4. i - T[m] - 1 = e - T[m]
    BY <1>4 DEF i
  <2> QED
    BY <1>5, <2>3, <2>4 DEF i
<1> HIDE DEF f
<1>9. /\ rx'.queue = r.queue /\ ~rx'.dropped
      /\ Ends(f) => /\ rx'.index = 0 /\ rx'.count = (rx.count + 1) % CountModulus
      /\ ~Ends(f) => /\ rx'.index = rx.index + 1 /\ rx'.id = f.id /\ rx'.count = rx.count
  <2>1. f.kind = "full" => r.index = 0
    <3>1. f.kind = "full" => rx.index = 0
      BY SMTT(30), <1>4, <1>5, <1>7, <1>8
    <3> QED
      BY <1>3, <3>1
  <2>2. r.index > 0 => f.id = r.id
    BY <1>3, <1>5, <1>8
  <2>3. ~r.dropped /\ f.num = r.index /\ f \in FragmentType /\ rx' = ReadProcess(r, f)
    BY <1>3, <1>5, <1>8 DEF f
  <2>4. /\ ReadProcess(r, f).queue = r.queue /\ ~ReadProcess(r, f).dropped
        /\ Ends(f) => /\ ReadProcess(r, f).index = 0
                      /\ ReadProcess(r, f).count = (r.count + 1) % CountModulus
        /\ ~Ends(f) => /\ ReadProcess(r, f).index = r.index + 1 /\ ReadProcess(r, f).id = f.id
                       /\ ReadProcess(r, f).count = r.count
    BY <2>1, <2>2, <2>3, FollowStream
  <2> QED
    BY <1>3, <2>3, <2>4
<1>10. Placed(T, D, n, rx'.queue, T[b]) /\ e + 1 = T[b] + Len(rx'.queue)
  <2> DEFINE q == rx.queue
             a == T[b]
  <2>1. q \in Seq(FragmentType) /\ f \in FragmentType /\ a \in Int /\ Placed(T, D, n, q, a)
        /\ Len(q) \in Nat /\ e = a + Len(q)
    BY <1>3, <1>4 DEF f
  <2>2. At(T, D, n, f, a + Len(q) + 1)
    BY <1>6, <2>1 DEF f
  <2> HIDE DEF q, a, n
  <2>3. Placed(T, D, n, Append(q, f), a)
    BY <2>1, <2>2, PlacedAppend
  <2>4. Len(Append(q, f)) = Len(q) + 1
    BY <2>1, AppendTo
  <2>5. e + 1 = a + Len(Append(q, f))
    BY <2>1, <2>4
  <2> QED
    BY <1>3, <1>9, <2>3, <2>5 DEF q, a, f
<1>11. Started' = Started /\ LastRead' = LastRead /\ Large' = Large /\ (Sending' <=> Sending)
       /\ Totals(T)' /\ Acked(T)' = Acked(T)
  <2>1. Totals(T)'
    BY <1>1, <1>2, TotalsStay DEF Stream
  <2> QED
    BY <1>1, <2>1 DEF Started, LastRead, Large, Sending, Acked, Finished
<1>12. Streamed(T, D, b, e + 1, g)'
  <2>1. g = (e + 1) + Len(rx'.fresh)
    BY SMTT(30), <1>4, <1>5, <1>6
  <2> QED
    BY <1>1, <1>5, <1>6, <1>10, <1>11, <2>1 DEF Streamed
<1>13. ReadUp(b)'
  BY <1>1, <1>2, <1>11 DEF Stream, ReadUp
<1>14. CASE Ends(f)
  <2>1. e + 1 = T[m + 1] /\ m + 1 \in b .. n /\ rx'.index = (e + 1) - T[m + 1]
    BY <1>4, <1>7, <1>8, <1>9, <1>14
  <2>2. m + 1 < n => e + 1 < T[m + 1 + 1]
    <3> SUFFICES ASSUME m + 1 < n PROVE e + 1 < T[m + 1 + 1]
      OBVIOUS
    <3>1. m + 1 + 1 \in 0 .. n /\ m + 1 < m + 1 + 1
      BY <1>4
    <3> DEFINE k == m + 1
               l == k + 1
    <3>2. k \in 0 .. n /\ l \in 0 .. n /\ k < l
      BY <1>7, <3>1
    <3> HIDE DEF k, l
    <3>3. T[k] < T[l]
      BY <1>4, <3>2, AscendingFacts
    <3> QED
      BY <2>1, <3>3 DEF k, l
  <2>3. m + 1 - b < CountModulus
    <3> DEFINE q == rx'.queue
               k == m + 1
    <3>1. /\ k \in b .. n /\ q \in Seq(FragmentType) /\ Placed(T, D, n, q, T[b])
          /\ T[k] <= T[b] + Len(q) /\ (k < n => T[b] + Len(q) < T[k + 1])
          /\ b \in 0 .. n /\ Ascending(T, n)
      <4>1. q \in Seq(FragmentType)
        BY <1>3, RxFields
      <4>2. T[k] <= T[b] + Len(q)
        BY <1>7, <1>10, <2>1
      <4>3. k < n => T[b] + Len(q) < T[k + 1]
        BY <1>10, <2>2
      <4> QED
        BY <1>4, <1>10, <2>1, <4>1, <4>2, <4>3
    <3> HIDE DEF q, k, n
    <3>2. k - b <= Len(q)
      BY <3>1, EndsCount
    <3>3. Len(q) <= RxQueueSize /\ Len(q) \in Nat
      <4>1. Len(rx'.fresh) + Len(q) <= RxQueueSize /\ Len(rx'.fresh) \in Nat /\ Len(q) \in Nat
        BY <1>3, RxFields DEF TypeInv, TypeOK, q
      <4> QED
        BY <4>1, SizeFacts
    <3> QED
      BY <1>4, <3>2, <3>3, SizeFacts DEF k
  <2>4. rx'.count = m + 1 - b
    <3>1. rx.count + 1 = m + 1 - b /\ m + 1 - b \in Int /\ 0 <= m + 1 - b
      BY <1>4, <1>5
    <3> DEFINE c == m + 1 - b
    <3>2. rx'.count = c % CountModulus
      BY <1>9, <1>14, <3>1
    <3>3. c \in Int /\ 0 <= c /\ c < CountModulus
      BY <2>3, <3>1
    <3> HIDE DEF c
    <3>4. c % CountModulus = c
      BY <3>3, RemainderFacts, SizeFacts
    <3> QED
      BY <3>2, <3>4 DEF c
  <2>5. ~(m + 1 < n) => e + 1 = T[m + 1]
    BY <2>1
  <2>6. Tracked(T, D, b, m + 1, e + 1)'
    <3>1. ~(rx'.index > 0)
      BY <1>9, <1>14
    <3>2. T[m + 1] <= e + 1
      BY <1>7, <2>1
    <3>3. rx'.index = (e + 1) - T[m + 1]
      BY <2>1
    <3>4. IF m + 1 < Started' THEN e + 1 < T[m + 1 + 1] ELSE e + 1 = T[m + 1]
      BY <1>11, <2>2, <2>5
    <3> QED
      BY <1>4, <1>9, <2>4, <3>1, <3>2, <3>3, <3>4 DEF Tracked
  <2>7. Stream(T, D, b, m + 1, e + 1, g)'
    <3>1. e + 1 \in Nat
      BY <1>4
    <3> QED
      BY <1>4, <1>11, <1>12, <1>13, <2>1, <2>6, <3>1 DEF Stream
  <2> QED
    BY <2>7
<1>15. CASE ~Ends(f)
  <2>1. e + 1 < T[m + 1] /\ T[m] <= e + 1 /\ rx'.index = (e + 1) - T[m]
    <3>1. e + 1 # T[m + 1]
      BY <1>8, <1>15
    <3>2. rx'.index = e - T[m] + 1
      BY <1>5, <1>9, <1>15
    <3> DEFINE x == T[m]
               y == T[m + 1]
    <3>3. x \in Nat /\ y \in Nat /\ e \in Nat /\ x <= e /\ e < y /\ e + 1 # y
      BY <1>4, <1>7, <3>1
    <3> HIDE DEF x, y
    <3>4. e + 1 < y /\ x <= e + 1 /\ e - x + 1 = (e + 1) - x
      BY <3>3
    <3> QED
      BY <3>2, <3>4 DEF x, y
  <2>2. rx'.id = D[m + 1] /\ rx'.count = m - b
    BY <1>5, <1>8, <1>9, <1>15
  <2>3. Tracked(T, D, b, m, e + 1)'
    BY <1>7, <1>9, <1>11, <2>1, <2>2 DEF Tracked
  <2>4. Stream(T, D, b, m, e + 1, g)'
    <3>1. e + 1 \in Nat
      BY <1>4
    <3> QED
      BY <1>4, <1>11, <1>12, <1>13, <2>3, <3>1 DEF Stream
  <2> QED
    BY <2>4
<1> QED
  BY <1>14, <1>15

\* The first payload in the queue, once the application is told of it: its w
\* fragments are the first of the queue, in order, and only the last ends it.
FirstPayload(q, p, w) ==
  /\ w \in 1 .. Len(q)
  /\ \A i \in 1 .. w : q[i].payload = p /\ q[i].num = i - 1 /\ (Ends(q[i]) <=> i = w)
  /\ q[1].kind = "full" => w = 1
  /\ q[w].kind = "full" => w = 1
  /\ q[1].kind = "last" => w > 1
  /\ q[w].kind = "last" => w > 1

LEMMA PlacedFirst ==
  ASSUME NEW n, NEW T, Ascending(T, n), NEW D, NEW q \in Seq(FragmentType), NEW b \in Nat, b < n,
         Placed(T, D, n, q, T[b]), T[b + 1] <= T[b] + Len(q)
  PROVE  FirstPayload(q, b + 1, T[b + 1] - T[b])
<1> DEFINE w == T[b + 1] - T[b]
           x == T[b]
           y == T[b + 1]
           k == b + 1
<1>1. n \in Nat /\ b \in 0 .. n /\ k \in 0 .. n /\ b < k
  BY DEF Ascending
<1>2. x \in Nat /\ y \in Nat /\ x < y /\ Len(q) \in Nat /\ y <= x + Len(q) /\ w = y - x
  BY <1>1, AscendingFacts
<1> HIDE DEF w, x, y
<1>3. w \in Nat /\ w >= 1 /\ w <= Len(q) /\ w \in 1 .. Len(q) /\ y = x + w
  BY <1>2
<1>4. ASSUME NEW i \in 1 .. w
      PROVE  /\ q[i].payload = k /\ q[i].num = i - 1 /\ (Ends(q[i]) <=> i = w)
             /\ q[i].kind = "full" => w = 1
             /\ q[i].kind = "last" => w > 1
  <2> DEFINE f == q[i]
             j == x + i
  <2>1. i \in Nat /\ i >= 1 /\ i <= w /\ i \in DOMAIN q /\ j \in Int /\ x < j /\ j <= y
    BY <1>2, <1>3
  <2>2. At(T, D, n, f, j) /\ f \in FragmentType
    BY <2>1 DEF Placed, x
  <2>3. Inside(T, n, b, j)
    BY <2>1 DEF Inside, x, y
  <2> HIDE DEF f, j
  <2>4. Here(T, D, b, f, j)
    BY <2>2, <2>3, AtPlace
  <2>5. /\ f.payload = k /\ f.num = j - x - 1 /\ (Ends(f) <=> j = y)
        /\ f.kind = "full" => y = x + 1
        /\ f.kind = "last" => y > x + 1
    BY <2>4 DEF Here, x, y
  <2>6. j - x - 1 = i - 1 /\ (j = y <=> i = w) /\ (y = x + 1 => w = 1) /\ (y > x + 1 => w > 1)
    BY <1>2, <1>3, <2>1 DEF j
  <2> QED
    BY <2>5, <2>6 DEF f
<1>5. 1 \in 1 .. w /\ w \in 1 .. w
  BY <1>3
<1>6. FirstPayload(q, k, w)
  BY <1>3, <1>4, <1>5 DEF FirstPayload
<1> QED
  BY <1>6 DEF w

\* With the first payload whole in the queue, wps_frag_read finds its end.
LEMMA FirstEnd ==
  ASSUME NEW q \in Seq(FragmentType), NEW p, NEW w, FirstPayload(q, p, w), q[1].kind = "more"
  PROVE  ReadEnd(q) = w /\ w \in 2 .. Len(q) /\ q[w].kind = "last" /\ ErrorFlush(q) = From(q, w + 1)
<1>1. Len(q) \in Nat /\ w \in Nat /\ w >= 1 /\ w <= Len(q) /\ DOMAIN q = 1 .. Len(q)
  BY DEF FirstPayload
<1>2. \A i \in 1 .. w : Ends(q[i]) <=> i = w
  BY DEF FirstPayload
<1>3. w # 1
  <2>1. ~Ends(q[1]) /\ 1 \in 1 .. w
    BY <1>1 DEF Ends
  <2> QED
    BY <1>2, <2>1
<1>4. w \in 2 .. Len(q) /\ w \in 1 .. w /\ w \in DOMAIN q
  BY <1>1, <1>3
<1>5. q[w].kind = "last"
  <2>1. Ends(q[w]) /\ q[w].kind # "full"
    BY <1>2, <1>3, <1>4 DEF FirstPayload
  <2> QED
    BY <2>1 DEF Ends
<1>6. ASSUME NEW i \in 1 .. w - 1 PROVE q[i].kind = "more"
  <2>1. i \in 1 .. w /\ i # w /\ i \in DOMAIN q
    BY <1>1
  <2>2. ~Ends(q[i]) /\ q[i] \in FragmentType
    BY <1>2, <2>1
  <2> QED
    BY <2>2 DEF Ends, FragmentType
<1>7. ReadEnd(q) = w
  <2> DEFINE k == ReadEnd(q)
  <2>1. k \in 1 .. Len(q) + 1 /\ k <= w
    BY <1>4, <1>5, ReadEndFacts
  <2>2. k \in Nat /\ k >= 2 /\ q[k].kind # "more"
    <3>1. k <= Len(q) /\ k \in Nat
      BY <1>1, <2>1
    <3> QED
      BY <3>1, ReadEndFacts
  <2> HIDE DEF k
  <2>3. ~(k \in 1 .. w - 1)
    BY <1>6, <2>2
  <2>4. k = w
    BY <1>1, <2>1, <2>2, <2>3
  <2> QED
    BY <2>4 DEF k
<1>8. ErrorFlush(q) = From(q, w + 1)
  <2> DEFINE S == {i \in DOMAIN q : q[i].kind = "last"}
             k == FirstOf(S, q)
  <2>1. S \in SUBSET DOMAIN q /\ w \in S
    BY <1>4, <1>5
  <2>2. ErrorFlush(q) = From(q, k + 1)
    BY DEF ErrorFlush
  <2> HIDE DEF S
  <2>3. k \in S /\ k <= w
    BY <2>1, FirstOfFacts
  <2>4. k \in DOMAIN q /\ q[k].kind = "last"
    BY <2>3 DEF S
  <2> HIDE DEF k
  <2>5. ~(k \in 1 .. w - 1)
    BY <1>6, <2>4
  <2>6. k = w
    BY <1>1, <2>3, <2>4, <2>5
  <2> QED
    BY <2>2, <2>6
<1> QED
  BY <1>4, <1>5, <1>7, <1>8

LEMMA SizeSent ==
  ASSUME FragAssumption, TypeInv, NEW k \in 1 .. Started
  PROVE  sizes[k] \in Sizes /\ sizes[k] \in Nat
<1>1. sizes \in Seq(Sizes) /\ k \in DOMAIN sizes
  BY DEF TypeInv, TypeOK, Started
<1>2. sizes[k] \in Sizes
  BY <1>1
<1> QED
  BY <1>2, SizeFacts

\* While nothing is lost, wps_frag_read takes the first payload off the queue,
\* and returns it whole unless it is too long for the buffer.
LEMMA FragReadWhole ==
  ASSUME FragAssumption, TypeInv, FragRead, NEW p, NEW w, FirstPayload(rx.queue, p, w)
  PROVE  /\ rx'.queue = From(rx.queue, w + 1) /\ rx'.count = (rx.count - 1) % CountModulus
         /\ rx'.fresh = rx.fresh /\ rx'.index = rx.index /\ rx'.id = rx.id /\ rx'.dropped = rx.dropped
         /\ \/ out' = out /\ sizes[p] > cfg.buffer
            \/ out' = SubSeq(rx.queue, 1, w)
<1> DEFINE q == rx.queue
<1>1. q \in Seq(FragmentType)
  BY RxFields DEF TypeInv, TypeOK
<1>2. /\ w \in 1 .. Len(q) /\ q # <<>> /\ Len(q) \in Nat
      /\ q[1].payload = p /\ q[1].num = 0 /\ (Ends(q[1]) <=> 1 = w)
      /\ q[1].kind = "full" => w = 1
      /\ q[1].kind = "last" => w > 1
  <2>1. w \in 1 .. Len(q) /\ Len(q) \in Nat
    BY <1>1 DEF FirstPayload
  <2>2. 1 \in 1 .. w /\ q # <<>>
    BY <1>1, <2>1
  <2> QED
    BY <2>1, <2>2 DEF FirstPayload
<1>3. q[1].kind # "last"
  BY <1>2 DEF Ends
<1>4. rx'.fresh = rx.fresh /\ rx'.index = rx.index /\ rx'.id = rx.id /\ rx'.dropped = rx.dropped
  BY FragReadFields
<1>5. CASE q[1].kind = "more"
  <2>1. ReadEnd(q) = w /\ w <= Len(q) /\ q[w].kind = "last" /\ ErrorFlush(q) = From(q, w + 1)
    <3> HIDE DEF q
    <3> QED
      BY <1>1, <1>2, <1>5, FirstEnd DEF q
  <2>2. \/ /\ out' = out /\ sizes[q[1].payload] > cfg.buffer
           /\ rx'.queue = ErrorFlush(q) /\ rx'.count = (rx.count - 1) % CountModulus
        \/ /\ out' = SubSeq(q, 1, ReadEnd(q)) /\ rx'.queue = From(q, ReadEnd(q) + 1)
           /\ rx'.count = (rx.count - 1) % CountModulus
    BY <1>2, <1>5, <2>1, FragReadFields
  <2> QED
    BY <1>2, <1>4, <2>1, <2>2
<1>6. CASE q[1].kind # "more"
  <2>1. /\ out' = <<q[1]>> /\ rx'.queue = From(q, 2) /\ rx'.count = (rx.count - 1) % CountModulus
        /\ q[1].kind = "full"
    BY <1>2, <1>3, <1>6, FragReadFields
  <2>2. w = 1 /\ w + 1 = 2
    BY <1>2, <2>1
  <2>3. out' = SubSeq(q, 1, w)
    BY <1>1, <1>2, <2>1, <2>2, OnlyFirst
  <2> QED
    BY <1>4, <2>1, <2>2, <2>3
<1> QED
  BY <1>5, <1>6

LEMMA ReadStream ==
  ASSUME FragAssumption, TypeInv, TypeInv', StreamInv, FragRead, InStep
  PROVE  /\ StreamInv'
         /\ out' # out => \E p \in LastRead + 1 .. Started : IsWhole(out', p)
<1>1. cfg' = cfg /\ tx' = tx /\ sizes' = sizes /\ rx.count > 0
  BY DEF FragRead
<1>2. PICK T, D, b, m, e, g : Stream(T, D, b, m, e, g)
  BY DEF StreamInv
<1>3. /\ Ascending(T, Started) /\ Started \in Nat
      /\ b \in 0 .. Started /\ m \in b .. Started /\ m \in 0 .. Started
      /\ b \in Nat /\ m \in Nat /\ e \in Nat /\ g \in Nat /\ T[b] \in Nat /\ T[m] \in Nat
      /\ rx.queue \in Seq(FragmentType) /\ rx.fresh \in Seq(FragmentType)
      /\ Placed(T, D, Started, rx.queue, T[b]) /\ e = T[b] + Len(rx.queue)
      /\ T[m] <= e /\ IF m < Started THEN e < T[m + 1] ELSE e = T[m]
  BY <1>2, StreamFacts
<1>4. /\ rx.index = e - T[m] /\ (rx.index > 0 => rx.id = D[m + 1]) /\ ~rx.dropped /\ rx.count = m - b
      /\ Placed(T, D, Started, rx.fresh, e) /\ g = e + Len(rx.fresh) /\ g = Acked(T)
      /\ Placed(T, D, Started, tx.queue, g) /\ (Sending => D[Started] = tx.id)
  BY <1>2 DEF Stream, Streamed, Tracked
<1> DEFINE q == rx.queue
           n == Started
           w == T[b + 1] - T[b]
<1>5. b < m /\ b < n /\ b + 1 \in 1 .. n /\ b + 1 \in 0 .. n /\ m \in b + 1 .. n
  BY <1>1, <1>3, <1>4
<1>6. T[b + 1] \in Nat /\ T[b + 1] <= T[b] + Len(q)
  <2> DEFINE k == b + 1
  <2>1. k \in 0 .. n /\ m \in 0 .. n /\ k <= m /\ Ascending(T, n)
    BY <1>3, <1>5
  <2> HIDE DEF k, n
  <2>2. T[k] \in Nat /\ T[k] <= T[m]
    BY <2>1, AscendingFacts
  <2> QED
    BY <1>3, <2>2 DEF k
<1>7. FirstPayload(q, b + 1, w)
  <2> HIDE DEF q, n, w
  <2>1. /\ q \in Seq(FragmentType) /\ Placed(T, D, n, q, T[b]) /\ Ascending(T, n)
        /\ b \in Nat /\ b < n /\ T[b + 1] <= T[b] + Len(q)
    BY <1>3, <1>5, <1>6 DEF q, n
  <2>2. FirstPayload(q, b + 1, T[b + 1] - T[b])
    BY <2>1, PlacedFirst
  <2> QED
    BY <2>2 DEF w
<1>8. w \in 1 .. Len(q) /\ T[b] + w = T[b + 1] /\ w \in Nat /\ w >= 1
  BY SMTT(30), <1>3, <1>6, <1>7 DEF FirstPayload
<1>9. \A i \in 1 .. w : q[i].payload = b + 1 /\ q[i].num = i - 1
  BY <1>7 DEF FirstPayload
<1> HIDE DEF w
<1>10. /\ rx'.queue = From(q, w + 1) /\ rx'.count = (rx.count - 1) % CountModulus
       /\ rx'.fresh = rx.fresh /\ rx'.index = rx.index /\ rx'.id = rx.id /\ rx'.dropped = rx.dropped
       /\ \/ out' = out /\ sizes[b + 1] > cfg.buffer
          \/ out' = SubSeq(q, 1, w)
  BY <1>7, FragReadWhole
<1>11. Started' = Started /\ Large' = Large /\ (Sending' <=> Sending)
       /\ Totals(T)' /\ Acked(T)' = Acked(T)
  <2>1. Totals(T)'
    BY <1>1, <1>2, TotalsStay DEF Stream
  <2> QED
    BY <1>1, <2>1 DEF Started, Large, Sending, Acked, Finished
<1>12. Streamed(T, D, b + 1, e, g)'
  <2>1. Placed(T, D, n, From(q, w + 1), T[b] + w)
    <3> DEFINE x == T[b]
    <3>1. q \in Seq(FragmentType) /\ x \in Int /\ Placed(T, D, n, q, x) /\ w \in 0 .. Len(q)
      BY <1>3, <1>8
    <3> HIDE DEF q, n, x
    <3>2. Placed(T, D, n, From(q, w + 1), x + w)
      BY <3>1, PlacedFrom
    <3> QED
      BY <3>2 DEF x
  <2>2. e = T[b + 1] + Len(rx'.queue)
    <3> DEFINE x == T[b]
               y == T[b + 1]
               l == Len(q)
    <3>1. x \in Nat /\ y \in Nat /\ l \in Nat /\ e = x + l /\ x + w = y /\ w <= l /\ w \in Nat
      BY <1>3, <1>6, <1>8
    <3>2. Len(From(q, w + 1)) = IF w + 1 <= l THEN l - (w + 1) + 1 ELSE 0
      <4> DEFINE i == w + 1
      <4>1. q \in Seq(FragmentType) /\ i \in Nat /\ i >= 1
        BY <1>3, <1>8
      <4> HIDE DEF q, i, l
      <4>2. Len(From(q, i)) = IF i <= Len(q) THEN Len(q) - i + 1 ELSE 0
        BY <4>1, FromFacts
      <4> QED
        BY <4>2 DEF i, l
    <3>3. Len(rx'.queue) = IF w + 1 <= l THEN l - (w + 1) + 1 ELSE 0
      BY <1>10, <3>2
    <3> HIDE DEF x, y, l
    <3>4. e = y + Len(rx'.queue)
      BY <3>1, <3>3
    <3> QED
      BY <3>4 DEF y
  <2> QED
    BY <1>1, <1>4, <1>8, <1>10, <1>11, <2>1, <2>2 DEF Streamed
<1>13. Tracked(T, D, b + 1, m, e)'
  <2>1. rx'.count = m - (b + 1)
    <3> DEFINE c == rx.count - 1
    <3>1. c \in Int /\ 0 <= c /\ c < CountModulus /\ c = m - (b + 1)
      <4>1. rx.count \in 0 .. CountModulus - 1 /\ CountModulus \in Nat
        BY RxFields, SizeFacts DEF TypeInv, TypeOK
      <4> QED
        BY <1>1, <1>3, <1>4, <4>1
    <3>2. rx'.count = c % CountModulus
      BY <1>10
    <3> HIDE DEF c
    <3>3. c % CountModulus = c
      BY <3>1, RemainderFacts, SizeFacts
    <3> QED
      BY <3>1, <3>2, <3>3
  <2> QED
    BY <1>3, <1>4, <1>10, <1>11, <2>1 DEF Tracked
<1>14. ASSUME out' = SubSeq(q, 1, w)
       PROVE  /\ LastRead' = b + 1 /\ IsWhole(out', b + 1) /\ LastRead <= b
              /\ reads' = reads \cup {b + 1}
  <2>1. Len(out') = w /\ DOMAIN out' = 1 .. w /\ out' # <<>> /\ \A i \in 1 .. w : out'[i] = q[i]
    BY <1>3, <1>8, <1>14, FrontFacts
  <2>2. w \in 1 .. w
    BY <1>8
  <2>3. LastRead' = b + 1
    BY <1>9, <2>1, <2>2 DEF LastRead
  <2>4. w = FragmentsSent(sizes[b + 1])
    <3> DEFINE k == b + 1
               x == FragmentsSent(sizes[k])
    <3>1. k \in 1 .. n /\ k - 1 = b
      BY <1>3, <1>5
    <3>2. T[k] = T[k - 1] + x
      BY <1>2, <3>1 DEF Stream, Totals
    <3>3. x \in Nat
      <4>1. sizes[k] \in Nat
        BY <3>1, SizeSent
      <4> QED
        BY <4>1, FragmentsSentType
    <3> HIDE DEF x
    <3>4. w = x
      BY <1>3, <1>6, <1>8, <3>1, <3>2, <3>3
    <3> QED
      BY <3>4 DEF x
  <2>5. IsWhole(out', b + 1)
    BY <1>9, <2>1, <2>4 DEF IsWhole
  <2>6. reads' = reads \cup {b + 1}
    <3>1. \A i \in DOMAIN out' : out'[i].payload = b + 1
      BY <1>9, <2>1
    <3> DEFINE s == out'
    <3>2. w \in DOMAIN s
      BY <2>1, <2>2
    <3> HIDE DEF s
    <3>3. PayloadsIn(s) = {b + 1}
      BY <3>1, <3>2 DEF PayloadsIn, s
    <3> QED
      BY <3>3, FragReadNotes DEF s
  <2> QED
    BY <1>2, <2>3, <2>5, <2>6 DEF Stream, ReadUp
<1>15. ReadUp(b + 1)'
  <2>1. CASE out' = SubSeq(q, 1, w)
    <3>1. Large' => reads = 1 .. b
      BY <1>2, <1>11 DEF Stream, ReadUp
    <3>2. (1 .. b) \cup {b + 1} = 1 .. b + 1
      BY <1>3
    <3>3. LastRead' = b + 1 /\ reads' = reads \cup {b + 1}
      BY <1>14, <2>1
    <3>4. LastRead' <= b + 1
      BY <1>3, <3>3
    <3>5. Large' => reads' = 1 .. b + 1
      BY <3>1, <3>2, <3>3
    <3> QED
      BY <3>4, <3>5 DEF ReadUp
  <2>2. CASE out' = out /\ sizes[b + 1] > cfg.buffer
    <3>1. LastRead' = LastRead /\ LastRead <= b /\ LastRead \in Nat
      BY <1>2, <2>2, LastReadType DEF Stream, ReadUp, LastRead
    <3>2. ~Large
      <4>1. cfg.buffer \in Nat
        BY DEF TypeInv, TypeOK, FragAssumption, SettingsType
      <4>2. sizes[b + 1] \in Sizes /\ sizes[b + 1] \in Nat
        <5> DEFINE k == b + 1
        <5>1. k \in 1 .. Started
          BY <1>5
        <5> HIDE DEF k
        <5>2. sizes[k] \in Sizes /\ sizes[k] \in Nat
          BY <5>1, SizeSent
        <5> QED
          BY <5>2 DEF k
      <4> QED
        BY <2>2, <4>1, <4>2 DEF Large
    <3> QED
      BY <1>3, <1>11, <3>1, <3>2 DEF ReadUp
  <2> QED
    BY <1>10, <2>1, <2>2
<1>16. Stream(T, D, b + 1, m, e, g)'
  BY <1>3, <1>5, <1>11, <1>12, <1>13, <1>15 DEF Stream
<1>17. ASSUME out' # out PROVE \E p \in LastRead + 1 .. Started : IsWhole(out', p)
  <2>1. IsWhole(out', b + 1) /\ LastRead <= b
    BY <1>10, <1>14, <1>17
  <2>2. b + 1 \in LastRead + 1 .. Started
    BY <1>3, <1>5, <2>1, LastReadType
  <2> QED
    BY <2>1, <2>2
<1> QED
  BY SMTT(30), <1>16, <1>17 DEF StreamInv

\* What is at the head of the queue begins a payload, so that
\* wps_frag_get_read_payload_size clears nothing away.
LEMMA HeadBegins ==
  ASSUME FragAssumption, TypeInv, StreamInv, InStep, GetReadPayloadSize
  PROVE  FALSE
<1>1. PICK T, D, b, m, e, g : Stream(T, D, b, m, e, g)
  BY DEF StreamInv
<1> DEFINE q == rx.queue
           f == Head(q)
           n == Started
           x == T[b]
           p == f.payload
<1>2. /\ Ascending(T, n) /\ b \in 0 .. n /\ b \in Nat /\ x \in Nat
      /\ q \in Seq(FragmentType) /\ Placed(T, D, n, q, x) /\ n \in Nat
  BY <1>1, StreamFacts
<1>3. q # <<>> /\ (f.kind = "last" \/ (f.kind = "more" /\ f.num # 0))
  BY DEF GetReadPayloadSize
<1> HIDE DEF q, n
<1>4. At(T, D, n, f, x + 1) /\ f \in FragmentType
  <2> HIDE DEF x
  <2>1. x \in Int
    BY <1>2
  <2> QED
    BY <1>2, <1>3, <2>1, PlacedTail, TailOf
<1> HIDE DEF f
<1>5. b < p /\ p \in 1 .. n
  <2> DEFINE i == x + 1
  <2>1. i \in Int /\ T[b] < i /\ At(T, D, n, f, i)
    BY <1>2, <1>4
  <2> HIDE DEF i, x
  <2> QED
    BY <1>2, <1>4, <2>1, AtWhere
<1> HIDE DEF p
<1>6. p = b + 1
  <2> DEFINE k == p - 1
  <2>1. k \in 0 .. n /\ p \in 0 .. n /\ b <= k
    BY <1>2, <1>5
  <2> HIDE DEF k
  <2>2. T[k] \in Nat /\ T[b] <= T[k] /\ (b < k <=> T[b] < T[k])
    BY <1>2, <2>1, AscendingFacts
  <2>3. T[k] + f.num + 1 = x + 1 /\ f.num \in Nat
    BY <1>4 DEF At, FragmentType, k, p
  <2>4. ~(T[b] < T[k])
    BY <1>2, <2>2, <2>3
  <2>5. k = b
    BY <1>2, <2>1, <2>2, <2>4
  <2> QED
    BY <1>2, <1>5, <2>5 DEF k
<1>7. f.num = 0 /\ (Ends(f) <=> x + 1 = T[p]) /\ (f.kind = "last" => T[p] > x + 1)
  <2>1. p - 1 = b
    BY <1>2, <1>6
  <2>2. T[p - 1] + f.num + 1 = x + 1 /\ f.num \in Nat
    BY <1>4 DEF At, FragmentType, p
  <2>3. (Ends(f) <=> x + 1 = T[p]) /\ (f.kind = "last" => T[p] > T[p - 1] + 1)
    BY <1>4 DEF At, p
  <2> QED
    BY <1>2, <2>1, <2>2, <2>3
<1>8. f.kind = "last"
  BY <1>3, <1>7
<1>9. x + 1 = T[p] /\ T[p] > x + 1
  BY <1>7, <1>8 DEF Ends
<1> QED
  BY <1>2, <1>9

LEMMA StepStream ==
  ASSUME FragAssumption, TypeInv, TypeInv', StreamInv, [Next]_vars
  PROVE  /\ StreamInv'
         /\ InStep /\ out' # out => \E p \in LastRead + 1 .. Started : IsWhole(out', p)
<1>1. CASE \E size \in Sizes : StartSend(size)
  BY <1>1, StartSendStream DEF StartSend
<1>2. CASE SendFragment
  BY <1>2, SendFragmentStream DEF SendFragment
<1>3. CASE FinishSend
  <2>1. /\ tx'.queue = tx.queue /\ tx'.torn = tx.torn /\ tx'.moved = tx.moved /\ ~Sending'
        /\ cfg' = cfg /\ sizes' = sizes /\ rx' = rx /\ out' = out /\ reads' = reads
    BY <1>3, FinishSendFields DEF FinishSend, Sending
  <2>2. \A T : Totals(T) => Acked(T)' = Acked(T)
    BY <1>3, FinishSendAcked
  <2> QED
    BY <2>1, <2>2, KeepStream DEF InStep
<1>4. CASE OtherSend \/ TxSuccessCallback \/ UNCHANGED vars
  <2>1. /\ tx'.queue = tx.queue /\ tx'.torn = tx.torn /\ tx'.count = tx.count /\ tx'.done = tx.done
        /\ tx.moved \subseteq tx'.moved /\ (Sending => tx'.id = tx.id \/ tx'.moved # {})
        /\ cfg' = cfg /\ sizes' = sizes /\ rx' = rx /\ out' = out /\ reads' = reads
    <3>1. CASE OtherSend
      BY <3>1, OtherSendFields DEF OtherSend
    <3>2. CASE TxSuccessCallback
      BY <3>2, TxSuccessFields DEF TxSuccessCallback
    <3>3. CASE UNCHANGED vars
      BY <3>3 DEF vars
    <3> QED
      BY <1>4, <3>1, <3>2, <3>3
  <2>2. (Sending' <=> Sending) /\ Finished' = Finished
    BY <2>1 DEF Sending, Finished, Started
  <2>3. ASSUME NEW T PROVE Acked(T)' = Acked(T)
    BY <2>1, <2>2 DEF Acked
  <2>4. CASE InStep'
    <3>1. InStep /\ (Sending => tx'.id = tx.id)
      BY <2>1, <2>4 DEF InStep
    <3> QED
      BY <2>1, <2>2, <2>3, <3>1, KeepStream
  <2>5. CASE ~InStep'
    BY <2>1, <2>5 DEF StreamInv
  <2> QED
    BY <2>4, <2>5
<1>5. CASE Deliver \/ Drop
  <2>1. out' = out
    BY <1>5 DEF Deliver, Drop, Carry
  <2> QED
    BY <1>5, <2>1, DeliverStream
<1>6. CASE RxSuccessCallback
  BY <1>6, ReceiveStream DEF RxSuccessCallback
<1>7. CASE FragRead
  <2>1. InStep' => InStep
    BY <1>7 DEF FragRead, InStep
  <2>2. InStep => StreamInv' /\ (out' # out => \E p \in LastRead + 1 .. Started : IsWhole(out', p))
    BY <1>7, ReadStream
  <2> QED
    BY <2>1, <2>2 DEF StreamInv
<1>8. CASE GetReadPayloadSize
  <2>1. ~InStep /\ ~InStep' /\ out' = out
    BY <1>8, HeadBegins DEF GetReadPayloadSize, InStep
  <2> QED
    BY <2>1 DEF StreamInv
<1> QED
  BY <1>1, <1>2, <1>3, <1>4, <1>5, <1>6, <1>7, <1>8 DEF Next

LEMMA InitStream ==
  ASSUME FragAssumption, Init
  PROVE  StreamInv
<1>1. Started = 0 /\ ~Sending /\ Finished = 0 /\ tx.queue = <<>> /\ rx.queue = <<>> /\ rx.fresh = <<>>
      /\ rx.index = 0 /\ rx.dropped = FALSE /\ rx.count = 0 /\ LastRead = 0
      /\ reads = 1 .. 0
  BY DEF Init, Started, Sending, Finished, LastRead
<1> DEFINE T == [k \in 0 .. 0 |-> 0]
<1>2. T \in [0 .. 0 -> Nat] /\ T[0] = 0
  OBVIOUS
<1> HIDE DEF T
<1>3. Totals(T)
  BY <1>1, <1>2 DEF Totals
<1>4. Acked(T) = 0
  BY <1>1, <1>2 DEF Acked
<1>5. Streamed(T, T, 0, 0, 0)
  BY <1>1, <1>2, <1>4 DEF Streamed, Placed
<1>6. Tracked(T, T, 0, 0, 0) /\ ReadUp(0)
  BY <1>1, <1>2 DEF Tracked, ReadUp
<1>7. Stream(T, T, 0, 0, 0, 0)
  BY <1>1, <1>3, <1>5, <1>6 DEF Stream
<1> QED
  BY <1>7 DEF StreamInv

LEMMA StreamAlways ==
  ASSUME FragAssumption
  PROVE  Spec => [](TypeInv /\ StreamInv)
<1>1. Init => TypeInv /\ StreamInv
  BY InitType, InitStream
<1>2. TypeInv /\ StreamInv /\ [Next]_vars => (TypeInv /\ StreamInv)'
  BY StepType, StepStream
<1> QED
  BY <1>1, <1>2, PTL DEF Spec

\* While fragments follow each other, the count of payloads to read is the
\* number of payloads that end in the queue of the connection, whatever the
\* callbacks and the reads, and whatever other connections send between two
\* payloads.
THEOREM FragCountComplete == Spec => []CountComplete
<1>1. TypeInv /\ StreamInv => CountComplete
  BY FragAssumption, CountFollows
<1> QED
  BY <1>1, FragAssumption, StreamAlways, PTL

\* While fragments follow each other, every payload sent has been read once
\* nothing is under way, whatever other connections send between two payloads.
THEOREM FragAllRead == Spec => []AllRead
<1>1. TypeInv /\ StreamInv => AllRead
  BY FragAssumption, ReadFollows
<1> QED
  BY <1>1, FragAssumption, StreamAlways, PTL

\* A read returns one payload, whole and later than the ones before, while
\* nothing was lost; and whatever was lost, it never goes back.
THEOREM FragReadsWhole == Spec => ReadsWhole
<1> DEFINE Inv == TypeInv /\ ForwardInv /\ StreamInv
           Reads == out' # out => IF InStep THEN \E p \in LastRead + 1 .. Started : IsWhole(out', p)
                                  ELSE IsForward(out', LastRead)
<1>1. Init => Inv
  BY FragAssumption, InitType, InitForward, InitStream
<1>2. Inv /\ [Next]_vars => Inv' /\ Reads
  <2> SUFFICES ASSUME Inv, [Next]_vars PROVE Inv' /\ Reads
    OBVIOUS
  <2>1. TypeInv'
    BY FragAssumption, StepType
  <2>2. ForwardInv' /\ (out' # out => IsForward(out', LastRead))
    BY <2>1, FragAssumption, StepForward
  <2>3. StreamInv' /\ (InStep /\ out' # out => \E p \in LastRead + 1 .. Started : IsWhole(out', p))
    BY <2>1, FragAssumption, StepStream
  <2> QED
    BY <2>1, <2>2, <2>3
<1>3. Inv /\ [Next]_vars => [Reads]_vars
  BY <1>2
<1> QED
  BY <1>1, <1>2, PTL DEF Spec, ReadsWhole
=============================================================================
