-------------------------- MODULE SacPipelineProofs --------------------------
(***************************************************************************)
(* Proofs about SacPipeline, for every choice of settings, queue sizes,    *)
(* packet sizes and capacities.  First types, and the nodes of the three   *)
(* pools: the invariant is Flow, kept by one lemma for the processing and  *)
(* one for the whole of Next; what the producer and the consumer do in one *)
(* step is the subject of lemmas of their own.  Then samples_buffered_size *)
(* is what the consumer has to play: Counting is the invariant, and rests  *)
(* on Flow for the room that the queue of the consumer has when a packet   *)
(* is queued.  Last, the listener hears packets in order and none twice:   *)
(* what is said of the line of packets on their way is kept when packets   *)
(* leave the line, wherever they stand in it, when the first is heard and  *)
(* when one is recorded.                                                   *)
(***************************************************************************)
EXTENDS SacPipeline, FiniteSetTheorems, SequenceTheorems, TLAPS

LEMMA PacketType ==
  ASSUME NEW p \in Packet
  PROVE  p.size \in Nat /\ p # None /\ p.mark \in Marks \cup {"plain"}
<1>1. p.size \in Sizes \cup {0} /\ p.mark \in Marks \cup {"plain"}
  BY DEF Packet
<1>2. p.size \in Nat
  <2>1. Sizes \subseteq Nat \ {0}
    BY PipelineAssumption, Zenon
  <2>2. \A s \in Sizes \cup {0} : s \in Nat
    BY <2>1
  <2> QED
    BY <1>1, <2>2, Zenon
<1>3. p.mark # "none"
  BY <1>1 DEF Marks
<1> QED
  BY <1>1, <1>2, <1>3 DEF None

-----------------------------------------------------------------------------
(* The invariant: types, nodes and what the processing has found out *)

FreeOK == free \in [producer : Nat, processing : Nat, consumer : Nat]

ProducerOK ==
  /\ producer \in [queue : Seq(Packet), current : Packet \cup {None}, on : BOOLEAN]
  /\ Len(producer.queue) <= ProducerSize

ProcessOK ==
  /\ process \in [at : Places, packet : Packet \cup {None}, dropped : Packet \cup {None},
                  pending : BOOLEAN, met : BOOLEAN, dry : BOOLEAN]
  /\ process.at \in Processed \cup {"copy", "count"} => process.packet \in Packet
  /\ process.dropped # None => process.at = "dropped"

ConsumerOK ==
  /\ consumer \in [queue : Seq(Packet), current : Packet \cup {None},
                   complete : BOOLEAN, playing : BOOLEAN]
  /\ Len(consumer.queue) <= ConsumerLimit
  /\ consumer.playing \/ consumer.current # None => cfg.consumerDelayed

CountOK == buffered \in 0 .. SizeModulus - 1
WirelessOK == wireless \in 0 .. WirelessSize
AppOK == app \in [at : {"set up", "run", "stopping", "free", "stopped"}, threshold : 0 .. 254]
HeardOK == heard \in [given : SUBSET Marks, marks : SUBSET Marks]

Shape ==
  /\ cfg \in Settings /\ FreeOK /\ ProducerOK /\ ProcessOK /\ ConsumerOK
  /\ CountOK /\ WirelessOK /\ AppOK /\ HeardOK

\* What each place of the processing has found out and not lost since: the
\* queue of the consumer has room from "dropped" on, and is at most one packet
\* short of full at "drop" when the processing is prompt.
Known ==
  /\ process.at \in {"dropped", "take", "enqueue"} => Len(consumer.queue) < ConsumerLimit
  /\ cfg.prompt /\ process.at = "drop" =>
       Len(consumer.queue) + Ones(process.met) >= ConsumerLimit
  /\ cfg.prompt /\ ConsumerLimit > 1 => ~process.dry
  /\ cfg.producerDelayed /\ app.at \in {"run", "stopping"} => producer.on

Flow == Shape /\ NodesAccounted /\ Known

LEMMA SettingFacts ==
  ASSUME cfg \in Settings
  PROVE  /\ cfg.producerDelayed \in BOOLEAN /\ cfg.consumerDelayed \in BOOLEAN
         /\ cfg.prompt \in BOOLEAN /\ cfg.started \in BOOLEAN
         /\ cfg.queueSize \in 1 .. 254 /\ cfg.extra \in Nat
         /\ ConsumerLimit \in Nat /\ ConsumerLimit >= 1
         /\ cfg.producerDelayed => cfg.started
<1>1. cfg \in SettingsType /\ (cfg.producerDelayed => cfg.started)
  BY PipelineAssumption, Zenon
<1> QED
  BY <1>1 DEF SettingsType, ConsumerLimit

LEMMA SizeFacts ==
  /\ ProducerSize \in Nat /\ ProducerSize >= 1
  /\ WirelessSize \in Nat /\ WirelessSize >= 1
  /\ ConsumerCapacity \in Nat /\ SizeModulus \in Nat
<1>1. /\ ProducerSize \in Nat \ {0} /\ WirelessSize \in Nat \ {0}
      /\ ConsumerCapacity \in Nat /\ SizeModulus \in Nat
  BY PipelineAssumption, Zenon
<1> QED
  BY <1>1

LEMMA QueueFacts ==
  ASSUME NEW queue \in Seq(Packet)
  PROVE  /\ Len(queue) \in Nat
         /\ queue = <<>> <=> Len(queue) = 0
         /\ \A p \in Packet : /\ Append(queue, p) \in Seq(Packet)
                              /\ Len(Append(queue, p)) = Len(queue) + 1
         /\ queue # <<>> => /\ Head(queue) \in Packet
                            /\ Tail(queue) \in Seq(Packet)
                            /\ Len(Tail(queue)) = Len(queue) - 1
<1>1. \A p \in Packet : Append(queue, p) \in Seq(Packet) /\ Len(Append(queue, p)) = Len(queue) + 1
  BY AppendProperties
<1>2. queue # <<>> => Head(queue) \in Packet /\ Tail(queue) \in Seq(Packet)
                      /\ Len(Tail(queue)) = Len(queue) - 1
  BY HeadTailProperties
<1> QED
  BY <1>1, <1>2, EmptySeq

LEMMA FreshPacket ==
  /\ None \notin Packet
  /\ \A mark \in Marks \cup {"plain"} : [mark |-> mark, size |-> 0] \in Packet
  /\ \A p \in Packet, size \in Sizes : [p EXCEPT !.size = size] \in Packet
BY DEF Packet, None, Marks

LEMMA NodeFacts ==
  ASSUME cfg \in Settings
  PROVE  ProducerNodes \in Nat /\ ProcessingNodes \in Nat /\ ConsumerNodes \in Nat
<1>1. cfg.consumerDelayed \in BOOLEAN /\ ConsumerLimit \in Nat
  BY SettingFacts
<1>2. ProducerNodes \in Nat /\ ProcessingNodes \in Nat
  BY SizeFacts DEF ProducerNodes, ProcessingNodes
<1>3. ConsumerNodes \in Nat
  BY <1>1 DEF ConsumerNodes
<1> QED
  BY <1>2, <1>3

\* The bounds of TypeOK are those that NodesAccounted implies.
LEMMA FlowTypes ==
  ASSUME Flow
  PROVE  TypeOK
<1>1. cfg \in Settings /\ FreeOK /\ ProducerOK /\ ProcessOK /\ ConsumerOK
  BY DEF Flow, Shape
<1>2. ProducerNodes \in Nat /\ ProcessingNodes \in Nat /\ ConsumerNodes \in Nat
  BY <1>1, NodeFacts
<1>3. Len(producer.queue) \in Nat /\ Len(consumer.queue) \in Nat
  BY <1>1, QueueFacts DEF ProducerOK, ConsumerOK
<1>4. free.producer \in Nat /\ free.processing \in Nat /\ free.consumer \in Nat
  BY <1>1 DEF FreeOK
<1>5. /\ free.producer <= ProducerNodes /\ free.processing <= ProcessingNodes
      /\ free.consumer <= ConsumerNodes
  <2>1. NodesAccounted
    BY DEF Flow
  <2>2. free.producer <= ProducerNodes
    <3>1. free.producer + Len(producer.queue) + Ones(producer.current # None) + Ones(At("copy"))
            = ProducerNodes
      BY <2>1 DEF NodesAccounted
    <3> QED
      BY <1>2, <1>3, <1>4, <3>1 DEF Ones
  <2>3. free.processing <= ProcessingNodes
    BY <1>2, <1>4, <2>1 DEF NodesAccounted, Ones
  <2>4. free.consumer <= ConsumerNodes
    BY <1>2, <1>3, <1>4, <2>1 DEF NodesAccounted, Ones
  <2> QED
    BY <2>2, <2>3, <2>4
<1>6. free \in [producer : 0 .. ProducerNodes, processing : 0 .. ProcessingNodes,
                consumer : 0 .. ConsumerNodes]
  BY <1>1, <1>2, <1>4, <1>5 DEF FreeOK
<1> QED
  BY <1>1, <1>6 DEF Flow, Shape, ProducerOK, ProcessOK, ConsumerOK, CountOK, WirelessOK, AppOK,
                    HeardOK, TypeOK

\* Nothing is lost by the codec's producer: it always finds a node.
LEMMA RecordFacts ==
  ASSUME Flow, NEW mark \in Marks \cup {"plain"}, Record(mark)
  PROVE  /\ FreeOK' /\ ProducerOK' /\ HeardOK'
         /\ free'.processing = free.processing /\ free'.consumer = free.consumer
         /\ free'.producer + Len(producer'.queue) + Ones(producer'.current # None)
              = free.producer + Len(producer.queue) + Ones(producer.current # None)
         /\ producer'.on = TRUE
         /\ process' = [process EXCEPT !.pending = TRUE]
<1> DEFINE packet == producer.current
           queued == packet # None
           nodes == free.producer + (IF queued THEN Replaced(producer.queue) ELSE 0)
           queue == IF queued THEN Enqueued(producer.queue, packet) ELSE producer.queue
           fresh == [mark |-> mark, size |-> 0]
<1>1. /\ FreeOK /\ HeardOK
      /\ producer \in [queue : Seq(Packet), current : Packet \cup {None}, on : BOOLEAN]
      /\ Len(producer.queue) \in Nat /\ Len(producer.queue) <= ProducerSize
  BY QueueFacts DEF Flow, Shape, ProducerOK
<1>2. ProducerSize \in Nat /\ ProducerSize >= 1
  BY SizeFacts
<1>3. /\ queue \in Seq(Packet) /\ Len(queue) \in Nat /\ Len(queue) <= ProducerSize
      /\ nodes \in Nat /\ nodes + Len(queue) = free.producer + Len(producer.queue) + Ones(queued)
  <2>1. CASE ~queued
    BY <1>1, <2>1 DEF FreeOK, Ones
  <2>2. CASE queued /\ Len(producer.queue) < ProducerSize
    <3>1. /\ Append(producer.queue, packet) \in Seq(Packet)
          /\ Len(Append(producer.queue, packet)) = Len(producer.queue) + 1
      BY <1>1, <2>2, QueueFacts
    <3> QED
      BY <1>1, <1>2, <2>2, <3>1 DEF FreeOK, Ones, Enqueued, Replaced
  <2>3. CASE queued /\ Len(producer.queue) = ProducerSize
    <3>1. /\ Tail(producer.queue) \in Seq(Packet)
          /\ Len(Tail(producer.queue)) = Len(producer.queue) - 1
      BY <1>1, <1>2, <2>3, QueueFacts
    <3>2. /\ Append(Tail(producer.queue), packet) \in Seq(Packet)
          /\ Len(Append(Tail(producer.queue), packet)) = Len(Tail(producer.queue)) + 1
      BY <1>1, <2>3, <3>1, QueueFacts
    <3> QED
      BY <1>1, <1>2, <2>3, <3>1, <3>2 DEF FreeOK, Ones, Enqueued, Replaced
  <2> QED
    BY <1>1, <1>2, <2>1, <2>2, <2>3
<1>4. nodes > 0
  <2>1. free.producer + Len(producer.queue) + Ones(queued) + Ones(At("copy")) = ProducerSize + 2
    BY DEF Flow, NodesAccounted, ProducerNodes
  <2>2. free.producer \in Nat
    BY <1>1 DEF FreeOK
  <2> QED
    BY <1>1, <1>2, <1>3, <2>1, <2>2 DEF Ones
<1>5. fresh \in Packet /\ fresh # None
  BY FreshPacket
<1> HIDE DEF nodes, queue, fresh
<1>6. /\ Recorded(mark)
      /\ free' = [free EXCEPT !.producer = nodes - 1]
      /\ producer' = [queue |-> queue, current |-> fresh, on |-> TRUE]
      /\ process' = [process EXCEPT !.pending = TRUE]
  BY <1>4 DEF Record, nodes, queue, fresh
<1>7. FreeOK' /\ free'.producer = nodes - 1 /\ free'.processing = free.processing
      /\ free'.consumer = free.consumer
  BY SMTT(30), <1>1, <1>3, <1>4, <1>6 DEF FreeOK
<1>8. ProducerOK' /\ producer'.queue = queue /\ producer'.current = fresh /\ producer'.on = TRUE
  BY <1>3, <1>5, <1>6 DEF ProducerOK
<1>9. HeardOK'
  BY <1>1, <1>6 DEF HeardOK, Recorded, Marks
<1>10. free'.producer + Len(producer'.queue) + Ones(producer'.current # None)
         = free.producer + Len(producer.queue) + Ones(queued)
  BY <1>1, <1>3, <1>5, <1>7, <1>8 DEF Ones, FreeOK
<1> QED
  BY <1>6, <1>7, <1>8, <1>9, <1>10

LEMMA ReceiveFacts ==
  ASSUME Flow, NEW mark \in Marks \cup {"plain"}, NEW samples \in BOOLEAN, Receive(mark, samples)
  PROVE  /\ FreeOK' /\ ProducerOK' /\ HeardOK'
         /\ free'.processing = free.processing /\ free'.consumer = free.consumer
         /\ free'.producer + Len(producer'.queue) = free.producer + Len(producer.queue)
         /\ producer'.current = producer.current /\ producer'.on = producer.on
         /\ process' = [process EXCEPT !.pending = TRUE]
<1> DEFINE fresh == [mark |-> mark, size |-> 0]
           queue == Enqueued(producer.queue, fresh)
<1>1. /\ FreeOK /\ HeardOK /\ ProducerOK
      /\ producer \in [queue : Seq(Packet), current : Packet \cup {None}, on : BOOLEAN]
      /\ Len(producer.queue) \in Nat /\ Len(producer.queue) <= ProducerSize
  BY QueueFacts DEF Flow, Shape, ProducerOK
<1>2. ProducerSize \in Nat /\ ProducerSize >= 1
  BY SizeFacts
<1>3. fresh \in Packet
  BY FreshPacket
<1>4. process' = [process EXCEPT !.pending = TRUE]
  BY DEF Receive
<1> HIDE DEF fresh
<1>5. CASE free.producer > 0 /\ samples
  <2>1. /\ queue \in Seq(Packet) /\ Len(queue) \in Nat /\ Len(queue) <= ProducerSize
        /\ Replaced(producer.queue) \in Nat
        /\ Len(queue) = Len(producer.queue) + 1 - Replaced(producer.queue)
    <3>1. CASE Len(producer.queue) < ProducerSize
      <4>1. /\ Append(producer.queue, fresh) \in Seq(Packet)
            /\ Len(Append(producer.queue, fresh)) = Len(producer.queue) + 1
        BY <1>1, <1>3, QueueFacts
      <4> QED
        BY <1>1, <1>2, <3>1, <4>1 DEF Enqueued, Replaced
    <3>2. CASE Len(producer.queue) = ProducerSize
      <4>1. /\ Tail(producer.queue) \in Seq(Packet)
            /\ Len(Tail(producer.queue)) = Len(producer.queue) - 1
        BY <1>1, <1>2, <3>2, QueueFacts
      <4>2. /\ Append(Tail(producer.queue), fresh) \in Seq(Packet)
            /\ Len(Append(Tail(producer.queue), fresh)) = Len(Tail(producer.queue)) + 1
        BY <1>3, <4>1, QueueFacts
      <4> QED
        BY <1>1, <1>2, <3>2, <4>1, <4>2 DEF Enqueued, Replaced
    <3> QED
      BY <1>1, <1>2, <3>1, <3>2
  <2> HIDE DEF queue
  <2>2. /\ Recorded(mark)
        /\ free' = [free EXCEPT !.producer = @ - 1 + Replaced(producer.queue)]
        /\ producer' = [producer EXCEPT !.queue = queue]
    BY <1>5 DEF Receive, queue, fresh
  <2>3. /\ FreeOK' /\ free'.producer = free.producer - 1 + Replaced(producer.queue)
        /\ free'.processing = free.processing /\ free'.consumer = free.consumer
    BY <1>1, <1>5, <2>1, <2>2 DEF FreeOK
  <2>4. /\ ProducerOK' /\ producer'.queue = queue
        /\ producer'.current = producer.current /\ producer'.on = producer.on
    BY <1>1, <2>1, <2>2 DEF ProducerOK
  <2>5. HeardOK'
    BY <1>1, <2>2 DEF HeardOK, Recorded, Marks
  <2>6. free'.producer + Len(producer'.queue) = free.producer + Len(producer.queue)
    BY <1>1, <2>1, <2>3, <2>4 DEF FreeOK
  <2> QED
    BY <1>4, <2>3, <2>4, <2>5, <2>6
<1>6. CASE ~(free.producer > 0 /\ samples)
  <2>1. UNCHANGED <<free, producer, heard>>
    BY <1>6 DEF Receive
  <2> QED
    BY <1>1, <1>4, <2>1 DEF FreeOK, ProducerOK, HeardOK
<1> QED
  BY <1>5, <1>6


LEMMA CountedOK ==
  ASSUME Flow, NEW count \in Int, buffered' = Counted(count)
  PROVE  CountOK'
<1>1. buffered \in 0 .. SizeModulus - 1 /\ SizeModulus \in Nat
  BY SizeFacts DEF Flow, Shape, CountOK
<1>2. count % SizeModulus \in 0 .. SizeModulus - 1
  BY <1>1
<1> QED
  BY <1>1, <1>2 DEF Counted, CountOK

\* One packet leaves the queue of the consumer.
LEMMA LessOK ==
  ASSUME Flow, consumer.queue # <<>>
  PROVE  LET packet == Head(consumer.queue)
         IN  /\ packet \in Packet
             /\ Tail(consumer.queue) \in Seq(Packet)
             /\ Len(Tail(consumer.queue)) = Len(consumer.queue) - 1
             /\ buffered' = Less(packet.size) => CountOK'
<1>1. consumer.queue \in Seq(Packet) /\ buffered \in Int
  BY DEF Flow, Shape, ConsumerOK, CountOK
<1>2. /\ Head(consumer.queue) \in Packet
      /\ Tail(consumer.queue) \in Seq(Packet)
      /\ Len(Tail(consumer.queue)) = Len(consumer.queue) - 1
  BY <1>1, QueueFacts
<1>3. buffered + SizeModulus - Head(consumer.queue).size \in Int
  BY <1>1, <1>2, PacketType, SizeFacts
<1> QED
  BY <1>2, <1>3, CountedOK DEF Less

LEMMA HearOK ==
  ASSUME Flow, NEW p, Hear(p)
  PROVE  HeardOK'
<1>1. heard \in [given : SUBSET Marks, marks : SUBSET Marks]
  BY DEF Flow, Shape, HeardOK
<1>2. heard' = [heard EXCEPT !.marks = @ \cup ({p.mark} \cap Marks)]
  BY DEF Hear
<1> QED
  BY <1>1, <1>2 DEF HeardOK

LEMMA ConsumeDelayFacts ==
  ASSUME Flow, cfg.consumerDelayed, cfg' = cfg, ConsumeDelay
  PROVE  /\ FreeOK' /\ ConsumerOK' /\ CountOK' /\ HeardOK'
         /\ free'.processing = free.processing /\ free'.producer = free.producer
         /\ free'.consumer + Len(consumer'.queue) + Ones(consumer'.current # None)
              = free.consumer + Len(consumer.queue) + Ones(consumer.current # None)
         /\ Len(consumer'.queue) <= Len(consumer.queue)
         /\ Len(consumer'.queue) + 1 >= Len(consumer.queue)
<1>1. /\ FreeOK /\ CountOK /\ HeardOK
      /\ consumer \in [queue : Seq(Packet), current : Packet \cup {None},
                       complete : BOOLEAN, playing : BOOLEAN]
      /\ Len(consumer.queue) <= ConsumerLimit /\ Len(consumer.queue) \in Nat
      /\ ConsumerLimit \in Nat /\ ConsumerLimit' = ConsumerLimit
  BY QueueFacts, SettingFacts DEF Flow, Shape, ConsumerOK, ConsumerLimit
<1>2. CASE ~consumer.complete
  <2>1. UNCHANGED <<free, buffered, heard>> /\ consumer' = [consumer EXCEPT !.playing = FALSE]
    BY <1>2 DEF ConsumeDelay
  <2>2. /\ ConsumerOK' /\ consumer'.queue = consumer.queue
        /\ consumer'.current = consumer.current
    BY <1>1, <2>1 DEF ConsumerOK
  <2>3. FreeOK' /\ CountOK' /\ HeardOK'
    BY <1>1, <2>1 DEF FreeOK, CountOK, HeardOK
  <2> QED
    BY <1>1, <2>1, <2>2, <2>3
<1>3. CASE consumer.complete
  <2>1. /\ FreeOK' /\ free'.processing = free.processing /\ free'.producer = free.producer
        /\ free'.consumer = free.consumer + Ones(consumer.current # None)
    <3>1. free' = FreedCurrent
      BY <1>3 DEF ConsumeDelay
    <3> QED
      BY <1>1, <3>1 DEF FreedCurrent, FreeOK, Ones
  <2>2. CASE consumer.queue = <<>>
    <3>1. /\ consumer' = [consumer EXCEPT !.current = None, !.playing = FALSE, !.complete = FALSE]
          /\ UNCHANGED <<buffered, heard>>
      BY <1>3, <2>2 DEF ConsumeDelay
    <3>2. ConsumerOK' /\ consumer'.queue = consumer.queue /\ consumer'.current = None
      BY <1>1, <3>1 DEF ConsumerOK
    <3>3. CountOK' /\ HeardOK'
      BY <1>1, <3>1 DEF CountOK, HeardOK
    <3>4. free.consumer \in Nat
      BY <1>1 DEF FreeOK
    <3> QED
      BY <1>1, <2>1, <3>2, <3>3, <3>4 DEF Ones
  <2>3. CASE consumer.queue # <<>>
    <3> DEFINE packet == Head(consumer.queue)
    <3>1. /\ consumer' = [consumer EXCEPT !.queue = Tail(@), !.current = packet, !.playing = TRUE]
          /\ buffered' = Less(packet.size) /\ Hear(packet)
      BY <1>3, <2>3 DEF ConsumeDelay
    <3>2. /\ packet \in Packet /\ packet # None /\ Tail(consumer.queue) \in Seq(Packet)
          /\ Len(Tail(consumer.queue)) = Len(consumer.queue) - 1
          /\ CountOK' /\ HeardOK'
      BY <2>3, <3>1, LessOK, HearOK, FreshPacket
    <3> HIDE DEF packet
    <3>3. ConsumerOK' /\ consumer'.queue = Tail(consumer.queue) /\ consumer'.current = packet
      <4>1. /\ consumer' \in [queue : Seq(Packet), current : Packet \cup {None},
                              complete : BOOLEAN, playing : BOOLEAN]
            /\ consumer'.queue = Tail(consumer.queue) /\ consumer'.current = packet
        BY <1>1, <3>1, <3>2
      <4>2. cfg'.consumerDelayed
        OBVIOUS
      <4> QED
        BY <1>1, <3>2, <4>1, <4>2 DEF ConsumerOK
    <3>4. free.consumer \in Nat
      BY <1>1 DEF FreeOK
    <3> QED
      BY <1>1, <2>1, <3>2, <3>3, <3>4 DEF Ones
  <2> QED
    BY <2>2, <2>3
<1> QED
  BY <1>1, <1>2, <1>3

\* What a step leaves alone stays as it should be.
LEMMA KeptOK ==
  ASSUME Flow, cfg' = cfg
  PROVE  /\ free' = free => FreeOK'
         /\ producer' = producer => ProducerOK'
         /\ process' = process => ProcessOK'
         /\ consumer' = consumer => ConsumerOK'
         /\ buffered' = buffered => CountOK'
         /\ wireless' = wireless => WirelessOK'
         /\ app' = app => AppOK'
         /\ heard' = heard => HeardOK'
<1> USE DEF Flow, Shape
<1>1. free' = free => FreeOK'
  BY DEF FreeOK
<1>2. producer' = producer => ProducerOK'
  BY DEF ProducerOK
<1>3. process' = process => ProcessOK'
  BY DEF ProcessOK
<1>4. consumer' = consumer => ConsumerOK'
  BY DEF ConsumerOK, ConsumerLimit
<1>5. (buffered' = buffered => CountOK') /\ (wireless' = wireless => WirelessOK')
  BY DEF CountOK, WirelessOK
<1>6. (app' = app => AppOK') /\ (heard' = heard => HeardOK')
  BY DEF AppOK, HeardOK
<1> QED
  BY <1>1, <1>2, <1>3, <1>4, <1>5, <1>6

LEMMA TailKept ==
  ASSUME Flow, cfg' = cfg
  PROVE  /\ consumer.queue # <<>> /\ consumer' = [consumer EXCEPT !.queue = Tail(consumer.queue)]
              => /\ ConsumerOK' /\ consumer'.current = consumer.current
                 /\ Len(consumer'.queue) = Len(consumer.queue) - 1
         /\ producer.queue # <<>> /\ producer' = [producer EXCEPT !.queue = Tail(producer.queue)]
              => /\ ProducerOK' /\ producer'.current = producer.current
                 /\ producer'.on = producer.on
                 /\ Len(producer'.queue) = Len(producer.queue) - 1
<1>1. ASSUME consumer.queue # <<>>, consumer' = [consumer EXCEPT !.queue = Tail(consumer.queue)]
      PROVE  /\ ConsumerOK' /\ consumer'.current = consumer.current
             /\ Len(consumer'.queue) = Len(consumer.queue) - 1
  <2> DEFINE queue == Tail(consumer.queue)
  <2>1. ConsumerOK /\ ConsumerLimit' = ConsumerLimit /\ ConsumerLimit \in Nat
    BY SettingFacts DEF Flow, Shape, ConsumerLimit
  <2>2. /\ queue \in Seq(Packet) /\ Len(queue) = Len(consumer.queue) - 1
        /\ Len(consumer.queue) \in Nat
    BY <1>1, <2>1, QueueFacts DEF ConsumerOK
  <2> HIDE DEF queue
  <2>3. /\ consumer' \in [queue : Seq(Packet), current : Packet \cup {None},
                          complete : BOOLEAN, playing : BOOLEAN]
        /\ consumer'.queue = queue /\ consumer'.current = consumer.current
        /\ consumer'.playing = consumer.playing
    BY <1>1, <2>1, <2>2 DEF ConsumerOK, queue
  <2> QED
    BY <2>1, <2>2, <2>3 DEF ConsumerOK
<1>2. ASSUME producer.queue # <<>>, producer' = [producer EXCEPT !.queue = Tail(producer.queue)]
      PROVE  /\ ProducerOK' /\ producer'.current = producer.current /\ producer'.on = producer.on
             /\ Len(producer'.queue) = Len(producer.queue) - 1
  <2> DEFINE queue == Tail(producer.queue)
  <2>1. ProducerOK /\ ProducerSize \in Nat
    BY SizeFacts DEF Flow, Shape
  <2>2. /\ queue \in Seq(Packet) /\ Len(queue) = Len(producer.queue) - 1
        /\ Len(producer.queue) \in Nat
    BY <1>2, <2>1, QueueFacts DEF ProducerOK
  <2> HIDE DEF queue
  <2>3. /\ producer' \in [queue : Seq(Packet), current : Packet \cup {None}, on : BOOLEAN]
        /\ producer'.queue = queue /\ producer'.current = producer.current
        /\ producer'.on = producer.on
    BY <1>2, <2>1, <2>2 DEF ProducerOK, queue
  <2> QED
    BY <2>1, <2>2, <2>3 DEF ProducerOK
<1> QED
  BY <1>1, <1>2

LEMMA AppendKept ==
  ASSUME Flow, cfg' = cfg, NEW packet \in Packet, Len(consumer.queue) < ConsumerLimit,
         consumer' = [consumer EXCEPT !.queue = Append(consumer.queue, packet)]
  PROVE  /\ ConsumerOK' /\ consumer'.current = consumer.current
         /\ Len(consumer'.queue) = Len(consumer.queue) + 1
<1> DEFINE queue == Append(consumer.queue, packet)
<1>1. ConsumerOK /\ ConsumerLimit' = ConsumerLimit /\ ConsumerLimit \in Nat
  BY SettingFacts DEF Flow, Shape, ConsumerLimit
<1>2. /\ queue \in Seq(Packet) /\ Len(queue) = Len(consumer.queue) + 1
      /\ Len(consumer.queue) \in Nat
  BY <1>1, QueueFacts DEF ConsumerOK
<1> HIDE DEF queue
<1>3. /\ consumer' \in [queue : Seq(Packet), current : Packet \cup {None},
                        complete : BOOLEAN, playing : BOOLEAN]
      /\ consumer'.queue = queue /\ consumer'.current = consumer.current
      /\ consumer'.playing = consumer.playing
  BY <1>1, <1>2 DEF ConsumerOK, queue
<1> QED
  BY <1>1, <1>2, <1>3 DEF ConsumerOK

\* The nodes of the three pools, each by what holds it.
ProducerTally ==
  free.producer + Len(producer.queue) + Ones(producer.current # None) + Ones(process.at = "copy")
ProcessingTally ==
  free.processing + Ones(process.at \in Processed \cup {"count", "finish", "error"})
ConsumerTally ==
  free.consumer + Len(consumer.queue) + Ones(consumer.current # None)
    + Ones(process.at = "enqueue") + Ones(process.dropped # None)

LEMMA FlowAgain ==
  ASSUME Flow, cfg' = cfg,
         FreeOK', ProducerOK', ProcessOK', ConsumerOK', CountOK', WirelessOK', AppOK', HeardOK',
         ProducerTally' = ProducerTally, ProcessingTally' = ProcessingTally,
         ConsumerTally' = ConsumerTally, Known'
  PROVE  Flow'
<1>1. Shape'
  BY DEF Flow, Shape
<1>2. /\ ProducerTally = ProducerNodes /\ ProcessingTally = ProcessingNodes
      /\ ConsumerTally = ConsumerNodes
  BY DEF Flow, NodesAccounted, At, ProducerTally, ProcessingTally, ConsumerTally
<1>3. /\ ProducerNodes' = ProducerNodes /\ ProcessingNodes' = ProcessingNodes
      /\ ConsumerNodes' = ConsumerNodes
  BY DEF ProducerNodes, ProcessingNodes, ConsumerNodes, ConsumerLimit
<1>4. /\ ProducerTally' = ProducerNodes' /\ ProcessingTally' = ProcessingNodes'
      /\ ConsumerTally' = ConsumerNodes'
  BY <1>2, <1>3
<1>5. NodesAccounted'
  BY <1>4 DEF NodesAccounted, At, ProducerTally, ProcessingTally, ConsumerTally
<1> QED
  BY <1>1, <1>5 DEF Flow

LEMMA ProcessStep ==
  ASSUME Flow, Process
  PROVE  Flow'
<1>1. /\ cfg \in Settings /\ FreeOK /\ ProducerOK /\ ProcessOK /\ ConsumerOK /\ CountOK /\ WirelessOK
      /\ cfg.consumerDelayed \in BOOLEAN
  BY SettingFacts DEF Flow, Shape
<1>2. /\ free.producer \in Nat /\ free.processing \in Nat /\ free.consumer \in Nat
      /\ Len(producer.queue) \in Nat /\ Len(consumer.queue) \in Nat
      /\ Len(consumer.queue) <= ConsumerLimit /\ ConsumerLimit \in Nat /\ ConsumerLimit >= 1
      /\ cfg' = cfg => ConsumerLimit' = ConsumerLimit
  BY <1>1, QueueFacts, SettingFacts DEF FreeOK, ProducerOK, ConsumerOK, ConsumerLimit
<1>3. Known /\ NodesAccounted
  BY DEF Flow
<1>4. /\ None \notin Packet
      /\ \A p \in Packet, size \in Sizes : [p EXCEPT !.size = size] \in Packet
  BY FreshPacket
<1>11. ASSUME CheckBuffering PROVE Flow'
  <2>1. CASE ~consumer.complete /\ Len(consumer.queue) >= app.threshold
    <3>1. /\ process.at = "buffering"
          /\ process' = [process EXCEPT !.at = "start"]
          /\ consumer' = [consumer EXCEPT !.complete = TRUE]
          /\ UNCHANGED <<cfg, free, producer, buffered, wireless, app, heard>>
      BY <1>11, <2>1 DEF CheckBuffering, At, Go
    <3>2. ProcessOK' /\ process'.at = "start"
          /\ process'.packet = process.packet /\ process'.dropped = process.dropped
          /\ process'.dry = process.dry /\ process'.met = process.met
      BY <1>1, <3>1 DEF ProcessOK, Places, Processed
    <3>3. ConsumerOK' /\ consumer'.queue = consumer.queue /\ consumer'.current = consumer.current
      BY <1>1, <1>2, <3>1 DEF ConsumerOK
    <3>4. /\ ProducerTally' = ProducerTally /\ ProcessingTally' = ProcessingTally
          /\ ConsumerTally' = ConsumerTally
      BY <1>2, <3>1, <2>1, <3>2, <3>3 DEF ProducerTally, ProcessingTally, ConsumerTally, Ones, Processed
    <3>5. Known'
      BY <1>2, <1>3, <3>1, <2>1, <3>2, <3>3 DEF Known, Ones
    <3> QED
      BY <3>1, <2>1, <3>2, <3>3, <3>4, <3>5, KeptOK, FlowAgain
  <2>2. CASE ~(~consumer.complete /\ Len(consumer.queue) >= app.threshold)
    <3>1. /\ process.at = "buffering"
          /\ process' = [process EXCEPT !.at = "dequeue"]
          /\ UNCHANGED <<cfg, free, producer, consumer, buffered, wireless, app, heard>>
      BY <1>11, <2>2 DEF CheckBuffering, At, Go
    <3>2. ProcessOK' /\ process'.at = "dequeue"
          /\ process'.packet = process.packet /\ process'.dropped = process.dropped
          /\ process'.dry = process.dry /\ process'.met = process.met
      BY <1>1, <3>1 DEF ProcessOK, Places, Processed
    <3>3. /\ ProducerTally' = ProducerTally /\ ProcessingTally' = ProcessingTally
          /\ ConsumerTally' = ConsumerTally
      BY <1>2, <3>1, <2>2, <3>2 DEF ProducerTally, ProcessingTally, ConsumerTally, Ones, Processed
    <3>4. Known'
      BY <1>2, <1>3, <3>1, <2>2, <3>2 DEF Known, Ones
    <3> QED
      BY <3>1, <2>2, <3>2, <3>3, <3>4, KeptOK, FlowAgain
  <2> QED
    BY <2>1, <2>2
<1>12. ASSUME StartConsumer PROVE Flow'
  <2>1. CASE cfg.consumerDelayed
    <3>1. /\ process.at = "start"
          /\ process' = [process EXCEPT !.at = "dequeue"]
          /\ ConsumeDelay
          /\ UNCHANGED <<cfg, producer, wireless, app>>
      BY <1>12, <2>1 DEF StartConsumer, At, Go
    <3>2. ProcessOK' /\ process'.at = "dequeue"
          /\ process'.packet = process.packet /\ process'.dropped = process.dropped
          /\ process'.dry = process.dry /\ process'.met = process.met
      BY <1>1, <3>1 DEF ProcessOK, Places, Processed
    <3>3. /\ FreeOK' /\ ConsumerOK' /\ CountOK' /\ HeardOK'
          /\ free'.processing = free.processing /\ free'.producer = free.producer
          /\ free'.consumer + Len(consumer'.queue) + Ones(consumer'.current # None)
               = free.consumer + Len(consumer.queue) + Ones(consumer.current # None)
      BY <2>1, <3>1, ConsumeDelayFacts
    <3>4. /\ ProducerTally' = ProducerTally /\ ProcessingTally' = ProcessingTally
          /\ ConsumerTally' = ConsumerTally
      BY <1>2, <3>1, <2>1, <3>2, <3>3 DEF ProducerTally, ProcessingTally, ConsumerTally, Ones, Processed
    <3>5. Known'
      BY <1>2, <1>3, <3>1, <2>1, <3>2, <3>3 DEF Known, Ones
    <3> QED
      BY <3>1, <2>1, <3>2, <3>3, <3>4, <3>5, KeptOK, FlowAgain
  <2>2. CASE ~cfg.consumerDelayed
    <3>1. /\ process.at = "start"
          /\ process' = [process EXCEPT !.at = "dequeue"]
          /\ wireless' = 0
          /\ UNCHANGED <<cfg, free, producer, consumer, buffered, app, heard>>
      BY <1>12, <2>2 DEF StartConsumer, At, Go
    <3>2. ProcessOK' /\ process'.at = "dequeue"
          /\ process'.packet = process.packet /\ process'.dropped = process.dropped
          /\ process'.dry = process.dry /\ process'.met = process.met
      BY <1>1, <3>1 DEF ProcessOK, Places, Processed
    <3>3. WirelessOK'
      BY <1>1, <3>1, SizeFacts DEF WirelessOK
    <3>4. /\ ProducerTally' = ProducerTally /\ ProcessingTally' = ProcessingTally
          /\ ConsumerTally' = ConsumerTally
      BY <1>2, <3>1, <2>2, <3>2, <3>3 DEF ProducerTally, ProcessingTally, ConsumerTally, Ones, Processed
    <3>5. Known'
      BY <1>2, <1>3, <3>1, <2>2, <3>2, <3>3 DEF Known, Ones
    <3> QED
      BY <3>1, <2>2, <3>2, <3>3, <3>4, <3>5, KeptOK, FlowAgain
  <2> QED
    BY <2>1, <2>2
<1>13. ASSUME DequeueProducer PROVE Flow'
  <2>1. CASE producer.queue = <<>>
    <3>1. /\ process.at = "dequeue"
          /\ process' = [process EXCEPT !.at = After]
          /\ After \in {"idle", "consume"}
          /\ UNCHANGED <<cfg, free, producer, consumer, buffered, wireless, app, heard>>
      BY <1>13, <2>1 DEF DequeueProducer, At, Go, After
    <3>2. ProcessOK' /\ process'.at \in {"idle", "consume"}
          /\ process'.packet = process.packet /\ process'.dropped = process.dropped
          /\ process'.dry = process.dry /\ process'.met = process.met
      BY <1>1, <3>1 DEF ProcessOK, Places, Processed
    <3>3. /\ ProducerTally' = ProducerTally /\ ProcessingTally' = ProcessingTally
          /\ ConsumerTally' = ConsumerTally
      BY <1>2, <3>1, <2>1, <3>2 DEF ProducerTally, ProcessingTally, ConsumerTally, Ones, Processed
    <3>4. Known'
      BY <1>2, <1>3, <3>1, <2>1, <3>2 DEF Known, Ones
    <3> QED
      BY <3>1, <2>1, <3>2, <3>3, <3>4, KeptOK, FlowAgain
  <2>2. CASE producer.queue # <<>>
    <3>1. /\ process.at = "dequeue"
          /\ process' = [process EXCEPT !.at = "copy", !.packet = Head(producer.queue)]
          /\ producer' = [producer EXCEPT !.queue = Tail(producer.queue)]
          /\ UNCHANGED <<cfg, free, consumer, buffered, wireless, app, heard>>
      BY <1>13, <2>2 DEF DequeueProducer, At, Go
    <3>0. /\ Head(producer.queue) \in Packet /\ Tail(producer.queue) \in Seq(Packet)
          /\ Len(Tail(producer.queue)) = Len(producer.queue) - 1
      BY <1>1, <2>2, QueueFacts DEF ProducerOK
    <3>2. ProcessOK' /\ process'.at = "copy" /\ process'.dropped = process.dropped
        /\ process'.dry = process.dry /\ process'.met = process.met
      BY <1>1, <3>0, <3>1 DEF ProcessOK, Places, Processed
    <3>3. /\ ProducerOK' /\ producer'.current = producer.current /\ producer'.on = producer.on
          /\ Len(producer'.queue) = Len(producer.queue) - 1
      BY <2>2, <3>0, <3>1, TailKept
    <3>4. /\ ProducerTally' = ProducerTally /\ ProcessingTally' = ProcessingTally
          /\ ConsumerTally' = ConsumerTally
      BY SMTT(30), <1>2, <3>1, <2>2, <3>0, <3>2, <3>3 DEF ProducerTally, ProcessingTally, ConsumerTally, Ones, Processed
    <3>5. Known'
      BY <1>2, <1>3, <3>1, <2>2, <3>0, <3>2, <3>3 DEF Known, Ones
    <3> QED
      BY <3>1, <2>2, <3>0, <3>2, <3>3, <3>4, <3>5, KeptOK, FlowAgain
  <2> QED
    BY <2>1, <2>2
<1>14. ASSUME CopyInput PROVE Flow'
  <2>1. CASE free.processing > 0
    <3>1. /\ process.at = "copy"
          /\ process' = [process EXCEPT !.at = "samples"]
          /\ free' = [free EXCEPT !.processing = @ - 1, !.producer = @ + 1]
          /\ UNCHANGED <<cfg, producer, consumer, buffered, wireless, app, heard>>
      BY <1>14, <2>1 DEF CopyInput, At, Go
    <3>0. free.processing - 1 \in Nat /\ free.producer + 1 \in Nat
      BY <1>1, <1>2, <2>1
    <3>2. ProcessOK' /\ process'.at = "samples"
          /\ process'.packet = process.packet /\ process'.dropped = process.dropped
          /\ process'.dry = process.dry /\ process'.met = process.met
      BY <1>1, <3>0, <3>1 DEF ProcessOK, Places, Processed
    <3>3. FreeOK' /\ free'.processing = free.processing - 1
        /\ free'.producer = free.producer + 1 /\ free'.consumer = free.consumer
      BY <1>1, <2>1, <3>0, <3>1 DEF FreeOK
    <3>4. ProducerTally' = ProducerTally
      <4>1. producer' = producer /\ process.at = "copy"
        BY <3>1
      <4> DEFINE current == Ones(producer.current # None)
      <4>2. current \in Nat
        BY DEF Ones
      <4>3. Ones(process.at = "copy") = 1 /\ Ones(process'.at = "copy") = 0
        BY <3>2, <4>1 DEF Ones
      <4>4. Ones(producer'.current # None) = current
        BY <4>1
      <4> HIDE DEF current
      <4>5. ProducerTally = free.producer + Len(producer.queue) + current + 1
        BY <4>3 DEF ProducerTally, current
      <4>6. ProducerTally' = free'.producer + Len(producer.queue) + current + 0
        BY <4>1, <4>3, <4>4 DEF ProducerTally
      <4> QED
        BY SMTT(30), <1>2, <3>3, <4>2, <4>5, <4>6
    <3>5. ProcessingTally' = ProcessingTally
      BY <1>2, <3>1, <2>1, <3>0, <3>2, <3>3 DEF ProcessingTally, Ones, Processed
    <3>6. ConsumerTally' = ConsumerTally
      BY <1>2, <3>1, <2>1, <3>0, <3>2, <3>3 DEF ConsumerTally, Ones
    <3>7. Known'
      BY <1>2, <1>3, <3>1, <2>1, <3>0, <3>2, <3>3, <3>4, <3>5 DEF Known, Ones
    <3> QED
      BY <3>1, <2>1, <3>0, <3>2, <3>3, <3>4, <3>5, <3>6, <3>7, KeptOK, FlowAgain
  <2>2. CASE ~(free.processing > 0)
    <3>1. /\ process.at = "copy"
          /\ process' = [process EXCEPT !.at = "halted", !.packet = None]
          /\ free' = [free EXCEPT !.producer = @ + 1]
          /\ UNCHANGED <<cfg, producer, consumer, buffered, wireless, app, heard>>
      BY <1>14, <2>2 DEF CopyInput, At
    <3>2. ProcessOK' /\ process'.at = "halted"
      /\ process'.packet = None /\ process'.dropped = process.dropped
        /\ process'.dry = process.dry /\ process'.met = process.met
      BY <1>1, <3>1 DEF ProcessOK, Places, Processed
    <3>3. FreeOK' /\ free'.processing = free.processing
        /\ free'.producer = free.producer + 1 /\ free'.consumer = free.consumer
      BY <1>1, <2>2, <3>1 DEF FreeOK
    <3>4. ProducerTally' = ProducerTally
      BY SMTT(30), <1>2, <3>1, <2>2, <3>2, <3>3 DEF ProducerTally, Ones
    <3>5. ProcessingTally' = ProcessingTally
      BY <1>2, <3>1, <2>2, <3>2, <3>3 DEF ProcessingTally, Ones, Processed
    <3>6. ConsumerTally' = ConsumerTally
      BY <1>2, <3>1, <2>2, <3>2, <3>3 DEF ConsumerTally, Ones
    <3>7. Known'
      BY <1>2, <1>3, <3>1, <2>2, <3>2, <3>3, <3>4, <3>5 DEF Known, Ones
    <3> QED
      BY <3>1, <2>2, <3>2, <3>3, <3>4, <3>5, <3>6, <3>7, KeptOK, FlowAgain
  <2> QED
    BY <2>1, <2>2
<1>15. ASSUME ProcessFails PROVE Flow'
  <2>1. /\ process.at = "samples"
        /\ \E place \in {"idle", "consume", "halted"} :
             process' = [process EXCEPT !.at = place, !.packet = None]
        /\ free' = [free EXCEPT !.processing = @ + 1]
        /\ UNCHANGED <<cfg, producer, consumer, buffered, wireless, app, heard>>
    BY <1>15 DEF ProcessFails, FailsTo, At, After
  <2>2. ProcessOK' /\ process'.at \in {"idle", "consume", "halted"}
      /\ process'.packet = None /\ process'.dropped = process.dropped
      /\ process'.dry = process.dry /\ process'.met = process.met
    BY <1>1, <2>1 DEF ProcessOK, Places, Processed
  <2>3. FreeOK' /\ free'.processing = free.processing + 1
      /\ free'.producer = free.producer /\ free'.consumer = free.consumer
    BY <1>1, <2>1 DEF FreeOK
  <2>4. /\ ProducerTally' = ProducerTally /\ ProcessingTally' = ProcessingTally
        /\ ConsumerTally' = ConsumerTally
    BY SMTT(30), <1>2, <2>1, <2>2, <2>3 DEF ProducerTally, ProcessingTally, ConsumerTally, Ones, Processed
  <2>5. Known'
    BY <1>2, <1>3, <2>1, <2>2, <2>3 DEF Known, Ones
  <2> QED
    BY <2>1, <2>2, <2>3, <2>4, <2>5, KeptOK, FlowAgain
<1>16. ASSUME FreeOutput PROVE Flow'
  <2>1. /\ process.at \in {"finish", "error"}
        /\ \E place \in {"idle", "consume", "halted"} :
             process' = [process EXCEPT !.at = place, !.packet = None]
        /\ free' = [free EXCEPT !.processing = @ + 1]
        /\ UNCHANGED <<cfg, producer, consumer, buffered, wireless, app, heard>>
    BY <1>16 DEF FreeOutput, At, After
  <2>2. ProcessOK' /\ process'.at \in {"idle", "consume", "halted"}
      /\ process'.packet = None /\ process'.dropped = process.dropped
      /\ process'.dry = process.dry /\ process'.met = process.met
    BY <1>1, <2>1 DEF ProcessOK, Places, Processed
  <2>3. FreeOK' /\ free'.processing = free.processing + 1
      /\ free'.producer = free.producer /\ free'.consumer = free.consumer
    BY <1>1, <2>1 DEF FreeOK
  <2>4. /\ ProducerTally' = ProducerTally /\ ProcessingTally' = ProcessingTally
        /\ ConsumerTally' = ConsumerTally
    BY SMTT(30), <1>2, <2>1, <2>2, <2>3 DEF ProducerTally, ProcessingTally, ConsumerTally, Ones, Processed
  <2>5. Known'
    BY <1>2, <1>3, <2>1, <2>2, <2>3 DEF Known, Ones
  <2> QED
    BY <2>1, <2>2, <2>3, <2>4, <2>5, KeptOK, FlowAgain
<1>17. ASSUME NEW size \in Sizes, ProcessSamples(size) PROVE Flow'
  <2>1. /\ process.at = "samples"
        /\ process' = [process EXCEPT !.at = "full", !.packet.size = size]
        /\ UNCHANGED <<cfg, free, producer, consumer, buffered, wireless, app, heard>>
    BY <1>17 DEF ProcessSamples, At
  <2>2. ProcessOK' /\ process'.at = "full" /\ process'.dropped = process.dropped
      /\ process'.dry = process.dry /\ process'.met = process.met
    BY <1>1, <1>4, <2>1 DEF ProcessOK, Places, Processed
  <2>3. /\ ProducerTally' = ProducerTally /\ ProcessingTally' = ProcessingTally
        /\ ConsumerTally' = ConsumerTally
    BY <1>2, <2>1, <2>2 DEF ProducerTally, ProcessingTally, ConsumerTally, Ones, Processed
  <2>4. Known'
    BY <1>2, <1>3, <2>1, <2>2 DEF Known, Ones
  <2> QED
    BY <2>1, <2>2, <2>3, <2>4, KeptOK, FlowAgain
<1>18. ASSUME CheckFull PROVE Flow'
  <2>1. CASE Len(consumer.queue) = ConsumerLimit
    <3>1. /\ process.at = "full"
          /\ process' = [process EXCEPT !.at = "pool"]
          /\ UNCHANGED <<cfg, free, producer, consumer, buffered, wireless, app, heard>>
      BY <1>18, <2>1 DEF CheckFull, At, Go
    <3>2. ProcessOK' /\ process'.at = "pool"
          /\ process'.packet = process.packet /\ process'.dropped = process.dropped
          /\ process'.dry = process.dry /\ process'.met = process.met
      BY <1>1, <3>1 DEF ProcessOK, Places, Processed
    <3>3. /\ ProducerTally' = ProducerTally /\ ProcessingTally' = ProcessingTally
          /\ ConsumerTally' = ConsumerTally
      BY <1>2, <3>1, <2>1, <3>2 DEF ProducerTally, ProcessingTally, ConsumerTally, Ones, Processed
    <3>4. Known'
      BY <1>2, <1>3, <3>1, <2>1, <3>2 DEF Known, Ones
    <3> QED
      BY <3>1, <2>1, <3>2, <3>3, <3>4, KeptOK, FlowAgain
  <2>2. CASE Len(consumer.queue) # ConsumerLimit
    <3>1. /\ process.at = "full"
          /\ process' = [process EXCEPT !.at = "take"]
          /\ UNCHANGED <<cfg, free, producer, consumer, buffered, wireless, app, heard>>
      BY <1>18, <2>2 DEF CheckFull, At, Go
    <3>2. ProcessOK' /\ process'.at = "take"
          /\ process'.packet = process.packet /\ process'.dropped = process.dropped
          /\ process'.dry = process.dry /\ process'.met = process.met
      BY <1>1, <3>1 DEF ProcessOK, Places, Processed
    <3>3. /\ ProducerTally' = ProducerTally /\ ProcessingTally' = ProcessingTally
          /\ ConsumerTally' = ConsumerTally
      BY <1>2, <3>1, <2>2, <3>2 DEF ProducerTally, ProcessingTally, ConsumerTally, Ones, Processed
    <3>4. Known'
      BY <1>2, <1>3, <3>1, <2>2, <3>2 DEF Known, Ones
    <3> QED
      BY <3>1, <2>2, <3>2, <3>3, <3>4, KeptOK, FlowAgain
  <2> QED
    BY <2>1, <2>2
<1>19. ASSUME CheckPool PROVE Flow'
  <2>1. CASE free.consumer <= NodesKept
    <3>1. /\ process.at = "pool"
          /\ process' = [process EXCEPT !.at = "drop"]
          /\ UNCHANGED <<cfg, free, producer, consumer, buffered, wireless, app, heard>>
      BY <1>19, <2>1 DEF CheckPool, At, Go
    <3>2. ProcessOK' /\ process'.at = "drop"
          /\ process'.packet = process.packet /\ process'.dropped = process.dropped
          /\ process'.dry = process.dry /\ process'.met = process.met
      BY <1>1, <3>1 DEF ProcessOK, Places, Processed
    <3>3. Len(consumer.queue) = ConsumerLimit
      BY <1>1, <1>2, <1>3, <2>1, <3>1 DEF NodesKept, NodesAccounted, ConsumerNodes, ConsumerOK, ProcessOK, Ones, At
    <3>4. /\ ProducerTally' = ProducerTally /\ ProcessingTally' = ProcessingTally
          /\ ConsumerTally' = ConsumerTally
      BY <1>2, <3>1, <2>1, <3>2, <3>3 DEF ProducerTally, ProcessingTally, ConsumerTally, Ones, Processed
    <3>5. Known'
      BY <1>2, <1>3, <3>1, <2>1, <3>2, <3>3 DEF Known, Ones
    <3> QED
      BY <3>1, <2>1, <3>2, <3>3, <3>4, <3>5, KeptOK, FlowAgain
  <2>2. CASE ~(free.consumer <= NodesKept)
    <3>1. /\ process.at = "pool"
          /\ process' = [process EXCEPT !.at = "take"]
          /\ UNCHANGED <<cfg, free, producer, consumer, buffered, wireless, app, heard>>
      BY <1>19, <2>2 DEF CheckPool, At, Go
    <3>2. ProcessOK' /\ process'.at = "take"
          /\ process'.packet = process.packet /\ process'.dropped = process.dropped
          /\ process'.dry = process.dry /\ process'.met = process.met
      BY <1>1, <3>1 DEF ProcessOK, Places, Processed
    <3>3. Len(consumer.queue) < ConsumerLimit
      BY <1>1, <1>2, <1>3, <2>2, <3>1 DEF NodesKept, NodesAccounted, ConsumerNodes, ConsumerOK, ProcessOK, Ones, At
    <3>4. /\ ProducerTally' = ProducerTally /\ ProcessingTally' = ProcessingTally
          /\ ConsumerTally' = ConsumerTally
      BY <1>2, <3>1, <2>2, <3>2, <3>3 DEF ProducerTally, ProcessingTally, ConsumerTally, Ones, Processed
    <3>5. Known'
      BY <1>2, <1>3, <3>1, <2>2, <3>2, <3>3 DEF Known, Ones
    <3> QED
      BY <3>1, <2>2, <3>2, <3>3, <3>4, <3>5, KeptOK, FlowAgain
  <2> QED
    BY <2>1, <2>2
<1>20. ASSUME DropOldest PROVE Flow'
  <2>1. CASE consumer.queue = <<>>
    <3>1. /\ process.at = "drop"
          /\ process' = [process EXCEPT !.at = "dropped", !.dry = TRUE]
          /\ UNCHANGED <<cfg, free, producer, consumer, buffered, wireless, app, heard>>
      BY <1>20, <2>1 DEF DropOldest, At
    <3>2. ProcessOK' /\ process'.at = "dropped" /\ process'.packet = process.packet
        /\ process'.dropped = process.dropped /\ process'.met = process.met
      BY <1>1, <3>1 DEF ProcessOK, Places, Processed
    <3>3. Len(consumer.queue) = 0
      BY <2>1
    <3>4. /\ ProducerTally' = ProducerTally /\ ProcessingTally' = ProcessingTally
          /\ ConsumerTally' = ConsumerTally
      BY <1>2, <3>1, <2>1, <3>2, <3>3 DEF ProducerTally, ProcessingTally, ConsumerTally, Ones, Processed
    <3>5. Known'
      BY <1>2, <1>3, <3>1, <2>1, <3>2, <3>3 DEF Known, Ones
    <3> QED
      BY <3>1, <2>1, <3>2, <3>3, <3>4, <3>5, KeptOK, FlowAgain
  <2>2. CASE consumer.queue # <<>>
    <3>1. /\ process.at = "drop"
          /\ process' = [process EXCEPT !.at = "dropped", !.dropped = Head(consumer.queue)]
          /\ consumer' = [consumer EXCEPT !.queue = Tail(consumer.queue)]
          /\ UNCHANGED <<cfg, free, producer, buffered, wireless, app, heard>>
      BY <1>20, <2>2 DEF DropOldest, At
    <3>0. /\ Head(consumer.queue) \in Packet /\ Head(consumer.queue) # None /\ process.dropped = None
          /\ Tail(consumer.queue) \in Seq(Packet)
          /\ Len(Tail(consumer.queue)) = Len(consumer.queue) - 1
      BY <1>1, <1>4, <2>2, <3>1, QueueFacts DEF ConsumerOK, ProcessOK
    <3>2. ProcessOK' /\ process'.at = "dropped" /\ process'.packet = process.packet
        /\ process'.dropped = Head(consumer.queue) /\ process'.dry = process.dry
      BY <1>1, <3>0, <3>1 DEF ProcessOK, Places, Processed
    <3>3. /\ ConsumerOK' /\ consumer'.current = consumer.current
          /\ Len(consumer'.queue) = Len(consumer.queue) - 1
      BY <2>2, <3>0, <3>1, TailKept
    <3>4. ProducerTally' = ProducerTally
      BY <1>2, <3>1, <2>2, <3>0, <3>2, <3>3 DEF ProducerTally, Ones
    <3>5. ProcessingTally' = ProcessingTally
      BY <1>2, <3>1, <2>2, <3>0, <3>2, <3>3 DEF ProcessingTally, Ones, Processed
    <3>6. ConsumerTally' = ConsumerTally
      BY <1>2, <3>1, <2>2, <3>0, <3>2, <3>3 DEF ConsumerTally, Ones
    <3>7. Known'
      BY <1>2, <1>3, <3>1, <2>2, <3>0, <3>2, <3>3, <3>4, <3>5 DEF Known, Ones
    <3> QED
      BY <3>1, <2>2, <3>0, <3>2, <3>3, <3>4, <3>5, <3>6, <3>7, KeptOK, FlowAgain
  <2> QED
    BY <2>1, <2>2
<1>21. ASSUME Dropped PROVE Flow'
  <2>1. CASE process.dropped = None
    <3>1. /\ process.at = "dropped"
          /\ process' = [process EXCEPT !.at = "take", !.dropped = None]
          /\ UNCHANGED <<cfg, free, producer, consumer, buffered, wireless, app, heard>>
      BY <1>21, <2>1 DEF Dropped, At
    <3>2. ProcessOK' /\ process'.at = "take" /\ process'.packet = process.packet
        /\ process'.dropped = None /\ process'.dry = process.dry
      BY <1>1, <3>1 DEF ProcessOK, Places, Processed
    <3>3. /\ ProducerTally' = ProducerTally /\ ProcessingTally' = ProcessingTally
          /\ ConsumerTally' = ConsumerTally
      BY <1>2, <3>1, <2>1, <3>2 DEF ProducerTally, ProcessingTally, ConsumerTally, Ones, Processed
    <3>4. Known'
      BY <1>2, <1>3, <3>1, <2>1, <3>2 DEF Known, Ones
    <3> QED
      BY <3>1, <2>1, <3>2, <3>3, <3>4, KeptOK, FlowAgain
  <2>2. CASE process.dropped # None
    <3>1. /\ process.at = "dropped"
          /\ process' = [process EXCEPT !.at = "take", !.dropped = None]
          /\ free' = [free EXCEPT !.consumer = @ + 1]
          /\ buffered' = Less(process.dropped.size)
          /\ UNCHANGED <<cfg, producer, consumer, wireless, app, heard>>
      BY <1>21, <2>2 DEF Dropped, At
    <3>2. ProcessOK' /\ process'.at = "take" /\ process'.packet = process.packet
        /\ process'.dropped = None /\ process'.dry = process.dry
      BY <1>1, <3>1 DEF ProcessOK, Places, Processed
    <3>3. FreeOK' /\ free'.processing = free.processing
        /\ free'.producer = free.producer /\ free'.consumer = free.consumer + 1
      BY <1>1, <2>2, <3>1 DEF FreeOK
    <3>4. buffered + SizeModulus - process.dropped.size \in Int
      BY <1>1, <2>2, PacketType, SizeFacts DEF ProcessOK, CountOK
    <3>5. CountOK'
      BY <3>1, <3>4, CountedOK DEF Less
    <3>6. /\ ProducerTally' = ProducerTally /\ ProcessingTally' = ProcessingTally
          /\ ConsumerTally' = ConsumerTally
      BY SMTT(30), <1>2, <3>1, <2>2, <3>2, <3>3, <3>4, <3>5 DEF ProducerTally, ProcessingTally, ConsumerTally, Ones, Processed
    <3>7. Known'
      BY <1>2, <1>3, <3>1, <2>2, <3>2, <3>3, <3>4, <3>5 DEF Known, Ones
    <3> QED
      BY <3>1, <2>2, <3>2, <3>3, <3>4, <3>5, <3>6, <3>7, KeptOK, FlowAgain
  <2> QED
    BY <2>1, <2>2
<1>22. ASSUME TakeNode PROVE Flow'
  <2>1. CASE free.consumer > 0 /\ process.packet.size <= ConsumerCapacity
    <3>1. /\ process.at = "take"
          /\ process' = [process EXCEPT !.at = "enqueue"]
          /\ free' = [free EXCEPT !.consumer = @ - 1]
          /\ UNCHANGED <<cfg, producer, consumer, buffered, wireless, app, heard>>
      BY <1>22, <2>1 DEF TakeNode, At, Go
    <3>2. ProcessOK' /\ process'.at = "enqueue"
          /\ process'.packet = process.packet /\ process'.dropped = process.dropped
          /\ process'.dry = process.dry /\ process'.met = process.met
      BY <1>1, <3>1 DEF ProcessOK, Places, Processed
    <3>3. FreeOK' /\ free'.processing = free.processing
        /\ free'.producer = free.producer /\ free'.consumer = free.consumer - 1
      BY <1>1, <2>1, <3>1 DEF FreeOK
    <3>4. /\ ProducerTally' = ProducerTally /\ ProcessingTally' = ProcessingTally
          /\ ConsumerTally' = ConsumerTally
      BY <1>2, <3>1, <2>1, <3>2, <3>3 DEF ProducerTally, ProcessingTally, ConsumerTally, Ones, Processed
    <3>5. Known'
      BY <1>2, <1>3, <3>1, <2>1, <3>2, <3>3 DEF Known, Ones
    <3> QED
      BY <3>1, <2>1, <3>2, <3>3, <3>4, <3>5, KeptOK, FlowAgain
  <2>2. CASE ~(free.consumer > 0 /\ process.packet.size <= ConsumerCapacity)
    <3>1. /\ process.at = "take"
          /\ process' = [process EXCEPT !.at = "error"]
          /\ UNCHANGED <<cfg, free, producer, consumer, buffered, wireless, app, heard>>
      BY <1>22, <2>2 DEF TakeNode, At, Go
    <3>2. ProcessOK' /\ process'.at = "error"
          /\ process'.packet = process.packet /\ process'.dropped = process.dropped
          /\ process'.dry = process.dry /\ process'.met = process.met
      BY <1>1, <3>1 DEF ProcessOK, Places, Processed
    <3>3. /\ ProducerTally' = ProducerTally /\ ProcessingTally' = ProcessingTally
          /\ ConsumerTally' = ConsumerTally
      BY <1>2, <3>1, <2>2, <3>2 DEF ProducerTally, ProcessingTally, ConsumerTally, Ones, Processed
    <3>4. Known'
      BY <1>2, <1>3, <3>1, <2>2, <3>2 DEF Known, Ones
    <3> QED
      BY <3>1, <2>2, <3>2, <3>3, <3>4, KeptOK, FlowAgain
  <2> QED
    BY <2>1, <2>2
<1>23. ASSUME EnqueueConsumer PROVE Flow'
  <2>1. /\ process.at = "enqueue"
        /\ process' = [process EXCEPT !.at = "count"]
        /\ consumer' = [consumer EXCEPT !.queue = Append(consumer.queue, process.packet)]
        /\ UNCHANGED <<cfg, free, producer, buffered, wireless, app, heard>>
    BY <1>2, <1>3, <1>23 DEF EnqueueConsumer, At, Go, Known
  <2>2. process.packet \in Packet /\ Len(consumer.queue) < ConsumerLimit /\ cfg' = cfg
    BY <1>1, <1>3, <2>1 DEF ProcessOK, Known, Processed
  <2>3. /\ ProcessOK' /\ process'.at = "count"
        /\ process'.packet = process.packet /\ process'.dropped = process.dropped
        /\ process'.dry = process.dry /\ process'.met = process.met
    BY <1>1, <2>1, <2>2 DEF ProcessOK, Places, Processed
  <2>4. /\ ConsumerOK' /\ consumer'.current = consumer.current
        /\ Len(consumer'.queue) = Len(consumer.queue) + 1
    <3> DEFINE packet == process.packet
    <3>1. /\ packet \in Packet /\ Len(consumer.queue) < ConsumerLimit /\ cfg' = cfg
          /\ consumer' = [consumer EXCEPT !.queue = Append(consumer.queue, packet)]
      BY <2>1, <2>2
    <3> HIDE DEF packet
    <3> QED
      BY <3>1, AppendKept
  <2>5. /\ ProducerTally' = ProducerTally /\ ProcessingTally' = ProcessingTally
        /\ ConsumerTally' = ConsumerTally
    BY <1>2, <2>1, <2>2, <2>3, <2>4 DEF ProducerTally, ProcessingTally, ConsumerTally, Ones, Processed
  <2>6. Known'
    BY <1>2, <1>3, <2>1, <2>2, <2>3, <2>4 DEF Known, Ones
  <2> QED
    BY <2>1, <2>2, <2>3, <2>4, <2>5, <2>6, KeptOK, FlowAgain
<1>24. ASSUME CountSamples PROVE Flow'
  <2>1. /\ process.at = "count"
        /\ process' = [process EXCEPT !.at = "finish"]
        /\ buffered' = Counted(buffered + process.packet.size)
        /\ UNCHANGED <<cfg, free, producer, consumer, wireless, app, heard>>
    BY <1>24 DEF CountSamples, At, Go
  <2>2. ProcessOK' /\ process'.at = "finish"
        /\ process'.packet = process.packet /\ process'.dropped = process.dropped
        /\ process'.dry = process.dry /\ process'.met = process.met
    BY <1>1, <2>1 DEF ProcessOK, Places, Processed
  <2>3. buffered + process.packet.size \in Int
    BY <1>1, <2>1, PacketType DEF ProcessOK, CountOK
  <2>4. CountOK'
    BY <2>1, <2>3, CountedOK
  <2>5. /\ ProducerTally' = ProducerTally /\ ProcessingTally' = ProcessingTally
        /\ ConsumerTally' = ConsumerTally
    BY <1>2, <2>1, <2>2, <2>3, <2>4 DEF ProducerTally, ProcessingTally, ConsumerTally, Ones, Processed
  <2>6. Known'
    BY <1>2, <1>3, <2>1, <2>2, <2>3, <2>4 DEF Known, Ones
  <2> QED
    BY <2>1, <2>2, <2>3, <2>4, <2>5, <2>6, KeptOK, FlowAgain
<1>25. ASSUME ConsumeAfter PROVE Flow'
  <2>1. CASE consumer.queue # <<>> /\ consumer.complete /\ wireless > 0
    <3>1. /\ process.at = "consume"
          /\ process' = [process EXCEPT !.at = "idle"]
          /\ free' = [free EXCEPT !.consumer = @ + 1]
          /\ consumer' = [consumer EXCEPT !.queue = Tail(consumer.queue)]
          /\ buffered' = Less(Head(consumer.queue).size)
          /\ wireless' = wireless - 1
          /\ Hear(Head(consumer.queue))
          /\ UNCHANGED <<cfg, producer, app>>
      BY <1>25, <2>1 DEF ConsumeAfter, ConsumeNoDelay, At, Go
    <3>0. /\ Tail(consumer.queue) \in Seq(Packet)
          /\ Len(Tail(consumer.queue)) = Len(consumer.queue) - 1
      BY <1>1, <2>1, QueueFacts DEF ConsumerOK
    <3>2. ProcessOK' /\ process'.at = "idle"
          /\ process'.packet = process.packet /\ process'.dropped = process.dropped
          /\ process'.dry = process.dry /\ process'.met = process.met
      BY <1>1, <3>0, <3>1 DEF ProcessOK, Places, Processed
    <3>3. FreeOK' /\ free'.processing = free.processing
        /\ free'.producer = free.producer /\ free'.consumer = free.consumer + 1
      BY <1>1, <2>1, <3>0, <3>1 DEF FreeOK
    <3>4. /\ ConsumerOK' /\ consumer'.current = consumer.current
          /\ Len(consumer'.queue) = Len(consumer.queue) - 1
      BY <2>1, <3>0, <3>1, TailKept
    <3>5. CountOK' /\ HeardOK'
      BY <2>1, <3>1, LessOK, HearOK
    <3>6. WirelessOK'
      BY <1>1, <2>1, <3>1, SizeFacts DEF WirelessOK
    <3>7. /\ ProducerTally' = ProducerTally /\ ProcessingTally' = ProcessingTally
          /\ ConsumerTally' = ConsumerTally
      BY <1>2, <3>1, <2>1, <3>0, <3>2, <3>3, <3>4, <3>5, <3>6 DEF ProducerTally, ProcessingTally, ConsumerTally, Ones, Processed
    <3>8. Known'
      BY <1>2, <1>3, <3>1, <2>1, <3>0, <3>2, <3>3, <3>4, <3>5, <3>6 DEF Known, Ones
    <3> QED
      BY <3>1, <2>1, <3>0, <3>2, <3>3, <3>4, <3>5, <3>6, <3>7, <3>8, KeptOK, FlowAgain
  <2>2. CASE ~(consumer.queue # <<>> /\ consumer.complete /\ wireless > 0)
    <3>1. /\ process.at = "consume"
          /\ process' = [process EXCEPT !.at = "idle"]
          /\ UNCHANGED <<cfg, free, producer, consumer, buffered, wireless, app, heard>>
      BY <1>25, <2>2 DEF ConsumeAfter, At, Go
    <3>2. ProcessOK' /\ process'.at = "idle"
          /\ process'.packet = process.packet /\ process'.dropped = process.dropped
          /\ process'.dry = process.dry /\ process'.met = process.met
      BY <1>1, <3>1 DEF ProcessOK, Places, Processed
    <3>3. /\ ProducerTally' = ProducerTally /\ ProcessingTally' = ProcessingTally
          /\ ConsumerTally' = ConsumerTally
      BY <1>2, <3>1, <2>2, <3>2 DEF ProducerTally, ProcessingTally, ConsumerTally, Ones, Processed
    <3>4. Known'
      BY <1>2, <1>3, <3>1, <2>2, <3>2 DEF Known, Ones
    <3> QED
      BY <3>1, <2>2, <3>2, <3>3, <3>4, KeptOK, FlowAgain
  <2> QED
    BY <2>1, <2>2
<1> QED
  BY <1>11, <1>12, <1>13, <1>14, <1>15, <1>16, <1>17, <1>18, <1>19, <1>20, <1>21, <1>22, <1>23, <1>24, <1>25 DEF Process, ProcessAny

LEMMA FlowStep ==
  ASSUME Flow, [Next]_vars
  PROVE  Flow'
<1>1. /\ FreeOK /\ ProducerOK /\ ProcessOK /\ ConsumerOK /\ WirelessOK /\ AppOK
      /\ cfg.producerDelayed \in BOOLEAN /\ cfg.consumerDelayed \in BOOLEAN
      /\ cfg.queueSize \in 1 .. 254
  BY SettingFacts DEF Flow, Shape
<1>2. /\ free.producer \in Nat /\ free.processing \in Nat /\ free.consumer \in Nat
      /\ Len(producer.queue) \in Nat /\ Len(consumer.queue) \in Nat
      /\ cfg' = cfg => ConsumerLimit' = ConsumerLimit
  BY <1>1, QueueFacts DEF FreeOK, ProducerOK, ConsumerOK, ConsumerLimit
<1>3. Known
  BY DEF Flow
<1>4. ASSUME process' = [process EXCEPT !.pending = TRUE]
      PROVE  /\ ProcessOK' /\ process'.at = process.at /\ process'.packet = process.packet
             /\ process'.dropped = process.dropped /\ process'.met = process.met
             /\ process'.dry = process.dry
  BY <1>1, <1>4 DEF ProcessOK
<1>11. ASSUME NEW mark \in Marks \cup {"plain"}, NEW samples \in BOOLEAN, Produce(mark, samples)
       PROVE  Flow'
  <2>1. CASE cfg.producerDelayed
    <3>1. Record(mark) /\ UNCHANGED <<cfg, consumer, buffered, wireless, app>>
      BY <1>11, <2>1 DEF Produce
    <3>2. /\ FreeOK' /\ ProducerOK' /\ HeardOK'
          /\ free'.processing = free.processing /\ free'.consumer = free.consumer
          /\ free'.producer + Len(producer'.queue) + Ones(producer'.current # None)
               = free.producer + Len(producer.queue) + Ones(producer.current # None)
          /\ producer'.on = TRUE
          /\ process' = [process EXCEPT !.pending = TRUE]
      BY <3>1, RecordFacts
    <3>3. ProcessingTally' = ProcessingTally /\ ConsumerTally' = ConsumerTally
      BY <1>4, <3>1, <3>2 DEF ProcessingTally, ConsumerTally
    <3>4. ProducerTally' = ProducerTally
      BY <1>4, <3>2 DEF ProducerTally
    <3>5. Known'
      BY <1>2, <1>3, <1>4, <3>1, <3>2 DEF Known
    <3> QED
      BY <1>4, <3>1, <3>2, <3>3, <3>4, <3>5, KeptOK, FlowAgain
  <2>2. CASE ~cfg.producerDelayed
    <3>1. Receive(mark, samples) /\ UNCHANGED <<cfg, consumer, buffered, wireless, app>>
      BY <1>11, <2>2 DEF Produce
    <3>2. /\ FreeOK' /\ ProducerOK' /\ HeardOK'
          /\ free'.processing = free.processing /\ free'.consumer = free.consumer
          /\ free'.producer + Len(producer'.queue) = free.producer + Len(producer.queue)
          /\ producer'.current = producer.current /\ producer'.on = producer.on
          /\ process' = [process EXCEPT !.pending = TRUE]
      BY <3>1, ReceiveFacts
    <3>3. ProcessingTally' = ProcessingTally /\ ConsumerTally' = ConsumerTally
      BY <1>4, <3>1, <3>2 DEF ProcessingTally, ConsumerTally
    <3>4. ProducerTally' = ProducerTally
      BY <1>4, <3>2 DEF ProducerTally
    <3>5. Known'
      BY <1>2, <1>3, <1>4, <3>1, <3>2 DEF Known
    <3> QED
      BY <1>4, <3>1, <3>2, <3>3, <3>4, <3>5, KeptOK, FlowAgain
  <2> QED
    BY <1>1, <2>1, <2>2
<1>12. ASSUME Played PROVE Flow'
  <2>1. /\ consumer.playing /\ (cfg.prompt /\ process.met => process.at = "halted") /\ ConsumeDelay
        /\ process' = [process EXCEPT !.met = process.at # "idle"]
        /\ UNCHANGED <<cfg, producer, wireless, app>>
    BY <1>12 DEF Played
  <2>2. /\ FreeOK' /\ ConsumerOK' /\ CountOK' /\ HeardOK'
        /\ free'.processing = free.processing /\ free'.producer = free.producer
        /\ free'.consumer + Len(consumer'.queue) + Ones(consumer'.current # None)
             = free.consumer + Len(consumer.queue) + Ones(consumer.current # None)
        /\ Len(consumer'.queue) <= Len(consumer.queue)
        /\ Len(consumer'.queue) + 1 >= Len(consumer.queue)
    BY <1>1, <2>1, ConsumeDelayFacts DEF ConsumerOK
  <2>3. /\ ProcessOK' /\ process'.at = process.at /\ process'.packet = process.packet
        /\ process'.dropped = process.dropped /\ process'.dry = process.dry
        /\ process.at # "idle" => process'.met
    BY <1>1, <2>1 DEF ProcessOK
  <2>4. ProducerTally' = ProducerTally /\ ProcessingTally' = ProcessingTally
    BY <2>1, <2>2, <2>3 DEF ProducerTally, ProcessingTally
  <2>5. ConsumerTally' = ConsumerTally
    BY <2>2, <2>3 DEF ConsumerTally
  <2>6. Known'
    <3>1. Len(consumer'.queue) \in Nat /\ ConsumerLimit \in Nat
      BY <2>2, QueueFacts, SettingFacts DEF ConsumerOK, Flow, Shape
    <3>2. process'.at \in {"dropped", "take", "enqueue"} => Len(consumer'.queue) < ConsumerLimit
      BY <1>2, <1>3, <2>2, <2>3, <3>1 DEF Known
    <3>3. cfg.prompt /\ process'.at = "drop" =>
            Len(consumer'.queue) + Ones(process'.met) >= ConsumerLimit
      <4>1. SUFFICES ASSUME cfg.prompt, process.at = "drop"
                     PROVE  Len(consumer'.queue) + Ones(process'.met) >= ConsumerLimit
        BY <2>3
      <4>2. Ones(process.met) = 0 /\ Ones(process'.met) = 1
        BY <2>1, <2>3, <4>1 DEF Ones
      <4>3. Len(consumer.queue) + Ones(process.met) >= ConsumerLimit
        BY <1>3, <4>1 DEF Known
      <4> QED
        BY <1>2, <2>2, <3>1, <4>2, <4>3
    <3> QED
      BY <1>2, <1>3, <2>1, <2>3, <3>2, <3>3 DEF Known
  <2> QED
    BY <2>1, <2>2, <2>3, <2>4, <2>5, <2>6, KeptOK, FlowAgain
<1>13. ASSUME FrameSent PROVE Flow'
  <2>1. /\ wireless < WirelessSize /\ wireless' = wireless + 1
        /\ process' = [process EXCEPT !.pending = TRUE]
        /\ UNCHANGED <<cfg, free, producer, consumer, buffered, app, heard>>
    BY <1>13 DEF FrameSent
  <2>2. WirelessOK'
    BY <1>1, <2>1, SizeFacts DEF WirelessOK
  <2>3. /\ ProducerTally' = ProducerTally /\ ProcessingTally' = ProcessingTally
        /\ ConsumerTally' = ConsumerTally
    BY <1>4, <2>1 DEF ProducerTally, ProcessingTally, ConsumerTally
  <2>4. Known'
    BY <1>2, <1>3, <1>4, <2>1 DEF Known
  <2> QED
    BY <1>4, <2>1, <2>2, <2>3, <2>4, KeptOK, FlowAgain
<1>14. ASSUME Tick PROVE Flow'
  <2>1. /\ process' = [process EXCEPT !.pending = TRUE]
        /\ UNCHANGED <<cfg, free, producer, consumer, buffered, wireless, app, heard>>
    BY <1>14 DEF Tick
  <2>2. /\ ProducerTally' = ProducerTally /\ ProcessingTally' = ProcessingTally
        /\ ConsumerTally' = ConsumerTally
    BY <1>4, <2>1 DEF ProducerTally, ProcessingTally, ConsumerTally
  <2>3. Known'
    BY <1>2, <1>3, <1>4, <2>1 DEF Known
  <2> QED
    BY <1>4, <2>1, <2>2, <2>3, KeptOK, FlowAgain
<1>15. ASSUME Trigger PROVE Flow'
  <2> DEFINE at == IF ~cfg.consumerDelayed /\ producer.queue = <<>> THEN "consume" ELSE "buffering"
  <2>1. /\ process.at = "idle" /\ at \in {"consume", "buffering"}
        /\ process' = [process EXCEPT !.at = at, !.pending = FALSE, !.met = FALSE]
        /\ UNCHANGED <<cfg, free, producer, consumer, buffered, wireless, app, heard>>
    BY <1>15 DEF Trigger, At
  <2> HIDE DEF at
  <2>2. /\ ProcessOK' /\ process'.at = at /\ process'.dropped = process.dropped
        /\ process'.dry = process.dry
    BY <1>1, <2>1 DEF ProcessOK, Places, Processed
  <2>3. /\ ProducerTally' = ProducerTally /\ ProcessingTally' = ProcessingTally
        /\ ConsumerTally' = ConsumerTally
    BY <1>2, <2>1, <2>2 DEF ProducerTally, ProcessingTally, ConsumerTally, Ones, Processed
  <2>4. Known'
    BY <1>2, <1>3, <2>1, <2>2 DEF Known
  <2> QED
    BY <2>1, <2>2, <2>3, <2>4, KeptOK, FlowAgain
<1>16. ASSUME Process PROVE Flow'
  BY <1>16, ProcessStep
<1>17. ASSUME Start PROVE Flow'
  <2> DEFINE threshold == IF cfg.buffering THEN cfg.queueSize - 1 ELSE 1
  <2>1. /\ app' = [at |-> "run", threshold |-> threshold]
        /\ UNCHANGED <<cfg, consumer, buffered, wireless>>
    BY <1>17 DEF Start
  <2>2. AppOK'
    <3>1. threshold \in 0 .. 254
      BY <1>1
    <3> QED
      BY <2>1, <3>1 DEF AppOK
  <2>3. CASE cfg.producerDelayed
    <3>1. PICK mark \in Marks \cup {"plain"} : Record(mark)
      BY <1>17, <2>3 DEF Start
    <3>2. /\ FreeOK' /\ ProducerOK' /\ HeardOK'
          /\ free'.processing = free.processing /\ free'.consumer = free.consumer
          /\ free'.producer + Len(producer'.queue) + Ones(producer'.current # None)
               = free.producer + Len(producer.queue) + Ones(producer.current # None)
          /\ producer'.on = TRUE
          /\ process' = [process EXCEPT !.pending = TRUE]
      BY <3>1, RecordFacts
    <3>3. ProcessingTally' = ProcessingTally /\ ConsumerTally' = ConsumerTally
      BY <1>4, <2>1, <3>2 DEF ProcessingTally, ConsumerTally
    <3>4. ProducerTally' = ProducerTally
      BY <1>4, <3>2 DEF ProducerTally
    <3>5. Known'
      BY <1>2, <1>3, <1>4, <2>1, <3>2 DEF Known
    <3> QED
      BY <1>4, <2>1, <2>2, <3>2, <3>3, <3>4, <3>5, KeptOK, FlowAgain
  <2>4. CASE ~cfg.producerDelayed
    <3>1. UNCHANGED <<free, producer, process, heard>>
      BY <1>17, <2>4 DEF Start
    <3>2. /\ ProducerTally' = ProducerTally /\ ProcessingTally' = ProcessingTally
          /\ ConsumerTally' = ConsumerTally
      BY <2>1, <3>1 DEF ProducerTally, ProcessingTally, ConsumerTally
    <3>3. Known'
      BY <1>2, <1>3, <2>1, <2>4, <3>1 DEF Known
    <3> QED
      BY <2>1, <2>2, <3>1, <3>2, <3>3, KeptOK, FlowAgain
  <2> QED
    BY <1>1, <2>3, <2>4
<1>18. ASSUME StopConsumer PROVE Flow'
  <2>1. /\ app.at = "run" /\ app' = [app EXCEPT !.at = "stopping"]
        /\ producer' = [producer EXCEPT !.on = cfg.producerDelayed /\ @]
        /\ consumer' = [consumer EXCEPT !.playing = FALSE]
        /\ UNCHANGED <<cfg, free, process, buffered, wireless, heard>>
    BY <1>18 DEF StopConsumer
  <2>2. AppOK'
    BY <1>1, <2>1 DEF AppOK
  <2>3. /\ ProducerOK' /\ producer'.queue = producer.queue
        /\ producer'.current = producer.current
        /\ cfg.producerDelayed => producer'.on = producer.on
    BY <1>1, <2>1 DEF ProducerOK
  <2>4. /\ ConsumerOK' /\ consumer'.queue = consumer.queue
        /\ consumer'.current = consumer.current
    BY <1>1, <1>2, <2>1 DEF ConsumerOK
  <2>5. /\ ProducerTally' = ProducerTally /\ ProcessingTally' = ProcessingTally
        /\ ConsumerTally' = ConsumerTally
    BY <2>1, <2>3, <2>4 DEF ProducerTally, ProcessingTally, ConsumerTally
  <2>6. Known'
    BY <1>2, <1>3, <2>1, <2>3, <2>4 DEF Known
  <2> QED
    BY <2>1, <2>2, <2>3, <2>4, <2>5, <2>6, KeptOK, FlowAgain
<1>19. ASSUME StopProducer PROVE Flow'
  <2>1. /\ app' = [app EXCEPT !.at = "free"] /\ producer' = [producer EXCEPT !.on = FALSE]
        /\ UNCHANGED <<cfg, free, process, consumer, buffered, wireless, heard>>
    BY <1>19 DEF StopProducer
  <2>2. AppOK' /\ app'.at = "free"
    BY <1>1, <2>1 DEF AppOK
  <2>3. /\ ProducerOK' /\ producer'.queue = producer.queue
        /\ producer'.current = producer.current
    BY <1>1, <2>1 DEF ProducerOK
  <2>4. /\ ProducerTally' = ProducerTally /\ ProcessingTally' = ProcessingTally
        /\ ConsumerTally' = ConsumerTally
    BY <2>1, <2>3 DEF ProducerTally, ProcessingTally, ConsumerTally
  <2>5. Known'
    BY <1>2, <1>3, <2>1, <2>2 DEF Known
  <2> QED
    BY <2>1, <2>2, <2>3, <2>4, <2>5, KeptOK, FlowAgain
<1>20. ASSUME FreeCurrent PROVE Flow'
  <2>1. /\ app' = [app EXCEPT !.at = "stopped"]
        /\ producer' = [producer EXCEPT !.current = None]
        /\ free' = IF producer.current = None THEN free ELSE [free EXCEPT !.producer = @ + 1]
        /\ UNCHANGED <<cfg, process, consumer, buffered, wireless, heard>>
    BY <1>20 DEF FreeCurrent
  <2>2. AppOK' /\ app'.at = "stopped"
    BY <1>1, <2>1 DEF AppOK
  <2>3. ProducerOK' /\ producer'.queue = producer.queue /\ producer'.current = None
    BY <1>1, <2>1 DEF ProducerOK
  <2>4. /\ FreeOK' /\ free'.processing = free.processing /\ free'.consumer = free.consumer
        /\ free'.producer = free.producer + Ones(producer.current # None)
    BY <1>1, <2>1 DEF FreeOK, Ones
  <2>5. ProducerTally' = ProducerTally
    <3>1. Ones(producer.current # None) \in Nat /\ Ones(producer'.current # None) = 0
      BY <2>3 DEF Ones
    <3>2. Ones(process.at = "copy") \in Nat /\ Ones(process'.at = "copy") = Ones(process.at = "copy")
      BY <2>1 DEF Ones
    <3> QED
      BY <1>2, <2>3, <2>4, <3>1, <3>2 DEF ProducerTally
  <2>6. ProcessingTally' = ProcessingTally /\ ConsumerTally' = ConsumerTally
    BY <2>1, <2>4 DEF ProcessingTally, ConsumerTally
  <2>7. Known'
    BY <1>2, <1>3, <2>1, <2>2 DEF Known
  <2> QED
    BY <2>1, <2>2, <2>3, <2>4, <2>5, <2>6, <2>7, KeptOK, FlowAgain
<1>21. ASSUME UNCHANGED vars PROVE Flow'
  <2>1. UNCHANGED <<cfg, free, producer, process, consumer, buffered, wireless, app, heard>>
    BY <1>21 DEF vars
  <2>2. /\ ProducerTally' = ProducerTally /\ ProcessingTally' = ProcessingTally
        /\ ConsumerTally' = ConsumerTally
    BY <2>1 DEF ProducerTally, ProcessingTally, ConsumerTally
  <2>3. Known'
    BY <1>2, <1>3, <2>1 DEF Known
  <2> QED
    BY <2>1, <2>2, <2>3, KeptOK, FlowAgain
<1> QED
  BY <1>11, <1>12, <1>13, <1>14, <1>15, <1>16, <1>17, <1>18, <1>19, <1>20, <1>21
  DEF Next, ProduceAny


\* samples_buffered_size has room for a full queue and one packet more.
LEMMA ModulusFacts ==
  ASSUME cfg \in Settings
  PROVE  /\ ConsumerCapacity * (ConsumerLimit + 1) \in Nat
         /\ SizeModulus > ConsumerCapacity * (ConsumerLimit + 1)
         /\ SizeModulus > 0
<1>1. SizeModulus > ConsumerCapacity * (cfg.queueSize + cfg.extra + 1)
  BY PipelineAssumption, Zenon
<1>2. /\ ConsumerCapacity \in Nat /\ SizeModulus \in Nat
      /\ ConsumerLimit \in Nat /\ cfg.queueSize \in Nat /\ cfg.extra \in Nat
  BY SizeFacts, SettingFacts
<1>3. ConsumerLimit + 1 = cfg.queueSize + cfg.extra + 1
  BY <1>2 DEF ConsumerLimit
<1>4. \A m, n \in Nat : m * n \in Nat
  OBVIOUS
<1>5. ConsumerCapacity * (ConsumerLimit + 1) \in Nat
  BY <1>2, <1>4
<1>6. SizeModulus > ConsumerCapacity * (ConsumerLimit + 1)
  BY <1>1, <1>3
<1> QED
  BY <1>2, <1>5, <1>6

LEMMA FlowInit ==
  ASSUME Init
  PROVE  Flow
<1>1. /\ cfg \in Settings /\ cfg.producerDelayed \in BOOLEAN /\ cfg.started \in BOOLEAN
      /\ ConsumerLimit \in Nat /\ ConsumerLimit >= 1
      /\ cfg.producerDelayed => cfg.started
  BY SettingFacts DEF Init
<1>2. /\ ProducerNodes \in Nat /\ ProcessingNodes \in Nat /\ ConsumerNodes \in Nat
      /\ ProducerSize \in Nat /\ WirelessSize \in Nat /\ SizeModulus \in Nat /\ SizeModulus > 0
  BY <1>1, NodeFacts, SizeFacts, ModulusFacts
<1>3. <<>> \in Seq(Packet) /\ Len(<<>>) = 0
  BY EmptySeq
<1>4. free = [producer |-> ProducerNodes, processing |-> ProcessingNodes, consumer |-> ConsumerNodes]
  BY DEF Init
<1>5. producer = [queue |-> <<>>, current |-> None, on |-> ~cfg.producerDelayed]
  BY DEF Init
<1>6. process = [at |-> "idle", packet |-> None, dropped |-> None, pending |-> FALSE,
                 met |-> FALSE, dry |-> FALSE]
  BY DEF Init
<1>7. consumer = [queue |-> <<>>, current |-> None, complete |-> FALSE, playing |-> FALSE]
  BY DEF Init
<1>8. app = [at |-> IF cfg.started THEN "set up" ELSE "run", threshold |-> 0]
  BY DEF Init
<1>9. FreeOK
  BY <1>2, <1>4 DEF FreeOK
<1>10. ProducerOK
  BY <1>1, <1>2, <1>3, <1>5 DEF ProducerOK
<1>11. ProcessOK
  BY <1>6 DEF ProcessOK, Places, Processed
<1>12. ConsumerOK
  BY <1>1, <1>3, <1>7 DEF ConsumerOK
<1>13. CountOK /\ WirelessOK
  <2>1. buffered = 0 /\ wireless = WirelessSize
    BY DEF Init
  <2> QED
    BY <1>2, <2>1 DEF CountOK, WirelessOK
<1>14. AppOK /\ HeardOK
  <2>1. heard = [given |-> {}, marks |-> {}]
    BY DEF Init
  <2>2. HeardOK
    BY <2>1 DEF HeardOK
  <2> DEFINE at == IF cfg.started THEN "set up" ELSE "run"
  <2>3. at \in {"set up", "run"} /\ app = [at |-> at, threshold |-> 0]
    BY <1>8
  <2> HIDE DEF at
  <2>4. at \in {"set up", "run", "stopping", "free", "stopped"}
    BY <2>3
  <2>5. 0 \in 0 .. 254
    BY Z3
  <2>6. AppOK
    BY <2>3, <2>4, <2>5 DEF AppOK
  <2> QED
    BY <2>2, <2>6
<1>15. NodesAccounted
  BY <1>2, <1>3, <1>4, <1>5, <1>6, <1>7 DEF NodesAccounted, At, Ones, Processed
<1>16. Known
  BY <1>1, <1>5, <1>6, <1>8 DEF Known
<1> QED
  BY <1>1, <1>9, <1>10, <1>11, <1>12, <1>13, <1>14, <1>15, <1>16 DEF Flow, Shape

LEMMA FlowInvariant == Spec => []Flow
BY FlowInit, FlowStep, PTL DEF Spec

\* Types, and the lengths of queues and pools, for every setting.
THEOREM PipelineTypeOK == Spec => []TypeOK
BY FlowInvariant, FlowTypes, PTL

\* No step loses a node of the three pools or frees one twice.
THEOREM PipelineNodes == Spec => []NodesAccounted
<1>1. Flow => NodesAccounted
  BY DEF Flow
<1> QED
  BY <1>1, FlowInvariant, PTL

\* The pools are large enough: the nodes two more than the producer's queue
\* holds, the two of the processing, and the one kept for the consumption.
LEMMA FlowSuffices ==
  ASSUME Flow
  PROVE  NodesSuffice
<1>1. /\ FreeOK /\ ProducerOK /\ ConsumerOK /\ NodesAccounted /\ Known
      /\ cfg.consumerDelayed \in BOOLEAN
  BY SettingFacts DEF Flow, Shape
<1>2. /\ free.producer \in Nat /\ free.processing \in Nat /\ free.consumer \in Nat
      /\ Len(producer.queue) \in Nat /\ Len(consumer.queue) \in Nat
      /\ producer.queue = <<>> <=> Len(producer.queue) = 0
      /\ Len(producer.queue) <= ProducerSize
      /\ ConsumerLimit \in Nat /\ ConsumerLimit >= 1
      /\ ProducerSize \in Nat /\ ProducerSize >= 1
  BY <1>1, QueueFacts, SettingFacts, SizeFacts DEF Flow, Shape, FreeOK, ProducerOK, ConsumerOK
<1>3. free.producer + Ones(producer.current # None /\ producer.queue # <<>>) > 0
  <2> DEFINE current == Ones(producer.current # None)
             copy == Ones(At("copy"))
  <2>1. /\ current \in {0, 1} /\ copy \in {0, 1}
        /\ current = 1 <=> producer.current # None
    BY DEF Ones
  <2>2. free.producer + Len(producer.queue) + current + copy = ProducerSize + 2
    BY <1>1 DEF NodesAccounted, ProducerNodes
  <2> HIDE DEF current, copy
  <2>3. Ones(producer.current # None /\ producer.queue # <<>>)
          = IF current = 1 /\ Len(producer.queue) # 0 THEN 1 ELSE 0
    BY <1>2, <2>1 DEF Ones
  <2> QED
    BY <1>2, <2>1, <2>2, <2>3
<1>4. cfg.producerDelayed /\ app.at \in {"run", "stopping"} => producer.on
  BY <1>1 DEF Known
<1>5. (At("copy") => free.processing > 0) /\ (At("samples") => free.processing > 0)
  <2>1. free.processing + Ones(process.at \in Processed \cup {"count", "finish", "error"}) = 2
    BY <1>1 DEF NodesAccounted, ProcessingNodes
  <2>2. Ones(process.at \in Processed \cup {"count", "finish", "error"}) \in {0, 1}
    BY DEF Ones
  <2> QED
    BY <1>2, <2>1, <2>2
<1>6. At("take") => free.consumer > 0
  <2> SUFFICES ASSUME At("take") PROVE free.consumer > 0
    OBVIOUS
  <2> DEFINE current == Ones(consumer.current # None)
             kept == IF cfg.consumerDelayed THEN 1 ELSE 0
  <2>1. Len(consumer.queue) < ConsumerLimit
    BY <1>1 DEF Known, At
  <2>2. /\ current \in {0, 1} /\ kept \in {0, 1} /\ current <= kept
    BY <1>1 DEF Ones, ConsumerOK
  <2>3. Ones(At("enqueue")) = 0 /\ Ones(process.dropped # None) = 0
    BY DEF Ones, At, Flow, Shape, ProcessOK
  <2>4. free.consumer + Len(consumer.queue) + current + 0 + 0 = ConsumerLimit + kept
    BY <1>1, <2>3 DEF NodesAccounted, ConsumerNodes
  <2> HIDE DEF current, kept
  <2> QED
    BY <1>2, <2>1, <2>2, <2>4
<1>7. cfg.prompt /\ ConsumerLimit > 1 => ~process.dry
  BY <1>1 DEF Known
<1> QED
  BY <1>3, <1>4, <1>5, <1>6, <1>7 DEF NodesSuffice

\* Whatever the sizes of the queues, the pools are large enough for them.
THEOREM PipelineNodesSuffice == Spec => []NodesSuffice
BY FlowInvariant, FlowSuffices, PTL

-----------------------------------------------------------------------------
(* Samples of a queue *)

\* Every packet of the queue fits a node of the consumer.
Fits(queue) == \A i \in DOMAIN queue : queue[i].size <= ConsumerCapacity

LEMMA SamplesOf ==
  ASSUME NEW queue \in Seq(Packet)
  PROVE  \A i, k : <<i, k>> \in Samples(queue) <=> i \in 1 .. Len(queue) /\ k \in 1 .. queue[i].size
<1>1. DOMAIN queue = 1 .. Len(queue)
  OBVIOUS
<1> QED
  BY <1>1 DEF Samples

LEMMA SamplesArePairs ==
  ASSUME NEW queue \in Seq(Packet), NEW x \in Samples(queue)
  PROVE  \E i \in 1 .. Len(queue) : \E k \in 1 .. queue[i].size : x = <<i, k>>
BY DEF Samples

LEMMA TotalBounded ==
  ASSUME NEW queue \in Seq(Packet), Fits(queue)
  PROVE  /\ IsFiniteSet(Samples(queue))
         /\ Total(queue) \in Nat
         /\ Total(queue) <= ConsumerCapacity * Len(queue)
<1> DEFINE n == Len(queue)
           Box == (1 .. n) \X (1 .. ConsumerCapacity)
<1>1. n \in Nat /\ ConsumerCapacity \in Nat
  BY PipelineAssumption
<1>2. Samples(queue) \subseteq Box
  <2> SUFFICES ASSUME NEW x \in Samples(queue) PROVE x \in Box
    OBVIOUS
  <2>1. PICK i \in 1 .. n : \E k \in 1 .. queue[i].size : x = <<i, k>>
    BY SamplesArePairs
  <2>2. queue[i] \in Packet /\ queue[i].size <= ConsumerCapacity /\ queue[i].size \in Nat
    BY PacketType DEF Fits
  <2> QED
    BY <1>1, <2>1, <2>2
<1>3. /\ IsFiniteSet(1 .. n) /\ Cardinality(1 .. n) = n
      /\ IsFiniteSet(1 .. ConsumerCapacity) /\ Cardinality(1 .. ConsumerCapacity) = ConsumerCapacity
  <2> HIDE DEF n
  <2>1. ASSUME NEW m \in Nat
        PROVE  IsFiniteSet(1 .. m) /\ Cardinality(1 .. m) = m
    <3>1. IsFiniteSet(1 .. m) /\ Cardinality(1 .. m) = IF 1 > m THEN 0 ELSE m - 1 + 1
      BY FS_Interval
    <3> QED
      BY <3>1
  <2> QED
    BY <1>1, <2>1
<1>4. IsFiniteSet(Box) /\ Cardinality(Box) = n * ConsumerCapacity
  <2>1. /\ IsFiniteSet(Box)
        /\ Cardinality(Box) = Cardinality(1 .. n) * Cardinality(1 .. ConsumerCapacity)
    BY <1>3, FS_Product, Zenon
  <2> HIDE DEF Box
  <2> QED
    BY <1>3, <2>1
<1>5. IsFiniteSet(Samples(queue)) /\ Cardinality(Samples(queue)) <= Cardinality(Box)
  BY <1>2, <1>4, FS_Subset
<1>6. Total(queue) \in Nat
  BY <1>5, FS_CardinalityType DEF Total
<1>7. n * ConsumerCapacity = ConsumerCapacity * n
  BY <1>1
<1> HIDE DEF Box
<1>8. Total(queue) <= ConsumerCapacity * Len(queue)
  BY <1>4, <1>5, <1>7 DEF Total
<1>9. IsFiniteSet(Samples(queue))
  BY <1>5
<1> QED
  BY <1>6, <1>8, <1>9, Zenon

\* The samples of one packet, at place i.
LEMMA OnePacket ==
  ASSUME NEW i, NEW size \in Nat
  PROVE  IsFiniteSet({i} \X (1 .. size)) /\ Cardinality({i} \X (1 .. size)) = size
<1>1. IsFiniteSet({i}) /\ Cardinality({i}) = 1
  BY FS_Singleton
<1>2. IsFiniteSet(1 .. size) /\ Cardinality(1 .. size) = size
  BY FS_Interval
<1>3. /\ IsFiniteSet({i} \X (1 .. size))
      /\ Cardinality({i} \X (1 .. size)) = Cardinality({i}) * Cardinality(1 .. size)
  BY <1>1, <1>2, FS_Product, Zenon
<1> QED
  BY <1>1, <1>2, <1>3

LEMMA TotalEmpty == Total(<<>>) = 0
<1>1. Samples(<<>>) = {}
  BY DEF Samples
<1> QED
  BY <1>1, FS_EmptySet DEF Total

LEMMA TotalAppend ==
  ASSUME NEW queue \in Seq(Packet), Fits(queue), NEW p \in Packet
  PROVE  Total(Append(queue, p)) = Total(queue) + p.size
<1> DEFINE longer == Append(queue, p)
           n == Len(queue)
           Last == {n + 1} \X (1 .. p.size)
<1>1. /\ longer \in Seq(Packet) /\ Len(longer) = n + 1 /\ n \in Nat
      /\ \A i \in 1 .. n : longer[i] = queue[i]
      /\ longer[n + 1] = p
  BY AppendProperties
<1>2. p.size \in Nat
  BY PacketType
<1> HIDE DEF longer
<1>3. Samples(longer) = Samples(queue) \cup Last
  <2>1. ASSUME NEW x \in Samples(longer) PROVE x \in Samples(queue) \cup Last
    <3>1. PICK i \in 1 .. n + 1 : \E k \in 1 .. longer[i].size : x = <<i, k>>
      BY <1>1, SamplesArePairs
    <3>2. PICK k \in 1 .. longer[i].size : x = <<i, k>>
      BY <3>1
    <3>3. CASE i = n + 1
      BY <1>1, <3>2, <3>3
    <3>4. CASE i # n + 1
      <4>1. i \in 1 .. n /\ k \in 1 .. queue[i].size
        BY <1>1, <3>4
      <4> QED
        BY <3>2, <4>1, SamplesOf
    <3> QED
      BY <3>3, <3>4
  <2>2. ASSUME NEW x \in Samples(queue) PROVE x \in Samples(longer)
    <3>1. PICK i \in 1 .. n : \E k \in 1 .. queue[i].size : x = <<i, k>>
      BY SamplesArePairs
    <3>2. PICK k \in 1 .. queue[i].size : x = <<i, k>>
      BY <3>1
    <3>3. i \in 1 .. Len(longer) /\ k \in 1 .. longer[i].size
      BY <1>1
    <3> QED
      BY <1>1, <3>2, <3>3, SamplesOf
  <2>3. ASSUME NEW x \in Last PROVE x \in Samples(longer)
    <3>1. PICK k \in 1 .. p.size : x = <<n + 1, k>>
      OBVIOUS
    <3>2. n + 1 \in 1 .. Len(longer) /\ k \in 1 .. longer[n + 1].size
      BY <1>1
    <3> QED
      BY <1>1, <3>1, <3>2, SamplesOf
  <2> QED
    BY <2>1, <2>2, <2>3
<1>4. Samples(queue) \cap Last = {}
  <2> SUFFICES ASSUME NEW x \in Samples(queue), x \in Last PROVE FALSE
    OBVIOUS
  <2>1. PICK i \in 1 .. n : \E k \in 1 .. queue[i].size : x = <<i, k>>
    BY SamplesArePairs
  <2> QED
    BY <1>1, <2>1
<1>5. IsFiniteSet(Samples(queue)) /\ Total(queue) \in Nat
  BY TotalBounded
<1>6. IsFiniteSet(Last) /\ Cardinality(Last) = p.size
  BY <1>2, OnePacket
<1> HIDE DEF Last
<1>7. Cardinality(Samples(queue) \cup Last)
        = Cardinality(Samples(queue)) + Cardinality(Last) - Cardinality(Samples(queue) \cap Last)
  BY <1>5, <1>6, FS_Union
<1>8. Cardinality(Samples(queue) \cap Last) = 0
  BY <1>4, FS_EmptySet
<1> QED
  BY <1>2, <1>3, <1>5, <1>6, <1>7, <1>8 DEF Total, longer

LEMMA TotalTail ==
  ASSUME NEW queue \in Seq(Packet), queue # <<>>, Fits(queue)
  PROVE  /\ Total(queue) = Total(Tail(queue)) + Head(queue).size
         /\ Fits(Tail(queue)) /\ Head(queue).size <= ConsumerCapacity
<1> DEFINE rest == Tail(queue)
           n == Len(rest)
           First == {1} \X (1 .. Head(queue).size)
           Moved == Samples(queue) \ First
           shift == [x \in Samples(rest) |-> <<x[1] + 1, x[2]>>]
<1>1. /\ rest \in Seq(Packet) /\ Len(queue) = n + 1 /\ n \in Nat
      /\ \A i \in 1 .. n : rest[i] = queue[i + 1]
      /\ queue[1] = Head(queue) /\ Head(queue) \in Packet
  BY HeadTailProperties
<1>2. Head(queue).size \in Nat
  BY <1>1, PacketType
<1>3. Fits(rest) /\ Head(queue).size <= ConsumerCapacity
  <2>1. DOMAIN rest = 1 .. n /\ DOMAIN queue = 1 .. n + 1
    BY <1>1
  <2> QED
    BY <1>1, <2>1 DEF Fits
<1> HIDE DEF rest
<1>4. /\ IsFiniteSet(Samples(queue)) /\ Total(queue) \in Nat
      /\ IsFiniteSet(Samples(rest)) /\ Total(rest) \in Nat
  BY <1>1, <1>3, TotalBounded
<1>5. First \subseteq Samples(queue)
  <2> SUFFICES ASSUME NEW k \in 1 .. Head(queue).size PROVE <<1, k>> \in Samples(queue)
    OBVIOUS
  <2>1. 1 \in 1 .. Len(queue) /\ k \in 1 .. queue[1].size
    BY <1>1
  <2> QED
    BY <2>1, SamplesOf
<1>6. shift \in Bijection(Samples(rest), Moved)
  <2>1. ASSUME NEW x \in Samples(rest)
        PROVE  shift[x] \in Moved
    <3>1. PICK i \in 1 .. n : \E k \in 1 .. rest[i].size : x = <<i, k>>
      BY <1>1, SamplesArePairs
    <3>2. PICK k \in 1 .. rest[i].size : x = <<i, k>>
      BY <3>1
    <3>3. shift[x] = <<i + 1, k>>
      BY <3>2
    <3>4. i + 1 \in 1 .. Len(queue) /\ k \in 1 .. queue[i + 1].size
      BY <1>1
    <3>5. <<i + 1, k>> \in Samples(queue)
      BY <3>4, SamplesOf
    <3>6. <<i + 1, k>> \notin First
      OBVIOUS
    <3> QED
      BY <3>3, <3>5, <3>6
  <2>2. ASSUME NEW x \in Samples(rest), NEW y \in Samples(rest), shift[x] = shift[y]
        PROVE  x = y
    <3>1. PICK i \in 1 .. n, k \in Nat : x = <<i, k>>
      <4>1. PICK i \in 1 .. n : \E k \in 1 .. rest[i].size : x = <<i, k>>
        BY <1>1, SamplesArePairs
      <4> QED
        BY <4>1
    <3>2. PICK j \in 1 .. n, l \in Nat : y = <<j, l>>
      <4>1. PICK j \in 1 .. n : \E m \in 1 .. rest[j].size : y = <<j, m>>
        BY <1>1, SamplesArePairs
      <4> QED
        BY <4>1
    <3>3. shift[x] = <<i + 1, k>> /\ shift[y] = <<j + 1, l>>
      BY <3>1, <3>2
    <3> QED
      BY <2>2, <3>1, <3>2, <3>3
  <2>3. ASSUME NEW y \in Moved
        PROVE  \E x \in Samples(rest) : shift[x] = y
    <3>1. PICK i \in 1 .. n + 1 : \E k \in 1 .. queue[i].size : y = <<i, k>>
      BY <1>1, SamplesArePairs
    <3>2. PICK k \in 1 .. queue[i].size : y = <<i, k>>
      BY <3>1
    <3>3. i # 1
      BY <1>1, <3>2
    <3>4. i - 1 \in 1 .. n /\ k \in 1 .. rest[i - 1].size
      <4>1. i - 1 \in 1 .. n
        BY <1>1, <3>3
      <4>2. rest[i - 1] = queue[(i - 1) + 1] /\ (i - 1) + 1 = i
        BY <1>1, <4>1
      <4> QED
        BY <4>1, <4>2
    <3>5. <<i - 1, k>> \in Samples(rest)
      BY <1>1, <3>4, SamplesOf
    <3>6. shift[<<i - 1, k>>] = <<(i - 1) + 1, k>>
      BY <3>5
    <3> QED
      BY <1>1, <3>2, <3>5, <3>6
  <2>4. shift \in Injection(Samples(rest), Moved)
    BY <2>1, <2>2 DEF Injection, IsInjective
  <2>5. shift \in Surjection(Samples(rest), Moved)
    BY <2>1, <2>3 DEF Surjection
  <2> QED
    BY <2>4, <2>5 DEF Bijection
<1>7. IsFiniteSet(Moved) /\ Cardinality(Moved) = Cardinality(Samples(rest))
  <2>1. ExistsBijection(Samples(rest), Moved)
    BY <1>6 DEF ExistsBijection
  <2> QED
    BY <1>4, <2>1, FS_Bijection
<1>8. Cardinality(Moved) = Cardinality(Samples(queue)) - Cardinality(Samples(queue) \cap First)
  BY <1>4, FS_Difference
<1>9. Samples(queue) \cap First = First /\ Cardinality(First) = Head(queue).size
  BY <1>2, <1>5, OnePacket
<1>10. Total(queue) = Total(rest) + Head(queue).size
  <2>1. Cardinality(Samples(queue) \cap First) = Head(queue).size
    BY <1>9
  <2>2. Cardinality(Moved) = Total(rest) /\ Cardinality(Moved) = Total(queue) - Cardinality(Samples(queue) \cap First)
    BY <1>7, <1>8 DEF Total
  <2> HIDE DEF First, Moved
  <2> QED
    BY <1>2, <1>4, <2>1, <2>2
<1> QED
  BY <1>3, <1>10 DEF rest

-----------------------------------------------------------------------------
(* The count of samples *)

\* What is queued and not counted yet, and what is to be played.
Uncounted == IF process.at = "count" THEN process.packet.size ELSE 0
Held == Total(consumer.queue) + process.dropped.size

\* The count is what is held less what is not counted yet, by cases rather
\* than by a remainder.
Counting ==
  /\ Fits(consumer.queue)
  /\ process.dropped.size <= ConsumerCapacity
  /\ process.at \in {"enqueue", "count"} => process.packet.size <= ConsumerCapacity
  /\ ~process.dry =>
       buffered = IF Uncounted <= Held THEN Held - Uncounted ELSE Held - Uncounted + SizeModulus

LEMMA Remainders ==
  ASSUME NEW m \in Nat, m > 0, NEW x \in Int
  PROVE  /\ 0 <= x /\ x < m => x % m = x
         /\ m <= x /\ x < 2 * m => x % m = x - m
OBVIOUS

LEMMA Products ==
  ASSUME NEW c \in Nat, NEW n \in Nat, NEW limit \in Nat
  PROVE  /\ c * n \in Nat
         /\ n <= limit => c * n <= c * limit
         /\ c * (n + 1) = c * n + c
OBVIOUS

LEMMA PacketSizes ==
  /\ None.size = 0
  /\ \A p \in Packet \cup {None} : p.size \in Nat
BY PacketType DEF None

LEMMA CountingBounds ==
  ASSUME Flow, Counting
  PROVE  /\ consumer.queue \in Seq(Packet) /\ Fits(consumer.queue)
         /\ Total(consumer.queue) \in Nat /\ process.dropped.size \in Nat
         /\ Uncounted \in Nat /\ Uncounted <= ConsumerCapacity
         /\ Held \in Nat /\ Held < SizeModulus
         /\ ConsumerCapacity \in Nat /\ ConsumerCapacity < SizeModulus
         /\ SizeModulus \in Nat /\ buffered \in 0 .. SizeModulus - 1
<1>1. /\ cfg \in Settings /\ ConsumerOK /\ ProcessOK /\ CountOK
  BY DEF Flow, Shape
<1>2. /\ consumer.queue \in Seq(Packet) /\ Fits(consumer.queue)
      /\ Len(consumer.queue) \in Nat /\ Len(consumer.queue) <= ConsumerLimit
  BY <1>1, QueueFacts DEF ConsumerOK, Counting
<1>3. /\ ConsumerCapacity \in Nat /\ SizeModulus \in Nat
      /\ ConsumerLimit \in Nat /\ ConsumerLimit >= 1
  BY <1>1, SizeFacts, SettingFacts
<1>4. /\ Total(consumer.queue) \in Nat
      /\ Total(consumer.queue) <= ConsumerCapacity * Len(consumer.queue)
  BY <1>2, TotalBounded
<1>5. process.dropped.size \in Nat /\ process.dropped.size <= ConsumerCapacity
  BY <1>1, PacketSizes DEF ProcessOK, Counting
<1>6. Uncounted \in Nat /\ Uncounted <= ConsumerCapacity
  BY <1>1, <1>3, PacketSizes DEF Uncounted, ProcessOK, Counting
<1>7. /\ ConsumerCapacity * Len(consumer.queue) \in Nat
      /\ ConsumerCapacity * Len(consumer.queue) <= ConsumerCapacity * ConsumerLimit
      /\ ConsumerCapacity * ConsumerLimit \in Nat
      /\ ConsumerCapacity * (ConsumerLimit + 1) = ConsumerCapacity * ConsumerLimit + ConsumerCapacity
  BY <1>2, <1>3, Products
<1>8. SizeModulus > ConsumerCapacity * (ConsumerLimit + 1)
  BY <1>1, ModulusFacts
<1>9. Held \in Nat /\ Held < SizeModulus /\ ConsumerCapacity < SizeModulus
  <2> DEFINE full == ConsumerCapacity * ConsumerLimit
             part == ConsumerCapacity * Len(consumer.queue)
  <2>1. /\ full \in Nat /\ part \in Nat /\ part <= full
        /\ SizeModulus > full + ConsumerCapacity
        /\ Total(consumer.queue) <= part
    BY <1>4, <1>7, <1>8
  <2> HIDE DEF full, part
  <2> QED
    BY <1>3, <1>4, <1>5, <2>1 DEF Held
<1> QED
  BY <1>1, <1>2, <1>3, <1>4, <1>5, <1>6, <1>9 DEF CountOK

\* A step that changes none of what is counted.
LEMMA NotCounted ==
  ASSUME Flow, Counting, buffered' = buffered, consumer'.queue = consumer.queue,
         process'.dropped = process.dropped, Uncounted' = Uncounted,
         process.dry => process'.dry,
         process'.at \in {"enqueue", "count"} => process'.packet.size <= ConsumerCapacity
  PROVE  Counting'
<1>1. Held' = Held /\ (Fits(consumer.queue) => Fits(consumer.queue)')
  BY DEF Held, Total, Samples, Fits
<1> QED
  BY <1>1 DEF Counting

\* One packet less, and the count less by its size.
LEMMA CountedLess ==
  ASSUME Flow, Counting, NEW size \in Nat, size <= Held, ~process.dry,
         buffered' = Less(size), Held' = Held - size, Uncounted' = Uncounted
  PROVE  buffered' = IF Uncounted' <= Held' THEN Held' - Uncounted'
                     ELSE Held' - Uncounted' + SizeModulus
<1>1. /\ Uncounted \in Nat /\ Uncounted <= ConsumerCapacity
      /\ Held \in Nat /\ Held < SizeModulus
      /\ ConsumerCapacity \in Nat /\ ConsumerCapacity < SizeModulus
      /\ SizeModulus \in Nat
  BY CountingBounds
<1>2. buffered = IF Uncounted <= Held THEN Held - Uncounted ELSE Held - Uncounted + SizeModulus
  BY DEF Counting
<1> DEFINE count == buffered + SizeModulus - size
<1>3. count \in Int /\ 0 <= count /\ count < 2 * SizeModulus
  BY <1>1, <1>2
<1>4. buffered' = count % SizeModulus
  BY DEF Less, Counted
<1>5. CASE count < SizeModulus
  BY <1>1, <1>2, <1>3, <1>4, <1>5, Remainders
<1>6. CASE SizeModulus <= count
  BY <1>1, <1>2, <1>3, <1>4, <1>6, Remainders
<1> QED
  BY <1>1, <1>3, <1>5, <1>6

\* The consumer takes the oldest packet of its queue.
LEMMA CountedTaken ==
  ASSUME Flow, Counting, consumer.queue # <<>>, consumer'.queue = Tail(consumer.queue),
         buffered' = Less(Head(consumer.queue).size),
         process'.dropped = process.dropped, Uncounted' = Uncounted, process'.dry = process.dry,
         process'.at \in {"enqueue", "count"} => process'.packet.size <= ConsumerCapacity
  PROVE  Counting'
<1>1. /\ consumer.queue \in Seq(Packet) /\ Fits(consumer.queue)
      /\ Total(consumer.queue) \in Nat /\ process.dropped.size \in Nat
  BY CountingBounds
<1> DEFINE size == Head(consumer.queue).size
<1>2. /\ Head(consumer.queue) \in Packet /\ Tail(consumer.queue) \in Seq(Packet)
      /\ size \in Nat
  BY <1>1, QueueFacts, PacketType
<1>3. /\ Total(consumer.queue) = Total(Tail(consumer.queue)) + size
      /\ Fits(Tail(consumer.queue))
  BY <1>1, TotalTail
<1>4. Total(Tail(consumer.queue)) \in Nat
  BY <1>2, <1>3, TotalBounded
<1> HIDE DEF size
<1>5. Fits(consumer.queue)' /\ Total(consumer.queue)' = Total(Tail(consumer.queue))
  BY <1>3 DEF Fits, Total, Samples
<1>6. size <= Held /\ Held' = Held - size
  BY <1>1, <1>2, <1>3, <1>4, <1>5 DEF Held
<1>7. ~process.dry => buffered' = IF Uncounted' <= Held' THEN Held' - Uncounted'
                                  ELSE Held' - Uncounted' + SizeModulus
  BY <1>2, <1>6, CountedLess DEF size
<1> QED
  BY <1>5, <1>7 DEF Counting

LEMMA ConsumeDelayCounted ==
  ASSUME Flow, Counting, ConsumeDelay, process'.dry = process.dry,
         process'.dropped = process.dropped, Uncounted' = Uncounted,
         process'.at \in {"enqueue", "count"} => process'.packet.size <= ConsumerCapacity
  PROVE  Counting'
<1>1. ConsumerOK
  BY DEF Flow, Shape
<1>2. CASE consumer.complete /\ consumer.queue # <<>>
  <2>1. /\ consumer' = [consumer EXCEPT !.queue = Tail(@), !.current = Head(consumer.queue),
                                        !.playing = TRUE]
        /\ buffered' = Less(Head(consumer.queue).size)
    BY <1>2 DEF ConsumeDelay
  <2>2. consumer'.queue = Tail(consumer.queue)
    BY <1>1, <2>1 DEF ConsumerOK
  <2> QED
    BY <1>2, <2>1, <2>2, CountedTaken
<1>3. CASE ~(consumer.complete /\ consumer.queue # <<>>)
  <2>1. buffered' = buffered
    BY <1>3 DEF ConsumeDelay
  <2>2. consumer'.queue = consumer.queue
    BY <1>1, <1>3 DEF ConsumeDelay, ConsumerOK
  <2> QED
    BY <2>1, <2>2, NotCounted
<1> QED
  BY <1>2, <1>3

LEMMA CountingStep ==
  ASSUME Flow, Counting, [Next]_vars
  PROVE  Counting'
<1>1. /\ ProcessOK /\ ConsumerOK /\ Known /\ consumer.queue \in Seq(Packet)
      /\ process \in [at : Places, packet : Packet \cup {None}, dropped : Packet \cup {None},
                      pending : BOOLEAN, met : BOOLEAN, dry : BOOLEAN]
  BY DEF Flow, Shape, ProcessOK, ConsumerOK
<1>2. process.at \in {"enqueue", "count"} => process.packet.size <= ConsumerCapacity
  BY DEF Counting
\* Steps that leave the processing where it is.
<1>3. ASSUME process' = [process EXCEPT !.pending = TRUE] \/ process' = process,
             buffered' = buffered, consumer'.queue = consumer.queue
      PROVE  Counting'
  <2>1. /\ process'.at = process.at /\ process'.packet = process.packet
        /\ process'.dropped = process.dropped /\ process'.dry = process.dry
    BY <1>1, <1>3
  <2>2. Uncounted' = Uncounted
    BY <2>1 DEF Uncounted
  <2> QED
    BY <1>2, <1>3, <2>1, <2>2, NotCounted
\* Steps of the processing that neither come to nor leave a counted place.
<1>4. ASSUME buffered' = buffered, consumer' = consumer,
             process'.dropped = process.dropped, process.dry => process'.dry,
             process.at # "count", process'.at \notin {"enqueue", "count"}
      PROVE  Counting'
  <2>1. Uncounted' = Uncounted
    BY <1>4 DEF Uncounted
  <2> QED
    BY <1>4, <2>1, NotCounted
<1>11. ASSUME NEW mark \in Marks \cup {"plain"}, NEW samples \in BOOLEAN, Produce(mark, samples)
       PROVE  Counting'
  BY <1>3, <1>11 DEF Produce, Record, Receive
<1>12. ASSUME Played PROVE Counting'
  <2>1. ConsumeDelay /\ process' = [process EXCEPT !.met = process.at # "idle"]
    BY <1>12 DEF Played
  <2>2. /\ process'.at = process.at /\ process'.packet = process.packet
        /\ process'.dropped = process.dropped /\ process'.dry = process.dry
    BY <1>1, <2>1
  <2>3. Uncounted' = Uncounted
    BY <2>2 DEF Uncounted
  <2> QED
    BY <1>2, <2>1, <2>2, <2>3, ConsumeDelayCounted
<1>13. ASSUME FrameSent PROVE Counting'
  BY <1>3, <1>13 DEF FrameSent
<1>14. ASSUME Tick PROVE Counting'
  BY <1>3, <1>14 DEF Tick
<1>15. ASSUME Trigger PROVE Counting'
  <2> DEFINE at == IF ~cfg.consumerDelayed /\ producer.queue = <<>> THEN "consume" ELSE "buffering"
  <2>1. /\ process.at = "idle" /\ at \in {"consume", "buffering"}
        /\ process' = [process EXCEPT !.at = at, !.pending = FALSE, !.met = FALSE]
        /\ buffered' = buffered /\ consumer' = consumer
    BY <1>15 DEF Trigger, At
  <2> HIDE DEF at
  <2>2. /\ process'.at = at /\ process'.dropped = process.dropped
        /\ process'.dry = process.dry
    BY <1>1, <2>1
  <2> QED
    BY <1>4, <2>1, <2>2
<1>16. ASSUME CheckBuffering PROVE Counting'
  <2>1. /\ process.at = "buffering" /\ buffered' = buffered
        /\ \/ process' = [process EXCEPT !.at = "start"]
           \/ process' = [process EXCEPT !.at = "dequeue"]
    BY <1>16 DEF CheckBuffering, At, Go
  <2>2. consumer'.queue = consumer.queue
    BY <1>1, <1>16 DEF CheckBuffering, ConsumerOK
  <2>3. /\ process'.at \in {"start", "dequeue"} /\ process'.dropped = process.dropped
        /\ process'.dry = process.dry
    BY <1>1, <2>1
  <2>4. Uncounted' = Uncounted
    BY <2>1, <2>3 DEF Uncounted
  <2> QED
    BY <2>1, <2>2, <2>3, <2>4, NotCounted
<1>17. ASSUME StartConsumer PROVE Counting'
  <2>1. /\ process.at = "start" /\ process' = [process EXCEPT !.at = "dequeue"]
        /\ \/ ConsumeDelay
           \/ UNCHANGED <<consumer, buffered>>
    BY <1>17 DEF StartConsumer, At, Go
  <2>2. /\ process'.at = "dequeue" /\ process'.dropped = process.dropped
        /\ process'.dry = process.dry
    BY <1>1, <2>1
  <2>3. Uncounted' = Uncounted
    BY <2>1, <2>2 DEF Uncounted
  <2> QED
    BY <1>4, <2>1, <2>2, <2>3, ConsumeDelayCounted
<1>18. ASSUME DequeueProducer PROVE Counting'
  <2>1. /\ process.at = "dequeue" /\ UNCHANGED <<consumer, buffered>>
        /\ \/ process' = [process EXCEPT !.at = After]
           \/ process' = [process EXCEPT !.at = "copy", !.packet = Head(producer.queue)]
    BY <1>18 DEF DequeueProducer, At, Go
  <2>2. After \in {"idle", "consume"}
    BY DEF After
  <2>3. /\ process'.at \in {"idle", "consume", "copy"} /\ process'.dropped = process.dropped
        /\ process'.dry = process.dry
    BY <1>1, <2>1, <2>2
  <2> QED
    BY <1>4, <2>1, <2>3
<1>19. ASSUME CopyInput \/ ProcessFails \/ FreeOutput PROVE Counting'
  <2>1. /\ process.at \in {"copy", "samples", "finish", "error"} /\ UNCHANGED <<consumer, buffered>>
        /\ \/ \E place \in {After, "halted"} :
                process' = [process EXCEPT !.at = place, !.packet = None]
           \/ process' = [process EXCEPT !.at = "samples"]
    BY <1>19 DEF CopyInput, ProcessFails, FailsTo, FreeOutput, At, Go
  <2>2. After \in {"idle", "consume"}
    BY DEF After
  <2>3. /\ process'.at \in {"idle", "consume", "halted", "samples"} /\ process'.dropped = process.dropped
        /\ process'.dry = process.dry
    BY <1>1, <2>1, <2>2
  <2> QED
    BY <1>4, <2>1, <2>3
<1>20. ASSUME NEW size \in Sizes, ProcessSamples(size) PROVE Counting'
  <2>1. /\ process.at = "samples" /\ UNCHANGED <<consumer, buffered>>
        /\ process' = [process EXCEPT !.at = "full", !.packet.size = size]
    BY <1>20 DEF ProcessSamples, At
  <2>2. /\ process'.at = "full" /\ process'.dropped = process.dropped
        /\ process'.dry = process.dry
    BY <1>1, <2>1
  <2> QED
    BY <1>4, <2>1, <2>2
<1>21. ASSUME CheckFull \/ CheckPool PROVE Counting'
  <2>1. /\ process.at \in {"full", "pool"} /\ UNCHANGED <<consumer, buffered>>
        /\ \E at \in {"pool", "take", "drop"} : process' = [process EXCEPT !.at = at]
    BY <1>21 DEF CheckFull, CheckPool, At, Go
  <2>2. /\ process'.at \in {"pool", "take", "drop"} /\ process'.dropped = process.dropped
        /\ process'.dry = process.dry
    BY <1>1, <2>1
  <2> QED
    BY <1>4, <2>1, <2>2
<1>22. ASSUME DropOldest PROVE Counting'
  <2>1. process.at = "drop" /\ buffered' = buffered
    BY <1>22 DEF DropOldest, At
  <2>2. CASE consumer.queue = <<>>
    <3>1. process' = [process EXCEPT !.at = "dropped", !.dry = TRUE] /\ consumer' = consumer
      BY <1>22, <2>2 DEF DropOldest
    <3>2. /\ process'.at = "dropped" /\ process'.dropped = process.dropped
          /\ process'.dry = TRUE
      BY <1>1, <3>1
    <3> QED
      BY <1>4, <2>1, <3>1, <3>2
  <2>3. CASE consumer.queue # <<>>
    <3> DEFINE packet == Head(consumer.queue)
    <3>1. /\ process' = [process EXCEPT !.at = "dropped", !.dropped = packet]
          /\ consumer' = [consumer EXCEPT !.queue = Tail(@)]
      BY <1>22, <2>3 DEF DropOldest
    <3>2. /\ packet \in Packet /\ Tail(consumer.queue) \in Seq(Packet)
          /\ packet.size \in Nat
      BY <1>1, <2>3, QueueFacts, PacketType
    <3>3. /\ Total(consumer.queue) = Total(Tail(consumer.queue)) + packet.size
          /\ Fits(Tail(consumer.queue)) /\ packet.size <= ConsumerCapacity
      BY <1>1, <2>3, TotalTail DEF Counting
    <3>4. Total(Tail(consumer.queue)) \in Nat
      BY <3>2, <3>3, TotalBounded
    <3>5. process.dropped = None /\ process.dropped.size = 0
      BY <1>1, <2>1, PacketSizes DEF ProcessOK
    <3> HIDE DEF packet
    <3>6. /\ process'.at = "dropped" /\ process'.dropped = packet
          /\ process'.dry = process.dry /\ consumer'.queue = Tail(consumer.queue)
      BY <1>1, <3>1 DEF ConsumerOK
    <3>7. Fits(consumer.queue)' /\ Total(consumer.queue)' = Total(Tail(consumer.queue))
      BY <3>3, <3>6 DEF Fits, Total, Samples
    <3>8. Held' = Held
      BY <3>2, <3>3, <3>4, <3>5, <3>6, <3>7 DEF Held
    <3>9. Uncounted' = Uncounted
      BY <2>1, <3>6 DEF Uncounted
    <3> QED
      BY <2>1, <3>3, <3>6, <3>7, <3>8, <3>9 DEF Counting
  <2> QED
    BY <2>2, <2>3
<1>23. ASSUME Dropped PROVE Counting'
  <2>1. /\ process.at = "dropped" /\ consumer' = consumer
        /\ process' = [process EXCEPT !.at = "take", !.dropped = None]
    BY <1>23 DEF Dropped, At
  <2>2. /\ process'.at = "take" /\ process'.dropped = None /\ process'.dry = process.dry
    BY <1>1, <2>1
  <2>3. Uncounted' = Uncounted
    BY <2>1, <2>2 DEF Uncounted
  <2>4. CASE process.dropped = None
    <3>1. buffered' = buffered
      BY <1>23, <2>4 DEF Dropped
    <3> QED
      BY <2>1, <2>2, <2>3, <2>4, <3>1, NotCounted
  <2>5. CASE process.dropped # None
    <3> DEFINE size == process.dropped.size
    <3>1. buffered' = Less(size)
      BY <1>23, <2>5 DEF Dropped
    <3>2. Total(consumer.queue) \in Nat /\ size \in Nat
      BY CountingBounds
    <3>3. Fits(consumer.queue)' /\ Total(consumer.queue)' = Total(consumer.queue)
      BY <2>1 DEF Fits, Total, Samples, Counting
    <3>4. None.size = 0
      BY PacketSizes
    <3> HIDE DEF size
    <3>5. size <= Held /\ Held' = Held - size
      BY <2>2, <3>2, <3>3, <3>4 DEF Held, size
    <3>6. ~process.dry => buffered' = IF Uncounted' <= Held' THEN Held' - Uncounted'
                                      ELSE Held' - Uncounted' + SizeModulus
      BY <2>3, <3>1, <3>2, <3>5, CountedLess
    <3>7. None.size <= ConsumerCapacity
      BY <3>4, SizeFacts
    <3> QED
      BY <2>2, <3>3, <3>6, <3>7 DEF Counting
  <2> QED
    BY <2>4, <2>5
<1>24. ASSUME TakeNode PROVE Counting'
  <2>1. /\ process.at = "take" /\ UNCHANGED <<consumer, buffered>>
        /\ \/ /\ process' = [process EXCEPT !.at = "enqueue"]
              /\ process.packet.size <= ConsumerCapacity
           \/ process' = [process EXCEPT !.at = "error"]
    BY <1>24 DEF TakeNode, At, Go
  <2>2. /\ process'.dropped = process.dropped /\ process'.dry = process.dry
        /\ process'.packet = process.packet
        /\ \/ process'.at = "enqueue" /\ process.packet.size <= ConsumerCapacity
           \/ process'.at = "error"
    BY <1>1, <2>1
  <2>3. Uncounted' = Uncounted
    BY <2>1, <2>2 DEF Uncounted
  <2> QED
    BY <2>1, <2>2, <2>3, NotCounted
<1>25. ASSUME EnqueueConsumer PROVE Counting'
  <2> DEFINE packet == process.packet
  <2>1. process.at = "enqueue"
    BY <1>25 DEF EnqueueConsumer, At
  <2>2. Len(consumer.queue) < ConsumerLimit
    BY <1>1, <2>1 DEF Known
  <2>3. /\ process' = [process EXCEPT !.at = "count"]
        /\ consumer' = [consumer EXCEPT !.queue = Append(consumer.queue, packet)]
        /\ buffered' = buffered
    BY <1>25, <2>2 DEF EnqueueConsumer, Go
  <2>4. /\ packet \in Packet /\ packet.size \in Nat /\ packet.size <= ConsumerCapacity
    BY <1>1, <2>1, PacketType DEF ProcessOK, Processed, Counting
  <2>5. /\ Fits(consumer.queue) /\ Total(consumer.queue) \in Nat
        /\ process.dropped.size \in Nat
    BY CountingBounds
  <2>6. Total(Append(consumer.queue, packet)) = Total(consumer.queue) + packet.size
    BY <1>1, <2>4, <2>5, TotalAppend
  <2>7. Fits(Append(consumer.queue, packet))
    <3> SUFFICES ASSUME NEW i \in DOMAIN Append(consumer.queue, packet)
                 PROVE  Append(consumer.queue, packet)[i].size <= ConsumerCapacity
      BY DEF Fits
    <3>1. i \in 1 .. Len(consumer.queue) + 1 /\ Len(consumer.queue) \in Nat
      BY <1>1, <2>4, AppendProperties, QueueFacts
    <3>2. CASE i = Len(consumer.queue) + 1
      BY <1>1, <2>4, <3>2, AppendProperties
    <3>3. CASE i \in 1 .. Len(consumer.queue)
      <4>1. Append(consumer.queue, packet)[i] = consumer.queue[i]
        BY <1>1, <2>4, <3>3, AppendProperties
      <4> QED
        BY <1>1, <2>5, <3>3, <4>1 DEF Fits
    <3> QED
      BY <3>1, <3>2, <3>3
  <2> HIDE DEF packet
  <2>8. /\ process'.at = "count" /\ process'.packet = packet
        /\ process'.dropped = process.dropped /\ process'.dry = process.dry
        /\ consumer'.queue = Append(consumer.queue, packet)
    BY <1>1, <2>3 DEF ConsumerOK, packet
  <2>9. Fits(consumer.queue)' /\ Total(consumer.queue)' = Total(Append(consumer.queue, packet))
    BY <2>7, <2>8 DEF Fits, Total, Samples
  <2>10. /\ Uncounted = 0 /\ Uncounted' = packet.size
         /\ Held \in Nat /\ Held' = Held + packet.size
    BY <2>1, <2>4, <2>5, <2>6, <2>8, <2>9 DEF Uncounted, Held
  <2>11. ~process.dry => buffered = Held
    BY <2>10 DEF Counting
  <2> QED
    BY <2>3, <2>4, <2>8, <2>9, <2>10, <2>11 DEF Counting
<1>26. ASSUME CountSamples PROVE Counting'
  <2>1. /\ process.at = "count" /\ consumer' = consumer
        /\ process' = [process EXCEPT !.at = "finish"]
        /\ buffered' = Counted(buffered + process.packet.size)
    BY <1>26 DEF CountSamples, At, Go
  <2>2. /\ process'.at = "finish" /\ process'.dropped = process.dropped
        /\ process'.dry = process.dry
    BY <1>1, <2>1
  <2>3. Uncounted = process.packet.size /\ Uncounted' = 0
    BY <2>1, <2>2 DEF Uncounted
  <2>4. Held' = Held /\ Fits(consumer.queue)'
    BY <2>1, <2>2 DEF Held, Total, Samples, Fits, Counting
  <2>5. /\ Uncounted \in Nat /\ Uncounted <= ConsumerCapacity
        /\ Held \in Nat /\ Held < SizeModulus
        /\ ConsumerCapacity \in Nat /\ ConsumerCapacity < SizeModulus
        /\ SizeModulus \in Nat
    BY CountingBounds
  <2>6. ASSUME ~process.dry PROVE buffered' = Held
    <3>1. buffered = IF Uncounted <= Held THEN Held - Uncounted ELSE Held - Uncounted + SizeModulus
      BY <2>6 DEF Counting
    <3>2. buffered' = (buffered + Uncounted) % SizeModulus
      BY <2>1, <2>3, <2>6 DEF Counted
    <3>3. buffered + Uncounted = Held \/ buffered + Uncounted = Held + SizeModulus
      BY <2>5, <3>1
    <3> QED
      BY <2>5, <3>2, <3>3, Remainders
  <2> QED
    BY <2>2, <2>3, <2>4, <2>5, <2>6 DEF Counting
<1>27. ASSUME ConsumeAfter PROVE Counting'
  <2>1. process.at = "consume" /\ process' = [process EXCEPT !.at = "idle"]
    BY <1>27 DEF ConsumeAfter, At, Go
  <2>2. /\ process'.at = "idle" /\ process'.dropped = process.dropped
        /\ process'.dry = process.dry
    BY <1>1, <2>1
  <2>3. Uncounted' = Uncounted
    BY <2>1, <2>2 DEF Uncounted
  <2>4. CASE consumer.queue # <<>> /\ consumer.complete /\ wireless > 0
    <3>1. /\ consumer' = [consumer EXCEPT !.queue = Tail(@)]
          /\ buffered' = Less(Head(consumer.queue).size)
      BY <1>27, <2>4 DEF ConsumeAfter, ConsumeNoDelay
    <3>2. consumer'.queue = Tail(consumer.queue)
      BY <1>1, <3>1 DEF ConsumerOK
    <3> QED
      BY <2>2, <2>3, <2>4, <3>1, <3>2, CountedTaken
  <2>5. CASE ~(consumer.queue # <<>> /\ consumer.complete /\ wireless > 0)
    <3>1. UNCHANGED <<consumer, buffered>>
      BY <1>27, <2>5 DEF ConsumeAfter
    <3> QED
      BY <1>4, <2>1, <2>2, <3>1
  <2> QED
    BY <2>4, <2>5
<1>28. ASSUME Start PROVE Counting'
  BY <1>3, <1>28 DEF Start, Record
<1>29. ASSUME StopConsumer PROVE Counting'
  <2>1. consumer'.queue = consumer.queue /\ process' = process /\ buffered' = buffered
    BY <1>1, <1>29 DEF StopConsumer, ConsumerOK
  <2> QED
    BY <1>3, <2>1
<1>30. ASSUME StopProducer \/ FreeCurrent PROVE Counting'
  BY <1>3, <1>30 DEF StopProducer, FreeCurrent
<1>31. ASSUME UNCHANGED vars PROVE Counting'
  BY <1>3, <1>31 DEF vars
<1> QED
  BY <1>11, <1>12, <1>13, <1>14, <1>15, <1>16, <1>17, <1>18, <1>19, <1>20, <1>21, <1>22, <1>23,
     <1>24, <1>25, <1>26, <1>27, <1>28, <1>29, <1>30, <1>31
  DEF Next, ProduceAny, Process, ProcessAny

LEMMA CountingInit ==
  ASSUME Init
  PROVE  Counting
<1>1. /\ process = [at |-> "idle", packet |-> None, dropped |-> None, pending |-> FALSE,
                    met |-> FALSE, dry |-> FALSE]
      /\ consumer = [queue |-> <<>>, current |-> None, complete |-> FALSE, playing |-> FALSE]
      /\ buffered = 0
  BY DEF Init
<1>2. Total(<<>>) = 0 /\ None.size = 0 /\ ConsumerCapacity \in Nat
  BY TotalEmpty, PacketSizes, SizeFacts
<1>3. Fits(<<>>)
  BY DEF Fits
<1>4. /\ process.at = "idle" /\ process.dropped = None /\ consumer.queue = <<>>
  BY <1>1
<1>5. Uncounted = 0 /\ Held = 0
  BY <1>2, <1>4 DEF Uncounted, Held
<1> QED
  BY <1>1, <1>2, <1>3, <1>4, <1>5 DEF Counting

\* The samples counted are those the consumer has to play, whichever of the
\* consumer and the processing comes in the middle of the other.
THEOREM PipelineSamplesCounted == Spec => []SamplesCounted
<1>1. Flow /\ Counting /\ [Next]_vars => (Flow /\ Counting)'
  BY FlowStep, CountingStep
<1>2. ASSUME Flow, Counting PROVE SamplesCounted
  <2>1. /\ Uncounted \in Nat /\ Uncounted <= ConsumerCapacity
        /\ Held \in Nat /\ Held < SizeModulus
        /\ ConsumerCapacity \in Nat /\ ConsumerCapacity < SizeModulus
        /\ SizeModulus \in Nat
    BY <1>2, CountingBounds
  <2>2. ASSUME ~process.dry PROVE (buffered + Uncounted) % SizeModulus = Held
    <3>1. buffered = IF Uncounted <= Held THEN Held - Uncounted ELSE Held - Uncounted + SizeModulus
      BY <1>2, <2>2 DEF Counting
    <3>2. buffered + Uncounted = Held \/ buffered + Uncounted = Held + SizeModulus
      BY <2>1, <3>1
    <3> QED
      BY <2>1, <3>2, Remainders
  <2> QED
    BY <2>2 DEF SamplesCounted, Uncounted, Held, At
<1> QED
  BY <1>1, <1>2, FlowInit, CountingInit, PTL DEF Spec

-----------------------------------------------------------------------------
(* A line of packets, the marks given and the marks heard *)

\* What HeardInOrder says of a line, and what was given: a mark of the line was
\* given, one heard was given, and the second is given after the first.
Sound(line, given, marks) ==
  /\ \A i, j \in DOMAIN line : line[i].mark = "second" /\ line[j].mark = "first" => j < i
  /\ \A i, j \in DOMAIN line : line[i].mark = line[j].mark /\ i # j => line[i].mark = "plain"
  /\ \A i \in DOMAIN line : line[i].mark \notin marks
  /\ "second" \in marks => \A i \in DOMAIN line : line[i].mark # "first"
  /\ \A i \in DOMAIN line : line[i].mark \in given \cup {"plain"}
  /\ marks \subseteq given /\ given \subseteq Marks
  /\ "second" \in given => "first" \in given

\* A line whose packets are in another in the same order.
LEMMA SoundThinned ==
  ASSUME NEW s, NEW t, NEW given, NEW marks, Sound(s, given, marks),
         NEW f \in [DOMAIN t -> DOMAIN s], DOMAIN t \subseteq Int, DOMAIN s \subseteq Int,
         \A i \in DOMAIN t : t[i].mark = s[f[i]].mark,
         \A i, j \in DOMAIN t : i < j => f[i] < f[j]
  PROVE  Sound(t, given, marks)
<1>1. \A i \in DOMAIN t : f[i] \in DOMAIN s /\ f[i] \in Int /\ i \in Int
  OBVIOUS
<1>2. \A i, j \in DOMAIN t : i # j => f[i] # f[j]
  BY <1>1
<1>3. ASSUME NEW i \in DOMAIN t, NEW j \in DOMAIN t, t[i].mark = "second", t[j].mark = "first"
      PROVE  j < i
  <2>1. f[j] < f[i]
    BY <1>1, <1>3 DEF Sound
  <2>2. ~(i < j) /\ i # j
    BY <1>1, <2>1
  <2> QED
    BY <1>1, <2>2
<1>4. ASSUME NEW i \in DOMAIN t, NEW j \in DOMAIN t, t[i].mark = t[j].mark, i # j
      PROVE  t[i].mark = "plain"
  BY <1>1, <1>2, <1>4 DEF Sound
<1>5. ASSUME NEW i \in DOMAIN t
      PROVE  /\ t[i].mark \notin marks /\ t[i].mark \in given \cup {"plain"}
             /\ "second" \in marks => t[i].mark # "first"
  BY <1>1 DEF Sound
<1> QED
  BY <1>3, <1>4, <1>5 DEF Sound

LEMMA LineFacts ==
  ASSUME NEW x \in Seq(Packet), NEW y \in Seq(Packet)
  PROVE  /\ x \o y \in Seq(Packet)
         /\ Len(x) \in Nat /\ Len(y) \in Nat
         /\ DOMAIN x = 1 .. Len(x)
         /\ Len(x \o y) = Len(x) + Len(y)
         /\ DOMAIN (x \o y) = 1 .. Len(x) + Len(y)
         /\ \A i \in 1 .. Len(x) : (x \o y)[i] = x[i]
         /\ \A i \in Len(x) + 1 .. Len(x) + Len(y) : (x \o y)[i] = y[i - Len(x)]
         /\ \A i \in 1 .. Len(y) : (x \o y)[Len(x) + i] = y[i]
<1>1. x \o y \in Seq(Packet) /\ Len(x \o y) = Len(x) + Len(y) /\ Len(x) \in Nat /\ Len(y) \in Nat
  BY ConcatProperties, LenProperties
<1>2. \A i \in 1 .. Len(x) + Len(y) : (x \o y)[i] = IF i <= Len(x) THEN x[i] ELSE y[i - Len(x)]
  BY ConcatProperties
<1>3. \A i \in 1 .. Len(y) : (x \o y)[Len(x) + i] = y[i]
  <2> TAKE i \in 1 .. Len(y)
  <2>1. /\ Len(x) + i \in 1 .. Len(x) + Len(y) /\ ~(Len(x) + i <= Len(x))
        /\ Len(x) + i - Len(x) = i
    BY <1>1
  <2> QED
    BY <1>2, <2>1
<1>4. DOMAIN x = 1 .. Len(x) /\ DOMAIN (x \o y) = 1 .. Len(x \o y)
  BY <1>1, LenProperties
<1> QED
  BY <1>1, <1>2, <1>3, <1>4

\* Packets y leave the line.
LEMMA SoundRemoved ==
  ASSUME NEW x \in Seq(Packet), NEW y \in Seq(Packet), NEW z \in Seq(Packet),
         NEW given, NEW marks, Sound((x \o y) \o z, given, marks)
  PROVE  Sound(x \o z, given, marks)
<1> DEFINE s == (x \o y) \o z
           t == x \o z
           f == [i \in DOMAIN t |-> IF i <= Len(x) THEN i ELSE i + Len(y)]
<1>1. Len(x) \in Nat /\ Len(y) \in Nat /\ Len(z) \in Nat
  BY LenProperties
<1>2. /\ DOMAIN t = 1 .. Len(x) + Len(z)
      /\ \A i \in 1 .. Len(x) : t[i] = x[i]
      /\ \A i \in 1 .. Len(z) : t[Len(x) + i] = z[i]
  BY LineFacts
<1>3. /\ DOMAIN s = 1 .. Len(x) + Len(y) + Len(z)
      /\ \A i \in 1 .. Len(x) : s[i] = x[i]
      /\ \A i \in 1 .. Len(z) : s[Len(x) + Len(y) + i] = z[i]
  <2>1. /\ x \o y \in Seq(Packet) /\ Len(x \o y) = Len(x) + Len(y)
        /\ \A i \in 1 .. Len(x) : (x \o y)[i] = x[i]
    BY LineFacts
  <2>2. /\ DOMAIN s = 1 .. Len(x \o y) + Len(z)
        /\ \A i \in 1 .. Len(x \o y) : s[i] = (x \o y)[i]
        /\ \A i \in 1 .. Len(z) : s[Len(x \o y) + i] = z[i]
    BY <2>1, LineFacts
  <2> HIDE DEF s
  <2>3. \A i \in 1 .. Len(x) : s[i] = x[i]
    BY SMTT(30), <1>1, <2>1, <2>2
  <2> QED
    BY <2>1, <2>2, <2>3
<1> HIDE DEF s, t
<1>4. /\ f \in [DOMAIN t -> DOMAIN s] /\ DOMAIN t \subseteq Int /\ DOMAIN s \subseteq Int
      /\ \A i, j \in DOMAIN t : i < j => f[i] < f[j]
  BY <1>1, <1>2, <1>3
<1>5. ASSUME NEW i \in DOMAIN t PROVE t[i] = s[f[i]]
  <2>1. CASE i <= Len(x)
    BY <1>1, <1>2, <1>3, <2>1
  <2>2. CASE ~(i <= Len(x))
    <3> DEFINE k == i - Len(x)
    <3>1. k \in 1 .. Len(z) /\ i = Len(x) + k /\ f[i] = Len(x) + Len(y) + k
      BY <1>1, <1>2, <2>2
    <3> HIDE DEF k, f
    <3> QED
      BY <1>2, <1>3, <3>1
  <2> QED
    BY <2>1, <2>2
<1> HIDE DEF f
<1>6. Sound(s, given, marks)
  BY DEF s
<1>7. Sound(t, given, marks)
  BY <1>4, <1>5, <1>6, SoundThinned
<1> QED
  BY <1>7 DEF t

\* A packet of the line is replaced by another of the same mark.
LEMMA SoundReplaced ==
  ASSUME NEW x \in Seq(Packet), NEW z \in Seq(Packet), NEW p \in Packet, NEW q \in Packet,
         p.mark = q.mark, NEW given, NEW marks, Sound((x \o <<p>>) \o z, given, marks)
  PROVE  Sound((x \o <<q>>) \o z, given, marks)
<1> DEFINE s == (x \o <<p>>) \o z
           t == (x \o <<q>>) \o z
           f == [i \in DOMAIN t |-> i]
           n == Len(x)
<1>1. n \in Nat /\ Len(z) \in Nat
  BY LenProperties
<1>2. ASSUME NEW r \in Packet
      PROVE  /\ DOMAIN ((x \o <<r>>) \o z) = 1 .. n + 1 + Len(z)
             /\ \A i \in 1 .. n : ((x \o <<r>>) \o z)[i] = x[i]
             /\ ((x \o <<r>>) \o z)[n + 1] = r
             /\ \A i \in 1 .. Len(z) : ((x \o <<r>>) \o z)[n + 1 + i] = z[i]
  <2> DEFINE one == <<r>>
             a == x \o one
             b == a \o z
  <2>1. one \in Seq(Packet) /\ Len(one) = 1 /\ one[1] = r
    OBVIOUS
  <2> HIDE DEF one
  <2>2. /\ a \in Seq(Packet) /\ Len(a) = n + 1
        /\ \A i \in 1 .. n : a[i] = x[i]
        /\ a[n + 1] = r
    BY <1>1, <2>1, LineFacts
  <2> HIDE DEF a
  <2>3. /\ DOMAIN b = 1 .. n + 1 + Len(z)
        /\ \A i \in 1 .. n + 1 : b[i] = a[i]
        /\ \A i \in 1 .. Len(z) : b[n + 1 + i] = z[i]
    <3>1. /\ DOMAIN b = 1 .. Len(a) + Len(z)
          /\ \A i \in 1 .. Len(a) : b[i] = a[i]
          /\ \A i \in 1 .. Len(z) : b[Len(a) + i] = z[i]
      BY <2>2, LineFacts
    <3> HIDE DEF b, n
    <3> QED
      BY <2>2, <3>1
  <2> HIDE DEF b, n
  <2>4. (\A i \in 1 .. n : b[i] = x[i]) /\ b[n + 1] = r
    BY <1>1, <2>2, <2>3
  <2> QED
    BY <2>3, <2>4 DEF b, a, one
<1>3. /\ DOMAIN s = 1 .. n + 1 + Len(z) /\ DOMAIN t = 1 .. n + 1 + Len(z)
      /\ \A i \in 1 .. n : s[i] = t[i]
      /\ s[n + 1] = p /\ t[n + 1] = q
      /\ \A i \in 1 .. Len(z) : s[n + 1 + i] = t[n + 1 + i]
  BY <1>2
<1>4. Sound(s, given, marks)
  OBVIOUS
<1> HIDE DEF s, t, n
<1>5. f \in [DOMAIN t -> DOMAIN s] /\ \A i, j \in DOMAIN t : i < j => f[i] < f[j]
  BY <1>1, <1>3
<1>6. ASSUME NEW i \in DOMAIN t PROVE t[i].mark = s[f[i]].mark
  <2>1. CASE i <= n + 1
    BY <1>1, <1>3, <2>1
  <2>2. CASE ~(i <= n + 1)
    <3> DEFINE k == i - (n + 1)
    <3>1. k \in 1 .. Len(z) /\ i = n + 1 + k
      BY <1>1, <1>3, <2>2
    <3> HIDE DEF k
    <3> QED
      BY <1>3, <3>1
  <2> QED
    BY <2>1, <2>2
<1>7. DOMAIN t \subseteq Int /\ DOMAIN s \subseteq Int
  BY <1>1, <1>3
<1> HIDE DEF f
<1>8. Sound(t, given, marks)
  BY <1>4, <1>5, <1>6, <1>7, SoundThinned
<1> QED
  BY <1>8 DEF t

\* A packet recorded with a mark of the kind that is next comes last.
LEMMA SoundAppended ==
  ASSUME NEW x \in Seq(Packet), NEW p \in Packet, NEW given, NEW marks, Sound(x, given, marks),
         p.mark \in {"plain"} \cup (IF given = {} THEN {"first"} ELSE Marks \ given)
  PROVE  Sound(x \o <<p>>, given \cup ({p.mark} \cap Marks), marks)
<1> DEFINE n == Len(x)
           t == x \o <<p>>
           more == given \cup ({p.mark} \cap Marks)
<1>1. /\ n \in Nat /\ DOMAIN x = 1 .. n /\ DOMAIN t = 1 .. n + 1
      /\ \A i \in 1 .. n : t[i] = x[i]
      /\ t[n + 1] = p
  <2> DEFINE one == <<p>>
             a == x \o one
  <2>1. one \in Seq(Packet) /\ Len(one) = 1 /\ one[1] = p
    OBVIOUS
  <2> HIDE DEF one
  <2>2. /\ DOMAIN a = 1 .. n + 1 /\ n \in Nat /\ DOMAIN x = 1 .. n
        /\ \A i \in 1 .. n : a[i] = x[i]
        /\ a[n + 1] = p
    BY <2>1, LineFacts
  <2> QED
    BY <2>2 DEF one
<1> HIDE DEF t, n
<1>2. /\ given \subseteq Marks /\ marks \subseteq given /\ "plain" \notin given
      /\ "second" \in given => "first" \in given
  BY DEF Sound, Marks
<1>3. /\ p.mark = "plain" \/ p.mark \in Marks \ given
      /\ p.mark = "second" => "first" \in given
      /\ p.mark = "first" => "second" \notin given
  BY <1>2 DEF Marks
<1>4. ASSUME NEW i \in DOMAIN t, i # n + 1
      PROVE  /\ i \in DOMAIN x /\ t[i] = x[i]
             /\ x[i].mark \in given \cup {"plain"} /\ x[i].mark \notin marks
             /\ "second" \in marks => x[i].mark # "first"
  <2>1. i \in DOMAIN x /\ t[i] = x[i]
    BY <1>1, <1>4
  <2> QED
    BY <2>1 DEF Sound
<1>5. ASSUME NEW i \in DOMAIN t, NEW j \in DOMAIN t, t[i].mark = "second", t[j].mark = "first"
      PROVE  j < i
  <2>1. CASE j = n + 1
    <3>1. p.mark = "first"
      BY <1>1, <1>5, <2>1
    <3>2. i # n + 1
      BY <1>1, <1>5, <3>1
    <3>3. "second" \in given
      BY <1>4, <1>5, <3>2
    <3> QED
      BY <1>3, <3>1, <3>3
  <2>2. CASE j # n + 1 /\ i = n + 1
    BY <1>1, <2>2
  <2>3. CASE j # n + 1 /\ i # n + 1
    <3>1. /\ i \in DOMAIN x /\ t[i] = x[i] /\ j \in DOMAIN x /\ t[j] = x[j]
      BY <1>4, <2>3
    <3> QED
      BY <1>5, <3>1 DEF Sound
  <2> QED
    BY <2>1, <2>2, <2>3
<1>6. ASSUME NEW i \in DOMAIN t, NEW j \in DOMAIN t, t[i].mark = t[j].mark, i # j
      PROVE  t[i].mark = "plain"
  <2>1. CASE i = n + 1
    <3>1. j # n + 1 /\ t[i] = p
      BY <1>1, <1>6, <2>1
    <3>2. p.mark \in given \cup {"plain"}
      BY <1>4, <1>6, <3>1
    <3> QED
      BY <1>3, <3>1, <3>2
  <2>2. CASE j = n + 1
    <3>1. i # n + 1 /\ t[j] = p
      BY <1>1, <1>6, <2>2
    <3>2. p.mark \in given \cup {"plain"}
      BY <1>4, <1>6, <3>1
    <3> QED
      BY <1>3, <1>6, <3>1, <3>2
  <2>3. CASE j # n + 1 /\ i # n + 1
    <3>1. /\ i \in DOMAIN x /\ t[i] = x[i] /\ j \in DOMAIN x /\ t[j] = x[j]
      BY <1>4, <2>3
    <3> QED
      BY <1>6, <3>1 DEF Sound
  <2> QED
    BY <2>1, <2>2, <2>3
<1>7. ASSUME NEW i \in DOMAIN t
      PROVE  /\ t[i].mark \notin marks /\ t[i].mark \in more \cup {"plain"}
             /\ "second" \in marks => t[i].mark # "first"
  <2>1. CASE i = n + 1
    <3>1. t[i] = p
      BY <1>1, <2>1
    <3>2. p.mark \notin marks /\ p.mark \in more \cup {"plain"}
      BY <1>2, <1>3
    <3>3. "second" \in marks => p.mark # "first"
      BY <1>2, <1>3
    <3> QED
      BY <3>1, <3>2, <3>3
  <2>2. CASE i # n + 1
    BY <1>4, <2>2
  <2> QED
    BY <2>1, <2>2
<1>8. /\ marks \subseteq more /\ more \subseteq Marks
      /\ "second" \in more => "first" \in more
  BY <1>2, <1>3
<1> HIDE DEF more
<1>9. Sound(t, more, marks)
  BY <1>5, <1>6, <1>7, <1>8 DEF Sound
<1> QED
  BY <1>9 DEF t, more

\* The first packet of the line is heard.
LEMMA SoundHeard ==
  ASSUME NEW p \in Packet, NEW x \in Seq(Packet), NEW given, NEW marks,
         Sound(<<p>> \o x, given, marks)
  PROVE  Sound(x, given, marks \cup ({p.mark} \cap Marks))
<1> DEFINE s == <<p>> \o x
           n == Len(x)
           more == marks \cup ({p.mark} \cap Marks)
<1>1. /\ n \in Nat /\ DOMAIN x = 1 .. n /\ DOMAIN s = 1 .. n + 1
      /\ \A i \in 1 .. n : s[i + 1] = x[i]
      /\ s[1] = p
  <2> DEFINE one == <<p>>
             a == one \o x
  <2>1. one \in Seq(Packet) /\ Len(one) = 1 /\ one[1] = p
    OBVIOUS
  <2> HIDE DEF one
  <2>2. n \in Nat /\ DOMAIN x = 1 .. n
    BY LenProperties
  <2>3. /\ DOMAIN a = 1 .. 1 + n
        /\ \A i \in 1 .. 1 : a[i] = one[i]
        /\ \A i \in 1 .. n : a[1 + i] = x[i]
    BY <2>1, LineFacts
  <2> HIDE DEF a
  <2>4. /\ DOMAIN a = 1 .. n + 1 /\ a[1] = p
        /\ \A i \in 1 .. n : a[i + 1] = x[i]
    BY <2>1, <2>2, <2>3
  <2> QED
    BY <2>2, <2>4 DEF a, one
<1>2. /\ Sound(s, given, marks) /\ given \subseteq Marks /\ marks \subseteq given
  BY DEF Sound
<1> HIDE DEF s, n
<1>3. p.mark \in given \cup {"plain"} /\ 1 \in DOMAIN s
  BY <1>1, <1>2 DEF Sound
<1>4. ASSUME NEW i \in DOMAIN x
      PROVE  /\ i + 1 \in DOMAIN s /\ s[i + 1] = x[i] /\ i + 1 # 1 /\ i \in Nat
  BY <1>1
<1>5. ASSUME NEW i \in DOMAIN x, NEW j \in DOMAIN x, x[i].mark = "second", x[j].mark = "first"
      PROVE  j < i
  <2>1. j + 1 < i + 1
    BY <1>2, <1>4, <1>5 DEF Sound
  <2> QED
    BY <1>4, <2>1
<1>6. ASSUME NEW i \in DOMAIN x, NEW j \in DOMAIN x, x[i].mark = x[j].mark, i # j
      PROVE  x[i].mark = "plain"
  <2>1. i + 1 # j + 1
    BY <1>4, <1>6
  <2> QED
    BY <1>2, <1>4, <1>6, <2>1 DEF Sound
<1>7. ASSUME NEW i \in DOMAIN x
      PROVE  /\ x[i].mark \notin more /\ x[i].mark \in given \cup {"plain"}
             /\ "second" \in more => x[i].mark # "first"
  <2>1. x[i].mark \notin marks /\ x[i].mark \in given \cup {"plain"}
        /\ ("second" \in marks => x[i].mark # "first")
    BY <1>2, <1>4 DEF Sound
  <2>2. x[i].mark = p.mark => x[i].mark = "plain"
    BY <1>1, <1>2, <1>3, <1>4 DEF Sound
  <2>3. p.mark = "second" => x[i].mark # "first"
    <3> SUFFICES ASSUME p.mark = "second", x[i].mark = "first" PROVE FALSE
      OBVIOUS
    <3>1. i + 1 < 1
      BY <1>1, <1>2, <1>3, <1>4 DEF Sound
    <3> QED
      BY <1>4, <3>1
  <2>4. "plain" \notin Marks
    BY DEF Marks
  <2> QED
    BY <2>1, <2>2, <2>3, <2>4
<1>8. more \subseteq given /\ given \subseteq Marks /\ ("second" \in given => "first" \in given)
  BY <1>2, <1>3 DEF Sound, Marks
<1> HIDE DEF more
<1>9. Sound(x, given, more)
  BY <1>5, <1>6, <1>7, <1>8 DEF Sound
<1> QED
  BY <1>9 DEF more

-----------------------------------------------------------------------------
(* The invariant and its steps *)

\* A producer that is not the codec records nothing from one call to the next.
Ordered ==
  /\ Sound(Line, heard.given, heard.marks)
  /\ ~cfg.producerDelayed => producer.current = None

LEMMA Joined ==
  /\ \A x, y \in Seq(Packet) : x \o y \in Seq(Packet)
  /\ \A x, y, z \in Seq(Packet) : (x \o y) \o z = x \o (y \o z)
<1>1. ASSUME NEW x \in Seq(Packet), NEW y \in Seq(Packet)
      PROVE  x \o y \in Seq(Packet)
  BY ConcatProperties
<1>2. ASSUME NEW x \in Seq(Packet), NEW y \in Seq(Packet), NEW z \in Seq(Packet)
      PROVE  (x \o y) \o z = x \o (y \o z)
  BY ConcatAssociative
<1> QED
  BY <1>1, <1>2

LEMMA LineTypes ==
  ASSUME Flow
  PROVE  /\ consumer.queue \in Seq(Packet) /\ producer.queue \in Seq(Packet)
         /\ InHand \in Seq(Packet) /\ BeingRecorded \in Seq(Packet)
         /\ Line \in Seq(Packet)
         /\ process.at \in Processed \cup {"copy"} =>
              process.packet \in Packet /\ InHand = <<process.packet>>
         /\ process.at \notin Processed \cup {"copy"} => InHand = <<>>
<1>1. /\ consumer.queue \in Seq(Packet) /\ producer.queue \in Seq(Packet)
      /\ producer.current # None => producer.current \in Packet
  BY DEF Flow, Shape, ConsumerOK, ProducerOK
<1>2. \A p \in Packet : <<p>> \in Seq(Packet)
  OBVIOUS
<1>3. process.at \in Processed \cup {"copy"} => process.packet \in Packet
  BY DEF Flow, Shape, ProcessOK
<1>4. InHand \in Seq(Packet) /\ BeingRecorded \in Seq(Packet)
  BY <1>1, <1>2, <1>3, EmptySeq DEF InHand, BeingRecorded
<1>5. Line \in Seq(Packet)
  BY <1>1, <1>4, ConcatProperties DEF Line
<1> QED
  BY <1>1, <1>3, <1>4, <1>5 DEF InHand

\* A step that leaves the line as it is.
LEMMA OrderedKept ==
  ASSUME Ordered, cfg' = cfg, heard' = heard, producer'.current = producer.current,
         consumer'.queue = consumer.queue, producer'.queue = producer.queue, InHand' = InHand
  PROVE  Ordered'
<1>1. BeingRecorded' = BeingRecorded
  BY DEF BeingRecorded
<1>2. Line' = Line
  BY <1>1 DEF Line
<1> QED
  BY <1>2 DEF Ordered

\* The processing gives up the packet it has in hand.
LEMMA OrderedLost ==
  ASSUME Flow, Ordered, cfg' = cfg, heard' = heard, producer'.current = producer.current,
         consumer'.queue = consumer.queue, producer'.queue = producer.queue, InHand' = <<>>
  PROVE  Ordered'
<1> DEFINE c == consumer.queue
           h == InHand
           q == producer.queue
           r == BeingRecorded
<1>1. BeingRecorded' = r
  BY DEF BeingRecorded
<1>2. c \in Seq(Packet) /\ h \in Seq(Packet) /\ q \in Seq(Packet) /\ r \in Seq(Packet)
  BY LineTypes
<1>3. Line = ((c \o h) \o q) \o r /\ Line' = ((c \o <<>>) \o q) \o r
  BY <1>1 DEF Line
<1>4. Sound(Line, heard.given, heard.marks)
  BY DEF Ordered
<1> HIDE DEF c, h, q, r
<1>5. c \o <<>> = c
  BY <1>2, ConcatEmptySeq
<1>6. ((c \o h) \o q) \o r = (c \o h) \o (q \o r) /\ (c \o q) \o r = c \o (q \o r)
      /\ q \o r \in Seq(Packet)
  <2>1. q \o r \in Seq(Packet) /\ c \o h \in Seq(Packet)
    BY <1>2, Joined, Zenon
  <2>2. ((c \o h) \o q) \o r = (c \o h) \o (q \o r)
    BY <1>2, <2>1, Joined, ZenonT(30)
  <2>3. (c \o q) \o r = c \o (q \o r)
    BY <1>2, Joined, Zenon
  <2> QED
    BY <2>1, <2>2, <2>3, Zenon
<1>7. Sound(c \o (q \o r), heard.given, heard.marks)
  BY <1>2, <1>3, <1>4, <1>6, SoundRemoved
<1> QED
  BY <1>3, <1>5, <1>6, <1>7 DEF Ordered

\* The oldest packet leaves the queue of the consumer.
LEMMA OldestFacts ==
  ASSUME Flow, consumer.queue # <<>>
  PROVE  LET p == Head(consumer.queue)
             rest == ((Tail(consumer.queue) \o InHand) \o producer.queue) \o BeingRecorded
         IN  /\ p \in Packet /\ rest \in Seq(Packet)
             /\ Line = <<p>> \o rest
<1> DEFINE p == Head(consumer.queue)
           c == Tail(consumer.queue)
           h == InHand
           q == producer.queue
           r == BeingRecorded
           one == <<p>>
<1>1. h \in Seq(Packet) /\ q \in Seq(Packet) /\ r \in Seq(Packet) /\ consumer.queue \in Seq(Packet)
  BY LineTypes
<1>2. p \in Packet /\ c \in Seq(Packet) /\ one \in Seq(Packet)
  BY <1>1, HeadTailProperties
<1>3. consumer.queue = one \o c
  BY <1>1, <1>2
<1>4. Line = (((one \o c) \o h) \o q) \o r
  BY <1>3, Zenon DEF Line
<1> HIDE DEF p, c, h, q, r, one
<1>5. /\ (one \o c) \o h = one \o (c \o h) /\ c \o h \in Seq(Packet)
  BY <1>1, <1>2, Joined, ZenonT(30)
<1>6. (one \o (c \o h)) \o q = one \o ((c \o h) \o q) /\ (c \o h) \o q \in Seq(Packet)
  BY <1>1, <1>2, <1>5, Joined, ZenonT(30)
<1>7. /\ (one \o ((c \o h) \o q)) \o r = one \o (((c \o h) \o q) \o r)
      /\ ((c \o h) \o q) \o r \in Seq(Packet)
  BY <1>1, <1>2, <1>6, Joined, ZenonT(30)
<1>8. Line = one \o (((c \o h) \o q) \o r)
  BY <1>4, <1>5, <1>6, <1>7, Zenon
<1> QED
  BY <1>2, <1>7, <1>8 DEF p, c, h, q, r, one

LEMMA OrderedDropped ==
  ASSUME Flow, Ordered, consumer.queue # <<>>, consumer'.queue = Tail(consumer.queue),
         cfg' = cfg, heard' = heard, producer'.current = producer.current,
         producer'.queue = producer.queue, InHand' = InHand
  PROVE  Ordered'
<1> DEFINE rest == ((Tail(consumer.queue) \o InHand) \o producer.queue) \o BeingRecorded
           one == <<Head(consumer.queue)>>
<1>1. Head(consumer.queue) \in Packet /\ rest \in Seq(Packet) /\ Line = one \o rest
  BY OldestFacts
<1>2. BeingRecorded' = BeingRecorded
  BY DEF BeingRecorded
<1>3. Line' = rest
  BY <1>2 DEF Line
<1>4. one \in Seq(Packet) /\ <<>> \in Seq(Packet)
  BY <1>1
<1>5. Sound(one \o rest, heard.given, heard.marks)
  BY <1>1 DEF Ordered
<1> HIDE DEF rest, one
<1>6. <<>> \o one = one /\ <<>> \o rest = rest
  BY <1>1, <1>4, ConcatEmptySeq
<1>7. Sound(rest, heard.given, heard.marks)
  <2>1. Sound((<<>> \o one) \o rest, heard.given, heard.marks)
    BY <1>5, <1>6
  <2>2. Sound(<<>> \o rest, heard.given, heard.marks)
    BY <1>1, <1>4, <2>1, SoundRemoved
  <2> QED
    BY <1>6, <2>2
<1> QED
  BY <1>3, <1>7 DEF Ordered

LEMMA OrderedHeard ==
  ASSUME Flow, Ordered, consumer.queue # <<>>, consumer'.queue = Tail(consumer.queue),
         Hear(Head(consumer.queue)), cfg' = cfg, producer'.current = producer.current,
         producer'.queue = producer.queue, InHand' = InHand
  PROVE  Ordered'
<1> DEFINE rest == ((Tail(consumer.queue) \o InHand) \o producer.queue) \o BeingRecorded
           p == Head(consumer.queue)
<1>1. p \in Packet /\ rest \in Seq(Packet) /\ Line = <<p>> \o rest
  BY OldestFacts
<1>2. BeingRecorded' = BeingRecorded
  BY DEF BeingRecorded
<1>3. Line' = rest
  BY <1>2 DEF Line
<1>4. heard'.given = heard.given /\ heard'.marks = heard.marks \cup ({p.mark} \cap Marks)
  <2>1. heard \in [given : SUBSET Marks, marks : SUBSET Marks]
    BY DEF Flow, Shape, HeardOK
  <2> HIDE DEF p
  <2>2. heard' = [heard EXCEPT !.marks = @ \cup ({p.mark} \cap Marks)]
    BY DEF Hear, p
  <2> QED
    BY <2>1, <2>2
<1>5. Sound(<<p>> \o rest, heard.given, heard.marks)
  BY <1>1 DEF Ordered
<1> HIDE DEF rest, p
<1>6. Sound(rest, heard'.given, heard'.marks)
  BY <1>1, <1>4, <1>5, SoundHeard
<1> QED
  BY <1>3, <1>6 DEF Ordered

-----------------------------------------------------------------------------
(* The producer *)

\* enqueue_producer_node: the packet comes last, and the oldest of a full queue
\* goes.
LEMMA EnqueuedSound ==
  ASSUME NEW x \in Seq(Packet), NEW q \in Seq(Packet), NEW p \in Packet, NEW given, NEW marks,
         Sound((x \o q) \o <<p>>, given, marks)
  PROVE  Enqueued(q, p) \in Seq(Packet) /\ Sound(x \o Enqueued(q, p), given, marks)
<1> DEFINE one == <<p>>
<1>1. one \in Seq(Packet)
  OBVIOUS
<1>2. CASE Len(q) < ProducerSize
  <2>1. Enqueued(q, p) = q \o one
    BY <1>2, AppendIsConcat DEF Enqueued
  <2> HIDE DEF one
  <2>2. q \o one \in Seq(Packet) /\ (x \o q) \o one = x \o (q \o one)
    BY <1>1, Joined, Zenon
  <2>3. Sound((x \o q) \o one, given, marks)
    BY DEF one
  <2> QED
    BY <2>1, <2>2, <2>3
<1>3. CASE ~(Len(q) < ProducerSize)
  <2> DEFINE first == <<Head(q)>>
             t == Tail(q)
  <2>1. q # <<>>
    BY <1>3, QueueFacts, SizeFacts
  <2>2. Head(q) \in Packet /\ t \in Seq(Packet) /\ first \in Seq(Packet)
    BY <2>1, HeadTailProperties
  <2>3. q = first \o t
    BY <2>1, <2>2
  <2>4. Enqueued(q, p) = t \o one
    BY <1>3, <2>2, AppendIsConcat DEF Enqueued
  <2>5. Sound((x \o q) \o one, given, marks)
    OBVIOUS
  <2> HIDE DEF one, first, t
  <2>6. t \o one \in Seq(Packet) /\ first \o t \in Seq(Packet) /\ x \o first \in Seq(Packet)
    BY <1>1, <2>2, Joined, Zenon
  <2>7. x \o (first \o t) = (x \o first) \o t
    BY <2>2, Joined, Zenon
  <2>8. ((x \o first) \o t) \o one = (x \o first) \o (t \o one)
    <3> DEFINE left == x \o first
    <3>1. left \in Seq(Packet)
      BY <2>6
    <3> HIDE DEF left
    <3>2. (left \o t) \o one = left \o (t \o one)
      <4>1. t \in Seq(Packet)
        BY <2>2
      <4>2. \A u \in Seq(Packet) : (left \o t) \o u = left \o (t \o u)
        BY <3>1, <4>1, Joined
      <4> QED
        BY <1>1, <4>2
    <3> QED
      BY <3>2 DEF left
  <2>9. Sound((x \o first) \o (t \o one), given, marks)
    BY <2>3, <2>5, <2>7, <2>8
  <2>10. Sound(x \o (t \o one), given, marks)
    BY <2>2, <2>6, <2>9, SoundRemoved
  <2> QED
    BY <2>4, <2>6, <2>10
<1> QED
  BY <1>2, <1>3

\* What Recorded gives is what SoundAppended asks for.
LEMMA RecordedFacts ==
  ASSUME Flow, NEW mark \in Marks \cup {"plain"}, Recorded(mark)
  PROVE  /\ mark \in {"plain"} \cup (IF heard.given = {} THEN {"first"} ELSE Marks \ heard.given)
         /\ heard'.given = heard.given \cup ({mark} \cap Marks)
         /\ heard'.marks = heard.marks
<1>1. heard \in [given : SUBSET Marks, marks : SUBSET Marks]
  BY DEF Flow, Shape, HeardOK
<1>2. /\ mark \in {"plain"} \cup (IF heard.given = {} THEN {"first"} ELSE Marks \ heard.given)
      /\ heard' = [heard EXCEPT !.given = @ \cup ({mark} \cap Marks)]
  BY DEF Recorded
<1> QED
  BY <1>1, <1>2

\* The codec's producer queues what it recorded and begins the next packet.
LEMMA OrderedRecord ==
  ASSUME Flow, Ordered, cfg.producerDelayed, NEW mark \in Marks \cup {"plain"}, Record(mark),
         cfg' = cfg, consumer' = consumer, InHand' = InHand
  PROVE  Ordered'
<1> DEFINE cur == producer.current
           front == consumer.queue \o InHand
           q == producer.queue
           queue == IF cur # None THEN Enqueued(q, cur) ELSE q
           fresh == [mark |-> mark, size |-> 0]
<1>1. /\ Recorded(mark)
      /\ producer' = [queue |-> queue, current |-> fresh, on |-> TRUE]
  <2>1. producer'.on = TRUE
    BY RecordFacts
  <2> QED
    BY <2>1 DEF Record
<1>2. producer'.queue = queue /\ producer'.current = fresh
  BY <1>1
<1>3. fresh \in Packet /\ fresh # None /\ fresh.mark = mark
  BY FreshPacket
<1>4. front \in Seq(Packet) /\ q \in Seq(Packet) /\ (cur # None => cur \in Packet)
  <2>1. cur # None => cur \in Packet
    BY DEF Flow, Shape, ProducerOK
  <2> QED
    BY <2>1, LineTypes, Joined
<1>5. BeingRecorded' = <<fresh>>
  BY <1>2, <1>3 DEF BeingRecorded
<1>6. Line' = (front \o queue) \o <<fresh>>
  BY <1>2, <1>5 DEF Line
<1>7. Sound((front \o q) \o BeingRecorded, heard.given, heard.marks)
  BY DEF Ordered, Line
<1> HIDE DEF front, fresh, q
<1>8. queue \in Seq(Packet) /\ Sound(front \o queue, heard.given, heard.marks)
  <2>1. CASE cur # None
    <3>1. BeingRecorded = <<cur>>
      BY <2>1 DEF BeingRecorded
    <3>2. Sound((front \o q) \o <<cur>>, heard.given, heard.marks)
      BY <1>7, <3>1
    <3> QED
      BY <1>4, <2>1, <3>2, EnqueuedSound
  <2>2. CASE cur = None
    <3>1. BeingRecorded = <<>> /\ queue = q
      BY <2>2 DEF BeingRecorded
    <3>2. front \o q \in Seq(Packet)
      BY <1>4, Joined
    <3>3. (front \o q) \o <<>> = front \o q
      BY <3>2, ConcatEmptySeq
    <3> QED
      BY <1>4, <1>7, <3>1, <3>3
  <2> QED
    BY <2>1, <2>2
<1> HIDE DEF queue
<1>9. /\ fresh.mark \in {"plain"} \cup (IF heard.given = {} THEN {"first"} ELSE Marks \ heard.given)
      /\ heard'.given = heard.given \cup ({fresh.mark} \cap Marks)
      /\ heard'.marks = heard.marks
  BY <1>1, <1>3, RecordedFacts
<1>10. front \o queue \in Seq(Packet)
  BY <1>4, <1>8, Joined
<1>11. Sound((front \o queue) \o <<fresh>>, heard'.given, heard'.marks)
  <2>1. Sound((front \o queue) \o <<fresh>>, heard.given \cup ({fresh.mark} \cap Marks), heard.marks)
    BY <1>3, <1>8, <1>9, <1>10, SoundAppended
  <2> QED
    BY <1>9, <2>1
<1> QED
  BY <1>6, <1>11 DEF Ordered

\* The radio's producer queues the packet that it received.
LEMMA OrderedReceive ==
  ASSUME Flow, Ordered, ~cfg.producerDelayed, NEW mark \in Marks \cup {"plain"},
         NEW samples \in BOOLEAN, Receive(mark, samples),
         cfg' = cfg, consumer' = consumer, InHand' = InHand
  PROVE  Ordered'
<1> DEFINE front == consumer.queue \o InHand
           q == producer.queue
           fresh == [mark |-> mark, size |-> 0]
           queue == Enqueued(q, fresh)
<1>1. producer.current = None /\ BeingRecorded = <<>>
  BY DEF Ordered, BeingRecorded
<1>2. producer'.current = None /\ BeingRecorded' = <<>>
  <2>1. producer'.current = producer.current
    BY ReceiveFacts
  <2> QED
    BY <1>1, <2>1 DEF BeingRecorded
<1>3. CASE ~(free.producer > 0 /\ samples)
  <2>1. UNCHANGED <<free, producer, heard>>
    BY <1>3 DEF Receive
  <2> QED
    BY <2>1, OrderedKept
<1>4. CASE free.producer > 0 /\ samples
  <2>1. Recorded(mark) /\ producer' = [producer EXCEPT !.queue = queue]
    BY <1>4 DEF Receive
  <2>2. producer'.queue = queue
    <3>1. producer \in [queue : Seq(Packet), current : Packet \cup {None}, on : BOOLEAN]
      BY DEF Flow, Shape, ProducerOK
    <3> HIDE DEF queue
    <3> QED
      BY <2>1, <3>1
  <2>3. fresh \in Packet /\ fresh.mark = mark
    BY FreshPacket
  <2>4. front \in Seq(Packet) /\ q \in Seq(Packet)
    BY LineTypes, Joined
  <2>5. Line' = (front \o queue) \o <<>>
    BY <1>2, <2>2 DEF Line
  <2>6. Sound((front \o q) \o <<>>, heard.given, heard.marks)
    BY <1>1 DEF Ordered, Line
  <2> HIDE DEF front, fresh, q
  <2>7. front \o q \in Seq(Packet)
    BY <2>4, Joined
  <2>8. (front \o q) \o <<>> = front \o q
    BY <2>7, ConcatEmptySeq
  <2>9. /\ fresh.mark \in {"plain"} \cup (IF heard.given = {} THEN {"first"} ELSE Marks \ heard.given)
        /\ heard'.given = heard.given \cup ({fresh.mark} \cap Marks)
        /\ heard'.marks = heard.marks
    BY <2>1, <2>3, RecordedFacts
  <2>10. Sound((front \o q) \o <<fresh>>, heard'.given, heard'.marks)
    <3>1. Sound(front \o q, heard.given, heard.marks)
      BY <2>6, <2>8
    <3>2. Sound((front \o q) \o <<fresh>>, heard.given \cup ({fresh.mark} \cap Marks), heard.marks)
      BY <2>3, <2>7, <2>9, <3>1, SoundAppended
    <3> QED
      BY <2>9, <3>2
  <2>11. queue \in Seq(Packet) /\ Sound(front \o queue, heard'.given, heard'.marks)
    BY <2>3, <2>4, <2>10, EnqueuedSound
  <2> HIDE DEF queue
  <2>12. front \o queue \in Seq(Packet)
    BY <2>4, <2>11, Joined
  <2>13. (front \o queue) \o <<>> = front \o queue
    BY <2>12, ConcatEmptySeq
  <2> QED
    BY <1>2, <2>5, <2>11, <2>13 DEF Ordered
<1> QED
  BY <1>3, <1>4

-----------------------------------------------------------------------------
(* The processing *)

Holding == Processed \cup {"copy"}

LEMMA HandKept ==
  ASSUME process'.packet = process.packet, process'.at \in Holding <=> process.at \in Holding
  PROVE  InHand' = InHand
BY DEF InHand, Holding

LEMMA HandEmpty ==
  ASSUME process'.at \notin Holding
  PROVE  InHand' = <<>>
BY DEF InHand, Holding

LEMMA OrderedDequeue ==
  ASSUME Flow, Ordered, DequeueProducer
  PROVE  Ordered'
<1> DEFINE c == consumer.queue
           q == producer.queue
           r == BeingRecorded
           one == <<Head(q)>>
           t == Tail(q)
<1>1. /\ process \in [at : Places, packet : Packet \cup {None}, dropped : Packet \cup {None},
                      pending : BOOLEAN, met : BOOLEAN, dry : BOOLEAN]
      /\ producer \in [queue : Seq(Packet), current : Packet \cup {None}, on : BOOLEAN]
  BY DEF Flow, Shape, ProcessOK, ProducerOK
<1>2. process.at = "dequeue" /\ UNCHANGED <<cfg, consumer, heard>>
  BY DEF DequeueProducer, At
<1>3. InHand = <<>>
  BY <1>2 DEF InHand, Processed
<1>4. CASE q = <<>>
  <2>1. process' = [process EXCEPT !.at = After] /\ producer' = producer
    BY <1>4 DEF DequeueProducer, Go
  <2>2. process'.at = After
    BY <1>1, <2>1
  <2>3. InHand' = InHand
    BY <1>3, <2>2, HandEmpty DEF After, Holding, Processed
  <2> QED
    BY <1>2, <2>1, <2>3, OrderedKept
<1>5. CASE q # <<>>
  <2>1. /\ process' = [process EXCEPT !.at = "copy", !.packet = Head(q)]
        /\ producer' = [producer EXCEPT !.queue = t]
    BY <1>5 DEF DequeueProducer
  <2>2. process'.at = "copy" /\ process'.packet = Head(q)
    BY <1>1, <2>1
  <2>3. producer'.queue = t /\ producer'.current = producer.current
    BY <1>1, <2>1
  <2>4. InHand' = one /\ BeingRecorded' = r
    BY <2>2, <2>3 DEF InHand, BeingRecorded
  <2>5. c \in Seq(Packet) /\ q \in Seq(Packet) /\ r \in Seq(Packet)
    BY LineTypes
  <2>6. Head(q) \in Packet /\ t \in Seq(Packet) /\ one \in Seq(Packet)
    BY <1>5, <2>5, HeadTailProperties
  <2>7. q = one \o t
    BY <1>5, <2>5, <2>6
  <2>8. Line = ((c \o <<>>) \o q) \o r
    BY <1>3 DEF Line
  <2>9. Line' = ((c \o one) \o t) \o r
    BY <1>2, <2>3, <2>4 DEF Line
  <2> HIDE DEF c, q, r, one, t
  <2>10. c \o <<>> = c
    BY <2>5, ConcatEmptySeq
  <2>11. c \o (one \o t) = (c \o one) \o t
    BY <2>5, <2>6, Joined, ZenonT(30)
  <2>12. Line' = Line
    BY <2>7, <2>8, <2>9, <2>10, <2>11
  <2> QED
    BY <1>2, <2>3, <2>12 DEF Ordered
<1> QED
  BY <1>4, <1>5

\* The packet passes to the queue of the consumer, which has room.
LEMMA OrderedEnqueue ==
  ASSUME Flow, Ordered, EnqueueConsumer
  PROVE  Ordered'
<1> DEFINE c == consumer.queue
           q == producer.queue
           r == BeingRecorded
           one == <<process.packet>>
<1>1. /\ process \in [at : Places, packet : Packet \cup {None}, dropped : Packet \cup {None},
                      pending : BOOLEAN, met : BOOLEAN, dry : BOOLEAN]
      /\ consumer \in [queue : Seq(Packet), current : Packet \cup {None},
                       complete : BOOLEAN, playing : BOOLEAN]
      /\ Len(consumer.queue) < ConsumerLimit
      /\ process.at = "enqueue"
  BY DEF Flow, Shape, ProcessOK, ConsumerOK, Known, EnqueueConsumer, At
<1>2. UNCHANGED <<cfg, producer, heard>>
  BY DEF EnqueueConsumer
<1>3. InHand = one /\ process.packet \in Packet
  BY <1>1, LineTypes DEF Processed
<1>4. process' = [process EXCEPT !.at = "count"]
  BY DEF EnqueueConsumer, Go
<1>5. InHand' = <<>>
  <2>1. process'.at = "count"
    BY <1>1, <1>4
  <2> QED
    BY <2>1, HandEmpty DEF Holding, Processed
<1>6. consumer'.queue = c \o one
  <2> DEFINE longer == Append(c, process.packet)
  <2>1. consumer' = [consumer EXCEPT !.queue = longer]
    BY <1>1 DEF EnqueueConsumer
  <2>2. longer = c \o one
    BY <1>3, LineTypes, AppendIsConcat
  <2> HIDE DEF longer
  <2>3. consumer'.queue = longer
    BY <1>1, <2>1
  <2> QED
    BY <2>2, <2>3
<1>7. BeingRecorded' = r
  BY <1>2 DEF BeingRecorded
<1>8. Line = ((c \o one) \o q) \o r
  BY <1>3 DEF Line
<1>9. Line' = (((c \o one) \o <<>>) \o q) \o r
  BY <1>2, <1>5, <1>6, <1>7 DEF Line
<1>10. c \o one \in Seq(Packet)
  BY <1>3, LineTypes, Joined
<1> HIDE DEF c, q, r, one
<1>11. (c \o one) \o <<>> = c \o one
  BY <1>10, ConcatEmptySeq
<1>12. Line' = Line
  BY <1>8, <1>9, <1>11
<1> QED
  BY <1>2, <1>12 DEF Ordered

\* What the processing makes of a packet has the mark of the packet.
LEMMA OrderedSamples ==
  ASSUME Flow, Ordered, NEW size \in Sizes, ProcessSamples(size)
  PROVE  Ordered'
<1> DEFINE c == consumer.queue
           q == producer.queue
           r == BeingRecorded
           p == process.packet
           made == [process.packet EXCEPT !.size = size]
<1>1. process \in [at : Places, packet : Packet \cup {None}, dropped : Packet \cup {None},
                   pending : BOOLEAN, met : BOOLEAN, dry : BOOLEAN]
  BY DEF Flow, Shape, ProcessOK
<1>2. /\ process.at = "samples" /\ UNCHANGED <<cfg, producer, consumer, heard>>
      /\ process' = [process EXCEPT !.at = "full", !.packet = made]
  BY DEF ProcessSamples, At
<1>3. InHand = <<p>> /\ p \in Packet
  BY <1>2, LineTypes DEF Processed
<1>4. made \in Packet /\ made.mark = p.mark
  BY <1>3 DEF Packet
<1>5. InHand' = <<made>>
  <2> HIDE DEF made
  <2>1. process'.at = "full" /\ process'.packet = made
    BY <1>1, <1>2
  <2> QED
    BY <2>1 DEF InHand, Processed
<1>6. BeingRecorded' = r
  BY <1>2 DEF BeingRecorded
<1>7. c \in Seq(Packet) /\ q \in Seq(Packet) /\ r \in Seq(Packet)
  BY LineTypes
<1>8. Line = ((c \o <<p>>) \o q) \o r
  BY <1>3 DEF Line
<1>9. Line' = ((c \o <<made>>) \o q) \o r
  BY <1>2, <1>5, <1>6 DEF Line
<1>10. Sound(Line, heard.given, heard.marks)
  BY DEF Ordered
<1> HIDE DEF c, q, r, p, made
<1>11. c \o <<p>> \in Seq(Packet) /\ c \o <<made>> \in Seq(Packet) /\ q \o r \in Seq(Packet)
  <2>1. <<p>> \in Seq(Packet) /\ <<made>> \in Seq(Packet)
    BY <1>3, <1>4
  <2> QED
    BY <1>7, <2>1, Joined
<1>12. Line = (c \o <<p>>) \o (q \o r)
  BY SMTT(30), <1>7, <1>8, <1>11, Joined
<1>13. Line' = (c \o <<made>>) \o (q \o r)
  BY SMTT(30), <1>7, <1>9, <1>11, Joined
<1>14. Sound((c \o <<p>>) \o (q \o r), heard.given, heard.marks)
  BY <1>10, <1>12
<1>15. Sound((c \o <<made>>) \o (q \o r), heard.given, heard.marks)
  BY <1>3, <1>4, <1>7, <1>11, <1>14, SoundReplaced
<1> QED
  BY <1>2, <1>13, <1>15 DEF Ordered

\* The next packet is played, or nothing moves.
LEMMA OrderedConsumed ==
  ASSUME Flow, Ordered, ConsumeDelay, cfg' = cfg, producer' = producer, InHand' = InHand
  PROVE  Ordered'
<1>1. consumer \in [queue : Seq(Packet), current : Packet \cup {None},
                    complete : BOOLEAN, playing : BOOLEAN]
  BY DEF Flow, Shape, ConsumerOK
<1>2. CASE ~consumer.complete
  <2>1. heard' = heard /\ consumer' = [consumer EXCEPT !.playing = FALSE]
    BY <1>2 DEF ConsumeDelay
  <2>2. consumer'.queue = consumer.queue
    BY <1>1, <2>1
  <2> QED
    BY <2>1, <2>2, OrderedKept
<1>3. CASE consumer.complete /\ consumer.queue = <<>>
  <2>1. /\ heard' = heard
        /\ consumer' = [consumer EXCEPT !.current = None, !.playing = FALSE, !.complete = FALSE]
    BY <1>3 DEF ConsumeDelay
  <2>2. consumer'.queue = consumer.queue
    BY <1>1, <2>1
  <2> QED
    BY <2>1, <2>2, OrderedKept
<1>4. CASE consumer.complete /\ consumer.queue # <<>>
  <2>1. /\ Hear(Head(consumer.queue))
        /\ consumer' = [consumer EXCEPT !.queue = Tail(@), !.current = Head(consumer.queue),
                                        !.playing = TRUE]
    BY <1>4 DEF ConsumeDelay
  <2>2. consumer'.queue = Tail(consumer.queue)
    BY <1>1, <2>1
  <2> QED
    BY <1>4, <2>1, <2>2, OrderedHeard
<1> QED
  BY <1>2, <1>3, <1>4

\* Every step of the processing, with what becomes of the packet in hand.
LEMMA OrderedProcess ==
  ASSUME Flow, Ordered, Process
  PROVE  Ordered'
<1>1. /\ process \in [at : Places, packet : Packet \cup {None}, dropped : Packet \cup {None},
                      pending : BOOLEAN, met : BOOLEAN, dry : BOOLEAN]
      /\ consumer \in [queue : Seq(Packet), current : Packet \cup {None},
                       complete : BOOLEAN, playing : BOOLEAN]
      /\ After \notin Holding
  BY DEF Flow, Shape, ProcessOK, ConsumerOK, After, Holding, Processed
<1>2. ASSUME CheckBuffering PROVE Ordered'
  <2>1. /\ process.at = "buffering" /\ UNCHANGED <<cfg, producer, heard>>
        /\ Go("start") \/ Go("dequeue")
    BY <1>2 DEF CheckBuffering, At
  <2>2. process'.at \notin Holding /\ process'.packet = process.packet
    BY <1>1, <2>1 DEF Go, Holding, Processed
  <2>3. InHand' = InHand
    BY <2>1, <2>2, HandKept DEF Holding, Processed
  <2>4. consumer' = [consumer EXCEPT !.complete = TRUE] \/ consumer' = consumer
    BY <1>2 DEF CheckBuffering
  <2>5. consumer'.queue = consumer.queue
    BY <1>1, <2>4
  <2> QED
    BY <2>1, <2>3, <2>5, OrderedKept
<1>3. ASSUME StartConsumer PROVE Ordered'
  <2>1. process.at = "start" /\ Go("dequeue") /\ UNCHANGED <<cfg, producer>>
    BY <1>3 DEF StartConsumer, At
  <2>2. process'.at \notin Holding /\ process'.packet = process.packet
    BY <1>1, <2>1 DEF Go, Holding, Processed
  <2>3. InHand' = InHand
    BY <2>1, <2>2, HandKept DEF Holding, Processed
  <2>4. ConsumeDelay \/ UNCHANGED <<consumer, heard>>
    BY <1>3 DEF StartConsumer
  <2> QED
    BY <2>1, <2>3, <2>4, OrderedConsumed, OrderedKept
<1>4. ASSUME CopyInput PROVE Ordered'
  <2>1. process.at = "copy" /\ UNCHANGED <<cfg, producer, consumer, heard>>
    BY <1>4 DEF CopyInput, At
  <2>2. CASE free.processing > 0
    <3>1. process'.at = "samples" /\ process'.packet = process.packet
      BY <1>1, <1>4, <2>2 DEF CopyInput, Go
    <3>2. InHand' = InHand
      BY <2>1, <3>1, HandKept DEF Holding, Processed
    <3> QED
      BY <2>1, <3>2, OrderedKept
  <2>3. CASE ~(free.processing > 0)
    <3>1. process' = [process EXCEPT !.at = "halted", !.packet = None]
      BY <1>4, <2>3 DEF CopyInput
    <3>2. process'.at = "halted"
      BY <1>1, <3>1
    <3>3. InHand' = <<>>
      BY <3>2, HandEmpty DEF Holding, Processed
    <3> QED
      BY <2>1, <3>3, OrderedLost
  <2> QED
    BY <2>2, <2>3
<1>5. ASSUME ProcessFails PROVE Ordered'
  <2>1. /\ UNCHANGED <<cfg, producer, consumer, heard>>
        /\ \E place \in {After, "halted"} :
             process' = [process EXCEPT !.at = place, !.packet = None]
    BY <1>5 DEF ProcessFails, FailsTo
  <2>2. process'.at \in {After, "halted"}
    BY <1>1, <2>1
  <2>3. InHand' = <<>>
    BY <1>1, <2>2, HandEmpty DEF Holding, Processed
  <2> QED
    BY <2>1, <2>3, OrderedLost
<1>6. ASSUME CheckFull \/ CheckPool PROVE Ordered'
  <2>1. /\ process.at \in {"full", "pool"} /\ UNCHANGED <<cfg, producer, consumer, heard>>
        /\ Go("pool") \/ Go("take") \/ Go("drop")
    BY <1>6 DEF CheckFull, CheckPool, At
  <2>2. process'.at \in {"pool", "take", "drop"} /\ process'.packet = process.packet
    BY <1>1, <2>1 DEF Go
  <2>3. InHand' = InHand
    BY <2>1, <2>2, HandKept DEF Holding, Processed
  <2> QED
    BY <2>1, <2>3, OrderedKept
<1>7. ASSUME DropOldest PROVE Ordered'
  <2>1. process.at = "drop" /\ UNCHANGED <<cfg, producer, heard>>
    BY <1>7 DEF DropOldest, At
  <2>2. \/ process' = [process EXCEPT !.at = "dropped", !.dry = TRUE]
        \/ process' = [process EXCEPT !.at = "dropped", !.dropped = Head(consumer.queue)]
    BY <1>7 DEF DropOldest
  <2>3. process'.at = "dropped" /\ process'.packet = process.packet
    BY <1>1, <2>2
  <2>4. InHand' = InHand
    BY <2>1, <2>3, HandKept DEF Holding, Processed
  <2>5. CASE consumer.queue = <<>>
    <3>1. consumer' = consumer
      BY <1>7, <2>5 DEF DropOldest
    <3> QED
      BY <2>1, <2>4, <3>1, OrderedKept
  <2>6. CASE consumer.queue # <<>>
    <3>1. consumer' = [consumer EXCEPT !.queue = Tail(@)]
      BY <1>7, <2>6 DEF DropOldest
    <3>2. consumer'.queue = Tail(consumer.queue)
      BY <1>1, <3>1
    <3> QED
      BY <2>1, <2>4, <2>6, <3>2, OrderedDropped
  <2> QED
    BY <2>5, <2>6
<1>8. ASSUME Dropped PROVE Ordered'
  <2>1. /\ process.at = "dropped" /\ UNCHANGED <<cfg, producer, consumer, heard>>
        /\ process' = [process EXCEPT !.at = "take", !.dropped = None]
    BY <1>8 DEF Dropped, At
  <2>2. process'.at = "take" /\ process'.packet = process.packet
    BY <1>1, <2>1
  <2>3. InHand' = InHand
    BY <2>1, <2>2, HandKept DEF Holding, Processed
  <2> QED
    BY <2>1, <2>3, OrderedKept
<1>9. ASSUME TakeNode PROVE Ordered'
  <2>1. process.at = "take" /\ UNCHANGED <<cfg, producer, consumer, heard>>
    BY <1>9 DEF TakeNode, At
  <2>2. CASE Go("enqueue")
    <3>1. process'.at = "enqueue" /\ process'.packet = process.packet
      BY <1>1, <2>2 DEF Go
    <3>2. InHand' = InHand
      BY <2>1, <3>1, HandKept DEF Holding, Processed
    <3> QED
      BY <2>1, <3>2, OrderedKept
  <2>3. CASE Go("error")
    <3>1. process'.at = "error"
      BY <1>1, <2>3 DEF Go
    <3>2. InHand' = <<>>
      BY <3>1, HandEmpty DEF Holding, Processed
    <3> QED
      BY <2>1, <3>2, OrderedLost
  <2> QED
    BY <1>9, <2>2, <2>3 DEF TakeNode
<1>10. ASSUME CountSamples PROVE Ordered'
  <2>1. process.at = "count" /\ Go("finish") /\ UNCHANGED <<cfg, producer, consumer, heard>>
    BY <1>10 DEF CountSamples, At
  <2>2. process'.at = "finish" /\ process'.packet = process.packet
    BY <1>1, <2>1 DEF Go
  <2>3. InHand' = InHand
    BY <2>1, <2>2, HandKept DEF Holding, Processed
  <2> QED
    BY <2>1, <2>3, OrderedKept
<1>11. ASSUME FreeOutput PROVE Ordered'
  <2>1. /\ UNCHANGED <<cfg, producer, consumer, heard>>
        /\ \E place \in {After, "halted"} :
             process' = [process EXCEPT !.at = place, !.packet = None]
    BY <1>11 DEF FreeOutput
  <2>2. process'.at \in {After, "halted"}
    BY <1>1, <2>1
  <2>3. InHand' = <<>>
    BY <1>1, <2>2, HandEmpty DEF Holding, Processed
  <2> QED
    BY <2>1, <2>3, OrderedLost
<1>12. ASSUME ConsumeAfter PROVE Ordered'
  <2>1. process.at = "consume" /\ Go("idle") /\ UNCHANGED <<cfg, producer>>
    BY <1>12 DEF ConsumeAfter, At
  <2>2. process'.at = "idle" /\ process'.packet = process.packet
    BY <1>1, <2>1 DEF Go
  <2>3. InHand' = InHand
    BY <2>1, <2>2, HandKept DEF Holding, Processed
  <2>4. CASE UNCHANGED <<consumer, heard>>
    BY <2>1, <2>3, <2>4, OrderedKept
  <2>5. CASE consumer.queue # <<>> /\ ConsumeNoDelay
    <3>1. Hear(Head(consumer.queue)) /\ consumer' = [consumer EXCEPT !.queue = Tail(@)]
      BY <2>5 DEF ConsumeNoDelay
    <3>2. consumer'.queue = Tail(consumer.queue)
      BY <1>1, <3>1
    <3> QED
      BY <2>1, <2>3, <2>5, <3>1, <3>2, OrderedHeard
  <2> QED
    BY <1>12, <2>4, <2>5 DEF ConsumeAfter
<1> QED
  BY <1>2, <1>3, <1>4, <1>5, <1>6, <1>7, <1>8, <1>9, <1>10, <1>11, <1>12,
     OrderedDequeue, OrderedEnqueue, OrderedSamples DEF Process, ProcessAny

LEMMA OrderedStep ==
  ASSUME Flow, Ordered, [Next]_vars
  PROVE  Ordered'
<1>1. /\ process \in [at : Places, packet : Packet \cup {None}, dropped : Packet \cup {None},
                      pending : BOOLEAN, met : BOOLEAN, dry : BOOLEAN]
      /\ producer \in [queue : Seq(Packet), current : Packet \cup {None}, on : BOOLEAN]
      /\ consumer \in [queue : Seq(Packet), current : Packet \cup {None},
                       complete : BOOLEAN, playing : BOOLEAN]
  BY DEF Flow, Shape, ProcessOK, ProducerOK, ConsumerOK
<1>2. ASSUME process' = [process EXCEPT !.pending = TRUE] PROVE InHand' = InHand
  <2>1. process'.at = process.at /\ process'.packet = process.packet
    BY <1>1, <1>2
  <2> QED
    BY <2>1, HandKept
<1>3. ASSUME ProduceAny PROVE Ordered'
  <2>1. PICK mark \in Marks \cup {"plain"}, samples \in BOOLEAN : Produce(mark, samples)
    BY <1>3 DEF ProduceAny
  <2>2. UNCHANGED <<cfg, consumer>>
    BY <2>1 DEF Produce
  <2>3. CASE cfg.producerDelayed
    <3>1. Record(mark)
      BY <2>1, <2>3 DEF Produce
    <3>2. InHand' = InHand
      BY <1>2, <3>1 DEF Record
    <3> QED
      BY <2>2, <2>3, <3>1, <3>2, OrderedRecord
  <2>4. CASE ~cfg.producerDelayed
    <3>1. Receive(mark, samples)
      BY <2>1, <2>4 DEF Produce
    <3>2. InHand' = InHand
      BY <1>2, <3>1 DEF Receive
    <3> QED
      BY <2>2, <2>4, <3>1, <3>2, OrderedReceive
  <2> QED
    BY <2>3, <2>4
<1>4. ASSUME Played PROVE Ordered'
  <2>1. /\ ConsumeDelay /\ UNCHANGED <<cfg, producer>>
        /\ process' = [process EXCEPT !.met = process.at # "idle"]
    BY <1>4 DEF Played
  <2>2. process'.at = process.at /\ process'.packet = process.packet
    BY <1>1, <2>1
  <2>3. InHand' = InHand
    BY <2>2, HandKept
  <2> QED
    BY <2>1, <2>3, OrderedConsumed
<1>5. ASSUME FrameSent \/ Tick PROVE Ordered'
  <2>1. /\ UNCHANGED <<cfg, producer, consumer, heard>>
        /\ process' = [process EXCEPT !.pending = TRUE]
    BY <1>5 DEF FrameSent, Tick
  <2> QED
    BY <1>2, <2>1, OrderedKept
<1>6. ASSUME Trigger PROVE Ordered'
  <2> DEFINE at == IF ~cfg.consumerDelayed /\ producer.queue = <<>> THEN "consume" ELSE "buffering"
  <2>1. /\ process.at = "idle" /\ UNCHANGED <<cfg, producer, consumer, heard>>
        /\ process' = [process EXCEPT !.at = at, !.pending = FALSE, !.met = FALSE]
    BY <1>6 DEF Trigger, At
  <2>2. at \in {"consume", "buffering"}
    OBVIOUS
  <2> HIDE DEF at
  <2>3. process'.at = at /\ process'.packet = process.packet
    BY <1>1, <2>1
  <2>4. InHand' = InHand
    BY <2>1, <2>2, <2>3, HandKept DEF Holding, Processed
  <2> QED
    BY <2>1, <2>4, OrderedKept
<1>7. ASSUME Start PROVE Ordered'
  <2>1. UNCHANGED <<cfg, consumer>>
    BY <1>7 DEF Start
  <2>2. CASE cfg.producerDelayed
    <3>1. PICK mark \in Marks \cup {"plain"} : Record(mark)
      BY <1>7, <2>2 DEF Start
    <3>2. InHand' = InHand
      BY <1>2, <3>1 DEF Record
    <3> QED
      BY <2>1, <2>2, <3>1, <3>2, OrderedRecord
  <2>3. CASE ~cfg.producerDelayed
    <3>1. UNCHANGED <<producer, process, heard>>
      BY <1>7, <2>3 DEF Start
    <3>2. InHand' = InHand
      BY <3>1, HandKept
    <3> QED
      BY <2>1, <3>1, <3>2, OrderedKept
  <2> QED
    BY <2>2, <2>3
<1>8. ASSUME StopConsumer \/ StopProducer PROVE Ordered'
  <2>1. UNCHANGED <<cfg, process, heard>>
    BY <1>8 DEF StopConsumer, StopProducer
  <2>2. producer'.queue = producer.queue /\ producer'.current = producer.current
    BY <1>1, <1>8 DEF StopConsumer, StopProducer
  <2>3. consumer'.queue = consumer.queue
    BY <1>1, <1>8 DEF StopConsumer, StopProducer
  <2>4. InHand' = InHand
    BY <2>1, HandKept
  <2> QED
    BY <2>1, <2>2, <2>3, <2>4, OrderedKept
<1>9. ASSUME FreeCurrent PROVE Ordered'
  <2>1. /\ UNCHANGED <<cfg, process, consumer, heard>>
        /\ producer' = [producer EXCEPT !.current = None]
    BY <1>9 DEF FreeCurrent
  <2>2. producer'.queue = producer.queue /\ producer'.current = None
    BY <1>1, <2>1
  <2>3. InHand' = InHand
    BY <2>1, HandKept
  <2> DEFINE front == (consumer.queue \o InHand) \o producer.queue
             r == BeingRecorded
  <2>4. Line = front \o r /\ Line' = front \o <<>>
    <3>1. BeingRecorded' = <<>>
      BY <2>2 DEF BeingRecorded
    <3> QED
      BY <2>1, <2>2, <2>3, <3>1 DEF Line
  <2>5. front \in Seq(Packet) /\ r \in Seq(Packet)
    <3>1. consumer.queue \o InHand \in Seq(Packet) /\ producer.queue \in Seq(Packet)
      BY LineTypes, Joined
    <3> QED
      BY <3>1, LineTypes, Joined
  <2>6. Sound(Line, heard.given, heard.marks)
    BY DEF Ordered
  <2> HIDE DEF front, r
  <2>7. <<>> \in Seq(Packet)
    BY EmptySeq
  <2>8. Sound((front \o r) \o <<>>, heard.given, heard.marks)
    <3>1. front \o r \in Seq(Packet)
      BY <2>5, Joined
    <3>2. (front \o r) \o <<>> = front \o r
      BY <3>1, ConcatEmptySeq
    <3> QED
      BY <2>4, <2>6, <3>2
  <2>9. Sound(front \o <<>>, heard.given, heard.marks)
    BY <2>5, <2>7, <2>8, SoundRemoved
  <2> QED
    BY <2>1, <2>2, <2>4, <2>9 DEF Ordered
<1>10. ASSUME UNCHANGED vars PROVE Ordered'
  <2>1. UNCHANGED <<cfg, producer, process, consumer, heard>>
    BY <1>10 DEF vars
  <2>2. InHand' = InHand
    BY <2>1, HandKept
  <2> QED
    BY <2>1, <2>2, OrderedKept
<1> QED
  BY <1>3, <1>4, <1>5, <1>6, <1>7, <1>8, <1>9, <1>10, OrderedProcess DEF Next

LEMMA OrderedInit ==
  ASSUME Init
  PROVE  Ordered
<1>1. /\ consumer.queue = <<>> /\ producer.queue = <<>> /\ producer.current = None
      /\ process.at = "idle" /\ heard.given = {} /\ heard.marks = {}
  BY DEF Init
<1>2. InHand = <<>> /\ BeingRecorded = <<>>
  BY <1>1 DEF InHand, BeingRecorded, Processed
<1>3. Line = <<>>
  BY <1>1, <1>2 DEF Line
<1>4. Sound(<<>>, {}, {})
  BY DEF Sound
<1> QED
  BY <1>1, <1>3, <1>4 DEF Ordered

\* What is heard is in the order in which it was recorded, and heard once, in
\* every setting, whatever is dropped and whatever fails on the way.
THEOREM PipelineHeardInOrder == Spec => []HeardInOrder
<1>1. Init => Ordered
  BY OrderedInit
<1>2. Flow /\ Ordered /\ [Next]_vars => Ordered'
  BY OrderedStep
<1>3. Ordered => HeardInOrder
  BY DEF Ordered, Sound, HeardInOrder
<1> QED
  BY <1>1, <1>2, <1>3, FlowInvariant, PTL DEF Spec
===============================================================================
