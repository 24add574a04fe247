----------------------------- MODULE SacPipeline -----------------------------
(***************************************************************************)
(* A pipeline of the audio core (sac_api.c): a producer, the processing    *)
(* of its packets and a consumer, with a queue of packets on either side   *)
(* of the processing and a pool of nodes for each of the three.            *)
(*                                                                         *)
(* The producer and a consumer that is delayed run in interrupts, that of  *)
(* the codec's transfers and that of the radio's callbacks; the processing *)
(* runs in the interrupt of a timer, which both come between.  Access to a *)
(* queue is a critical section, what is done from one to the next is not.  *)
(* The producer and the consumer share nothing, so that each of their      *)
(* calls is one step, and a run of the processing takes many.              *)
(*                                                                         *)
(* A processing that ends in an error halts: the callback of the timer     *)
(* hands it to sac_error_handler, which does not return, and only the      *)
(* interrupts that come before the timer's go on.                          *)
(*                                                                         *)
(* Nodes are counted and not named; what a packet is to the listener is a  *)
(* mark.  A definition named Bug... is the one below it with a plausible   *)
(* slip, kept to show that a property notices.                             *)
(***************************************************************************)
EXTENDS Integers, Sequences, FiniteSets

CONSTANTS
  Settings,          \* how the pipeline is set up and used
  ProducerSize,      \* cfg.queue_size of the producer
  WirelessSize,      \* frames the wireless core takes from a consumer
  Sizes,             \* sizes of the payloads processing makes
  ConsumerCapacity,  \* the largest payload a node of the consumer holds
  SizeModulus        \* bound: samples_buffered_size wraps there, and not at 2^32

SettingsType ==
  [producerDelayed : BOOLEAN,  \* the producer is the codec, and not the radio
   consumerDelayed : BOOLEAN,  \* the consumer is the codec, and not the radio
   queueSize : 1 .. 254,       \* cfg.queue_size of the consumer
   extra : Nat,                \* extra_queue_size, for the clock drift compensation
   buffering : BOOLEAN,        \* do_initial_buffering
   started : BOOLEAN,          \* the application calls sac_pipeline_start
   prompt : BOOLEAN]           \* the processing of a packet is shorter than the packet

ASSUME PipelineAssumption ==
  /\ Settings \subseteq SettingsType
  /\ \A c \in Settings : c.producerDelayed => c.started
  /\ ProducerSize \in Nat \ {0} /\ WirelessSize \in Nat \ {0}
  /\ Sizes \subseteq Nat \ {0} /\ \E s \in Sizes : s <= ConsumerCapacity
  /\ ConsumerCapacity \in Nat /\ SizeModulus \in Nat
  /\ \A c \in Settings : SizeModulus > ConsumerCapacity * (c.queueSize + c.extra + 1)

VARIABLES
  cfg,       \* the setting
  free,      \* length of each pool of free nodes
  producer,  \* queue, current_node, and whether it runs
  process,   \* sac_pipeline_process: where it is and what it holds; the timer event
  consumer,  \* queue, current_node, buffering_complete; whether a transfer runs
  buffered,  \* samples_buffered_size
  wireless,  \* room in the transmit queue of the wireless core
  app,       \* the application, and buffering_threshold
  heard      \* history: the marks given to packets, and those heard by the listener

vars == <<cfg, free, producer, process, consumer, buffered, wireless, app, heard>>

Marks == {"first", "second"}
None == [mark |-> "none", size |-> 0]
Packet == [mark : Marks \cup {"plain"}, size : Sizes \cup {0}]

\* queue_init_queue: limits, and PROCESSING_NODE_COUNT.
ConsumerLimit == cfg.queueSize + cfg.extra
ProcessingNodes == 2

BugProducerNodes == ProducerSize + 1
\* One node for the action and one for the input of the processing.
ProducerNodes == ProducerSize + 2
ConsumerNodes == ConsumerLimit + (IF cfg.consumerDelayed THEN 1 ELSE 0)

\* The samples of the packets of a queue, each by its place.
Samples(queue) == UNION {{<<i, k>> : k \in 1 .. queue[i].size} : i \in DOMAIN queue}
Total(queue) == Cardinality(Samples(queue))

\* The count after another: one that read a size where there was no node means
\* nothing, and is not followed any further.
Counted(count) == IF process.dry THEN buffered ELSE count % SizeModulus
Less(size) == Counted(buffered + SizeModulus - size)

Init ==
  /\ cfg \in Settings
  /\ free = [producer |-> ProducerNodes, processing |-> ProcessingNodes, consumer |-> ConsumerNodes]
  /\ producer = [queue |-> <<>>, current |-> None, on |-> ~cfg.producerDelayed]
  /\ process = [at |-> "idle", packet |-> None, dropped |-> None, pending |-> FALSE,
                met |-> FALSE, dry |-> FALSE]
  /\ consumer = [queue |-> <<>>, current |-> None, complete |-> FALSE, playing |-> FALSE]
  /\ buffered = 0
  /\ wireless = WirelessSize
  /\ app = [at |-> IF cfg.started THEN "set up" ELSE "run", threshold |-> 0]
  /\ heard = [given |-> {}, marks |-> {}]
------------------------------------------------------------------------------
(* The producer *)

\* enqueue_producer_node: the oldest packet goes when the queue is full.
Enqueued(queue, packet) ==
  IF Len(queue) < ProducerSize THEN Append(queue, packet) ELSE Append(Tail(queue), packet)

\* What enqueue_producer_node gives back to the pool.
Replaced(queue) == IF Len(queue) < ProducerSize THEN 0 ELSE 1

\* What the endpoint records next.
Recorded(mark) ==
  /\ mark \in {"plain"} \cup (IF heard.given = {} THEN {"first"} ELSE Marks \ heard.given)
  /\ heard' = [heard EXCEPT !.given = @ \cup ({mark} \cap Marks)]

\* produce of an endpoint that records for as long as a packet: the packet
\* recorded is queued and the next begins.  Without a node none begins, and
\* none ever will.
Record(mark) ==
  LET queued == producer.current # None
      nodes == free.producer + (IF queued THEN Replaced(producer.queue) ELSE 0)
      queue == IF queued THEN Enqueued(producer.queue, producer.current) ELSE producer.queue
  IN  /\ process' = [process EXCEPT !.pending = TRUE]
      /\ IF nodes > 0
         THEN /\ Recorded(mark)
              /\ free' = [free EXCEPT !.producer = nodes - 1]
              /\ producer' = [queue |-> queue, current |-> [mark |-> mark, size |-> 0], on |-> TRUE]
         ELSE /\ free' = [free EXCEPT !.producer = nodes]
              /\ producer' = [queue |-> queue, current |-> None, on |-> FALSE]
              /\ UNCHANGED heard

\* produce of an endpoint that has the packet: one with no samples in it is
\* not queued.  Without a node the frame is left unread.
Receive(mark, samples) ==
  /\ process' = [process EXCEPT !.pending = TRUE]
  /\ IF free.producer > 0 /\ samples
     THEN /\ Recorded(mark)
          /\ free' = [free EXCEPT !.producer = @ - 1 + Replaced(producer.queue)]
          /\ producer' = [producer EXCEPT !.queue = Enqueued(@, [mark |-> mark, size |-> 0])]
     ELSE UNCHANGED <<free, producer, heard>>

\* sac_pipeline_produce, in the interrupt of the codec or in a callback of the
\* radio, and the trigger of the timer.
Produce(mark, samples) ==
  /\ producer.on
  /\ IF cfg.producerDelayed THEN samples /\ Record(mark) ELSE Receive(mark, samples)
  /\ UNCHANGED <<cfg, consumer, buffered, wireless, app>>

ProduceAny == \E mark \in Marks \cup {"plain"}, samples \in BOOLEAN : Produce(mark, samples)
ProduceSamples == \E mark \in Marks \cup {"plain"} : Produce(mark, TRUE)
------------------------------------------------------------------------------
(* The consumer *)

Hear(packet) ==
  heard' = [heard EXCEPT !.marks = @ \cup ({packet.mark} \cap Marks)]

BugFreedCurrent == [free EXCEPT !.consumer = @ + 1]
\* The node consumed goes back to the pool.
FreedCurrent ==
  IF consumer.current = None THEN free
  ELSE [free EXCEPT !.consumer = @ + 1]

BugConsumeDelay ==
  IF ~consumer.complete
  THEN UNCHANGED <<free, buffered, heard>> /\ consumer' = [consumer EXCEPT !.playing = FALSE]
  ELSE /\ free' = FreedCurrent
       /\ IF consumer.queue = <<>>
          THEN /\ consumer' = [consumer EXCEPT !.current = None, !.playing = FALSE]
               /\ UNCHANGED <<buffered, heard>>
          ELSE LET packet == Head(consumer.queue)
               IN  /\ consumer' = [consumer EXCEPT !.queue = Tail(@), !.current = packet,
                                                   !.playing = TRUE]
                   /\ buffered' = Less(packet.size)
                   /\ Hear(packet)

\* consume_delay: the next packet is played, or there is none and the
\* consumer waits to be started again.
ConsumeDelay ==
  IF ~consumer.complete
  THEN UNCHANGED <<free, buffered, heard>> /\ consumer' = [consumer EXCEPT !.playing = FALSE]
  ELSE /\ free' = FreedCurrent
       /\ IF consumer.queue = <<>>
          THEN /\ consumer' = [consumer EXCEPT !.current = None, !.playing = FALSE,
                                               !.complete = FALSE]
               /\ UNCHANGED <<buffered, heard>>
          ELSE LET packet == Head(consumer.queue)
               IN  /\ consumer' = [consumer EXCEPT !.queue = Tail(@), !.current = packet,
                                                   !.playing = TRUE]
                   /\ buffered' = Less(packet.size)
                   /\ Hear(packet)

\* A packet has been played: sac_pipeline_consume in the codec's interrupt.
Played ==
  /\ consumer.playing
  /\ cfg.prompt /\ process.met => process.at = "halted"
  /\ ConsumeDelay
  /\ process' = [process EXCEPT !.met = process.at # "idle"]
  /\ UNCHANGED <<cfg, producer, wireless, app>>

\* consume_no_delay of a packet the wireless core has room for.
ConsumeNoDelay ==
  LET packet == Head(consumer.queue)
  IN  /\ free' = [free EXCEPT !.consumer = @ + 1]
      /\ consumer' = [consumer EXCEPT !.queue = Tail(@)]
      /\ buffered' = Less(packet.size)
      /\ wireless' = wireless - 1
      /\ Hear(packet)

\* A frame is acknowledged: its place is free, and the timer triggered.
FrameSent ==
  /\ ~cfg.consumerDelayed /\ wireless < WirelessSize /\ app.at = "run"
  /\ wireless' = wireless + 1
  /\ process' = [process EXCEPT !.pending = TRUE]
  /\ UNCHANGED <<cfg, free, producer, consumer, buffered, app, heard>>
------------------------------------------------------------------------------
(* The processing, in the interrupt of the timer *)

At(place) == process.at = place
Go(place) == process' = [process EXCEPT !.at = place]

\* What follows sac_pipeline_process in the callback of the timer.
After == IF cfg.consumerDelayed THEN "idle" ELSE "consume"

\* The callback of a radio consumer looks at the queues first.
Trigger ==
  /\ At("idle") /\ process.pending
  /\ process' = [process EXCEPT
       !.at = IF ~cfg.consumerDelayed /\ producer.queue = <<>> THEN "consume" ELSE "buffering",
       !.pending = FALSE, !.met = FALSE]
  /\ UNCHANGED <<cfg, free, producer, consumer, buffered, wireless, app, heard>>

\* The timer runs out without being triggered.
Tick ==
  /\ ~process.pending /\ app.at \in {"set up", "run"}
  /\ process' = [process EXCEPT !.pending = TRUE]
  /\ UNCHANGED <<cfg, free, producer, consumer, buffered, wireless, app, heard>>

CheckBuffering ==
  /\ At("buffering")
  /\ IF ~consumer.complete /\ Len(consumer.queue) >= app.threshold
     THEN consumer' = [consumer EXCEPT !.complete = TRUE] /\ Go("start")
     ELSE UNCHANGED consumer /\ Go("dequeue")
  /\ UNCHANGED <<cfg, free, producer, buffered, wireless, app, heard>>

\* iface.start: the codec consumes a first packet at once; the transmit queue
\* of the wireless core is filled with empty payloads.
StartConsumer ==
  /\ At("start")
  /\ Go("dequeue")
  /\ IF cfg.consumerDelayed
     THEN ConsumeDelay /\ UNCHANGED wireless
     ELSE wireless' = 0 /\ UNCHANGED <<free, consumer, buffered, heard>>
  /\ UNCHANGED <<cfg, producer, app>>

DequeueProducer ==
  /\ At("dequeue")
  /\ IF producer.queue = <<>>
     THEN Go(After) /\ UNCHANGED producer
     ELSE /\ process' = [process EXCEPT !.at = "copy", !.packet = Head(producer.queue)]
          /\ producer' = [producer EXCEPT !.queue = Tail(@)]
  /\ UNCHANGED <<cfg, free, consumer, buffered, wireless, app, heard>>

\* The packet is copied to a processing node, and the producer's freed.  No
\* node to copy to is an error.
CopyInput ==
  /\ At("copy")
  /\ IF free.processing > 0
     THEN /\ Go("samples")
          /\ free' = [free EXCEPT !.processing = @ - 1, !.producer = @ + 1]
     ELSE /\ process' = [process EXCEPT !.at = "halted", !.packet = None]
          /\ free' = [free EXCEPT !.producer = @ + 1]
  /\ UNCHANGED <<cfg, producer, consumer, buffered, wireless, app, heard>>

\* Where process_samples goes without a packet: that no node is left for a
\* stage is a warning, the failure of a stage an error.
FailsTo == {"halted"} \cup (IF free.processing = 0 THEN {After} ELSE {})

BugProcessFails ==
  /\ At("samples")
  /\ \E place \in FailsTo : process' = [process EXCEPT !.at = place, !.packet = None]
  /\ UNCHANGED <<cfg, free, producer, consumer, buffered, wireless, app, heard>>

\* process_samples: a stage fails, or finds no node for what it makes.
ProcessFails ==
  /\ At("samples")
  /\ \E place \in FailsTo : process' = [process EXCEPT !.at = place, !.packet = None]
  /\ free' = [free EXCEPT !.processing = @ + 1]
  /\ UNCHANGED <<cfg, producer, consumer, buffered, wireless, app, heard>>

\* process_samples, each stage taking a second node and leaving one.
ProcessSamples(size) ==
  /\ At("samples") /\ free.processing > 0
  /\ process' = [process EXCEPT !.at = "full", !.packet.size = size]
  /\ UNCHANGED <<cfg, free, producer, consumer, buffered, wireless, app, heard>>

ProcessAny == ProcessFails \/ \E size \in Sizes : ProcessSamples(size)
------------------------------------------------------------------------------
(* move_audio_packet_to_consumer_queue *)

\* is_consumer_overflowing reads the length of the queue, then the rest.
CheckFull ==
  /\ At("full")
  /\ Go(IF Len(consumer.queue) = ConsumerLimit THEN "pool" ELSE "take")
  /\ UNCHANGED <<cfg, free, producer, consumer, buffered, wireless, app, heard>>

\* A node is kept for the consumption, unless it is under way.
NodesKept == IF cfg.consumerDelayed /\ consumer.current = None THEN 1 ELSE 0

CheckPool ==
  /\ At("pool")
  /\ Go(IF free.consumer <= NodesKept THEN "drop" ELSE "take")
  /\ UNCHANGED <<cfg, free, producer, consumer, buffered, wireless, app, heard>>

\* The oldest packet goes, or there is none any more.
DropOldest ==
  /\ At("drop")
  /\ IF consumer.queue = <<>>
     THEN process' = [process EXCEPT !.at = "dropped", !.dry = TRUE] /\ UNCHANGED consumer
     ELSE /\ process' = [process EXCEPT !.at = "dropped", !.dropped = Head(consumer.queue)]
          /\ consumer' = [consumer EXCEPT !.queue = Tail(@)]
  /\ UNCHANGED <<cfg, free, producer, buffered, wireless, app, heard>>

BugDropped ==
  /\ At("dropped")
  /\ process' = [process EXCEPT !.at = "take", !.dropped = None]
  /\ free' = IF process.dropped = None THEN free ELSE [free EXCEPT !.consumer = @ + 1]
  /\ UNCHANGED <<cfg, producer, consumer, buffered, wireless, app, heard>>

Dropped ==
  /\ At("dropped")
  /\ process' = [process EXCEPT !.at = "take", !.dropped = None]
  /\ IF process.dropped = None
     THEN UNCHANGED <<free, buffered>>
     ELSE free' = [free EXCEPT !.consumer = @ + 1] /\ buffered' = Less(process.dropped.size)
  /\ UNCHANGED <<cfg, producer, consumer, wireless, app, heard>>

\* A node for the packet: to have none, or one too small, is an error.
TakeNode ==
  /\ At("take")
  /\ IF free.consumer > 0 /\ process.packet.size <= ConsumerCapacity
     THEN Go("enqueue") /\ free' = [free EXCEPT !.consumer = @ - 1]
     ELSE Go("error") /\ UNCHANGED free
  /\ UNCHANGED <<cfg, producer, consumer, buffered, wireless, app, heard>>

BugEnqueueConsumer ==
  /\ At("enqueue") /\ Go("count")
  /\ consumer' = [consumer EXCEPT !.queue =
                    IF Len(@) < ConsumerLimit THEN <<process.packet>> \o @ ELSE @]
  /\ UNCHANGED <<cfg, free, producer, buffered, wireless, app, heard>>

\* queue_enqueue_node refuses a node when the queue is full, which is not looked at.
EnqueueConsumer ==
  /\ At("enqueue") /\ Go("count")
  /\ consumer' = [consumer EXCEPT !.queue =
                    IF Len(@) < ConsumerLimit THEN Append(@, process.packet) ELSE @]
  /\ UNCHANGED <<cfg, free, producer, buffered, wireless, app, heard>>

\* The size is read from the node, which the consumer may have freed by now.
CountSamples ==
  /\ At("count") /\ Go("finish")
  /\ buffered' = Counted(buffered + process.packet.size)
  /\ UNCHANGED <<cfg, free, producer, consumer, wireless, app, heard>>

\* The end of sac_pipeline_process.
FreeOutput ==
  /\ process.at \in {"finish", "error"}
  /\ process' = [process EXCEPT !.at = IF @ = "error" THEN "halted" ELSE After, !.packet = None]
  /\ free' = [free EXCEPT !.processing = @ + 1]
  /\ UNCHANGED <<cfg, producer, consumer, buffered, wireless, app, heard>>

\* sac_pipeline_consume after the processing, with one packet for each call.
ConsumeAfter ==
  /\ At("consume") /\ Go("idle")
  /\ IF consumer.queue # <<>> /\ consumer.complete /\ wireless > 0
     THEN ConsumeNoDelay
     ELSE UNCHANGED <<free, consumer, buffered, wireless, heard>>
  /\ UNCHANGED <<cfg, producer, app>>

Process ==
  \/ CheckBuffering \/ StartConsumer \/ DequeueProducer \/ CopyInput \/ ProcessAny
  \/ CheckFull \/ CheckPool \/ DropOldest \/ Dropped \/ TakeNode \/ EnqueueConsumer
  \/ CountSamples \/ FreeOutput \/ ConsumeAfter
------------------------------------------------------------------------------
(* The application, which every interrupt comes before *)

Idle == At("idle") /\ ~process.pending

\* sac_pipeline_start; the codec begins to record at once.
Start ==
  /\ app.at = "set up" /\ Idle
  /\ app' = [at |-> "run", threshold |-> IF cfg.buffering THEN cfg.queueSize - 1 ELSE 1]
  /\ IF cfg.producerDelayed
     THEN \E mark \in Marks \cup {"plain"} : Record(mark)
     ELSE UNCHANGED <<free, producer, process, heard>>
  /\ UNCHANGED <<cfg, consumer, buffered, wireless>>

\* The application stops the timer and the wireless core, then calls
\* sac_pipeline_stop, which stops the consumer and the producer.
StopConsumer ==
  /\ app.at = "run" /\ Idle
  /\ app' = [app EXCEPT !.at = "stopping"]
  /\ producer' = [producer EXCEPT !.on = cfg.producerDelayed /\ @]
  /\ consumer' = [consumer EXCEPT !.playing = FALSE]
  /\ UNCHANGED <<cfg, free, process, buffered, wireless, heard>>

StopProducer ==
  /\ app.at = "stopping" /\ Idle
  /\ app' = [app EXCEPT !.at = "free"]
  /\ producer' = [producer EXCEPT !.on = FALSE]
  /\ UNCHANGED <<cfg, free, process, consumer, buffered, wireless, heard>>

FreeCurrent ==
  /\ app.at = "free" /\ Idle
  /\ app' = [app EXCEPT !.at = "stopped"]
  /\ producer' = [producer EXCEPT !.current = None]
  /\ free' = IF producer.current = None THEN free ELSE [free EXCEPT !.producer = @ + 1]
  /\ UNCHANGED <<cfg, process, consumer, buffered, wireless, heard>>

Next ==
  \/ ProduceAny \/ Played \/ FrameSent
  \/ Tick \/ Trigger \/ Process
  \/ Start \/ StopConsumer \/ StopProducer \/ FreeCurrent

Spec == Init /\ [][Next]_vars

\* Interrupts are served; the codec's transfers end; frames with samples go on
\* being received and frames sent.
FairSpec ==
  /\ Spec
  /\ WF_vars(Start) /\ WF_vars(Trigger) /\ WF_vars(Process)
  /\ WF_vars(ProduceSamples) /\ WF_vars(Played) /\ WF_vars(FrameSent)
------------------------------------------------------------------------------
(* Properties *)

Places == {"idle", "buffering", "start", "dequeue", "copy", "samples", "full", "pool", "drop",
           "dropped", "take", "enqueue", "count", "finish", "error", "consume", "halted"}

TypeOK ==
  /\ cfg \in Settings
  /\ free \in [producer : 0 .. ProducerNodes, processing : 0 .. ProcessingNodes,
               consumer : 0 .. ConsumerNodes]
  /\ producer \in [queue : Seq(Packet), current : Packet \cup {None}, on : BOOLEAN]
  /\ process \in [at : Places, packet : Packet \cup {None}, dropped : Packet \cup {None},
                  pending : BOOLEAN, met : BOOLEAN, dry : BOOLEAN]
  /\ consumer \in [queue : Seq(Packet), current : Packet \cup {None},
                   complete : BOOLEAN, playing : BOOLEAN]
  /\ Len(producer.queue) <= ProducerSize /\ Len(consumer.queue) <= ConsumerLimit
  /\ buffered \in 0 .. SizeModulus - 1 /\ wireless \in 0 .. WirelessSize
  /\ app \in [at : {"set up", "run", "stopping", "free", "stopped"}, threshold : 0 .. 254]
  /\ heard \in [given : SUBSET Marks, marks : SUBSET Marks]

Ones(condition) == IF condition THEN 1 ELSE 0

Processed == {"samples", "full", "pool", "drop", "dropped", "take", "enqueue"}

(* Every node is in its pool, in its queue or in the hands of one of the    *)
(* three, whatever comes in the middle of the processing and whatever       *)
(* fails in it: sac_api.c and queue.c lose no node and free none twice.     *)
NodesAccounted ==
  /\ free.producer + Len(producer.queue) + Ones(producer.current # None) + Ones(At("copy"))
       = ProducerNodes
  /\ free.processing + Ones(process.at \in Processed \cup {"count", "finish", "error"}) = ProcessingNodes
  /\ free.consumer + Len(consumer.queue) + Ones(consumer.current # None)
       + Ones(At("enqueue")) + Ones(process.dropped # None) = ConsumerNodes

(* init_audio_queues: the pools are "bigger to ensure produce action and    *)
(* audio process input can always succeed".  A codec that records is never  *)
(* without a node, which would end it for good; the processing finds a      *)
(* node for each packet, and a packet to drop when the consumer is full, as *)
(* long as it is not slower than the consumer, whose queue has two places.  *)
NodesSuffice ==
  /\ producer.on => free.producer + Ones(producer.current # None /\ producer.queue # <<>>) > 0
  /\ cfg.producerDelayed /\ app.at \in {"run", "stopping"} => producer.on
  /\ At("copy") => free.processing > 0
  /\ At("samples") => free.processing > 0
  /\ At("take") => free.consumer > 0
  /\ cfg.prompt /\ ConsumerLimit > 1 => ~process.dry

(* What samples_buffered_size says when no update is under way is what the  *)
(* consumer has to play: the drift compensation steers the clock by it.     *)
SamplesCounted ==
  ~process.dry =>
    (buffered + (IF At("count") THEN process.packet.size ELSE 0)) % SizeModulus
       = Total(consumer.queue) + process.dropped.size

InHand == IF process.at \in Processed \cup {"copy"} THEN <<process.packet>> ELSE <<>>
BeingRecorded == IF producer.current = None THEN <<>> ELSE <<producer.current>>
Line == consumer.queue \o InHand \o producer.queue \o BeingRecorded

(* The listener hears packets in the order they were recorded, and none     *)
(* twice, whatever packets the full queues dropped.                         *)
HeardInOrder ==
  /\ \A i, j \in DOMAIN Line : Line[i].mark = "second" /\ Line[j].mark = "first" => j < i
  /\ \A i, j \in DOMAIN Line : Line[i].mark = Line[j].mark /\ i # j => Line[i].mark = "plain"
  /\ \A i \in DOMAIN Line : Line[i].mark \notin heard.marks
  /\ "second" \in heard.marks => \A i \in DOMAIN Line : Line[i].mark # "first"

HearsNext == Len(consumer'.queue) < Len(consumer.queue) /\ ~(At("drop") /\ process'.at = "dropped")

(* As long as packets come in and the processing ends in no error, the      *)
(* listener goes on hearing some: after an underflow the consumer is        *)
(* started again, and neither end waits for the other.  Where a stage fails *)
(* or a packet is longer than a node, the stream ends for good.             *)
StreamGoesOn == <>[](app.at = "run") /\ []~At("halted") => []<><<HearsNext>>_vars
=============================================================================
