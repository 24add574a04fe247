---------------------------- MODULE WpsNodeProofs ----------------------------
(***************************************************************************)
(* Proofs about WpsNode, for every choice of settings and sizes.  Machine  *)
(* is the invariant of the radio machine: which functions it has still to  *)
(* call (Line), and what the bus, the two interrupts and the radio owe it  *)
(* at each place of that line.  The rest is about the layers above: the    *)
(* types, the requests, and the events of the connections.                 *)
(***************************************************************************)
EXTENDS WpsNode, SetInduction, SequenceTheorems, TLAPS

-----------------------------------------------------------------------------
(* The line of functions still to call: the rest of the current list, and   *)
(* the lists of the queue.  tx is whether the frame is one we transmit.     *)

Waiting(tx) == IF tx THEN "wait_radio_tx" ELSE "wait_radio_rx"
Processing(tx) == IF tx THEN "process_event_tx" ELSE "process_event_rx"

Filling(tx) ==
  {<<Waiting(tx)>>, <<"set_header_with_payload", Waiting(tx)>>,
   <<"set_header", "set_payload", Waiting(tx)>>}

Configuring(tx) == Filling(tx) \cup {<<"overwrite_register">> \o f : f \in Filling(tx)}

Setup(tx) == {<<"set_config">> \o c : c \in Configuring(tx)} \cup (IF tx THEN {} ELSE {<<"syncing">>})

\* The frame before is over, and the next is to be prepared.
Fresh(todo, next) ==
  \/ /\ todo = <<"prepare_phy">>
     /\ next \in {<<>>, <<"new_frame">>, <<"wait_to_send">>, <<"new_frame", "wait_to_send">>}
  \/ todo = <<"transfer_register">> /\ next = <<"prepare_phy">>

\* A frame is prepared, but the frame before has left a transfer or a reply.
Tidy(todo, next, tx) ==
  \/ /\ todo = <<"close_spi">>
     /\ next \in Setup(tx) \cup {<<"wait_to_send">> \o s : s \in Setup(tx)}
  \/ todo = <<"check_radio_irq">> /\ next \in Setup(tx)
  \/ todo = <<"set_config", "close_spi">> /\ next \in Configuring(tx)
  \/ ~tx /\ todo = <<"prepare_syncing", "read_events_syncing", "close_spi", "process_event_rx">> /\ next = <<>>

\* The configuration is on its way to the radio.
Configures(todo, next, tx) == todo = <<"close_spi">> /\ next \in Configuring(tx)

\* The radio has the configuration of the frame, and is being filled.
Fills(todo, next, tx) ==
  \/ todo = <<"overwrite_registers">> /\ next \in Filling(tx)
  \/ todo \in {<<"close_spi", "set_header">>, <<"set_header">>} /\ next = <<"set_payload", Waiting(tx)>>
  \/ todo = <<"set_payload">> /\ next = <<Waiting(tx)>>
  \/ /\ todo \in {<<"close_spi", "set_header_and_payload">>, <<"set_header_and_payload">>}
     /\ next = <<Waiting(tx)>>
  \/ /\ todo \in {<<"close_spi", "enable_radio_irq", "read_events", "close_spi", Processing(tx)>>,
                  <<"enable_radio_irq", "read_events", "close_spi", Processing(tx)>>}
     /\ next = <<>>

Asked == {<<>>, <<"transfer_register">>}

\* The event of the radio is awaited.
Listens(todo, next, tx) ==
  \/ /\ todo = <<"read_events", "close_spi", Processing(tx)>>
     /\ next \in Asked
  \/ ~tx /\ todo = <<"read_events_syncing", "close_spi", "process_event_rx">> /\ next = <<>>

\* The event is being read, and then known.
Reads(todo, next, tx) ==
  /\ todo \in {<<"close_spi", Processing(tx)>>, <<Processing(tx)>>}
  /\ next \in Asked

Answers(tx) ==
  IF tx THEN {"handle_good_frame_auto", "get_auto_reply_header"} ELSE {"handle_good_frame", "get_frame_header"}

Readings(tx) ==
  IF tx THEN {"handle_good_auto_reply", "get_auto_reply_header"} ELSE {"handle_good_frame", "get_frame_header"}

\* What was received is being read.
Receives(todo, next, tx) ==
  \/ todo = <<"transfer_register">> /\ \E list \in Answers(tx) : next = <<list>>
  \/ next = <<>> /\ \E f \in Readings(tx) : todo \in {<<"close_spi", f>>, <<f>>}
  \/ todo = <<"get_payload">> /\ next = <<"prepare_phy">>

-----------------------------------------------------------------------------
(* What the machine is owed *)

IsFresh(todo, next) ==
  \/ todo = <<"prepare_phy">>
  \/ todo = <<"transfer_register">> /\ next = <<"prepare_phy">>

\* The function to run takes the end of a transfer.
TakesDma(todo, next) ==
  \/ Head(todo) \in {"close_spi", "set_payload", "get_payload"}
  \/ Head(todo) = "transfer_register" /\ next # <<"prepare_phy">>

\* The function to run takes the interrupt of the radio.
TakesIrq(todo) == Head(todo) \in {"read_events", "read_events_syncing", "set_config", "prepare_syncing"}

\* A payload is still in transfer while the next frame is prepared.
LeftOver(todo, next) ==
  /\ todo = <<"prepare_phy">>
  /\ next \in {<<"new_frame">>, <<"new_frame", "wait_to_send">>}

Free == spi = "idle" /\ ~dma.pending

Due ==
  \/ spi \in Transfers /\ ~dma.pending
  \/ spi = "idle" /\ dma.pending

BusOK(todo, next) ==
  IF /\ ~(cpu = "process" /\ phy.input = "DMA_CMPLT")
     /\ TakesDma(todo, next) \/ LeftOver(todo, next)
  THEN Due ELSE Free

EventsOf(tx) ==
  IF tx THEN {"wakeup", "sent", "cca", "good", "lost", "rejected"}
  ELSE {"good", "lost", "rejected", "broadcast"}

\* The end of a reply raises no interrupt.
NoEdge == (irq.enabled /\ radio.await /\ radio.reply = "sending") => radio.pin

\* The radio rests; only a reply may be on its way out.
Deaf ==
  /\ ~radio.armed /\ radio.event = "none" /\ spi # "events"
  /\ \/ ~irq.pending /\ NoEdge
     \/ phy.main = "CONNECT" /\ cpu = "app" /\ radio = Off
     \/ TakesIrq(phy.todo) /\ cpu \in {"app", "handle"} /\ (irq.pending => radio.pin)

\* The radio is at work on the frame, or is done with it.
Live(tx) ==
  /\ radio.armed <=> radio.event = "none"
  /\ radio.event # "none" => radio.event \in EventsOf(tx) /\ radio.pin
  /\ irq.pending => radio.event # "none"
  /\ ~radio.await
  /\ spi \notin {"config", "events"}

Filled(tx) == Live(tx) /\ (radio.pin => radio.event # "none")

EventRead(tx) ==
  /\ ~radio.armed /\ ~irq.pending /\ ~radio.await /\ spi # "config"
  /\ IF spi = "events" THEN radio.event \in EventsOf(tx) /\ radio.pin
     ELSE radio.event = "none" /\ radio.read \in EventsOf(tx)

\* Where the machine is in the line, with what the radio does there.
Place(todo, next, tx) ==
  \/ Fresh(todo, next) /\ spi # "config" /\ Deaf
  \/ Tidy(todo, next, tx) /\ spi # "config" /\ Deaf
  \/ Configures(todo, next, tx) /\ (IF spi = "config" THEN Deaf ELSE Filled(tx))
  \/ Fills(todo, next, tx) /\ Filled(tx) /\ (todo = <<"set_payload">> => irq = Disabled)
  \/ Listens(todo, next, tx) /\ Live(tx) /\ (cpu = "process" => radio.event # "none" /\ ~irq.pending)
  \/ Reads(todo, next, tx) /\ EventRead(tx) /\ (spi = "events" => todo # <<Processing(tx)>>)
  \/ /\ Receives(todo, next, tx) /\ spi # "config" /\ Deaf
     /\ todo = <<"get_payload">> => (tx => frame.auto = "reply" /\ ~phy.payload)

\* Who runs, and the signal raised.
SignalOK(todo, next) ==
  LET fresh == IsFresh(todo, next)
      rests == ~fresh /\ (TakesDma(todo, next) \/ TakesIrq(todo))
      connects == phy.main = "CONNECT" /\ todo = <<"prepare_phy">> /\ next = <<>>
  IN CASE cpu = "process" ->
            /\ phy.main = "PROCESSING" /\ ~fresh
            /\ \/ phy.input = "DMA_CMPLT" /\ Head(todo) \notin NeedRadioIrq
               \/ phy.input = "RADIO_IRQ" /\ (Head(todo) = "close_spi" \/ TakesIrq(todo))
       [] cpu = "prepare" ->
            /\ phy.main = "PROCESSING"
            /\ fresh \/ Head(todo) \in {"close_spi", "check_radio_irq", "set_config", "prepare_syncing"}
            /\ phy.input = "PREPARE_RADIO" \/ (phy.input = "SYNCING" /\ ~frame.tx)
       [] cpu \in {"next", "frame"} -> phy.main # "ERROR" /\ fresh
       [] cpu = "handle" ->
            \/ phy.main \in Outcomes /\ fresh
            \/ connects
            \/ phy.main = "CONFIG_COMPLETE" /\ Head(todo) = "read_events" /\ next = <<>>
            \/ phy.main \in {"YIELD", "PREPARE_DONE"} /\ rests
       [] cpu = "app" ->
            \/ connects /\ irq.pending
            \/ phy.main \in {"YIELD", "PREPARE_DONE", "CONFIG_COMPLETE"} /\ rests
       [] OTHER -> FALSE

\* The core is disconnected, and nothing moves before it connects again.
Stopped ==
  /\ cpu = "app" /\ mac.signal = "DISCONNECT"
  /\ dma = Disabled /\ irq = Disabled /\ radio = Off
  /\ spi \in {"idle", "cut"} /\ phy.main # "ERROR"

Runs ==
  /\ mac.signal = "ON" /\ dma.enabled
  /\ Place(phy.todo, phy.next, frame.tx)
  /\ BusOK(phy.todo, phy.next)
  /\ SignalOK(phy.todo, phy.next)

Machine == Stopped \/ Runs

-----------------------------------------------------------------------------
(* Sequences *)

LEMMA Seqs ==
  ASSUME NEW S, NEW q \in Seq(S), NEW x \in S
  PROVE  /\ Append(q, x) \in Seq(S) /\ Append(q, x) # <<>>
         /\ <<x>> \o q \in Seq(S)
         /\ q # <<>> => Head(q) \in S /\ Tail(q) \in Seq(S)
OBVIOUS

LEMMA Joined ==
  ASSUME NEW S, NEW q \in Seq(S), NEW r \in Seq(S)
  PROVE  q \o r \in Seq(S)
OBVIOUS

\* An element put in front.
LEMMA InFront ==
  ASSUME NEW S, NEW x \in S, NEW q \in Seq(S)
  PROVE  /\ <<x>> \o q # <<>> /\ Head(<<x>> \o q) = x /\ Tail(<<x>> \o q) = q
         /\ Len(<<x>> \o q) = Len(q) + 1 /\ Len(q) \in Nat
<1> DEFINE s == <<x>> \o q
<1>1. /\ <<x>> \in Seq(S) /\ s \in Seq(S) /\ Len(s) = Len(q) + 1 /\ Len(q) \in Nat /\ s[1] = x
      /\ \A i \in 1 .. Len(q) : s[i + 1] = q[i]
  OBVIOUS
<1> HIDE DEF s
<1>2. s # <<>> /\ Head(s) = x /\ Tail(s) \in Seq(S) /\ Len(Tail(s)) = Len(q)
  BY <1>1
<1>3. \A i \in 1 .. Len(q) : Tail(s)[i] = q[i]
  BY <1>1
<1>4. Tail(s) = q
  BY <1>1, <1>2, <1>3, SeqEqual
<1> QED
  BY <1>1, <1>2, <1>4 DEF s

Associates(a, b, c) == (a \o b) \o c = a \o (b \o c)

LEMMA Association ==
  ASSUME NEW S, NEW a, a \in Seq(S), NEW b, b \in Seq(S), NEW c, c \in Seq(S)
  PROVE  Associates(a, b, c)
BY ConcatAssociative, SMT DEF Associates

LEMMA ShortTypes ==
  ASSUME NEW S, NEW a \in S, NEW b \in S
  PROVE  <<>> \in Seq(S) /\ <<a>> \in Seq(S) /\ <<a, b>> \in Seq(S)
OBVIOUS

LEMMA ShortSeqs ==
  ASSUME NEW S, NEW a \in S, NEW b \in S, NEW c \in S
  PROVE  /\ <<>> \o <<a>> = <<a>> /\ Append(<<>>, a) = <<a>>
         /\ <<a>> \o <<b>> = <<a, b>> /\ Append(<<a>>, b) = <<a, b>>
         /\ <<a, b>> \o <<c>> = <<a, b, c>>
<1>1. <<>> \o <<a>> = <<a>> /\ Append(<<>>, a) = <<a>>
  OBVIOUS
<1>2. <<a>> \in Seq(S) /\ <<b>> \in Seq(S) /\ <<c>> \in Seq(S) /\ <<a, b>> \in Seq(S) /\ <<a, b, c>> \in Seq(S)
  OBVIOUS
<1>3. <<a>> \o <<b>> = <<a, b>>
  <2> DEFINE s == <<a>> \o <<b>>
  <2>1. s \in Seq(S) /\ Len(s) = 2 /\ s[1] = a /\ s[2] = b
    BY <1>2
  <2> HIDE DEF s
  <2>2. \A i \in 1 .. Len(s) : s[i] = <<a, b>>[i]
    BY <2>1
  <2> QED
    BY <1>2, <2>1, <2>2, SeqEqual DEF s
<1>4. Append(<<a>>, b) = <<a, b>>
  BY <1>2, <1>3, AppendIsConcat
<1>5. <<a, b>> \o <<c>> = <<a, b, c>>
  <2> DEFINE s == <<a, b>> \o <<c>>
  <2>1. s \in Seq(S) /\ Len(s) = 3 /\ s[1] = a /\ s[2] = b /\ s[3] = c
    BY <1>2
  <2> HIDE DEF s
  <2>2. \A i \in 1 .. Len(s) : s[i] = <<a, b, c>>[i]
    BY <2>1
  <2> QED
    BY <1>2, <2>1, <2>2, SeqEqual DEF s
<1> QED
  BY <1>1, <1>3, <1>4, <1>5

-----------------------------------------------------------------------------
(* Types of the physical layer *)

Lists ==
  {"prepare_phy", "set_config", "set_header", "set_payload", "set_header_with_payload",
   "wait_radio_tx", "wait_radio_rx", "handle_good_frame", "handle_good_frame_auto",
   "get_frame_header", "get_auto_reply_header", "get_payload", "new_frame", "syncing",
   "wait_to_send", "transfer_register", "overwrite_register"}

Names ==
  {"prepare_phy", "set_config", "close_spi", "set_header", "set_header_and_payload", "set_payload",
   "enable_radio_irq", "prepare_syncing", "read_events", "read_events_syncing", "process_event_tx",
   "process_event_rx", "handle_good_frame", "handle_good_auto_reply", "get_frame_header",
   "get_auto_reply_header", "get_payload", "check_radio_irq", "transfer_register",
   "overwrite_registers", "stale"}

Lines == Seq(Names) \ {<<>>}
Inputs == {"DMA_CMPLT", "RADIO_IRQ", "SYNCING", "PREPARE_RADIO"}

OutcomeNames ==
  {"WAIT", "SENT_ACK", "SENT_ACK_LOST", "SENT_ACK_REJECTED", "RECEIVED", "LOST", "REJECTED"}

PhyType ==
  [todo : Lines, next : Seq(Lists), main : Signals, input : Inputs, outcome : OutcomeNames, wait : BOOLEAN,
   payload : BOOLEAN, write : BOOLEAN, read : BOOLEAN, overwrite : BOOLEAN]

FrameType ==
  [tx : BOOLEAN, auto : {"none", "bare", "reply"}, content : {"none", "joint", "split"}, data : BOOLEAN,
   sync : BOOLEAN, phase : BOOLEAN, exact : BOOLEAN]

InterruptType == [enabled : BOOLEAN, pending : BOOLEAN]

EventNames == {"none", "wakeup", "sent", "cca", "good", "lost", "rejected", "broadcast"}

RadioType ==
  [armed : BOOLEAN, event : EventNames, pin : BOOLEAN, reply : {"none", "sending", "sent"},
   await : BOOLEAN, read : EventNames, readReply : BOOLEAN]

PhyTypes ==
  /\ cpu \in {"app", "process", "prepare", "handle", "next", "frame"}
  /\ phy \in PhyType
  /\ frame \in FrameType
  /\ spi \in Transfers \cup {"idle", "cut", "clash"}
  /\ dma \in InterruptType
  /\ irq \in InterruptType
  /\ radio \in RadioType

LEMMA FunctionsAre ==
  /\ Functions.prepare_phy = <<"prepare_phy">>
  /\ Functions.set_config = <<"set_config", "close_spi">>
  /\ Functions.set_header = <<"close_spi", "set_header">>
  /\ Functions.set_payload = <<"set_payload">>
  /\ Functions.set_header_with_payload = <<"close_spi", "set_header_and_payload">>
  /\ Functions.wait_radio_tx = <<"close_spi", "enable_radio_irq", "read_events", "close_spi", "process_event_tx">>
  /\ Functions.wait_radio_rx = <<"close_spi", "enable_radio_irq", "read_events", "close_spi", "process_event_rx">>
  /\ Functions.handle_good_frame = <<"close_spi", "handle_good_frame">>
  /\ Functions.handle_good_frame_auto = <<"close_spi", "handle_good_auto_reply">>
  /\ Functions.get_frame_header = <<"close_spi", "get_frame_header">>
  /\ Functions.get_auto_reply_header = <<"close_spi", "get_auto_reply_header">>
  /\ Functions.get_payload = <<"get_payload">>
  /\ Functions.new_frame = <<"close_spi">>
  /\ Functions.syncing = <<"prepare_syncing", "read_events_syncing", "close_spi", "process_event_rx">>
  /\ Functions.wait_to_send = <<"check_radio_irq">>
  /\ Functions.transfer_register = <<"transfer_register">>
  /\ Functions.overwrite_register = <<"overwrite_registers">>
BY DEF Functions

LEMMA FunctionTypes ==
  ASSUME NEW list \in Lists
  PROVE  Functions[list] \in Lines
<1>1. CASE list = "prepare_phy"
  <2>1. <<"prepare_phy">> \in Lines
    BY DEF Lines, Names
  <2> QED
    BY <1>1, <2>1, FunctionsAre
<1>2. CASE list = "set_config"
  <2>1. <<"set_config", "close_spi">> \in Lines
    BY DEF Lines, Names
  <2> QED
    BY <1>2, <2>1, FunctionsAre
<1>3. CASE list = "set_header"
  <2>1. <<"close_spi", "set_header">> \in Lines
    BY DEF Lines, Names
  <2> QED
    BY <1>3, <2>1, FunctionsAre
<1>4. CASE list = "set_payload"
  <2>1. <<"set_payload">> \in Lines
    BY DEF Lines, Names
  <2> QED
    BY <1>4, <2>1, FunctionsAre
<1>5. CASE list = "set_header_with_payload"
  <2>1. <<"close_spi", "set_header_and_payload">> \in Lines
    BY DEF Lines, Names
  <2> QED
    BY <1>5, <2>1, FunctionsAre
<1>6. CASE list = "wait_radio_tx"
  <2>1. <<"close_spi", "enable_radio_irq", "read_events", "close_spi", "process_event_tx">> \in Lines
    BY DEF Lines, Names
  <2> QED
    BY <1>6, <2>1, FunctionsAre
<1>7. CASE list = "wait_radio_rx"
  <2>1. <<"close_spi", "enable_radio_irq", "read_events", "close_spi", "process_event_rx">> \in Lines
    BY DEF Lines, Names
  <2> QED
    BY <1>7, <2>1, FunctionsAre
<1>8. CASE list = "handle_good_frame"
  <2>1. <<"close_spi", "handle_good_frame">> \in Lines
    BY DEF Lines, Names
  <2> QED
    BY <1>8, <2>1, FunctionsAre
<1>9. CASE list = "handle_good_frame_auto"
  <2>1. <<"close_spi", "handle_good_auto_reply">> \in Lines
    BY DEF Lines, Names
  <2> QED
    BY <1>9, <2>1, FunctionsAre
<1>10. CASE list = "get_frame_header"
  <2>1. <<"close_spi", "get_frame_header">> \in Lines
    BY DEF Lines, Names
  <2> QED
    BY <1>10, <2>1, FunctionsAre
<1>11. CASE list = "get_auto_reply_header"
  <2>1. <<"close_spi", "get_auto_reply_header">> \in Lines
    BY DEF Lines, Names
  <2> QED
    BY <1>11, <2>1, FunctionsAre
<1>12. CASE list = "get_payload"
  <2>1. <<"get_payload">> \in Lines
    BY DEF Lines, Names
  <2> QED
    BY <1>12, <2>1, FunctionsAre
<1>13. CASE list = "new_frame"
  <2>1. <<"close_spi">> \in Lines
    BY DEF Lines, Names
  <2> QED
    BY <1>13, <2>1, FunctionsAre
<1>14. CASE list = "syncing"
  <2>1. <<"prepare_syncing", "read_events_syncing", "close_spi", "process_event_rx">> \in Lines
    BY DEF Lines, Names
  <2> QED
    BY <1>14, <2>1, FunctionsAre
<1>15. CASE list = "wait_to_send"
  <2>1. <<"check_radio_irq">> \in Lines
    BY DEF Lines, Names
  <2> QED
    BY <1>15, <2>1, FunctionsAre
<1>16. CASE list = "transfer_register"
  <2>1. <<"transfer_register">> \in Lines
    BY DEF Lines, Names
  <2> QED
    BY <1>16, <2>1, FunctionsAre
<1>17. CASE list = "overwrite_register"
  <2>1. <<"overwrite_registers">> \in Lines
    BY DEF Lines, Names
  <2> QED
    BY <1>17, <2>1, FunctionsAre
<1> QED
  BY <1>1, <1>2, <1>3, <1>4, <1>5, <1>6, <1>7, <1>8, <1>9, <1>10, <1>11, <1>12, <1>13, <1>14, <1>15, <1>16, <1>17 DEF Lists

\* The list to go on with, and what is left of the queue.
Todo(rest, next) ==
  IF rest # <<>> THEN rest ELSE IF next = <<>> THEN <<"stale">> ELSE Functions[Head(next)]
Queue(rest, next) == IF rest # <<>> \/ next = <<>> THEN next ELSE Tail(next)

LEMMA Ending ==
  ASSUME NEW rest \in Seq(Names), NEW next \in Seq(Lists)
  PROVE  Todo(rest, next) \in Lines /\ Queue(rest, next) \in Seq(Lists)
<1>1. next # <<>> => Head(next) \in Lists /\ Tail(next) \in Seq(Lists)
  OBVIOUS
<1>2. <<"stale">> \in Lines
  BY DEF Lines, Names
<1> QED
  BY <1>1, <1>2, FunctionTypes DEF Todo, Queue, Lines

LEMMA PhyFields ==
  ASSUME NEW p \in PhyType
  PROVE  /\ p.todo \in Lines /\ p.todo \in Seq(Names) /\ p.todo # <<>> /\ Tail(p.todo) \in Seq(Names)
         /\ p.next \in Seq(Lists) /\ p.main \in Signals
         /\ p.input \in Inputs /\ p.wait \in BOOLEAN /\ p.payload \in BOOLEAN /\ p.write \in BOOLEAN
         /\ p.read \in BOOLEAN /\ p.overwrite \in BOOLEAN /\ p.outcome \in OutcomeNames
<1>1. p.todo \in Lines
  BY DEF PhyType
<1>2. p.todo \in Seq(Names) /\ p.todo # <<>>
  BY <1>1 DEF Lines
<1>3. Tail(p.todo) \in Seq(Names)
  BY <1>2, Seqs
<1> QED
  BY <1>1, <1>2, <1>3 DEF PhyType

\* What a function leaves, field by field.
Left(p) ==
  /\ phy'.todo = Todo(Tail(phy.todo), p.next)
  /\ phy'.next = Queue(Tail(phy.todo), p.next)
  /\ phy'.main = p.main /\ phy'.input = p.input /\ phy'.outcome = p.outcome /\ phy'.wait = p.wait
  /\ phy'.payload = p.payload /\ phy'.write = p.write /\ phy'.read = p.read
  /\ phy'.overwrite = p.overwrite
  /\ cpu' = IF p.main = "PROCESSING" THEN cpu ELSE IF cpu = "process" THEN "handle" ELSE "app"

LEMMA Leaving ==
  ASSUME phy \in PhyType, NEW p \in PhyType, Leaves(p)
  PROVE  phy' \in PhyType /\ Left(p)
<1> DEFINE rest == Tail(phy.todo)
           q == [p EXCEPT !.todo = rest]
<1>1. rest \in Seq(Names)
  BY PhyFields
<1>2. p.next \in Seq(Lists)
  BY PhyFields
<1> HIDE DEF rest
<1>3. phy' = [p EXCEPT !.todo = Todo(rest, p.next), !.next = Queue(rest, p.next)]
  <2>1. q.todo = rest /\ q.next = p.next /\ DOMAIN q = DOMAIN p
    BY DEF PhyType
  <2>2. phy' = End(q)
    BY DEF Leaves, rest
  <2>3. CASE rest # <<>>
    BY <1>1, <2>1, <2>2, <2>3 DEF End, Todo, Queue, PhyType
  <2>4. CASE rest = <<>> /\ p.next = <<>>
    BY <1>1, <2>1, <2>2, <2>4 DEF End, Todo, Queue, PhyType
  <2>5. CASE rest = <<>> /\ p.next # <<>>
    BY <1>1, <2>1, <2>2, <2>5 DEF End, Todo, Queue, PhyType
  <2> QED
    BY <2>3, <2>4, <2>5
<1>4. Todo(rest, p.next) \in Lines /\ Queue(rest, p.next) \in Seq(Lists)
  BY <1>1, <1>2, Ending
<1>5. phy' \in PhyType
  BY <1>3, <1>4 DEF PhyType
<1>6. cpu' = IF p.main = "PROCESSING" THEN cpu ELSE IF cpu = "process" THEN "handle" ELSE "app"
  BY DEF Leaves
<1> QED
  BY <1>3, <1>5, <1>6 DEF Left, PhyType, rest

-----------------------------------------------------------------------------
(* The place of the machine, from the function it is to call *)

LEMMA FreshHead ==
  ASSUME NEW todo, NEW next, Fresh(todo, next)
  PROVE  /\ IsFresh(todo, next)
         /\ \/ /\ Head(todo) = "prepare_phy" /\ todo = <<"prepare_phy">>
               /\ next \in {<<>>, <<"new_frame">>, <<"wait_to_send">>, <<"new_frame", "wait_to_send">>}
            \/ Head(todo) = "transfer_register" /\ todo = <<"transfer_register">> /\ next = <<"prepare_phy">>
BY DEF Fresh, IsFresh

LEMMA TidyHead ==
  ASSUME NEW todo, NEW next, NEW tx, Tidy(todo, next, tx)
  PROVE  \/ /\ Head(todo) = "close_spi" /\ todo = <<"close_spi">>
            /\ next \in Setup(tx) \cup {<<"wait_to_send">> \o s : s \in Setup(tx)}
         \/ Head(todo) = "check_radio_irq" /\ todo = <<"check_radio_irq">> /\ next \in Setup(tx)
         \/ Head(todo) = "set_config" /\ todo = <<"set_config", "close_spi">> /\ next \in Configuring(tx)
         \/ /\ Head(todo) = "prepare_syncing" /\ ~tx /\ next = <<>>
            /\ todo = <<"prepare_syncing", "read_events_syncing", "close_spi", "process_event_rx">>
<1> USE DEF Tidy
<1>1. CASE todo = <<"close_spi">>
  BY <1>1
<1>2. CASE todo = <<"check_radio_irq">>
  BY <1>2
<1>3. CASE todo = <<"set_config", "close_spi">>
  BY <1>3
<1>4. CASE todo = <<"prepare_syncing", "read_events_syncing", "close_spi", "process_event_rx">>
  BY <1>4
<1> QED
  BY <1>1, <1>2, <1>3, <1>4

LEMMA FillsHead ==
  ASSUME NEW todo, NEW next, NEW tx, Fills(todo, next, tx)
  PROVE  \/ Head(todo) = "overwrite_registers" /\ todo = <<"overwrite_registers">> /\ next \in Filling(tx)
         \/ Head(todo) = "close_spi" /\ todo = <<"close_spi", "set_header">> /\ next = <<"set_payload", Waiting(tx)>>
         \/ Head(todo) = "set_header" /\ todo = <<"set_header">> /\ next = <<"set_payload", Waiting(tx)>>
         \/ Head(todo) = "set_payload" /\ todo = <<"set_payload">> /\ next = <<Waiting(tx)>>
         \/ Head(todo) = "close_spi" /\ todo = <<"close_spi", "set_header_and_payload">> /\ next = <<Waiting(tx)>>
         \/ Head(todo) = "set_header_and_payload" /\ todo = <<"set_header_and_payload">> /\ next = <<Waiting(tx)>>
         \/ /\ Head(todo) = "close_spi" /\ next = <<>>
            /\ todo = <<"close_spi", "enable_radio_irq", "read_events", "close_spi", Processing(tx)>>
         \/ /\ Head(todo) = "enable_radio_irq" /\ next = <<>>
            /\ todo = <<"enable_radio_irq", "read_events", "close_spi", Processing(tx)>>
<1> DEFINE f == Processing(tx)
           w == Waiting(tx)
<1> HIDE DEF f, w
<1>1. /\ Head(<<"overwrite_registers">>) = "overwrite_registers"
      /\ Head(<<"close_spi", "set_header">>) = "close_spi"
      /\ Head(<<"set_header">>) = "set_header"
      /\ Head(<<"set_payload">>) = "set_payload"
      /\ Head(<<"close_spi", "set_header_and_payload">>) = "close_spi"
      /\ Head(<<"set_header_and_payload">>) = "set_header_and_payload"
      /\ Head(<<"close_spi", "enable_radio_irq", "read_events", "close_spi", f>>) = "close_spi"
      /\ Head(<<"enable_radio_irq", "read_events", "close_spi", f>>) = "enable_radio_irq"
  OBVIOUS
<1>2. \/ todo = <<"overwrite_registers">> /\ next \in Filling(tx)
      \/ todo = <<"close_spi", "set_header">> /\ next = <<"set_payload", w>>
      \/ todo = <<"set_header">> /\ next = <<"set_payload", w>>
      \/ todo = <<"set_payload">> /\ next = <<w>>
      \/ todo = <<"close_spi", "set_header_and_payload">> /\ next = <<w>>
      \/ todo = <<"set_header_and_payload">> /\ next = <<w>>
      \/ todo = <<"close_spi", "enable_radio_irq", "read_events", "close_spi", f>> /\ next = <<>>
      \/ todo = <<"enable_radio_irq", "read_events", "close_spi", f>> /\ next = <<>>
  BY DEF Fills, f, w
<1> QED
  BY <1>1, <1>2, Zenon DEF f, w

LEMMA ListensHead ==
  ASSUME NEW todo, NEW next, NEW tx, Listens(todo, next, tx)
  PROVE  \/ Head(todo) = "read_events" /\ todo = <<"read_events", "close_spi", Processing(tx)>> /\ next \in Asked
         \/ /\ Head(todo) = "read_events_syncing" /\ ~tx /\ next = <<>>
            /\ todo = <<"read_events_syncing", "close_spi", "process_event_rx">>
<1>1. CASE todo = <<"read_events", "close_spi", Processing(tx)>> /\ next \in Asked
  BY <1>1
<1>2. CASE ~tx /\ todo = <<"read_events_syncing", "close_spi", "process_event_rx">> /\ next = <<>>
  BY <1>2
<1> QED
  BY <1>1, <1>2 DEF Listens

LEMMA ReadsHead ==
  ASSUME NEW todo, NEW next, NEW tx, Reads(todo, next, tx)
  PROVE  /\ next \in Asked
         /\ \/ Head(todo) = "close_spi" /\ todo = <<"close_spi", Processing(tx)>>
            \/ Head(todo) = Processing(tx) /\ todo = <<Processing(tx)>>
<1>1. CASE todo = <<"close_spi", Processing(tx)>>
  BY <1>1 DEF Reads
<1>2. CASE todo = <<Processing(tx)>>
  BY <1>2 DEF Reads
<1> QED
  BY <1>1, <1>2 DEF Reads

LEMMA ReceivesHead ==
  ASSUME NEW todo, NEW next, NEW tx, Receives(todo, next, tx)
  PROVE  \/ /\ Head(todo) = "transfer_register" /\ todo = <<"transfer_register">>
            /\ \E list \in Answers(tx) : next = <<list>>
         \/ /\ next = <<>>
            /\ \E f \in Readings(tx) : \/ Head(todo) = "close_spi" /\ todo = <<"close_spi", f>>
                                       \/ Head(todo) = f /\ todo = <<f>>
         \/ Head(todo) = "get_payload" /\ todo = <<"get_payload">> /\ next = <<"prepare_phy">>
<1>1. CASE todo = <<"transfer_register">> /\ \E list \in Answers(tx) : next = <<list>>
  BY <1>1
<1>2. CASE todo = <<"get_payload">> /\ next = <<"prepare_phy">>
  BY <1>2
<1>3. ASSUME NEW f \in Readings(tx), todo \in {<<"close_spi", f>>, <<f>>}, next = <<>>
      PROVE  \/ Head(todo) = "close_spi" /\ todo = <<"close_spi", f>>
             \/ Head(todo) = f /\ todo = <<f>>
  <2>1. Head(<<"close_spi", f>>) = "close_spi" /\ Head(<<f>>) = f
    OBVIOUS
  <2> QED
    BY <1>3, <2>1
<1> QED
  BY <1>1, <1>2, <1>3 DEF Receives

\* The place of the machine, by the function it is to call.
LEMMA AtPlace ==
  ASSUME NEW todo, NEW next, NEW tx, Place(todo, next, tx)
  PROVE  /\ Head(todo) = "prepare_phy" => Fresh(todo, next) /\ spi # "config" /\ Deaf
         /\ Head(todo) \in {"check_radio_irq", "set_config", "prepare_syncing"} =>
              Tidy(todo, next, tx) /\ spi # "config" /\ Deaf
         /\ Head(todo) \in {"overwrite_registers", "set_header", "set_payload", "set_header_and_payload",
                            "enable_radio_irq"} =>
              Fills(todo, next, tx) /\ Filled(tx) /\ (todo = <<"set_payload">> => irq = Disabled)
         /\ Head(todo) \in {"read_events", "read_events_syncing"} =>
              /\ Listens(todo, next, tx) /\ Live(tx)
              /\ cpu = "process" => radio.event # "none" /\ ~irq.pending
         /\ Head(todo) \in {"process_event_tx", "process_event_rx"} =>
              /\ Reads(todo, next, tx) /\ EventRead(tx)
              /\ spi = "events" => todo # <<Processing(tx)>>
         /\ Head(todo) \in {"handle_good_frame", "handle_good_auto_reply", "get_frame_header",
                            "get_auto_reply_header", "get_payload"} =>
              /\ Receives(todo, next, tx) /\ spi # "config" /\ Deaf
              /\ todo = <<"get_payload">> => (tx => frame.auto = "reply" /\ ~phy.payload)
         /\ Head(todo) = "transfer_register" =>
              (Fresh(todo, next) \/ Receives(todo, next, tx)) /\ spi # "config" /\ Deaf
         /\ Head(todo) = "close_spi" =>
              \/ Tidy(todo, next, tx) /\ spi # "config" /\ Deaf
              \/ Configures(todo, next, tx) /\ (IF spi = "config" THEN Deaf ELSE Filled(tx))
              \/ Fills(todo, next, tx) /\ Filled(tx)
              \/ Reads(todo, next, tx) /\ EventRead(tx)
              \/ Receives(todo, next, tx) /\ spi # "config" /\ Deaf
<1>1. /\ Fresh(todo, next) => Head(todo) \in {"prepare_phy", "transfer_register"}
      /\ Tidy(todo, next, tx) => Head(todo) \in {"close_spi", "check_radio_irq", "set_config", "prepare_syncing"}
      /\ Listens(todo, next, tx) => Head(todo) \in {"read_events", "read_events_syncing"}
  BY FreshHead, TidyHead, ListensHead
<1>2. Configures(todo, next, tx) => Head(todo) = "close_spi"
  BY DEF Configures
<1>3. Fills(todo, next, tx) =>
        Head(todo) \in {"close_spi", "overwrite_registers", "set_header", "set_payload",
                        "set_header_and_payload", "enable_radio_irq"}
  BY FillsHead, Zenon
<1>4. Reads(todo, next, tx) => Head(todo) \in {"close_spi", "process_event_tx", "process_event_rx"}
  BY ReadsHead DEF Processing
<1>5. Receives(todo, next, tx) =>
        Head(todo) \in {"close_spi", "transfer_register", "handle_good_frame", "handle_good_auto_reply",
                        "get_frame_header", "get_auto_reply_header", "get_payload"}
  BY ReceivesHead DEF Readings
<1> HIDE DEF Fresh, Tidy, Configures, Fills, Listens, Reads, Receives, Deaf, Filled, Live, EventRead
<1> QED
  BY <1>1, <1>2, <1>3, <1>4, <1>5 DEF Place

-----------------------------------------------------------------------------
(* The functions *)

LEMMA StepTypes ==
  ASSUME PhyTypes
  PROVE  /\ frame.tx \in BOOLEAN /\ phy \in PhyType /\ dma \in InterruptType /\ irq \in InterruptType
         /\ radio \in RadioType /\ phy.next \in Seq(Lists) /\ frame.auto \in {"none", "bare", "reply"}
         /\ frame.content \in {"none", "joint", "split"}
BY PhyFields DEF PhyTypes, FrameType

LEMMA RestTypes ==
  /\ Disabled \in InterruptType /\ ~Disabled.enabled /\ ~Disabled.pending
  /\ Off \in RadioType
BY DEF Disabled, InterruptType, Off, RadioType, EventNames

LEMMA SetConfig ==
  ASSUME PhyTypes, Runs, mac' = mac, set_config
  PROVE  PhyTypes' /\ Runs'
<1> DEFINE tx == frame.tx
           p == Raise(phy, "PREPARE_DONE")
<1>1. /\ cpu \in {"process", "prepare"} /\ Head(phy.todo) = "set_config" /\ Leaves(p)
      /\ Transfer("config") /\ frame' = frame /\ dma' = dma /\ irq' = irq /\ radio' = radio
  BY DEF set_config, Called
<1>2. p \in PhyType /\ p.next = phy.next /\ p.main = "PREPARE_DONE"
  BY StepTypes DEF Raise, PhyType, Signals
<1>3. /\ Tidy(phy.todo, phy.next, tx) /\ Deaf
      /\ phy.todo = <<"set_config", "close_spi">> /\ phy.next \in Configuring(tx)
  BY <1>1, AtPlace, TidyHead DEF Runs
<1>4. Free
  BY <1>1, <1>3 DEF Runs, BusOK, TakesDma, LeftOver
<1>5. phy'.todo = <<"close_spi">> /\ phy'.next = phy.next /\ phy'.main = "PREPARE_DONE" /\ phy' \in PhyType
  BY <1>1, <1>2, <1>3, Leaving, StepTypes DEF Left, Todo, Queue
<1>6. spi' = "config" /\ ~dma.pending /\ cpu' \in {"handle", "app"}
  BY <1>1, <1>2, <1>4, Leaving, StepTypes DEF Left, Transfer, Free
<1>7. Place(phy.todo, phy.next, frame.tx)'
  <2>1. Configures(phy.todo, phy.next, frame.tx)'
    BY <1>1, <1>3, <1>5 DEF Configures
  <2>2. Deaf'
    BY <1>1, <1>3, <1>6 DEF Deaf, NoEdge
  <2> QED
    BY <1>6, <2>1, <2>2 DEF Place
<1>8. BusOK(phy.todo, phy.next)'
  BY <1>1, <1>5, <1>6 DEF BusOK, TakesDma, LeftOver, Due, Transfers
<1>9. SignalOK(phy.todo, phy.next)'
  BY <1>5, <1>6 DEF SignalOK, IsFresh, TakesDma
<1> QED
  BY <1>1, <1>5, <1>6, <1>7, <1>8, <1>9 DEF PhyTypes, Runs, Transfers

-----------------------------------------------------------------------------
(* From list to list *)

LEMMA WaitingList ==
  ASSUME NEW tx \in BOOLEAN
  PROVE  /\ Waiting(tx) \in Lists
         /\ Functions[Waiting(tx)] = <<"close_spi", "enable_radio_irq", "read_events", "close_spi", Processing(tx)>>
BY FunctionsAre DEF Waiting, Processing, Lists

LEMMA ToFilling ==
  ASSUME NEW tx \in BOOLEAN, NEW f \in Filling(tx)
  PROVE  /\ f \in Seq(Lists) /\ f # <<>>
         /\ Fills(Todo(<<>>, f), Queue(<<>>, f), tx)
         /\ Head(Todo(<<>>, f)) = "close_spi"
<1> DEFINE w == Waiting(tx)
           e == Processing(tx)
<1>1. w \in Lists /\ Functions[w] = <<"close_spi", "enable_radio_irq", "read_events", "close_spi", e>>
  BY WaitingList
<1> HIDE DEF w, e
<1>2. CASE f = <<w>>
  <2>1. f \in Seq(Lists) /\ f # <<>> /\ Head(f) = w /\ Tail(f) = <<>>
    BY <1>1, <1>2
  <2>2. /\ Todo(<<>>, f) = <<"close_spi", "enable_radio_irq", "read_events", "close_spi", e>>
        /\ Queue(<<>>, f) = <<>>
    BY <1>1, <2>1 DEF Todo, Queue
  <2>3. Fills(Todo(<<>>, f), Queue(<<>>, f), tx)
    BY <2>2 DEF Fills, e
  <2> QED
    BY <2>1, <2>2, <2>3
<1>3. CASE f = <<"set_header_with_payload", w>>
  <2>1. f \in Seq(Lists) /\ f # <<>> /\ Head(f) = "set_header_with_payload" /\ Tail(f) = <<w>>
    <3>1. f \in Seq(Lists)
      BY <1>1, <1>3 DEF Lists
    <3> QED
      BY <1>3, <3>1
  <2>2. Todo(<<>>, f) = <<"close_spi", "set_header_and_payload">> /\ Queue(<<>>, f) = <<w>>
    BY <2>1, FunctionsAre DEF Todo, Queue
  <2>3. Fills(Todo(<<>>, f), Queue(<<>>, f), tx)
    BY <2>2 DEF Fills, w
  <2> QED
    BY <2>1, <2>2, <2>3
<1>4. CASE f = <<"set_header", "set_payload", w>>
  <2>1. f \in Seq(Lists) /\ f # <<>> /\ Head(f) = "set_header" /\ Tail(f) = <<"set_payload", w>>
    <3>1. f \in Seq(Lists)
      BY <1>1, <1>4 DEF Lists
    <3> QED
      BY <1>4, <3>1
  <2>2. Todo(<<>>, f) = <<"close_spi", "set_header">> /\ Queue(<<>>, f) = <<"set_payload", w>>
    BY <2>1, FunctionsAre DEF Todo, Queue
  <2>3. Fills(Todo(<<>>, f), Queue(<<>>, f), tx)
    BY <2>2 DEF Fills, w
  <2> QED
    BY <2>1, <2>2, <2>3
<1> QED
  BY <1>2, <1>3, <1>4 DEF Filling, w

LEMMA ToConfiguring ==
  ASSUME NEW tx \in BOOLEAN, NEW c \in Configuring(tx)
  PROVE  /\ c \in Seq(Lists) /\ c # <<>>
         /\ Fills(Todo(<<>>, c), Queue(<<>>, c), tx)
         /\ Head(Todo(<<>>, c)) \in {"close_spi", "overwrite_registers"}
<1>1. CASE c \in Filling(tx)
  BY <1>1, ToFilling
<1>2. ASSUME NEW f \in Filling(tx), c = <<"overwrite_register">> \o f
      PROVE  /\ c \in Seq(Lists) /\ c # <<>>
             /\ Fills(Todo(<<>>, c), Queue(<<>>, c), tx)
             /\ Head(Todo(<<>>, c)) \in {"close_spi", "overwrite_registers"}
  <2>1. "overwrite_register" \in Lists /\ f \in Seq(Lists)
    BY ToFilling DEF Lists
  <2>2. c \in Seq(Lists) /\ c # <<>> /\ Head(c) = "overwrite_register" /\ Tail(c) = f
    BY <1>2, <2>1, Seqs, InFront
  <2>3. Todo(<<>>, c) = <<"overwrite_registers">> /\ Queue(<<>>, c) = f
    BY <2>2, FunctionsAre DEF Todo, Queue
  <2>4. Fills(Todo(<<>>, c), Queue(<<>>, c), tx)
    BY <2>3 DEF Fills
  <2> QED
    BY <2>2, <2>3, <2>4
<1> QED
  BY <1>1, <1>2 DEF Configuring

LEMMA ToSetup ==
  ASSUME NEW tx \in BOOLEAN, NEW s \in Setup(tx)
  PROVE  /\ s \in Seq(Lists) /\ s # <<>>
         /\ Tidy(Todo(<<>>, s), Queue(<<>>, s), tx)
         /\ Head(Todo(<<>>, s)) \in {"set_config", "prepare_syncing"}
<1>1. ASSUME NEW c \in Configuring(tx), s = <<"set_config">> \o c
      PROVE  /\ s \in Seq(Lists) /\ s # <<>>
             /\ Tidy(Todo(<<>>, s), Queue(<<>>, s), tx)
             /\ Head(Todo(<<>>, s)) \in {"set_config", "prepare_syncing"}
  <2>1. "set_config" \in Lists /\ c \in Seq(Lists)
    BY ToConfiguring DEF Lists
  <2>2. s \in Seq(Lists) /\ s # <<>> /\ Head(s) = "set_config" /\ Tail(s) = c
    BY <1>1, <2>1, Seqs, InFront
  <2>3. Todo(<<>>, s) = <<"set_config", "close_spi">> /\ Queue(<<>>, s) = c
    BY <2>2, FunctionsAre DEF Todo, Queue
  <2>4. Tidy(Todo(<<>>, s), Queue(<<>>, s), tx)
    BY <2>3 DEF Tidy
  <2> QED
    BY <2>2, <2>3, <2>4
<1>2. CASE ~tx /\ s = <<"syncing">>
  <2>1. s \in Seq(Lists) /\ s # <<>> /\ Head(s) = "syncing" /\ Tail(s) = <<>>
    BY <1>2 DEF Lists
  <2>2. /\ Todo(<<>>, s) = <<"prepare_syncing", "read_events_syncing", "close_spi", "process_event_rx">>
        /\ Queue(<<>>, s) = <<>>
    BY <2>1, FunctionsAre DEF Todo, Queue
  <2>3. Tidy(Todo(<<>>, s), Queue(<<>>, s), tx)
    BY <1>2, <2>2 DEF Tidy
  <2> QED
    BY <2>1, <2>2, <2>3
<1> QED
  BY <1>1, <1>2 DEF Setup

LEMMA ToSend ==
  ASSUME NEW tx \in BOOLEAN, NEW s \in Setup(tx), NEW q, q = <<"wait_to_send">> \o s
  PROVE  /\ q \in Seq(Lists) /\ q # <<>>
         /\ Tidy(Todo(<<>>, q), Queue(<<>>, q), tx)
         /\ Head(Todo(<<>>, q)) = "check_radio_irq"
<1>1. "wait_to_send" \in Lists /\ s \in Seq(Lists)
  BY ToSetup DEF Lists
<1>2. q \in Seq(Lists) /\ q # <<>> /\ Head(q) = "wait_to_send" /\ Tail(q) = s
  BY <1>1, Seqs, InFront
<1>3. Todo(<<>>, q) = <<"check_radio_irq">> /\ Queue(<<>>, q) = s
  BY <1>2, FunctionsAre DEF Todo, Queue
<1>4. Tidy(Todo(<<>>, q), Queue(<<>>, q), tx)
  BY <1>3 DEF Tidy
<1> QED
  BY <1>2, <1>3, <1>4

Queued == {<<>>, <<"new_frame">>, <<"wait_to_send">>, <<"new_frame", "wait_to_send">>}

\* The frame is prepared behind what the frame before left in the queue.
LEMMA ToPrepared ==
  ASSUME NEW tx \in BOOLEAN, NEW s \in Setup(tx), NEW n \in Queued, NEW q, q = n \o s
  PROVE  /\ Tidy(Todo(<<>>, q), Queue(<<>>, q), tx)
         /\ IF n \in {<<"new_frame">>, <<"new_frame", "wait_to_send">>}
            THEN Head(Todo(<<>>, q)) = "close_spi"
            ELSE Head(Todo(<<>>, q)) \in {"check_radio_irq", "set_config", "prepare_syncing"}
<1>1. s \in Seq(Lists) /\ s # <<>> /\ {"new_frame", "wait_to_send"} \subseteq Lists
  BY ToSetup DEF Lists
<1> DEFINE w == <<"wait_to_send">> \o s
<1>2. w \in Seq(Lists)
  BY <1>1, Seqs
<1> HIDE DEF w
<1>3. ASSUME NEW t \in Setup(tx) \cup {<<"wait_to_send">> \o u : u \in Setup(tx)}, t \in Seq(Lists),
             q = <<"new_frame">> \o t
      PROVE  Tidy(Todo(<<>>, q), Queue(<<>>, q), tx) /\ Head(Todo(<<>>, q)) = "close_spi"
  <2>1. q # <<>> /\ Head(q) = "new_frame" /\ Tail(q) = t
    BY <1>1, <1>3, InFront
  <2>2. Todo(<<>>, q) = <<"close_spi">> /\ Queue(<<>>, q) = t
    BY <2>1, FunctionsAre DEF Todo, Queue
  <2> QED
    BY <2>2 DEF Tidy
<1>4. CASE n = <<>>
  <2>1. q = s
    BY <1>1, <1>4, ConcatEmptySeq
  <2> QED
    BY <1>4, <2>1, ToSetup
<1>5. CASE n = <<"wait_to_send">>
  <2>1. q = w
    BY <1>5 DEF w
  <2> QED
    BY <1>5, <2>1, ToSend DEF w
<1>6. CASE n = <<"new_frame">>
  BY <1>1, <1>3, <1>6
<1>7. CASE n = <<"new_frame", "wait_to_send">>
  <2>1. /\ <<"new_frame", "wait_to_send">> = <<"new_frame">> \o <<"wait_to_send">>
        /\ <<"new_frame">> \in Seq(Lists) /\ <<"wait_to_send">> \in Seq(Lists)
    BY <1>1, ShortSeqs
  <2>2. q = <<"new_frame">> \o w
    <3>1. Associates(<<"new_frame">>, <<"wait_to_send">>, s)
      BY <1>1, <2>1, Association
    <3> QED
      BY <1>7, <2>1, <3>1 DEF w, Associates
  <2>3. w \in {<<"wait_to_send">> \o u : u \in Setup(tx)}
    BY DEF w
  <2> QED
    BY <1>2, <1>3, <1>7, <2>2, <2>3
<1> QED
  BY <1>4, <1>5, <1>6, <1>7 DEF Queued

\* The lists of a frame, in one sequence.
FrameQueue(n) ==
  n \o <<"set_config">> \o (IF phy.overwrite THEN <<"overwrite_register">> ELSE <<>>)
    \o SendStates \o <<IF frame.tx THEN "wait_radio_tx" ELSE "wait_radio_rx">>

LEMMA FrameLists ==
  ASSUME PhyTypes, NEW n \in Seq(Lists)
  PROVE  FrameQueue(n) \in Seq(Lists) /\ \E s \in Setup(frame.tx) : FrameQueue(n) = n \o s
<1> DEFINE tx == frame.tx
           q == FrameQueue(n)
           w == <<Waiting(tx)>>
           o == IF phy.overwrite THEN <<"overwrite_register">> ELSE <<>>
           a == <<"set_config">>
           f == SendStates \o w
           c == o \o f
<1>1. tx \in BOOLEAN
  BY StepTypes
<1>2. /\ w \in Seq(Lists) /\ o \in Seq(Lists) /\ a \in Seq(Lists) /\ SendStates \in Seq(Lists)
      /\ Waiting(tx) \in Lists
  <2>1. /\ {"set_config", "overwrite_register", "set_header", "set_payload"} \subseteq Lists
        /\ "set_header_with_payload" \in Lists /\ Waiting(tx) \in Lists
    BY <1>1, WaitingList DEF Lists
  <2>2. /\ <<"set_header_with_payload">> \in Seq(Lists) /\ <<"set_header", "set_payload">> \in Seq(Lists)
        /\ <<>> \in Seq(Lists) /\ <<"overwrite_register">> \in Seq(Lists) /\ a \in Seq(Lists)
        /\ w \in Seq(Lists)
    BY <2>1
  <2> QED
    BY <2>1, <2>2 DEF SendStates
<1>3. f \in Filling(tx) /\ f \in Seq(Lists)
  <2> DEFINE v == Waiting(tx)
  <2>1. v \in Lists /\ {"set_header", "set_payload", "set_header_with_payload"} \subseteq Lists
    BY <1>2 DEF Lists
  <2> HIDE DEF v
  <2>2. /\ <<>> \o <<v>> = <<v>>
        /\ <<"set_header_with_payload">> \o <<v>> = <<"set_header_with_payload", v>>
        /\ <<"set_header", "set_payload">> \o <<v>> = <<"set_header", "set_payload", v>>
    BY <2>1, ShortSeqs
  <2>3. f \in {<<v>>, <<"set_header_with_payload", v>>, <<"set_header", "set_payload", v>>}
    BY <2>2 DEF SendStates, v
  <2>4. f \in Filling(tx)
    BY <2>3 DEF Filling, v
  <2> QED
    BY <1>1, <2>4, ToFilling
<1> HIDE DEF f, w
<1>4. c \in Configuring(tx) /\ c \in Seq(Lists)
  <2>1. <<>> \o f = f
    BY <1>3, ConcatEmptySeq
  <2>2. c \in Configuring(tx)
    BY <1>3, <2>1 DEF Configuring
  <2> QED
    BY <1>1, <2>2, ToConfiguring
<1>5. a \o c \in Setup(tx) /\ a \o c \in Seq(Lists)
  BY <1>1, <1>4, ToSetup DEF Setup
<1>6. q = (((n \o a) \o o) \o SendStates) \o w
  BY DEF w, Waiting, FrameQueue
<1> HIDE DEF a, o, q
<1> DEFINE na == n \o a
           nao == na \o o
           ac == a \o c
<1>7. na \in Seq(Lists) /\ nao \in Seq(Lists) /\ ac \in Seq(Lists)
  BY <1>2, <1>5, Joined
<1> HIDE DEF na, nao, c, ac
<1>8. q = n \o ac
  <2>1. Associates(nao, SendStates, w)
    BY <1>2, <1>7, Association
  <2>2. q = nao \o f
    BY <1>6, <2>1 DEF na, nao, f, Associates
  <2>3. Associates(na, o, f)
    BY <1>2, <1>3, <1>7, Association
  <2>4. q = na \o c
    BY <2>2, <2>3 DEF nao, c, Associates
  <2>5. Associates(n, a, c)
    BY <1>2, <1>4, Association
  <2> QED
    BY <2>4, <2>5 DEF na, ac, Associates
<1>9. q \in Seq(Lists) /\ ac \in Setup(tx)
  BY <1>5, <1>7, <1>8, Joined DEF ac
<1> QED
  BY <1>8, <1>9 DEF q

LEMMA PreparePhy ==
  ASSUME PhyTypes, Runs, mac' = mac, prepare_phy
  PROVE  PhyTypes' /\ Runs'
<1> DEFINE tx == frame.tx
           n == phy.next
<1>1. /\ cpu \in {"process", "prepare"} /\ Head(phy.todo) = "prepare_phy"
      /\ frame' = frame /\ spi' = spi /\ dma' = dma /\ irq' = irq /\ radio' = radio
  BY DEF prepare_phy, Called
<1>2. /\ Fresh(phy.todo, n) /\ Deaf /\ spi # "config" /\ phy.todo = <<"prepare_phy">> /\ n \in Queued
  BY <1>1, AtPlace, FreshHead DEF Runs, Queued
<1>3. /\ cpu = "prepare" /\ phy.main = "PROCESSING"
      /\ phy.input = "PREPARE_RADIO" \/ (phy.input = "SYNCING" /\ ~tx)
  BY <1>1, <1>2, FreshHead DEF Runs, SignalOK
<1>4. tx \in BOOLEAN /\ phy \in PhyType /\ n \in Seq(Lists)
  BY StepTypes
<1>5. PICK p \in PhyType : /\ Leaves(p) /\ p.main = phy.main /\ p.input = phy.input
                           /\ \E s \in Setup(tx) : p.next = n \o s
  <2>1. CASE phy.input = "SYNCING"
    <3> DEFINE p == Enqueue(phy, "syncing")
    <3>1. "syncing" \in Lists /\ <<"syncing">> \in Setup(tx)
      BY <1>3, <2>1 DEF Lists, Setup
    <3>2. Append(n, "syncing") \in Seq(Lists) /\ Append(n, "syncing") = n \o <<"syncing">>
      BY <1>4, <3>1, Seqs, AppendIsConcat
    <3>3. p \in PhyType /\ p.main = phy.main /\ p.input = phy.input /\ p.next = n \o <<"syncing">>
      BY <1>4, <3>2 DEF PhyType, Enqueue
    <3>4. Leaves(p)
      BY <2>1 DEF prepare_phy
    <3> QED
      BY <3>1, <3>3, <3>4
  <2>2. CASE phy.input # "SYNCING"
    <3> DEFINE q == FrameQueue(n)
               p == [phy EXCEPT !.next = q]
    <3>1. q \in Seq(Lists) /\ \E s \in Setup(tx) : q = n \o s
      BY <1>4, FrameLists
    <3>2. Leaves([phy EXCEPT !.next = @ \o <<"set_config">>
                                 \o (IF phy.overwrite THEN <<"overwrite_register">> ELSE <<>>)
                                 \o SendStates
                                 \o <<IF frame.tx THEN "wait_radio_tx" ELSE "wait_radio_rx">>])
      BY <2>2 DEF prepare_phy
    <3>3. Leaves(p)
      BY <3>2 DEF FrameQueue
    <3> HIDE DEF q
    <3>4. p \in PhyType /\ p.main = phy.main /\ p.input = phy.input /\ p.next = q
      BY <1>4, <3>1 DEF PhyType
    <3> QED
      BY <3>1, <3>3, <3>4
  <2> QED
    BY <2>1, <2>2
<1>6. PICK s \in Setup(tx) : p.next = n \o s
  BY <1>5
<1>7. /\ phy'.todo = Todo(<<>>, p.next) /\ phy'.next = Queue(<<>>, p.next) /\ phy'.main = "PROCESSING"
      /\ phy'.input = phy.input /\ phy' \in PhyType /\ cpu' = "prepare"
  <2>1. Tail(phy.todo) = <<>>
    BY <1>2
  <2> QED
    BY <1>3, <1>4, <1>5, <2>1, Leaving DEF Left
<1>8. /\ Tidy(phy'.todo, phy'.next, tx)
      /\ IF n \in {<<"new_frame">>, <<"new_frame", "wait_to_send">>}
         THEN Head(phy'.todo) = "close_spi"
         ELSE Head(phy'.todo) \in {"check_radio_irq", "set_config", "prepare_syncing"}
  <2> DEFINE q == p.next
  <2> HIDE DEF q
  <2>1. q = n \o s /\ n \in Queued /\ tx \in BOOLEAN
    BY <1>2, <1>4, <1>6 DEF q
  <2>2. /\ Tidy(Todo(<<>>, q), Queue(<<>>, q), tx)
        /\ IF n \in {<<"new_frame">>, <<"new_frame", "wait_to_send">>}
           THEN Head(Todo(<<>>, q)) = "close_spi"
           ELSE Head(Todo(<<>>, q)) \in {"check_radio_irq", "set_config", "prepare_syncing"}
    BY <2>1, ToPrepared
  <2> QED
    BY <1>7, <2>2 DEF q
<1>9. Place(phy.todo, phy.next, frame.tx)'
  <2>1. Deaf'
    BY <1>1, <1>2, <1>3, <1>7 DEF Deaf, NoEdge
  <2> QED
    BY <1>1, <1>2, <1>8, <2>1 DEF Place
<1>10. BusOK(phy.todo, phy.next)'
  <2>1. ~TakesDma(phy.todo, phy.next)
    BY <1>2 DEF TakesDma
  <2>2. LeftOver(phy.todo, phy.next) <=> n \in {<<"new_frame">>, <<"new_frame", "wait_to_send">>}
    BY <1>2 DEF LeftOver
  <2>3. IF n \in {<<"new_frame">>, <<"new_frame", "wait_to_send">>} THEN Due ELSE Free
    BY <1>3, <2>1, <2>2 DEF Runs, BusOK
  <2>4. ~LeftOver(phy.todo, phy.next)'
    BY <1>8 DEF LeftOver
  <2>5. TakesDma(phy.todo, phy.next)' <=> n \in {<<"new_frame">>, <<"new_frame", "wait_to_send">>}
    BY <1>8 DEF TakesDma
  <2> QED
    BY <1>1, <1>7, <2>3, <2>4, <2>5 DEF BusOK, Due, Free
<1>11. SignalOK(phy.todo, phy.next)'
  BY <1>1, <1>3, <1>7, <1>8 DEF SignalOK
<1> QED
  BY <1>1, <1>7, <1>9, <1>10, <1>11 DEF PhyTypes, Runs

LEMMA NotFresh ==
  ASSUME NEW todo, NEW next, Head(todo) \notin {"prepare_phy", "transfer_register"}
  PROVE  ~IsFresh(todo, next) /\ ~LeftOver(todo, next) /\ todo # <<"prepare_phy">>
BY DEF IsFresh, LeftOver

\* The functions that follow the end of a transfer.
AfterDma ==
  {"overwrite_registers", "set_header", "set_payload", "set_header_and_payload", "enable_radio_irq",
   "process_event_tx", "process_event_rx", "handle_good_frame", "handle_good_auto_reply",
   "get_frame_header", "get_auto_reply_header", "get_payload"}

LEMMA CalledByDma ==
  ASSUME Runs, cpu \in {"process", "prepare"}, Head(phy.todo) \in AfterDma
  PROVE  cpu = "process" /\ phy.input = "DMA_CMPLT" /\ phy.main = "PROCESSING" /\ Free
<1>1. Head(phy.todo) \notin {"prepare_phy", "transfer_register", "close_spi", "check_radio_irq", "set_config",
                             "prepare_syncing", "read_events", "read_events_syncing"}
  BY DEF AfterDma
<1>2. ~IsFresh(phy.todo, phy.next)
  BY <1>1, NotFresh
<1>3. cpu = "process" /\ phy.input = "DMA_CMPLT" /\ phy.main = "PROCESSING"
  BY <1>1, <1>2 DEF Runs, SignalOK, TakesIrq
<1> QED
  BY <1>3 DEF Runs, BusOK

LEMMA CloseSpiEarly ==
  ASSUME PhyTypes, Runs, mac' = mac, close_spi_early
  PROVE  PhyTypes' /\ Runs'
<1>1. /\ cpu \in {"process", "prepare"} /\ Head(phy.todo) = "close_spi" /\ phy.input # "DMA_CMPLT"
      /\ frame' = frame /\ spi' = spi /\ dma' = dma /\ irq' = irq /\ radio' = radio
      /\ cpu' \in {"handle", "app"}
  BY DEF close_spi_early, Called
<1>2. /\ phy' \in PhyType /\ phy'.todo = phy.todo /\ phy'.next = phy.next /\ phy'.main = "YIELD"
      /\ phy'.input = phy.input
  BY StepTypes DEF close_spi_early, Raise, PhyType, Signals
<1>3. Place(phy.todo, phy.next, frame.tx)'
  <2>1. Deaf => Deaf'
    BY <1>1, <1>2 DEF Deaf, NoEdge
  <2>2. (Filled(frame.tx) => Filled(frame.tx)') /\ (EventRead(frame.tx) => EventRead(frame.tx)')
    BY <1>1 DEF Filled, Live, EventRead
  <2>3. Head(phy.todo) # "set_payload" /\ phy.todo # <<"get_payload">> /\ phy.todo # <<"set_payload">>
        /\ phy.todo # <<Processing(frame.tx)>>
    BY <1>1 DEF Processing
  <2>4. \/ Tidy(phy.todo, phy.next, frame.tx) /\ spi # "config" /\ Deaf
        \/ Configures(phy.todo, phy.next, frame.tx) /\ (IF spi = "config" THEN Deaf ELSE Filled(frame.tx))
        \/ Fills(phy.todo, phy.next, frame.tx) /\ Filled(frame.tx)
        \/ Reads(phy.todo, phy.next, frame.tx) /\ EventRead(frame.tx)
        \/ Receives(phy.todo, phy.next, frame.tx) /\ spi # "config" /\ Deaf
    BY <1>1, AtPlace DEF Runs
  <2> QED
    BY <1>1, <1>2, <2>1, <2>2, <2>3, <2>4 DEF Place
<1>4. BusOK(phy.todo, phy.next)'
  BY <1>1, <1>2 DEF Runs, BusOK, TakesDma, Due
<1>5. SignalOK(phy.todo, phy.next)'
  BY <1>1, <1>2, NotFresh DEF SignalOK, TakesDma
<1> QED
  BY <1>1, <1>2, <1>3, <1>4, <1>5 DEF PhyTypes, Runs

\* What close_spi goes on to, once the transfer is over.
LEMMA Closed ==
  ASSUME PhyTypes, Runs, Head(phy.todo) = "close_spi", Free,
         NEW t, NEW n, t = Todo(Tail(phy.todo), phy.next), n = Queue(Tail(phy.todo), phy.next)
  PROVE  /\ \/ Tidy(t, n, frame.tx) /\ Deaf
            \/ Fills(t, n, frame.tx) /\ Filled(frame.tx) /\ t # <<"set_payload">>
            \/ Reads(t, n, frame.tx) /\ EventRead(frame.tx)
            \/ Receives(t, n, frame.tx) /\ Deaf /\ t # <<"get_payload">>
         /\ Head(t) \notin {"prepare_phy", "transfer_register", "read_events", "read_events_syncing"}
<1> DEFINE tx == frame.tx
           todo == phy.todo
           next == phy.next
<1>1. tx \in BOOLEAN /\ spi = "idle"
  BY StepTypes DEF Free
<1>2. CASE Tidy(todo, next, tx) /\ Deaf
  <2>1. /\ todo = <<"close_spi">>
        /\ next \in Setup(tx) \cup {<<"wait_to_send">> \o s : s \in Setup(tx)}
    BY <1>2, TidyHead
  <2>2. t = Todo(<<>>, next) /\ n = Queue(<<>>, next)
    BY <2>1
  <2>3. CASE next \in Setup(tx)
    BY <1>1, <1>2, <2>2, <2>3, ToSetup
  <2>4. ASSUME NEW s \in Setup(tx), next = <<"wait_to_send">> \o s
        PROVE  Tidy(t, n, tx) /\ Head(t) = "check_radio_irq"
    BY <1>1, <2>2, <2>4, ToSend
  <2> QED
    BY <1>2, <2>1, <2>3, <2>4
<1>3. CASE Configures(todo, next, tx) /\ Filled(tx)
  <2>1. todo = <<"close_spi">> /\ next \in Configuring(tx)
    BY <1>3 DEF Configures
  <2>2. t = Todo(<<>>, next) /\ n = Queue(<<>>, next)
    BY <2>1
  <2>3. Fills(t, n, tx) /\ Head(t) \in {"close_spi", "overwrite_registers"}
    BY <1>1, <2>1, <2>2, ToConfiguring
  <2> QED
    BY <1>3, <2>3
<1>4. CASE Fills(todo, next, tx) /\ Filled(tx)
  <2> DEFINE w == Waiting(tx)
             e == Processing(tx)
  <2> HIDE DEF w, e
  <2>1. \/ todo = <<"close_spi", "set_header">> /\ next = <<"set_payload", w>>
        \/ todo = <<"close_spi", "set_header_and_payload">> /\ next = <<w>>
        \/ next = <<>> /\ todo = <<"close_spi", "enable_radio_irq", "read_events", "close_spi", e>>
    BY <1>4, FillsHead DEF w, e
  <2>2. CASE todo = <<"close_spi", "set_header">> /\ next = <<"set_payload", w>>
    <3>1. t = <<"set_header">> /\ n = <<"set_payload", w>>
      BY <2>2 DEF Todo, Queue
    <3> QED
      BY <1>4, <3>1 DEF Fills, w
  <2>3. CASE todo = <<"close_spi", "set_header_and_payload">> /\ next = <<w>>
    <3>1. t = <<"set_header_and_payload">> /\ n = <<w>>
      BY <2>3 DEF Todo, Queue
    <3> QED
      BY <1>4, <3>1 DEF Fills, w
  <2>4. CASE next = <<>> /\ todo = <<"close_spi", "enable_radio_irq", "read_events", "close_spi", e>>
    <3>1. t = <<"enable_radio_irq", "read_events", "close_spi", e>> /\ n = <<>>
      BY <2>4 DEF Todo, Queue
    <3>2. Fills(t, n, tx)
      BY <3>1 DEF Fills, e
    <3>3. Head(t) = "enable_radio_irq" /\ t # <<"set_payload">>
      BY <3>1
    <3> QED
      BY <1>4, <3>2, <3>3
  <2> QED
    BY <2>1, <2>2, <2>3, <2>4
<1>5. CASE Reads(todo, next, tx) /\ EventRead(tx)
  <2> DEFINE e == Processing(tx)
  <2>1. e \in {"process_event_tx", "process_event_rx"}
    BY DEF Processing
  <2> HIDE DEF e
  <2>2. next \in Asked /\ todo = <<"close_spi", e>>
    BY <1>5, <2>1, ReadsHead DEF e
  <2>3. t = <<e>> /\ n = next
    BY <2>2 DEF Todo, Queue
  <2>4. Reads(t, n, tx)
    BY <2>2, <2>3 DEF Reads, e
  <2>5. Head(t) = e
    BY <2>3
  <2> QED
    BY <1>5, <2>1, <2>4, <2>5
<1>6. CASE Receives(todo, next, tx) /\ Deaf
  <2>1. PICK f \in Readings(tx) : todo = <<"close_spi", f>> /\ next = <<>>
    BY <1>6, ReceivesHead DEF Readings
  <2>2. t = <<f>> /\ n = <<>> /\ Head(t) = f
    BY <2>1 DEF Todo, Queue
  <2>3. Receives(t, n, tx)
    BY <2>2 DEF Receives
  <2>4. f \notin {"prepare_phy", "transfer_register", "read_events", "read_events_syncing", "get_payload"}
    BY DEF Readings
  <2> QED
    BY <1>6, <2>2, <2>3, <2>4
<1> QED
  BY <1>1, <1>2, <1>3, <1>4, <1>5, <1>6, AtPlace DEF Runs

LEMMA CloseSpi ==
  ASSUME PhyTypes, Runs, mac' = mac, close_spi
  PROVE  PhyTypes' /\ Runs'
<1>1. /\ cpu \in {"process", "prepare"} /\ Head(phy.todo) = "close_spi" /\ phy.input = "DMA_CMPLT"
      /\ Leaves(phy)
      /\ frame' = frame /\ spi' = spi /\ dma' = dma /\ irq' = irq /\ radio' = radio
  BY DEF close_spi, Called
<1>2. cpu = "process" /\ phy.main = "PROCESSING" /\ Free
  BY <1>1, NotFresh DEF Runs, SignalOK, BusOK
<1>3. /\ phy'.todo = Todo(Tail(phy.todo), phy.next) /\ phy'.next = Queue(Tail(phy.todo), phy.next)
      /\ phy'.main = "PROCESSING" /\ phy'.input = "DMA_CMPLT" /\ phy' \in PhyType /\ cpu' = "process"
  BY <1>1, <1>2, StepTypes, Leaving DEF Left
<1>4. /\ \/ Tidy(phy'.todo, phy'.next, frame.tx) /\ Deaf
         \/ Fills(phy'.todo, phy'.next, frame.tx) /\ Filled(frame.tx) /\ phy'.todo # <<"set_payload">>
         \/ Reads(phy'.todo, phy'.next, frame.tx) /\ EventRead(frame.tx)
         \/ Receives(phy'.todo, phy'.next, frame.tx) /\ Deaf /\ phy'.todo # <<"get_payload">>
      /\ Head(phy'.todo) \notin {"prepare_phy", "transfer_register", "read_events", "read_events_syncing"}
  <2> DEFINE t == phy'.todo
             n == phy'.next
  <2>1. t = Todo(Tail(phy.todo), phy.next) /\ n = Queue(Tail(phy.todo), phy.next)
    BY <1>3
  <2> HIDE DEF t, n
  <2>2. /\ \/ Tidy(t, n, frame.tx) /\ Deaf
           \/ Fills(t, n, frame.tx) /\ Filled(frame.tx) /\ t # <<"set_payload">>
           \/ Reads(t, n, frame.tx) /\ EventRead(frame.tx)
           \/ Receives(t, n, frame.tx) /\ Deaf /\ t # <<"get_payload">>
        /\ Head(t) \notin {"prepare_phy", "transfer_register", "read_events", "read_events_syncing"}
    BY <1>1, <1>2, <2>1, Closed
  <2> QED
    BY <2>2 DEF t, n
<1>5. Place(phy.todo, phy.next, frame.tx)'
  <2>1. Deaf => Deaf'
    BY <1>1, <1>2, <1>3 DEF Deaf, NoEdge
  <2>2. (Filled(frame.tx) => Filled(frame.tx)') /\ (EventRead(frame.tx) => EventRead(frame.tx)')
    BY <1>1 DEF Filled, Live, EventRead
  <2>3. spi' = "idle"
    BY <1>1, <1>2 DEF Free
  <2> QED
    BY <1>1, <1>4, <2>1, <2>2, <2>3 DEF Place
<1>6. BusOK(phy.todo, phy.next)'
  BY <1>1, <1>2, <1>3 DEF BusOK, Free
<1>7. SignalOK(phy.todo, phy.next)'
  BY <1>3, <1>4, NotFresh DEF SignalOK, NeedRadioIrq
<1> QED
  BY <1>1, <1>2, <1>3, <1>5, <1>6, <1>7 DEF PhyTypes, Runs

LEMMA Fill ==
  ASSUME PhyTypes, Runs, mac' = mac, fill
  PROVE  PhyTypes' /\ Runs'
<1> DEFINE tx == frame.tx
           w == Waiting(tx)
           e == Processing(tx)
           p == Raise(phy, "YIELD")
<1>1. /\ cpu \in {"process", "prepare"} /\ Leaves(p) /\ frame' = frame /\ dma' = dma /\ radio' = radio
      /\ \/ Head(phy.todo) = "set_header" /\ Transfer("header") /\ irq' = Disabled
         \/ Head(phy.todo) = "set_header_and_payload" /\ Transfer("joint") /\ irq' = Disabled
         \/ Head(phy.todo) = "set_payload" /\ Transfer("payload_out") /\ irq' = irq
  BY DEF fill, Called, IrqWhileFilling
<1>2. Head(phy.todo) \in {"set_header", "set_header_and_payload", "set_payload"}
  BY <1>1
<1>3. cpu = "process" /\ spi = "idle" /\ ~dma.pending
  BY <1>1, <1>2, CalledByDma DEF AfterDma, Free
<1>4. p \in PhyType /\ p.next = phy.next /\ p.main = "YIELD"
  BY StepTypes DEF Raise, PhyType, Signals
<1>5. Fills(phy.todo, phy.next, tx) /\ Filled(tx) /\ (phy.todo = <<"set_payload">> => irq = Disabled)
  BY <1>2, AtPlace DEF Runs
<1>6. /\ phy'.todo = Todo(Tail(phy.todo), phy.next) /\ phy'.next = Queue(Tail(phy.todo), phy.next)
      /\ phy'.main = "YIELD" /\ phy' \in PhyType /\ cpu' = "handle"
  BY <1>1, <1>3, <1>4, StepTypes, Leaving DEF Left
<1>7. spi' \in {"header", "joint", "payload_out"}
  BY <1>1, <1>3 DEF Transfer
<1>8. irq' \in {irq, Disabled} /\ irq' \in InterruptType
  BY <1>1, StepTypes, RestTypes
<1>9. /\ Fills(phy'.todo, phy'.next, tx) /\ (phy'.todo = <<"set_payload">> => irq' = Disabled)
      /\ Head(phy'.todo) \in {"set_payload", "close_spi"}
  <2>1. w \in Lists /\ Functions[w] = <<"close_spi", "enable_radio_irq", "read_events", "close_spi", e>>
    BY StepTypes, WaitingList
  <2>2. ASSUME phy'.todo = <<"close_spi", "enable_radio_irq", "read_events", "close_spi", e>>, phy'.next = <<>>
        PROVE  /\ Fills(phy'.todo, phy'.next, tx) /\ (phy'.todo = <<"set_payload">> => irq' = Disabled)
               /\ Head(phy'.todo) \in {"set_payload", "close_spi"}
    <3> DEFINE t == phy'.todo
               n == phy'.next
    <3> HIDE DEF t, n, e
    <3>1. t = <<"close_spi", "enable_radio_irq", "read_events", "close_spi", e>> /\ n = <<>>
      BY <2>2 DEF t, n
    <3>2. Head(t) = "close_spi" /\ t # <<"set_payload">>
      BY <3>1
    <3>3. Fills(t, n, tx)
      BY <3>1 DEF Fills, e
    <3> QED
      BY <3>2, <3>3 DEF t, n
  <2>3. CASE Head(phy.todo) = "set_header"
    <3>1. phy.todo = <<"set_header">> /\ phy.next = <<"set_payload", w>>
      BY <1>5, <2>3, FillsHead
    <3> HIDE DEF w, e
    <3>2. phy'.todo = <<"set_payload">> /\ phy'.next = <<w>>
      BY <1>6, <3>1, FunctionsAre DEF Todo, Queue
    <3>3. irq' = Disabled
      BY <1>1, <2>3
    <3> QED
      BY <3>2, <3>3 DEF Fills, w
  <2>4. CASE Head(phy.todo) \in {"set_header_and_payload", "set_payload"}
    <3>1. phy.todo \in {<<"set_header_and_payload">>, <<"set_payload">>} /\ phy.next = <<w>>
      BY <1>5, <2>4, FillsHead
    <3> HIDE DEF w, e
    <3>2. /\ phy'.todo = <<"close_spi", "enable_radio_irq", "read_events", "close_spi", e>>
          /\ phy'.next = <<>>
      <4>1. Tail(phy.todo) = <<>> /\ phy.next # <<>> /\ Head(phy.next) = w /\ Tail(phy.next) = <<>>
        <5>1. Tail(<<"set_header_and_payload">>) = <<>> /\ Tail(<<"set_payload">>) = <<>>
          OBVIOUS
        <5>2. <<w>> # <<>> /\ Head(<<w>>) = w /\ Tail(<<w>>) = <<>>
          OBVIOUS
        <5> QED
          BY <3>1, <5>1, <5>2
      <4> QED
        BY <1>6, <2>1, <4>1 DEF Todo, Queue
    <3> QED
      BY <2>2, <3>2 DEF e
  <2> QED
    BY <1>2, <2>3, <2>4
<1>10. Place(phy.todo, phy.next, frame.tx)'
  <2>1. Filled(frame.tx)'
    BY <1>1, <1>5, <1>7, <1>8 DEF Filled, Live, Disabled
  <2> QED
    BY <1>1, <1>9, <2>1 DEF Place
<1>11. BusOK(phy.todo, phy.next)'
  BY <1>1, <1>3, <1>6, <1>7, <1>9 DEF BusOK, TakesDma, Due, Transfers
<1>12. SignalOK(phy.todo, phy.next)'
  BY <1>6, <1>9, NotFresh DEF SignalOK, TakesDma
<1> QED
  BY <1>1, <1>6, <1>7, <1>8, <1>10, <1>11, <1>12 DEF PhyTypes, Runs, Transfers

LEMMA EnableRadioIrq ==
  ASSUME PhyTypes, Runs, mac' = mac, enable_radio_irq
  PROVE  PhyTypes' /\ Runs'
<1> DEFINE tx == frame.tx
           e == Processing(tx)
           p == Raise(phy, "CONFIG_COMPLETE")
<1>1. /\ cpu \in {"process", "prepare"} /\ Head(phy.todo) = "enable_radio_irq" /\ Leaves(p)
      /\ frame' = frame /\ spi' = spi /\ dma' = dma /\ radio' = radio
      /\ irq' = [enabled |-> TRUE, pending |-> irq.pending \/ radio.pin]
  BY DEF enable_radio_irq, Called, EnabledAgain
<1>2. cpu = "process" /\ Free
  BY <1>1, CalledByDma DEF AfterDma
<1>3. p \in PhyType /\ p.next = phy.next /\ p.main = "CONFIG_COMPLETE"
  BY StepTypes DEF Raise, PhyType, Signals
<1>4. /\ Fills(phy.todo, phy.next, tx) /\ Filled(tx)
      /\ phy.todo = <<"enable_radio_irq", "read_events", "close_spi", e>> /\ phy.next = <<>>
  BY <1>1, AtPlace, FillsHead DEF Runs
<1>5. /\ phy'.todo = <<"read_events", "close_spi", e>> /\ phy'.next = <<>>
      /\ phy'.main = "CONFIG_COMPLETE" /\ phy' \in PhyType /\ cpu' = "handle"
  <2> HIDE DEF e
  <2>1. /\ Tail(phy.todo) = <<"read_events", "close_spi", e>>
    BY <1>4
  <2>2. /\ Todo(Tail(phy.todo), phy.next) = <<"read_events", "close_spi", e>>
        /\ Queue(Tail(phy.todo), phy.next) = <<>>
    BY <1>4, <2>1 DEF Todo, Queue
  <2> QED
    BY <1>1, <1>2, <1>3, <2>2, StepTypes, Leaving DEF Left
<1>6. irq' \in InterruptType
  BY <1>1, StepTypes DEF InterruptType, RadioType
<1>7. Head(phy'.todo) = "read_events"
  <2> HIDE DEF e
  <2> QED
    BY <1>5
<1>8. Place(phy.todo, phy.next, frame.tx)'
  <2>1. Listens(phy.todo, phy.next, frame.tx)'
    BY <1>1, <1>5 DEF Listens, Asked
  <2>2. Live(frame.tx)'
    BY <1>1, <1>4 DEF Filled, Live
  <2> QED
    BY <1>5, <2>1, <2>2 DEF Place
<1>9. BusOK(phy.todo, phy.next)'
  BY <1>1, <1>2, <1>7, NotFresh DEF BusOK, TakesDma, Free
<1>10. SignalOK(phy.todo, phy.next)'
  BY <1>5, <1>7 DEF SignalOK
<1> QED
  BY <1>1, <1>5, <1>6, <1>8, <1>9, <1>10 DEF PhyTypes, Runs

LEMMA PrepareSyncing ==
  ASSUME PhyTypes, Runs, mac' = mac, prepare_syncing
  PROVE  PhyTypes' /\ Runs'
<1> DEFINE tx == frame.tx
           p == Raise(phy, "YIELD")
<1>1. /\ cpu \in {"process", "prepare"} /\ Head(phy.todo) = "prepare_syncing" /\ Leaves(p)
      /\ frame' = frame /\ spi' = spi /\ dma' = dma
      /\ radio' = [Off EXCEPT !.armed = TRUE, !.pin = radio.pin] /\ irq' = [irq EXCEPT !.enabled = TRUE]
  BY DEF prepare_syncing, Called, Enabled
<1>2. p \in PhyType /\ p.next = phy.next /\ p.main = "YIELD"
  BY StepTypes DEF Raise, PhyType, Signals
<1>3. /\ Tidy(phy.todo, phy.next, tx) /\ Deaf /\ ~tx /\ phy.next = <<>>
      /\ phy.todo = <<"prepare_syncing", "read_events_syncing", "close_spi", "process_event_rx">>
  BY <1>1, AtPlace, TidyHead DEF Runs
<1>4. /\ phy'.todo = <<"read_events_syncing", "close_spi", "process_event_rx">> /\ phy'.next = <<>>
      /\ phy'.main = "YIELD" /\ phy' \in PhyType /\ cpu' \in {"handle", "app"}
  <2>1. /\ Todo(Tail(phy.todo), phy.next) = <<"read_events_syncing", "close_spi", "process_event_rx">>
        /\ Queue(Tail(phy.todo), phy.next) = <<>>
    BY <1>3 DEF Todo, Queue
  <2> QED
    BY <1>1, <1>2, <2>1, StepTypes, Leaving DEF Left
<1>5. Free
  BY <1>1, NotFresh DEF Runs, BusOK, TakesDma
<1>6. /\ irq' \in InterruptType /\ irq'.pending = irq.pending
      /\ radio' \in RadioType /\ radio'.armed /\ radio'.event = "none" /\ ~radio'.await
  BY <1>1, StepTypes DEF InterruptType, RadioType, Off, EventNames
<1>7. Head(phy'.todo) = "read_events_syncing"
  BY <1>4
<1>8. Place(phy.todo, phy.next, frame.tx)'
  <2>1. Listens(phy.todo, phy.next, frame.tx)'
    BY <1>1, <1>3, <1>4 DEF Listens
  <2>2. ~irq.pending
    BY <1>1, <1>3 DEF Deaf
  <2>3. Live(frame.tx)'
    BY <1>1, <1>5, <1>6, <2>2 DEF Live, Free
  <2> QED
    BY <1>4, <2>1, <2>3 DEF Place
<1>9. BusOK(phy.todo, phy.next)'
  BY <1>1, <1>5, <1>7, NotFresh DEF BusOK, TakesDma, Free
<1>10. SignalOK(phy.todo, phy.next)'
  BY <1>4, <1>7, NotFresh DEF SignalOK, TakesIrq
<1> QED
  BY <1>1, <1>4, <1>6, <1>8, <1>9, <1>10 DEF PhyTypes, Runs

LEMMA ReadEvents ==
  ASSUME PhyTypes, Runs, mac' = mac, read_events
  PROVE  PhyTypes' /\ Runs'
<1> DEFINE tx == frame.tx
           e == Processing(tx)
           p == Raise(phy, "YIELD")
<1>1. /\ cpu \in {"process", "prepare"} /\ Head(phy.todo) \in {"read_events", "read_events_syncing"}
      /\ Leaves(p) /\ Transfer("events")
      /\ frame' = frame /\ dma' = dma /\ irq' = irq /\ radio' = radio
  BY DEF read_events, Called
<1>2. cpu = "process" /\ phy.input = "RADIO_IRQ"
  BY <1>1, NotFresh DEF Runs, SignalOK, NeedRadioIrq
<1>3. spi = "idle" /\ ~dma.pending
  BY <1>1, NotFresh DEF Runs, BusOK, TakesDma, Free
<1>4. p \in PhyType /\ p.next = phy.next /\ p.main = "YIELD"
  BY StepTypes DEF Raise, PhyType, Signals
<1>5. Listens(phy.todo, phy.next, tx) /\ Live(tx) /\ radio.event # "none" /\ ~irq.pending
  BY <1>1, <1>2, AtPlace DEF Runs
<1>6. e \in {"process_event_tx", "process_event_rx"}
  BY DEF Processing
<1>7. Tail(phy.todo) = <<"close_spi", e>> /\ phy.next \in Asked
  <2>1. CASE phy.todo = <<"read_events", "close_spi", e>> /\ phy.next \in Asked
    <3> HIDE DEF e
    <3> QED
      BY <2>1
  <2>2. CASE ~tx /\ phy.next = <<>> /\ phy.todo = <<"read_events_syncing", "close_spi", "process_event_rx">>
    BY <2>2 DEF Processing, Asked
  <2> QED
    BY <1>5, <2>1, <2>2, ListensHead
<1>8. /\ phy'.todo = <<"close_spi", e>> /\ phy'.next = phy.next
      /\ phy'.main = "YIELD" /\ phy' \in PhyType /\ cpu' = "handle"
  <2> HIDE DEF e
  <2>1. Tail(phy.todo) = <<"close_spi", e>> /\ Tail(phy.todo) # <<>>
    BY <1>7
  <2>2. Todo(Tail(phy.todo), phy.next) = <<"close_spi", e>> /\ Queue(Tail(phy.todo), phy.next) = phy.next
    BY <2>1 DEF Todo, Queue
  <2> QED
    BY <1>1, <1>2, <1>4, <2>2, StepTypes, Leaving DEF Left
<1>9. spi' = "events"
  BY <1>1, <1>3 DEF Transfer
<1>10. Head(phy'.todo) = "close_spi" /\ phy'.todo # <<e>>
  <2> HIDE DEF e
  <2> QED
    BY <1>6, <1>8
<1>11. Place(phy.todo, phy.next, frame.tx)'
  <2>1. Reads(phy.todo, phy.next, frame.tx)'
    BY <1>1, <1>7, <1>8 DEF Reads
  <2>2. EventRead(frame.tx)'
    BY <1>1, <1>5, <1>9 DEF EventRead, Live
  <2> QED
    BY <1>1, <1>10, <2>1, <2>2 DEF Place
<1>12. BusOK(phy.todo, phy.next)'
  BY <1>1, <1>3, <1>8, <1>9, <1>10 DEF BusOK, TakesDma, Due, Transfers
<1>13. SignalOK(phy.todo, phy.next)'
  BY <1>8, <1>10, NotFresh DEF SignalOK, TakesDma
<1> QED
  BY <1>1, <1>8, <1>9, <1>11, <1>12, <1>13 DEF PhyTypes, Runs, Transfers

LEMMA CheckRadioIrq ==
  ASSUME PhyTypes, Runs, mac' = mac, check_radio_irq
  PROVE  PhyTypes' /\ Runs'
<1> DEFINE tx == frame.tx
           p == IF radio.pin THEN phy ELSE Raise(phy, "YIELD")
<1>1. /\ cpu \in {"process", "prepare"} /\ Head(phy.todo) = "check_radio_irq" /\ Leaves(p)
      /\ frame' = frame /\ spi' = spi /\ dma' = dma /\ radio' = radio
      /\ irq' = [irq EXCEPT !.enabled = TRUE]
  BY DEF check_radio_irq, Called, Enabled
<1>2. /\ p \in PhyType /\ p.next = phy.next /\ p.input = phy.input
      /\ p.main = IF radio.pin THEN phy.main ELSE "YIELD"
  BY StepTypes DEF Raise, PhyType, Signals
<1>3. /\ Tidy(phy.todo, phy.next, tx) /\ Deaf /\ spi # "config"
      /\ phy.todo = <<"check_radio_irq">> /\ phy.next \in Setup(tx)
  BY <1>1, AtPlace, TidyHead DEF Runs
<1>4. /\ Free /\ phy.main = "PROCESSING" /\ (cpu = "process" => phy.input = "DMA_CMPLT")
      /\ cpu = "prepare" => phy.input = "PREPARE_RADIO" \/ (phy.input = "SYNCING" /\ ~tx)
  BY <1>1, NotFresh DEF Runs, BusOK, TakesDma, SignalOK, TakesIrq
<1>5. /\ Tidy(phy'.todo, phy'.next, tx) /\ Head(phy'.todo) \in {"set_config", "prepare_syncing"}
      /\ phy' \in PhyType /\ phy'.main = p.main /\ phy'.input = phy.input
      /\ cpu' = IF radio.pin THEN cpu ELSE IF cpu = "process" THEN "handle" ELSE "app"
  <2>1. Tail(phy.todo) = <<>>
    BY <1>3
  <2>2. tx \in BOOLEAN
    BY StepTypes
  <2>3. /\ phy'.todo = Todo(<<>>, phy.next) /\ phy'.next = Queue(<<>>, phy.next)
        /\ phy' \in PhyType /\ phy'.main = p.main /\ phy'.input = phy.input
        /\ cpu' = IF p.main = "PROCESSING" THEN cpu ELSE IF cpu = "process" THEN "handle" ELSE "app"
    <3> HIDE DEF p
    <3> QED
      BY <1>1, <1>2, <2>1, StepTypes, Leaving DEF Left
  <2> QED
    BY <1>2, <1>3, <1>4, <2>2, <2>3, ToSetup
<1>6. irq' \in InterruptType /\ irq'.pending = irq.pending
  BY <1>1, StepTypes DEF InterruptType
<1>7. Place(phy.todo, phy.next, frame.tx)'
  <2>1. ~irq.pending /\ ~radio.armed /\ radio.event = "none" /\ spi # "events"
    BY <1>1, <1>3 DEF Deaf
  <2>2. Deaf'
    BY <1>1, <1>5, <1>6, <2>1 DEF Deaf, NoEdge, TakesIrq
  <2> QED
    BY <1>1, <1>3, <1>5, <2>2 DEF Place
<1>8. BusOK(phy.todo, phy.next)'
  BY <1>1, <1>4, <1>5, NotFresh DEF BusOK, TakesDma, Free
<1>9. SignalOK(phy.todo, phy.next)'
  BY <1>1, <1>2, <1>4, <1>5, NotFresh DEF SignalOK, TakesIrq, NeedRadioIrq
<1> QED
  BY <1>1, <1>5, <1>6, <1>7, <1>8, <1>9 DEF PhyTypes, Runs

LEMMA OverwriteRegisters ==
  ASSUME PhyTypes, Runs, mac' = mac, overwrite_registers
  PROVE  PhyTypes' /\ Runs'
<1> DEFINE tx == frame.tx
<1>1. /\ cpu \in {"process", "prepare"} /\ Head(phy.todo) = "overwrite_registers" /\ Leaves(phy)
      /\ spi' = (IF spi = "idle" THEN spi ELSE "clash")
      /\ frame' = frame /\ dma' = dma /\ irq' = irq /\ radio' = radio
  BY DEF overwrite_registers, Called
<1>2. cpu = "process" /\ phy.input = "DMA_CMPLT" /\ phy.main = "PROCESSING" /\ Free
  BY <1>1, CalledByDma DEF AfterDma
<1>3. spi' = spi
  BY <1>1, <1>2 DEF Free
<1>4. Fills(phy.todo, phy.next, tx) /\ Filled(tx) /\ phy.todo = <<"overwrite_registers">> /\ phy.next \in Filling(tx)
  BY <1>1, AtPlace, FillsHead DEF Runs
<1>5. /\ Fills(phy'.todo, phy'.next, tx) /\ Head(phy'.todo) = "close_spi" /\ phy'.todo # <<"set_payload">>
      /\ phy' \in PhyType /\ phy'.main = "PROCESSING" /\ phy'.input = "DMA_CMPLT" /\ cpu' = "process"
  <2>1. Tail(phy.todo) = <<>>
    BY <1>4
  <2>2. tx \in BOOLEAN
    BY StepTypes
  <2>3. /\ phy'.todo = Todo(<<>>, phy.next) /\ phy'.next = Queue(<<>>, phy.next)
        /\ phy' \in PhyType /\ phy'.main = "PROCESSING" /\ phy'.input = "DMA_CMPLT" /\ cpu' = "process"
    BY <1>1, <1>2, <2>1, StepTypes, Leaving DEF Left
  <2> QED
    BY <1>4, <2>2, <2>3, ToFilling
<1>6. Place(phy.todo, phy.next, frame.tx)'
  <2>1. Filled(frame.tx)'
    BY <1>1, <1>3, <1>4 DEF Filled, Live
  <2> QED
    BY <1>1, <1>5, <2>1 DEF Place
<1>7. BusOK(phy.todo, phy.next)'
  BY <1>1, <1>2, <1>3, <1>5 DEF BusOK, Free
<1>8. SignalOK(phy.todo, phy.next)'
  BY <1>5, NotFresh DEF SignalOK, NeedRadioIrq
<1> QED
  BY <1>1, <1>3, <1>5, <1>6, <1>7, <1>8 DEF PhyTypes, Runs

LEMMA ListRead ==
  ASSUME NEW tx \in BOOLEAN, NEW list \in Answers(tx)
  PROVE  /\ list \in Lists /\ list \notin {"prepare_phy", "new_frame", "wait_to_send"}
         /\ \E f \in Readings(tx) : Functions[list] = <<"close_spi", f>>
<1>1. CASE tx
  BY <1>1, FunctionsAre DEF Answers, Readings, Lists
<1>2. CASE ~tx
  BY <1>2, FunctionsAre DEF Answers, Readings, Lists
<1> QED
  BY <1>1, <1>2

LEMMA TransferRegister ==
  ASSUME PhyTypes, Runs, mac' = mac, transfer_register
  PROVE  PhyTypes' /\ Runs'
<1> DEFINE tx == frame.tx
<1>1. /\ cpu \in {"process", "prepare"} /\ Head(phy.todo) = "transfer_register" /\ spi = "idle" /\ spi' = "idle"
      /\ frame' = frame /\ dma' = dma /\ irq' = irq /\ radio' = radio
  BY DEF transfer_register, Called, BusFree
<1>2. PICK p \in PhyType : Leaves(p) /\ p.next = phy.next /\ p.main = phy.main /\ p.input = phy.input
  <2> DEFINE p == IF phy.write THEN [phy EXCEPT !.write = FALSE] ELSE [phy EXCEPT !.read = FALSE]
  <2>1. p \in PhyType /\ p.next = phy.next /\ p.main = phy.main /\ p.input = phy.input
    BY StepTypes DEF PhyType
  <2>2. Leaves(p)
    BY DEF transfer_register
  <2> HIDE DEF p
  <2> QED
    BY <2>1, <2>2
<1>3. (Fresh(phy.todo, phy.next) \/ Receives(phy.todo, phy.next, tx)) /\ Deaf
  BY <1>1, AtPlace DEF Runs
<1>4. phy.main = "PROCESSING"
  BY <1>1 DEF Runs, SignalOK
<1>5. /\ phy'.todo = Todo(Tail(phy.todo), phy.next) /\ phy'.next = Queue(Tail(phy.todo), phy.next)
      /\ phy' \in PhyType /\ phy'.main = "PROCESSING" /\ phy'.input = phy.input /\ cpu' = cpu
  BY <1>2, <1>4, StepTypes, Leaving DEF Left
<1>6. Deaf'
  BY <1>1, <1>3, <1>5 DEF Deaf, NoEdge
<1>7. CASE Fresh(phy.todo, phy.next)
  <2>1. phy.todo = <<"transfer_register">> /\ phy.next = <<"prepare_phy">> /\ IsFresh(phy.todo, phy.next)
    BY <1>1, <1>7, FreshHead
  <2>2. /\ cpu = "prepare"
        /\ phy.input = "PREPARE_RADIO" \/ (phy.input = "SYNCING" /\ ~tx)
    BY <1>1, <2>1 DEF Runs, SignalOK
  <2>3. Free
    BY <2>1, <2>2 DEF Runs, BusOK, TakesDma, LeftOver
  <2>4. phy'.todo = <<"prepare_phy">> /\ phy'.next = <<>>
    BY <1>5, <2>1, FunctionsAre DEF Todo, Queue
  <2>5. Place(phy.todo, phy.next, frame.tx)'
    BY <1>1, <1>6, <2>4 DEF Place, Fresh
  <2>6. BusOK(phy.todo, phy.next)'
    BY <1>1, <2>3, <2>4 DEF BusOK, TakesDma, LeftOver, Free
  <2>7. SignalOK(phy.todo, phy.next)'
    BY <1>1, <1>5, <2>2, <2>4 DEF SignalOK, IsFresh
  <2> QED
    BY <1>1, <1>5, <2>5, <2>6, <2>7 DEF PhyTypes, Runs
<1>8. CASE Receives(phy.todo, phy.next, tx)
  <2>1. phy.todo = <<"transfer_register">> /\ \E list \in Answers(tx) : phy.next = <<list>>
    BY <1>1, <1>8, ReceivesHead DEF Readings
  <2>2. PICK list \in Answers(tx) : phy.next = <<list>>
    BY <2>1
  <2>3. /\ list \in Lists /\ list \notin {"prepare_phy", "new_frame", "wait_to_send"}
        /\ \E f \in Readings(tx) : Functions[list] = <<"close_spi", f>>
    BY StepTypes, ListRead
  <2>4. PICK f \in Readings(tx) : Functions[list] = <<"close_spi", f>>
    BY <2>3
  <2>5. ~IsFresh(phy.todo, phy.next)
    <3>1. list # "prepare_phy"
      BY <2>3
    <3>2. <<list>> # <<"prepare_phy">>
      BY <3>1
    <3> QED
      BY <2>1, <2>2, <3>2 DEF IsFresh
  <2>6. cpu = "process" /\ phy.input = "DMA_CMPLT" /\ ~dma.pending
    BY <1>1, <2>5 DEF Runs, SignalOK, BusOK, TakesIrq, Free
  <2>7. phy'.todo = <<"close_spi", f>> /\ phy'.next = <<>>
    BY <1>5, <2>1, <2>2, <2>4 DEF Todo, Queue
  <2>8. Head(phy'.todo) = "close_spi" /\ phy'.todo # <<"get_payload">>
    BY <2>7
  <2>9. Place(phy.todo, phy.next, frame.tx)'
    <3>1. Receives(phy.todo, phy.next, frame.tx)'
      BY <1>1, <2>7 DEF Receives
    <3> QED
      BY <1>1, <1>6, <2>8, <3>1 DEF Place
  <2>10. BusOK(phy.todo, phy.next)'
    BY <1>1, <1>5, <2>6 DEF BusOK, Free
  <2>11. SignalOK(phy.todo, phy.next)'
    BY <1>5, <2>6, <2>8, NotFresh DEF SignalOK, NeedRadioIrq
  <2> QED
    BY <1>1, <1>5, <2>9, <2>10, <2>11 DEF PhyTypes, Runs
<1> QED
  BY <1>3, <1>7, <1>8

\* The radio rests, and no interrupt of its is on the way.
Calm == ~radio.armed /\ radio.event = "none" /\ ~irq.pending /\ NoEdge

\* A function of an interrupt ends the frame.
LEMMA FrameOver ==
  ASSUME PhyTypes, Runs, mac' = mac, cpu = "process", Free, Calm, Tail(phy.todo) = <<>>,
         frame' = frame, spi' = spi, dma' = dma, radio' = radio, irq' \in {irq, Disabled},
         NEW p \in PhyType, Leaves(p), p.main \in Outcomes,
         p.next \in {<<"prepare_phy">>, <<"transfer_register", "prepare_phy">>}
  PROVE  PhyTypes' /\ Runs'
<1>1. /\ phy'.todo = Todo(<<>>, p.next) /\ phy'.next = Queue(<<>>, p.next)
      /\ phy' \in PhyType /\ phy'.main \in Outcomes /\ cpu' = "handle"
  BY StepTypes, Leaving DEF Left, Outcomes
<1>2. \/ phy'.todo = <<"prepare_phy">> /\ phy'.next = <<>>
      \/ phy'.todo = <<"transfer_register">> /\ phy'.next = <<"prepare_phy">>
  <2>1. CASE p.next = <<"prepare_phy">>
    BY <1>1, <2>1, FunctionsAre DEF Todo, Queue
  <2>2. CASE p.next = <<"transfer_register", "prepare_phy">>
    BY <1>1, <2>2, FunctionsAre DEF Todo, Queue
  <2> QED
    BY <2>1, <2>2
<1>3. irq' \in InterruptType /\ ~irq'.pending /\ (irq'.enabled => irq.enabled)
  BY StepTypes, RestTypes DEF Calm
<1>4. Place(phy.todo, phy.next, frame.tx)'
  <2>1. Fresh(phy.todo, phy.next)'
    BY <1>2 DEF Fresh
  <2>2. Deaf'
    BY <1>3 DEF Deaf, NoEdge, Calm, Free
  <2>3. spi' = "idle"
    BY DEF Free
  <2> QED
    BY <2>1, <2>2, <2>3 DEF Place
<1>5. BusOK(phy.todo, phy.next)'
  <2>1. ~(TakesDma(phy.todo, phy.next) \/ LeftOver(phy.todo, phy.next))'
    BY <1>2 DEF TakesDma, LeftOver
  <2> QED
    BY <2>1 DEF BusOK, Free
<1>6. SignalOK(phy.todo, phy.next)'
  BY <1>1, <1>2 DEF SignalOK, IsFresh
<1> QED
  BY <1>1, <1>3, <1>4, <1>5, <1>6 DEF PhyTypes, Runs, Free

\* A function of an interrupt starts a transfer, and has a list to go on with.
LEMMA ReadOn ==
  ASSUME PhyTypes, Runs, mac' = mac, cpu = "process", Free, Tail(phy.todo) = <<>>,
         frame' = frame, spi' \in {"cir", "info"}, dma' = dma, PhyTypes => radio' \in RadioType,
         irq' \in {irq, Disabled}, Calm',
         NEW list \in Answers(frame.tx),
         NEW p \in PhyType, Leaves(p), p.main = "YIELD",
         p.next \in {<<list>>, <<"transfer_register", list>>}
  PROVE  PhyTypes' /\ Runs'
<1>1. /\ phy'.todo = Todo(<<>>, p.next) /\ phy'.next = Queue(<<>>, p.next)
      /\ phy' \in PhyType /\ phy'.main = "YIELD" /\ cpu' = "handle"
  BY StepTypes, Leaving DEF Left
<1>2. PICK f \in Readings(frame.tx) : Functions[list] = <<"close_spi", f>>
  BY StepTypes, ListRead
<1>3. \/ phy'.todo = <<"close_spi", f>> /\ phy'.next = <<>>
      \/ phy'.todo = <<"transfer_register">> /\ phy'.next = <<list>>
  <2>1. CASE p.next = <<list>>
    BY <1>1, <1>2, <2>1 DEF Todo, Queue
  <2>2. CASE p.next = <<"transfer_register", list>>
    <3>1. p.next # <<>> /\ Head(p.next) = "transfer_register" /\ Tail(p.next) = <<list>>
      BY <2>2
    <3> QED
      BY <1>1, <3>1, FunctionsAre DEF Todo, Queue
  <2> QED
    BY <2>1, <2>2
<1>4. list # "prepare_phy"
  BY StepTypes, ListRead
<1>5. /\ Head(phy'.todo) \in {"close_spi", "transfer_register"} /\ phy'.todo # <<"get_payload">>
      /\ Head(phy'.todo) = "transfer_register" => phy'.next # <<"prepare_phy">>
  <2>1. CASE phy'.todo = <<"close_spi", f>>
    BY <2>1
  <2>2. CASE phy'.todo = <<"transfer_register">> /\ phy'.next = <<list>>
    <3>1. <<list>> # <<"prepare_phy">>
      BY <1>4
    <3> QED
      BY <2>2, <3>1
  <2> QED
    BY <1>3, <2>1, <2>2
<1>6. ~IsFresh(phy'.todo, phy'.next) /\ TakesDma(phy'.todo, phy'.next)
  BY <1>5 DEF IsFresh, TakesDma
<1>7. irq' \in InterruptType
  BY StepTypes, RestTypes
<1>8. Place(phy.todo, phy.next, frame.tx)'
  <2>1. Receives(phy'.todo, phy'.next, frame.tx)
    BY <1>3 DEF Receives
  <2>2. Deaf'
    BY DEF Deaf, Calm
  <2> QED
    BY <1>5, <2>1, <2>2 DEF Place
<1>9. BusOK(phy.todo, phy.next)'
  BY <1>1, <1>6 DEF BusOK, Due, Free, Transfers
<1>10. SignalOK(phy.todo, phy.next)'
  BY <1>1, <1>6 DEF SignalOK
<1> QED
  BY <1>1, <1>7, <1>8, <1>9, <1>10 DEF PhyTypes, Runs, Transfers

\* What is queued behind a register asked for.
LEMMA AskedThen ==
  ASSUME NEW n \in Asked, NEW list \in Lists
  PROVE  /\ Append(n, list) \in {<<list>>, <<"transfer_register", list>>}
         /\ Append(n, list) \in Seq(Lists)
<1>1. "transfer_register" \in Lists
  BY DEF Lists
<1>2. Append(<<>>, list) = <<list>> /\ Append(<<"transfer_register">>, list) = <<"transfer_register", list>>
  BY <1>1, ShortSeqs
<1>3. n \in Seq(Lists)
  <2>1. <<>> \in Seq(Lists) /\ <<"transfer_register">> \in Seq(Lists)
    BY <1>1
  <2> QED
    BY <2>1 DEF Asked
<1> QED
  BY <1>2, <1>3, Seqs DEF Asked

LEMMA OverType ==
  ASSUME phy \in PhyType, NEW signal \in Outcomes, NEW outcome \in OutcomeNames, phy.next \in Asked
  PROVE  /\ Over(signal, outcome) \in PhyType /\ Over(signal, outcome).main = signal
         /\ Over(signal, outcome).next \in {<<"prepare_phy">>, <<"transfer_register", "prepare_phy">>}
<1>1. /\ Append(phy.next, "prepare_phy") \in {<<"prepare_phy">>, <<"transfer_register", "prepare_phy">>}
      /\ Append(phy.next, "prepare_phy") \in Seq(Lists)
  BY AskedThen DEF Lists
<1>2. signal \in Signals
  BY DEF Signals
<1> HIDE DEF Outcomes, OutcomeNames
<1> QED
  BY <1>1, <1>2 DEF Over, Enqueue, PhyType

LEMMA GoodReplyStep ==
  ASSUME PhyTypes, Runs, mac' = mac, cpu = "process", Free, Tail(phy.todo) = <<>>, phy.next \in Asked,
         frame.tx, Calm, frame' = frame, dma' = dma, irq' = irq, radio' = radio, GoodReply
  PROVE  PhyTypes' /\ Runs'
<1> DEFINE list == "get_auto_reply_header"
           p == Enqueue(Raise([phy EXCEPT !.outcome = "SENT_ACK"], "YIELD"), list)
<1>1. Leaves(p) /\ Transfer("info")
  BY DEF GoodReply
<1>2. list \in Answers(frame.tx) /\ list \in Lists
  BY DEF Answers, Lists
<1>3. /\ Append(phy.next, list) \in {<<list>>, <<"transfer_register", list>>}
      /\ Append(phy.next, list) \in Seq(Lists)
  BY <1>2, AskedThen
<1>4. p \in PhyType /\ p.main = "YIELD" /\ p.next = Append(phy.next, list)
  BY <1>3, StepTypes DEF Enqueue, Raise, PhyType, Signals, OutcomeNames
<1>5. spi' = "info"
  BY <1>1 DEF Transfer, Free
<1>6. Calm'
  BY DEF Calm, NoEdge
<1> HIDE DEF p, list
<1>7. radio' \in RadioType
  BY StepTypes
<1> QED
  BY <1>1, <1>2, <1>3, <1>4, <1>5, <1>6, <1>7, ReadOn

LEMMA GoodFrameStep ==
  ASSUME PhyTypes, Runs, mac' = mac, cpu = "process", Free, Tail(phy.todo) = <<>>, phy.next \in Asked,
         ~frame.tx, Calm, frame' = frame, dma' = dma, GoodFrame
  PROVE  PhyTypes' /\ Runs'
<1> DEFINE list == "get_frame_header"
           waiting == Replies /\ radio.read # "broadcast"
           p == Enqueue(Raise([phy EXCEPT !.outcome = "RECEIVED", !.wait = IF waiting THEN Waits ELSE @], "YIELD"),
                        list)
<1>1. /\ Leaves(p) /\ Transfer("info")
      /\ \/ irq' = irq /\ radio' = radio
         \/ irq' = Disabled /\ radio' = [radio EXCEPT !.await = TRUE, !.pin = @ \/ radio.reply = "sent"]
  BY DEF GoodFrame
<1>2. list \in Answers(frame.tx) /\ list \in Lists
  BY DEF Answers, Lists
<1>3. /\ Append(phy.next, list) \in {<<list>>, <<"transfer_register", list>>}
      /\ Append(phy.next, list) \in Seq(Lists)
  BY <1>2, AskedThen
<1>4. p \in PhyType /\ p.main = "YIELD" /\ p.next = Append(phy.next, list)
  <2>1. Waits \in BOOLEAN
    BY DEF Waits
  <2> HIDE DEF waiting
  <2> QED
    BY <1>3, <2>1, StepTypes DEF Enqueue, Raise, PhyType, Signals, OutcomeNames
<1>5. spi' = "info"
  BY <1>1 DEF Transfer, Free
<1> HIDE DEF p, list, waiting
<1>6. Calm' /\ radio' \in RadioType /\ irq' \in {irq, Disabled}
  <2>1. CASE irq' = irq /\ radio' = radio
    BY <2>1, StepTypes DEF Calm, NoEdge
  <2>2. CASE irq' = Disabled /\ radio' = [radio EXCEPT !.await = TRUE, !.pin = @ \/ radio.reply = "sent"]
    <3>1. /\ radio' \in RadioType /\ radio'.armed = radio.armed /\ radio'.event = radio.event
      BY <2>2, StepTypes DEF RadioType
    <3> QED
      BY <2>2, <3>1, RestTypes DEF Calm, NoEdge
  <2> QED
    BY <1>1, <2>1, <2>2
<1> QED
  BY <1>1, <1>2, <1>3, <1>4, <1>5, <1>6, ReadOn

LEMMA ReadCirStep ==
  ASSUME PhyTypes, Runs, mac' = mac, cpu = "process", Free, Tail(phy.todo) = <<>>, phy.next \in Asked,
         Calm, frame' = frame, dma' = dma, irq' = irq, radio' = radio,
         NEW list \in Answers(frame.tx), NEW outcome \in OutcomeNames, ReadCir(list, outcome)
  PROVE  PhyTypes' /\ Runs'
<1> DEFINE p == Enqueue(Raise([phy EXCEPT !.outcome = outcome], "YIELD"), list)
<1>1. Leaves(p) /\ Transfer("cir")
  BY DEF ReadCir
<1>2. list \in Lists
  BY StepTypes, ListRead
<1>3. /\ Append(phy.next, list) \in {<<list>>, <<"transfer_register", list>>}
      /\ Append(phy.next, list) \in Seq(Lists)
  BY <1>2, AskedThen
<1>4. p \in PhyType /\ p.main = "YIELD" /\ p.next = Append(phy.next, list)
  <2> HIDE DEF OutcomeNames
  <2> QED
    BY <1>3, StepTypes DEF Enqueue, Raise, PhyType, Signals
<1>5. spi' = "cir"
  BY <1>1 DEF Transfer, Free
<1>6. Calm' /\ radio' \in RadioType
  BY StepTypes DEF Calm, NoEdge
<1> HIDE DEF p
<1> QED
  BY <1>1, <1>3, <1>4, <1>5, <1>6, ReadOn

\* The events of the radio are known.
LEMMA EventsKnown ==
  ASSUME PhyTypes, Runs, cpu \in {"process", "prepare"},
         Head(phy.todo) \in {"process_event_tx", "process_event_rx"}
  PROVE  /\ cpu = "process" /\ Free /\ Tail(phy.todo) = <<>> /\ phy.next \in Asked /\ Calm
         /\ Head(phy.todo) = Processing(frame.tx) /\ radio.read \in EventsOf(frame.tx)
<1> DEFINE e == Processing(frame.tx)
<1>1. cpu = "process" /\ Free
  BY CalledByDma DEF AfterDma
<1>2. Reads(phy.todo, phy.next, frame.tx) /\ EventRead(frame.tx)
  BY AtPlace DEF Runs
<1> HIDE DEF e
<1>3. Head(phy.todo) = e /\ phy.todo = <<e>> /\ phy.next \in Asked
  BY <1>2, ReadsHead DEF e
<1>4. Tail(phy.todo) = <<>>
  BY <1>3
<1>5. Calm /\ radio.read \in EventsOf(frame.tx)
  BY <1>1, <1>2 DEF EventRead, Calm, NoEdge, Free
<1> QED
  BY <1>1, <1>3, <1>4, <1>5 DEF e

LEMMA ProcessEventTx ==
  ASSUME PhyTypes, Runs, mac' = mac, process_event_tx
  PROVE  PhyTypes' /\ Runs'
<1>1. /\ cpu \in {"process", "prepare"} /\ Head(phy.todo) = "process_event_tx"
      /\ frame' = frame /\ dma' = dma /\ irq' = irq /\ radio' = radio
  BY DEF process_event_tx, Called
<1>2. /\ cpu = "process" /\ Free /\ Tail(phy.todo) = <<>> /\ phy.next \in Asked /\ Calm
      /\ frame.tx /\ radio.read \in {"wakeup", "sent", "cca", "good", "lost", "rejected"}
  BY <1>1, EventsKnown, StepTypes DEF Processing, EventsOf
<1>3. \/ \E outcome \in OutcomeNames : Leaves(Over("SENT_NACK", outcome)) /\ spi' = spi
      \/ ReadCir("handle_good_frame_auto", "SENT_ACK")
      \/ GoodReply
  <2>1. frame.phase \in BOOLEAN
    BY DEF PhyTypes, FrameType
  <2> QED
    BY <1>2, <2>1 DEF process_event_tx, OutcomeNames
<1>4. ASSUME NEW outcome \in OutcomeNames, Leaves(Over("SENT_NACK", outcome)), spi' = spi
      PROVE  PhyTypes' /\ Runs'
  <2> DEFINE p == Over("SENT_NACK", outcome)
  <2>1. /\ p \in PhyType /\ p.main \in Outcomes /\ Leaves(p)
        /\ p.next \in {<<"prepare_phy">>, <<"transfer_register", "prepare_phy">>}
    BY <1>2, <1>4, StepTypes, OverType DEF Outcomes
  <2> HIDE DEF p
  <2> QED
    BY <1>1, <1>2, <1>4, <2>1, FrameOver
<1>5. CASE ReadCir("handle_good_frame_auto", "SENT_ACK")
  <2>1. "handle_good_frame_auto" \in Answers(frame.tx) /\ "SENT_ACK" \in OutcomeNames
    BY <1>2 DEF Answers, OutcomeNames
  <2> QED
    BY <1>1, <1>2, <1>5, <2>1, ReadCirStep
<1>6. CASE GoodReply
  BY <1>1, <1>2, <1>6, GoodReplyStep
<1> QED
  BY <1>3, <1>4, <1>5, <1>6

LEMMA ProcessEventRx ==
  ASSUME PhyTypes, Runs, mac' = mac, process_event_rx
  PROVE  PhyTypes' /\ Runs'
<1>1. /\ cpu \in {"process", "prepare"} /\ Head(phy.todo) = "process_event_rx"
      /\ frame' = frame /\ dma' = dma
  BY DEF process_event_rx, Called
<1>2. /\ cpu = "process" /\ Free /\ Tail(phy.todo) = <<>> /\ phy.next \in Asked /\ Calm
      /\ ~frame.tx /\ radio.read \in {"good", "lost", "rejected", "broadcast"}
  BY <1>1, EventsKnown, StepTypes DEF Processing, EventsOf
<1>3. \/ \E outcome \in OutcomeNames :
           Leaves(Over("MISSED", outcome)) /\ spi' = spi /\ radio' = radio /\ irq' \in {irq, Disabled}
      \/ ReadCir("handle_good_frame", "RECEIVED") /\ irq' = irq /\ radio' = radio
      \/ GoodFrame
  <2>1. frame.phase \in BOOLEAN
    BY DEF PhyTypes, FrameType
  <2> QED
    BY <1>2, <2>1 DEF process_event_rx, OutcomeNames
<1>4. ASSUME NEW outcome \in OutcomeNames, Leaves(Over("MISSED", outcome)), spi' = spi, radio' = radio,
             irq' \in {irq, Disabled}
      PROVE  PhyTypes' /\ Runs'
  <2> DEFINE p == Over("MISSED", outcome)
  <2>1. /\ p \in PhyType /\ p.main \in Outcomes /\ Leaves(p)
        /\ p.next \in {<<"prepare_phy">>, <<"transfer_register", "prepare_phy">>}
    BY <1>2, <1>4, StepTypes, OverType DEF Outcomes
  <2> HIDE DEF p
  <2> QED
    BY <1>1, <1>2, <1>4, <2>1, FrameOver
<1>5. CASE ReadCir("handle_good_frame", "RECEIVED") /\ irq' = irq /\ radio' = radio
  <2>1. "handle_good_frame" \in Answers(frame.tx) /\ "RECEIVED" \in OutcomeNames
    BY <1>2 DEF Answers, OutcomeNames
  <2> QED
    BY <1>1, <1>2, <1>5, <2>1, ReadCirStep
<1>6. CASE GoodFrame
  BY <1>1, <1>2, <1>6, GoodFrameStep
<1> QED
  BY <1>3, <1>4, <1>5, <1>6

\* What was received is known, and nothing is queued behind.
LEMMA ReceptionKnown ==
  ASSUME PhyTypes, Runs, cpu \in {"process", "prepare"},
         Head(phy.todo) \in {"handle_good_frame", "handle_good_auto_reply", "get_frame_header",
                             "get_auto_reply_header"}
  PROVE  /\ cpu = "process" /\ Free /\ Tail(phy.todo) = <<>> /\ phy.next = <<>> /\ phy.next \in Asked /\ Calm
         /\ phy.main = "PROCESSING" /\ Head(phy.todo) \in Readings(frame.tx)
<1>1. cpu = "process" /\ Free /\ phy.main = "PROCESSING"
  BY CalledByDma DEF AfterDma
<1>2. Receives(phy.todo, phy.next, frame.tx) /\ Deaf
  BY AtPlace DEF Runs
<1>3. PICK f \in Readings(frame.tx) : Head(phy.todo) = f /\ phy.todo = <<f>> /\ phy.next = <<>>
  BY <1>2, ReceivesHead
<1>4. Tail(phy.todo) = <<>>
  BY <1>3
<1>5. Calm
  BY <1>1, <1>2 DEF Deaf, Calm
<1> QED
  BY <1>1, <1>3, <1>4, <1>5 DEF Asked

LEMMA HandleGoodFrame ==
  ASSUME PhyTypes, Runs, mac' = mac, handle_good_frame \/ handle_good_auto_reply
  PROVE  PhyTypes' /\ Runs'
<1>1. CASE handle_good_frame
  <2>1. /\ cpu \in {"process", "prepare"} /\ Head(phy.todo) = "handle_good_frame" /\ GoodFrame
        /\ frame' = frame /\ dma' = dma
    BY <1>1 DEF handle_good_frame, Called
  <2>2. /\ cpu = "process" /\ Free /\ Tail(phy.todo) = <<>> /\ phy.next \in Asked /\ Calm /\ ~frame.tx
    BY <2>1, ReceptionKnown DEF Readings
  <2> QED
    BY <2>1, <2>2, GoodFrameStep
<1>2. CASE handle_good_auto_reply
  <2>1. /\ cpu \in {"process", "prepare"} /\ Head(phy.todo) = "handle_good_auto_reply" /\ GoodReply
        /\ frame' = frame /\ dma' = dma /\ irq' = irq /\ radio' = radio
    BY <1>2 DEF handle_good_auto_reply, Called
  <2>2. /\ cpu = "process" /\ Free /\ Tail(phy.todo) = <<>> /\ phy.next \in Asked /\ Calm /\ frame.tx
    BY <2>1, ReceptionKnown DEF Readings
  <2> QED
    BY <2>1, <2>2, GoodReplyStep
<1> QED
  BY <1>1, <1>2

LEMMA HeaderReadStep ==
  ASSUME PhyTypes, Runs, mac' = mac, cpu = "process", Free, Tail(phy.todo) = <<>>, phy.next = <<>>, Calm,
         frame' = frame, dma' = dma, irq' = irq, radio' = radio,
         NEW payload \in BOOLEAN, Leaves(HeaderRead(payload)), Transfer("header_in"),
         frame.tx => frame.auto = "reply" /\ ~payload
  PROVE  PhyTypes' /\ Runs'
<1> DEFINE p == HeaderRead(payload)
<1>1. /\ Append(<<>>, "get_payload") = <<"get_payload">>
      /\ Append(<<"get_payload">>, "prepare_phy") = <<"get_payload", "prepare_phy">>
      /\ <<"get_payload", "prepare_phy">> \in Seq(Lists)
      /\ "get_payload" \in Lists /\ "prepare_phy" \in Lists
  <2>1. "get_payload" \in Lists /\ "prepare_phy" \in Lists
    BY DEF Lists
  <2>2. <<"get_payload", "prepare_phy">> \in Seq(Lists)
    BY <2>1, ShortTypes
  <2>3. /\ Append(<<>>, "get_payload") = <<"get_payload">>
        /\ Append(<<"get_payload">>, "prepare_phy") = <<"get_payload", "prepare_phy">>
    BY <2>1, ShortSeqs
  <2> QED
    BY <2>1, <2>2, <2>3
<1>2. /\ p \in PhyType /\ p.main = "YIELD" /\ p.payload = payload /\ p.next = <<"get_payload", "prepare_phy">>
  BY <1>1, StepTypes DEF HeaderRead, Enqueue, PhyType, Signals
<1>3. Leaves(p)
  OBVIOUS
<1> HIDE DEF p
<1>4. /\ phy'.todo = <<"get_payload">> /\ phy'.next = <<"prepare_phy">> /\ phy'.payload = payload
      /\ phy' \in PhyType /\ phy'.main = "YIELD" /\ cpu' = "handle"
  <2>1. Todo(<<>>, p.next) = <<"get_payload">> /\ Queue(<<>>, p.next) = <<"prepare_phy">>
    BY <1>2, FunctionsAre DEF Todo, Queue
  <2> QED
    BY <1>2, <1>3, <2>1, StepTypes, Leaving DEF Left
<1>5. spi' = "header_in"
  BY DEF Transfer, Free
<1>6. Place(phy.todo, phy.next, frame.tx)'
  <2>1. Receives(phy.todo, phy.next, frame.tx)'
    BY <1>4 DEF Receives
  <2>2. Deaf'
    BY <1>5 DEF Deaf, Calm, NoEdge
  <2> QED
    BY <1>4, <1>5, <2>1, <2>2 DEF Place
<1>7. BusOK(phy.todo, phy.next)'
  BY <1>4, <1>5 DEF BusOK, TakesDma, Due, Free, Transfers
<1>8. SignalOK(phy.todo, phy.next)'
  BY <1>4 DEF SignalOK, IsFresh, TakesDma
<1> QED
  BY <1>4, <1>5, <1>6, <1>7, <1>8 DEF PhyTypes, Runs, Transfers

LEMMA GetFrameHeader ==
  ASSUME PhyTypes, Runs, mac' = mac, get_frame_header \/ get_auto_reply_header
  PROVE  PhyTypes' /\ Runs'
<1>1. /\ cpu \in {"process", "prepare"} /\ frame' = frame /\ dma' = dma /\ irq' = irq /\ radio' = radio
      /\ Head(phy.todo) \in {"get_frame_header", "get_auto_reply_header"}
  BY DEF get_frame_header, get_auto_reply_header, Called
<1>2. /\ cpu = "process" /\ Free /\ Tail(phy.todo) = <<>> /\ phy.next = <<>> /\ phy.next \in Asked /\ Calm
      /\ Head(phy.todo) \in Readings(frame.tx)
  BY <1>1, ReceptionKnown
<1>3. ASSUME NEW signal \in Outcomes, NEW outcome \in OutcomeNames, Leaves(Over(signal, outcome)), spi' = spi
      PROVE  PhyTypes' /\ Runs'
  <2> DEFINE p == Over(signal, outcome)
  <2>1. /\ p \in PhyType /\ p.main \in Outcomes /\ Leaves(p)
        /\ p.next \in {<<"prepare_phy">>, <<"transfer_register", "prepare_phy">>}
    BY <1>2, <1>3, StepTypes, OverType
  <2> HIDE DEF p
  <2> QED
    BY <1>1, <1>2, <1>3, <2>1, FrameOver
<1>4. phy.outcome \in OutcomeNames
  BY StepTypes, PhyFields
<1>5. CASE get_frame_header
  <2>1. ~frame.tx
    BY <1>2, <1>5 DEF get_frame_header, Called, Readings
  <2>2. \/ Leaves(Over("MISSED", phy.outcome)) /\ spi' = spi
        \/ \E payload \in BOOLEAN : Leaves(HeaderRead(payload)) /\ Transfer("header_in")
    BY <1>5 DEF get_frame_header
  <2>3. CASE Leaves(Over("MISSED", phy.outcome)) /\ spi' = spi
    BY <1>3, <1>4, <2>3 DEF Outcomes
  <2>4. CASE \E payload \in BOOLEAN : Leaves(HeaderRead(payload)) /\ Transfer("header_in")
    BY <1>1, <1>2, <2>1, <2>4, HeaderReadStep
  <2> QED
    BY <2>2, <2>3, <2>4
<1>6. CASE get_auto_reply_header
  <2>1. \/ Leaves(Over("SENT_ACK", "SENT_ACK")) /\ spi' = spi
        \/ Leaves(Over("MISSED", "SENT_ACK")) /\ spi' = spi
        \/ frame.auto = "reply" /\ Leaves(HeaderRead(FALSE)) /\ Transfer("header_in")
    BY <1>6 DEF get_auto_reply_header
  <2>2. CASE Leaves(Over("SENT_ACK", "SENT_ACK")) /\ spi' = spi
    BY <1>3, <2>2 DEF Outcomes, OutcomeNames
  <2>3. CASE Leaves(Over("MISSED", "SENT_ACK")) /\ spi' = spi
    BY <1>3, <2>3 DEF Outcomes, OutcomeNames
  <2>4. CASE frame.auto = "reply" /\ Leaves(HeaderRead(FALSE)) /\ Transfer("header_in")
    BY <1>1, <1>2, <2>4, HeaderReadStep
  <2> QED
    BY <2>1, <2>2, <2>3, <2>4
<1> QED
  BY <1>5, <1>6

\* What get_payload leaves in the queue, and the signal it raises.
LEMMA PayloadLeft ==
  ASSUME PhyTypes, phy.main = "PROCESSING", phy.next = <<"prepare_phy">>, frame.tx => frame.auto = "reply", get_payload
  PROVE  \E p \in PhyType :
           /\ Leaves(p) /\ p.main \in Outcomes
           /\ p.next \in {<<"prepare_phy">> \o n :
                            n \in IF phy.payload THEN {<<"new_frame">>, <<"new_frame", "wait_to_send">>}
                                  ELSE {<<>>, <<"wait_to_send">>}}
<1> DEFINE main == IF frame.tx THEN "PROCESSING" ELSE "RECEIVED"
           q == [phy EXCEPT !.main = IF frame.tx THEN @ ELSE "RECEIVED"]
           s == PayloadStates(q)
           r == CASE frame.auto # "reply" -> s
                  [] Replies /\ phy.wait /\ radio.read # "broadcast" -> Enqueue(s, "wait_to_send")
                  [] OTHER -> Raise(s, "SENT_ACK")
           a == <<"prepare_phy">>
           b == <<"prepare_phy", "new_frame">>
<1>1. {"prepare_phy", "new_frame", "wait_to_send"} \subseteq Lists
  BY DEF Lists
<1>2. /\ a \in Seq(Lists) /\ b \in Seq(Lists) /\ Append(a, "new_frame") = b
      /\ Append(a, "wait_to_send") \in Seq(Lists) /\ Append(b, "wait_to_send") \in Seq(Lists)
  <2>1. a \in Seq(Lists) /\ b \in Seq(Lists)
    BY <1>1, ShortTypes
  <2>2. Append(a, "new_frame") = b
    BY <1>1, ShortSeqs
  <2> HIDE DEF a, b
  <2>3. Append(a, "wait_to_send") \in Seq(Lists) /\ Append(b, "wait_to_send") \in Seq(Lists)
    BY <1>1, <2>1, Seqs
  <2> QED
    BY <2>1, <2>2, <2>3
<1>3. /\ a = a \o <<>> /\ b = a \o <<"new_frame">>
      /\ Append(a, "wait_to_send") = a \o <<"wait_to_send">>
      /\ Append(b, "wait_to_send") = a \o <<"new_frame", "wait_to_send">>
  <2>1. <<"new_frame">> \in Seq(Lists) /\ <<"wait_to_send">> \in Seq(Lists)
    BY <1>1
  <2>2. a = a \o <<>> /\ b = a \o <<"new_frame">>
    BY <1>1, <1>2, ConcatEmptySeq, ShortSeqs
  <2>3. Append(a, "wait_to_send") = a \o <<"wait_to_send">> /\ Append(b, "wait_to_send") = b \o <<"wait_to_send">>
    BY <1>1, <1>2, AppendIsConcat
  <2>4. Associates(a, <<"new_frame">>, <<"wait_to_send">>)
    BY <1>2, <2>1, Association
  <2>5. <<"new_frame">> \o <<"wait_to_send">> = <<"new_frame", "wait_to_send">>
    BY <1>1, ShortSeqs
  <2> HIDE DEF a, b
  <2>6. b \o <<"wait_to_send">> = a \o <<"new_frame", "wait_to_send">>
    BY <2>2, <2>4, <2>5 DEF Associates
  <2> QED
    BY <2>2, <2>3, <2>6
<1>4. q \in PhyType /\ q.main = main /\ q.next = a /\ q.payload = phy.payload
  BY StepTypes DEF PhyType, Signals, Outcomes
<1>5. /\ s \in PhyType /\ s.main = main /\ s.next = IF phy.payload THEN b ELSE a
  <2> HIDE DEF q, main, a, b
  <2>1. s = IF phy.payload THEN [q EXCEPT !.next = Append(a, "new_frame")] ELSE q
    BY <1>4 DEF PayloadStates, Enqueue, PhyType
  <2> HIDE DEF s
  <2> QED
    BY <1>2, <1>4, <2>1 DEF PhyType
<1>6. Leaves(r)
  BY DEF get_payload
<1> HIDE DEF q, s, a, b
<1>7. /\ r \in PhyType /\ r.main \in Outcomes
      /\ r.next \in IF phy.payload THEN {b, Append(b, "wait_to_send")} ELSE {a, Append(a, "wait_to_send")}
  <2>1. /\ Enqueue(s, "wait_to_send") \in PhyType /\ Enqueue(s, "wait_to_send").main = main
        /\ Enqueue(s, "wait_to_send").next
             = IF phy.payload THEN Append(b, "wait_to_send") ELSE Append(a, "wait_to_send")
    BY <1>2, <1>5 DEF Enqueue, PhyType
  <2>2. /\ Raise(s, "SENT_ACK") \in PhyType /\ Raise(s, "SENT_ACK").main = "SENT_ACK"
        /\ Raise(s, "SENT_ACK").next = s.next
    BY <1>5 DEF Raise, PhyType, Signals, Outcomes
  <2>3. CASE frame.auto # "reply"
    <3>1. r = s /\ ~frame.tx
      BY <2>3, StepTypes DEF Replies
    <3> QED
      BY <1>5, <3>1 DEF Outcomes
  <2>4. CASE frame.auto = "reply" /\ Replies /\ phy.wait /\ radio.read # "broadcast"
    BY <1>5, <2>1, <2>4, StepTypes DEF Outcomes, Replies
  <2>5. CASE frame.auto = "reply" /\ ~(Replies /\ phy.wait /\ radio.read # "broadcast")
    BY <1>5, <2>2, <2>5 DEF Outcomes
  <2> QED
    BY <2>3, <2>4, <2>5
<1> HIDE DEF r
<1> QED
  BY <1>3, <1>6, <1>7 DEF a

LEMMA GetPayload ==
  ASSUME PhyTypes, Runs, mac' = mac, get_payload
  PROVE  PhyTypes' /\ Runs'
<1>1. /\ cpu \in {"process", "prepare"} /\ Head(phy.todo) = "get_payload"
      /\ frame' = frame /\ dma' = dma /\ irq' = irq /\ radio' = radio
      /\ IF phy.payload THEN Transfer("payload_in") ELSE spi' = spi
  BY DEF get_payload, Called
<1>2. cpu = "process" /\ Free /\ phy.main = "PROCESSING"
  BY <1>1, CalledByDma DEF AfterDma
<1>3. /\ Receives(phy.todo, phy.next, frame.tx) /\ Deaf
      /\ phy.todo = <<"get_payload">> => (frame.tx => frame.auto = "reply" /\ ~phy.payload)
  BY <1>1, AtPlace DEF Runs
<1>4. phy.todo = <<"get_payload">> /\ phy.next = <<"prepare_phy">>
  BY <1>1, <1>3, ReceivesHead DEF Readings
<1>5. PICK p \in PhyType :
        /\ Leaves(p) /\ p.main \in Outcomes
        /\ p.next \in {<<"prepare_phy">> \o n :
                         n \in IF phy.payload THEN {<<"new_frame">>, <<"new_frame", "wait_to_send">>}
                               ELSE {<<>>, <<"wait_to_send">>}}
  BY <1>2, <1>3, <1>4, PayloadLeft
<1>6. PICK n \in (IF phy.payload THEN {<<"new_frame">>, <<"new_frame", "wait_to_send">>}
                  ELSE {<<>>, <<"wait_to_send">>}) :
        p.next = <<"prepare_phy">> \o n
  BY <1>5
<1>7. n \in Queued /\ n \in Seq(Lists) /\ (phy.payload <=> n \in {<<"new_frame">>, <<"new_frame", "wait_to_send">>})
  <2>1. n \in Queued
    BY <1>6 DEF Queued
  <2>2. {"new_frame", "wait_to_send"} \subseteq Lists
    BY DEF Lists
  <2>3. n \in Seq(Lists)
    BY <2>1, <2>2, ShortTypes DEF Queued
  <2>4. phy.payload <=> n \in {<<"new_frame">>, <<"new_frame", "wait_to_send">>}
    BY <1>6
  <2> QED
    BY <2>1, <2>3, <2>4
<1>8. /\ phy'.todo = <<"prepare_phy">> /\ phy'.next = n /\ phy' \in PhyType
      /\ phy'.main \in Outcomes /\ cpu' = "handle"
  <2>1. Tail(phy.todo) = <<>> /\ "prepare_phy" \in Lists
    BY <1>4 DEF Lists
  <2>2. p.next # <<>> /\ Head(p.next) = "prepare_phy" /\ Tail(p.next) = n
    BY <1>6, <1>7, <2>1, InFront
  <2> QED
    BY <1>2, <1>5, <2>1, <2>2, StepTypes, FunctionsAre, Leaving DEF Left, Todo, Queue, Outcomes
<1>9. /\ spi' = IF phy.payload THEN "payload_in" ELSE "idle"
      /\ ~dma.pending
  BY <1>1, <1>2 DEF Transfer, Free
<1>10. Place(phy.todo, phy.next, frame.tx)'
  <2>1. Fresh(phy.todo, phy.next)'
    BY <1>7, <1>8 DEF Fresh, Queued
  <2>2. Deaf'
    BY <1>1, <1>2, <1>3, <1>9 DEF Deaf, NoEdge
  <2> QED
    BY <1>9, <2>1, <2>2 DEF Place
<1>11. BusOK(phy.todo, phy.next)'
  <2>1. ~TakesDma(phy.todo, phy.next)' /\ (LeftOver(phy.todo, phy.next)' <=> phy.payload)
    BY <1>7, <1>8 DEF TakesDma, LeftOver
  <2> QED
    BY <1>1, <1>8, <1>9, <2>1 DEF BusOK, Due, Free, Transfers
<1>12. SignalOK(phy.todo, phy.next)'
  BY <1>8 DEF SignalOK, IsFresh
<1> QED
  BY <1>1, <1>8, <1>9, <1>10, <1>11, <1>12 DEF PhyTypes, Runs, Transfers

\* No function refuses the interrupt it is called in.
LEMMA NeverRefused ==
  ASSUME Runs
  PROVE  ~Refused
<1> SUFFICES ASSUME Refused PROVE FALSE
  OBVIOUS
<1>1. cpu \in {"process", "prepare"} /\ Head(phy.todo) \in NeedDma \cup NeedRadioIrq
  BY DEF Refused
<1>2. CASE Head(phy.todo) \in NeedDma
  <2>1. Head(phy.todo) \in AfterDma /\ Head(phy.todo) \notin NeedRadioIrq
    BY <1>2 DEF NeedDma, AfterDma, NeedRadioIrq
  <2> QED
    BY <1>1, <2>1, CalledByDma DEF Refused
<1>3. CASE Head(phy.todo) \in NeedRadioIrq
  <2>1. Head(phy.todo) \in {"read_events", "read_events_syncing"} /\ Head(phy.todo) \notin NeedDma
    BY <1>3 DEF NeedRadioIrq, NeedDma
  <2> QED
    BY <1>1, <1>3, <2>1, NotFresh DEF Runs, SignalOK, Refused
<1> QED
  BY <1>1, <1>2, <1>3

LEMMA PhyStepKeeps ==
  ASSUME PhyTypes, Runs, mac' = mac, PhyStep
  PROVE  PhyTypes' /\ Runs'
<1>1. Function
  BY NeverRefused DEF PhyStep
<1> QED
  BY <1>1, PreparePhy, SetConfig, CloseSpiEarly, CloseSpi, Fill, EnableRadioIrq, PrepareSyncing, ReadEvents,
     ProcessEventTx, ProcessEventRx, HandleGoodFrame, GetFrameHeader, GetPayload, CheckRadioIrq,
     TransferRegister, OverwriteRegisters DEF Function

-----------------------------------------------------------------------------
(* The radio and the DMA *)

\* What a step of the hardware leaves alone keeps the signal and the type.
LEMMA HardwareFields ==
  ASSUME PhyTypes, Runs
  PROVE  /\ frame \in FrameType /\ phy \in PhyType /\ radio \in RadioType
         /\ irq \in InterruptType /\ dma \in InterruptType
         /\ phy.main = "CONNECT" => phy.todo = <<"prepare_phy">> \/ cpu \in {"next", "frame"}
BY DEF PhyTypes, Runs, SignalOK, Outcomes

LEMMA TransferDoneKeeps ==
  ASSUME PhyTypes, Runs, mac' = mac, TransferDone
  PROVE  PhyTypes' /\ Runs'
<1> DEFINE todo == phy.todo
           next == phy.next
           tx == frame.tx
<1>1. /\ cpu' = cpu /\ phy' = phy /\ frame' = frame /\ irq' = irq
      /\ spi \in Transfers /\ spi' = "idle" /\ dma' = [dma EXCEPT !.pending = TRUE]
  BY DEF TransferDone
<1>2. dma'.pending /\ dma'.enabled /\ dma' \in InterruptType
  BY <1>1, HardwareFields DEF Runs, InterruptType
<1>3. radio' = CASE spi = "config" -> [Off EXCEPT !.armed = TRUE]
                 [] spi = "events" -> [radio EXCEPT !.event = "none", !.pin = FALSE, !.read = radio.event,
                                                    !.readReply = radio.reply = "sent"]
                 [] OTHER -> radio
  BY DEF TransferDone
<1>4. BusOK(todo, next)' /\ SignalOK(todo, next)'
  <2>1. Due'
    BY <1>1, <1>2 DEF Due
  <2>2. ~Free
    BY <1>1 DEF Free, Transfers
  <2> QED
    BY <1>1, <2>1, <2>2 DEF Runs, BusOK, SignalOK
<1>5. CASE spi \notin {"config", "events"}
  <2>1. radio' = radio
    BY <1>3, <1>5
  <2>2. /\ Deaf => Deaf'
        /\ Live(tx) => Live(tx)'
        /\ Filled(tx) => Filled(tx)'
        /\ EventRead(tx) => EventRead(tx)'
    BY <1>1, <1>5, <2>1 DEF Deaf, NoEdge, Filled, Live, EventRead
  <2>3. Place(todo, next, tx)'
    BY <1>1, <1>5, <2>1, <2>2 DEF Place, Runs
  <2> QED
    BY <1>1, <1>2, <1>4, <2>1, <2>3 DEF PhyTypes, Runs
<1>6. CASE spi = "config"
  <2>1. Configures(todo, next, tx) /\ Deaf
    BY <1>6 DEF Runs, Place, Filled, Live, EventRead
  <2>2. ~irq.pending
    <3>1. todo = <<"close_spi">> /\ ~TakesIrq(todo)
      BY <2>1 DEF Configures, TakesIrq
    <3>2. ~(phy.main = "CONNECT" /\ cpu = "app")
      BY <3>1, HardwareFields
    <3> QED
      BY <2>1, <3>1, <3>2 DEF Deaf
  <2>3. radio' = [Off EXCEPT !.armed = TRUE] /\ radio' \in RadioType
    BY <1>3, <1>6, RestTypes DEF RadioType
  <2>4. Filled(tx)'
    BY <1>1, <2>2, <2>3 DEF Filled, Live, Off
  <2>5. Place(todo, next, tx)'
    BY <1>1, <2>1, <2>4 DEF Place
  <2> QED
    BY <1>1, <1>2, <1>4, <2>3, <2>5 DEF PhyTypes, Runs
<1>7. CASE spi = "events"
  <2>1. Reads(todo, next, tx) /\ EventRead(tx)
    BY <1>7 DEF Runs, Place, Filled, Live, Deaf
  <2>2. radio.event \in EventsOf(tx) /\ ~radio.armed /\ ~irq.pending /\ ~radio.await
    BY <1>7, <2>1 DEF EventRead
  <2>3. /\ radio' \in RadioType /\ radio'.event = "none" /\ radio'.read = radio.event
        /\ radio'.armed = radio.armed /\ radio'.await = radio.await
    BY <1>3, <1>7, HardwareFields DEF RadioType, EventNames
  <2>4. EventRead(tx)'
    BY <1>1, <2>2, <2>3 DEF EventRead
  <2>5. Place(todo, next, tx)'
    BY <1>1, <2>1, <2>4 DEF Place
  <2> QED
    BY <1>1, <1>2, <1>4, <2>3, <2>5 DEF PhyTypes, Runs
<1> QED
  BY <1>5, <1>6, <1>7

LEMMA EventsExpected ==
  ASSUME frame \in FrameType, NEW event \in Events
  PROVE  event \in EventsOf(frame.tx) /\ event \in EventNames /\ event # "none"
BY DEF Events, EventsOf, EventNames, FrameType

\* A radio that listens has no event yet.
LEMMA Armed ==
  ASSUME Runs, radio.armed
  PROVE  /\ Live(frame.tx)
         /\ \/ Configures(phy.todo, phy.next, frame.tx) /\ Filled(frame.tx) /\ spi # "config"
            \/ /\ Fills(phy.todo, phy.next, frame.tx) /\ Filled(frame.tx)
               /\ phy.todo = <<"set_payload">> => irq = Disabled
            \/ Listens(phy.todo, phy.next, frame.tx) /\ cpu # "process"
BY DEF Runs, Place, Deaf, EventRead, Filled, Live

LEMMA RadioEventKeeps ==
  ASSUME PhyTypes, Runs, mac' = mac, RadioEvent
  PROVE  PhyTypes' /\ Runs'
<1> DEFINE todo == phy.todo
           next == phy.next
           tx == frame.tx
<1>1. PICK event \in Events :
        Edge([radio EXCEPT !.armed = FALSE, !.event = event,
                           !.reply = IF event = "good" /\ Replies THEN "sending" ELSE "none"])
  BY DEF RadioEvent
<1>2. radio.armed /\ cpu' = cpu /\ phy' = phy /\ frame' = frame /\ spi' = spi /\ dma' = dma
  BY DEF RadioEvent
<1>3. event \in EventsOf(tx) /\ event \in EventNames /\ event # "none"
  BY EventsExpected, HardwareFields
<1>4. /\ radio' \in RadioType /\ ~radio'.armed /\ radio'.event = event /\ radio'.pin
      /\ radio'.await = radio.await
  BY <1>1, <1>3, HardwareFields DEF Edge, RadioType
<1>5. irq' \in InterruptType /\ (irq = Disabled => irq' = irq) /\ (irq.pending => irq'.pending)
  BY <1>1, HardwareFields DEF Edge, InterruptType, Disabled
<1>6. /\ Live(tx)
      /\ \/ Configures(todo, next, tx) /\ Filled(tx) /\ spi # "config"
         \/ /\ Fills(todo, next, tx) /\ Filled(tx)
            /\ todo = <<"set_payload">> => irq = Disabled
         \/ Listens(todo, next, tx) /\ cpu # "process"
  BY <1>2, Armed
<1>7. Live(tx)' /\ Filled(tx)'
  BY <1>2, <1>3, <1>4, <1>6 DEF Live, Filled
<1>8. Place(todo, next, tx)'
  BY <1>2, <1>5, <1>6, <1>7 DEF Place
<1>9. BusOK(todo, next)' /\ SignalOK(todo, next)'
  <2>1. BusOK(todo, next)'
    BY <1>2 DEF Runs, BusOK, Due, Free
  <2>2. SignalOK(todo, next)'
    BY <1>2, <1>5 DEF Runs, SignalOK
  <2> QED
    BY <2>1, <2>2
<1> QED
  BY <1>2, <1>4, <1>5, <1>8, <1>9 DEF PhyTypes, Runs

LEMMA ReplyEndKeeps ==
  ASSUME PhyTypes, Runs, mac' = mac, ReplyEnd
  PROVE  PhyTypes' /\ Runs'
<1> DEFINE todo == phy.todo
           next == phy.next
           tx == frame.tx
<1>1. /\ radio.reply = "sending"
      /\ cpu' = cpu /\ phy' = phy /\ frame' = frame /\ spi' = spi /\ dma' = dma
  BY DEF ReplyEnd
<1>2. /\ radio' \in RadioType /\ radio'.armed = radio.armed /\ radio'.event = radio.event
      /\ radio'.await = radio.await /\ radio'.read = radio.read /\ radio'.reply = "sent"
      /\ radio'.pin = (radio.pin \/ radio.await)
  <2>1. CASE radio.await
    BY <2>1, HardwareFields DEF ReplyEnd, Edge, RadioType
  <2>2. CASE ~radio.await
    BY <2>2, HardwareFields DEF ReplyEnd, RadioType
  <2> QED
    BY <2>1, <2>2
<1>3. /\ irq' \in InterruptType /\ irq'.enabled = irq.enabled
      /\ irq'.pending = (irq.pending \/ (radio.await /\ irq.enabled /\ ~radio.pin))
      /\ irq = Disabled => irq' = irq
  <2>1. CASE radio.await
    BY <2>1, HardwareFields DEF ReplyEnd, Edge, InterruptType, Disabled
  <2>2. CASE ~radio.await
    BY <2>2, HardwareFields DEF ReplyEnd, InterruptType
  <2> QED
    BY <2>1, <2>2
<1>4. radio # Off
  BY <1>1 DEF Off
<1>5. Deaf => Deaf'
  BY <1>1, <1>2, <1>3, <1>4 DEF Deaf, NoEdge
<1>6. /\ Live(tx) => Live(tx)' /\ (irq'.pending => irq.pending)
      /\ Filled(tx) => Filled(tx)'
      /\ EventRead(tx) => EventRead(tx)'
  BY <1>1, <1>2, <1>3 DEF Filled, Live, EventRead
<1>7. Place(todo, next, tx)'
  BY <1>1, <1>2, <1>3, <1>5, <1>6 DEF Place, Runs
<1>8. BusOK(todo, next)' /\ SignalOK(todo, next)'
  <2>1. BusOK(todo, next)'
    BY <1>1 DEF Runs, BusOK, Due, Free
  <2>2. SignalOK(todo, next)'
    BY <1>1, <1>3 DEF Runs, SignalOK
  <2> QED
    BY <2>1, <2>2
<1> QED
  BY <1>1, <1>2, <1>3, <1>7, <1>8 DEF PhyTypes, Runs

-----------------------------------------------------------------------------
(* Types of the layers above *)

CallbackType == [kind : {"event", "tx", "rx"}, slot : Slots]

RequestType ==
  [kind : {"read", "write", "periodic", "disconnect"}]
    \cup [kind : {"ratio"}, slot : Slots, ratio : 0 .. 100]

MacType ==
  [slot : Slots, synced : BOOLEAN, signal : {"ON", "DISCONNECT"}, up : [Slots -> BOOLEAN],
   event : [Slots -> {"none", "connect", "disconnect"}], pattern : [Slots -> Seq(BOOLEAN) \ {<<>>}],
   count : [Slots -> Nat]]

AppType ==
  [pc : {"idle", "poll", "abort", "close"}, started : BOOLEAN, failed : BOOLEAN, calls : Nat,
   view : [Slots -> BOOLEAN]]

\* The count of each slot is inside its pattern.
CountsFit == \A s \in Slots : mac.count[s] < Len(mac.pattern[s])

MacTypes ==
  /\ mac \in MacType
  /\ CountsFit

QueueTypes ==
  /\ requests \in Seq(RequestType) /\ Len(requests) <= RequestSize
  /\ callbacks \in Seq(CallbackType) /\ Len(callbacks) <= CallbackSize
  /\ rxq \in [Slots -> 0 .. RxSize]

HandlerTypes ==
  /\ handler \in [pc : {"off", "run", "clear", "ran"}, pended : BOOLEAN]
  /\ handler.pc \in {"clear", "ran"} => callbacks # <<>>

NodeTypes ==
  /\ PhyTypes /\ cfg \in Settings
  /\ MacTypes /\ QueueTypes /\ HandlerTypes
  /\ app \in AppType

LEMMA SettingFacts ==
  ASSUME cfg \in Settings
  PROVE  /\ cfg \in SettingsType
         /\ cfg.schedule # <<>> /\ Slots = 1 .. Len(cfg.schedule) /\ Len(cfg.schedule) \in Nat \ {0}
         /\ \A s \in Slots : /\ Slot(s).tx \in BOOLEAN /\ Slot(s).sync \in BOOLEAN
                             /\ Slot(s).auto \in {"none", "bare", "reply"}
         /\ cfg.phase \in BOOLEAN /\ cfg.exact \in BOOLEAN /\ cfg.fastSync \in BOOLEAN /\ cfg.node \in BOOLEAN
         /\ \A r \in cfg.ratios : r[1] \in Slots /\ r[2] \in 0 .. 100
<1>1. cfg \in SettingsType /\ cfg.schedule # <<>> /\ \A r \in cfg.ratios : r[1] \in Slots
  BY NodeAssumption DEF Slots
<1>2. /\ cfg.schedule \in Seq([tx : BOOLEAN, auto : {"none", "bare", "reply"}, sync : BOOLEAN])
      /\ cfg.ratios \in SUBSET (Nat \X (0 .. 100))
      /\ cfg.phase \in BOOLEAN /\ cfg.exact \in BOOLEAN /\ cfg.fastSync \in BOOLEAN /\ cfg.node \in BOOLEAN
  BY <1>1 DEF SettingsType
<1>3. /\ Slots = 1 .. Len(cfg.schedule) /\ Len(cfg.schedule) \in Nat \ {0}
      /\ \A s \in Slots : cfg.schedule[s] \in [tx : BOOLEAN, auto : {"none", "bare", "reply"}, sync : BOOLEAN]
  <2> DEFINE T == [tx : BOOLEAN, auto : {"none", "bare", "reply"}, sync : BOOLEAN]
             q == cfg.schedule
  <2>1. q \in Seq(T) /\ q # <<>>
    BY <1>1, <1>2
  <2> HIDE DEF T, q
  <2>2. DOMAIN q = 1 .. Len(q) /\ Len(q) \in Nat \ {0} /\ \A s \in DOMAIN q : q[s] \in T
    BY <2>1
  <2> QED
    BY <2>2 DEF Slots, T, q
<1>4. \A s \in Slots : /\ Slot(s).tx \in BOOLEAN /\ Slot(s).sync \in BOOLEAN
                       /\ Slot(s).auto \in {"none", "bare", "reply"}
  BY <1>3 DEF Slot
<1>5. \A r \in cfg.ratios : r[2] \in 0 .. 100
  BY <1>2
<1> QED
  BY <1>1, <1>2, <1>3, <1>4, <1>5

-----------------------------------------------------------------------------
(* The interrupts, the MAC layer and the application *)

\* What only reads the machine leaves it as it was.
LEMMA MachineSame ==
  ASSUME UNCHANGED phyVars, mac'.signal = mac.signal
  PROVE  /\ PhyTypes => PhyTypes'
         /\ Machine => Machine'
<1>1. /\ cpu' = cpu /\ phy' = phy /\ frame' = frame /\ spi' = spi /\ dma' = dma /\ irq' = irq /\ radio' = radio
  BY DEF phyVars
<1>2. PhyTypes => PhyTypes'
  BY <1>1 DEF PhyTypes
<1>3. Stopped => Stopped'
  BY <1>1 DEF Stopped
<1>4. /\ Deaf' <=> Deaf
      /\ Live(frame.tx)' <=> Live(frame.tx)
      /\ Filled(frame.tx)' <=> Filled(frame.tx)
      /\ EventRead(frame.tx)' <=> EventRead(frame.tx)
  BY <1>1 DEF Deaf, NoEdge, Live, Filled, EventRead
<1>5. Place(phy.todo, phy.next, frame.tx) => Place(phy.todo, phy.next, frame.tx)'
  BY <1>1, <1>4 DEF Place
<1>6. BusOK(phy.todo, phy.next) => BusOK(phy.todo, phy.next)'
  BY <1>1 DEF BusOK, Due, Free
<1>7. SignalOK(phy.todo, phy.next) => SignalOK(phy.todo, phy.next)'
  BY <1>1 DEF SignalOK
<1> QED
  BY <1>1, <1>2, <1>3, <1>5, <1>6, <1>7 DEF Machine, Runs

\* The function to run is not that of a fresh machine.
LEMMA Rests ==
  ASSUME Runs, cpu = "app"
  PROVE  \/ /\ phy.main = "CONNECT" /\ phy.todo = <<"prepare_phy">> /\ phy.next = <<>>
            /\ irq.pending
         \/ /\ phy.main \in {"YIELD", "PREPARE_DONE", "CONFIG_COMPLETE"}
            /\ ~IsFresh(phy.todo, phy.next)
            /\ TakesDma(phy.todo, phy.next) \/ TakesIrq(phy.todo)
BY DEF Runs, SignalOK

LEMMA EnterFields ==
  ASSUME phy \in PhyType, NEW input \in Inputs, Enter(input)
  PROVE  /\ phy' \in PhyType /\ phy'.todo = phy.todo /\ phy'.next = phy.next /\ phy'.input = input
         /\ phy'.payload = phy.payload
         /\ phy.main = "CONNECT" => phy'.main = "CONNECT" /\ cpu' = "handle"
         /\ phy.main # "CONNECT" => phy'.main = "PROCESSING" /\ cpu' = "process"
BY DEF Enter, PhyType, Signals

\* The first interrupt after the connection.
LEMMA FirstInterrupt ==
  ASSUME PhyTypes, Runs, mac' = mac, cpu = "app", Pending(irq), phy.main = "CONNECT",
         irq' = [irq EXCEPT !.pending = FALSE], Enter("RADIO_IRQ"), UNCHANGED <<frame, spi, dma, radio>>
  PROVE  PhyTypes' /\ Runs'
<1>1. phy.todo = <<"prepare_phy">> /\ phy.next = <<>>
  BY Rests
<1>2. /\ phy' \in PhyType /\ phy'.todo = phy.todo /\ phy'.next = phy.next
      /\ phy'.main = "CONNECT" /\ cpu' = "handle"
  BY EnterFields, HardwareFields DEF Inputs
<1>3. irq' \in InterruptType /\ ~irq'.pending
  BY HardwareFields DEF InterruptType
<1>4. Head(phy.todo) = "prepare_phy"
  BY <1>1
<1>5. Deaf /\ Fresh(phy.todo, phy.next) /\ spi # "config"
  BY <1>4, AtPlace DEF Runs
<1>6. radio = Off
  BY <1>1, <1>5 DEF Deaf, TakesIrq, Pending
<1>7. Deaf'
  BY <1>3, <1>5, <1>6 DEF Deaf, NoEdge, Off
<1>8. Place(phy.todo, phy.next, frame.tx)'
  BY <1>2, <1>5, <1>7 DEF Place
<1>9. BusOK(phy.todo, phy.next)'
  BY <1>2 DEF Runs, BusOK, Due, Free
<1>10. SignalOK(phy.todo, phy.next)'
  BY <1>1, <1>2 DEF SignalOK
<1> QED
  BY <1>2, <1>3, <1>8, <1>9, <1>10 DEF PhyTypes, Runs

LEMMA RadioInterrupt ==
  ASSUME PhyTypes, Runs, mac' = mac, cpu = "app", Pending(irq), phy.main # "CONNECT",
         irq' = [irq EXCEPT !.pending = FALSE], Enter("RADIO_IRQ"), UNCHANGED <<frame, spi, dma, radio>>
  PROVE  PhyTypes' /\ Runs'
<1> DEFINE todo == phy.todo
           next == phy.next
           tx == frame.tx
<1>1. ~IsFresh(todo, next) /\ (TakesDma(todo, next) \/ TakesIrq(todo))
  BY Rests
<1>2. /\ phy' \in PhyType /\ phy'.todo = todo /\ phy'.next = next /\ phy'.input = "RADIO_IRQ"
      /\ phy'.payload = phy.payload /\ phy'.main = "PROCESSING" /\ cpu' = "process"
  BY EnterFields, HardwareFields DEF Inputs
<1>3. irq' \in InterruptType /\ ~irq'.pending /\ irq'.enabled = irq.enabled /\ irq.pending
  BY HardwareFields DEF InterruptType, Pending
<1>4. irq # Disabled
  BY <1>3 DEF Disabled
<1>5. /\ Deaf => Deaf' /\ TakesIrq(todo)
      /\ Live(tx) => Live(tx)' /\ radio.event # "none"
      /\ Filled(tx) => Filled(tx)'
      /\ ~EventRead(tx)
  BY <1>2, <1>3 DEF Deaf, NoEdge, Live, Filled, EventRead
<1>6. Place(todo, next, tx)'
  BY <1>2, <1>3, <1>4, <1>5 DEF Place, Runs
<1>7. Head(todo) = "close_spi" \/ TakesIrq(todo)
  <2>1. Configures(todo, next, tx) => Head(todo) = "close_spi"
    BY DEF Configures
  <2>2. Listens(todo, next, tx) => TakesIrq(todo)
    BY ListensHead DEF TakesIrq
  <2>3. Fills(todo, next, tx) /\ TakesDma(todo, next) => Head(todo) = "close_spi" \/ todo = <<"set_payload">>
    BY FillsHead DEF TakesDma
  <2>4. \/ TakesIrq(todo)
        \/ Configures(todo, next, tx)
        \/ Listens(todo, next, tx)
        \/ Fills(todo, next, tx) /\ todo # <<"set_payload">>
    <3>1. Place(todo, next, tx)
      BY DEF Runs
    <3> QED
      BY <1>4, <1>5, <3>1 DEF Place
  <2> QED
    BY <1>1, <2>1, <2>2, <2>3, <2>4
<1>8. BusOK(todo, next)'
  BY <1>2 DEF Runs, BusOK, Due, Free
<1>9. SignalOK(todo, next)'
  BY <1>1, <1>2, <1>7 DEF SignalOK
<1> QED
  BY <1>2, <1>3, <1>6, <1>8, <1>9 DEF PhyTypes, Runs

LEMMA RadioIrqKeeps ==
  ASSUME PhyTypes, Machine, RadioIrq
  PROVE  PhyTypes' /\ Machine'
<1>1. cpu = "app" /\ Pending(irq) /\ irq' = [irq EXCEPT !.pending = FALSE] /\ mac' = mac
      /\ UNCHANGED <<frame, spi, dma, radio>>
  BY DEF RadioIrq, macVars
<1>2. Runs
  BY <1>1 DEF Machine, Stopped, Disabled, Pending
<1>3. Enter("RADIO_IRQ")
  BY <1>2 DEF RadioIrq, Runs
<1> QED
  BY <1>1, <1>2, <1>3, FirstInterrupt, RadioInterrupt DEF Machine

LEMMA DmaIrqKeeps ==
  ASSUME PhyTypes, mac \in MacType, Machine, DmaIrq
  PROVE  PhyTypes' /\ Machine'
<1> DEFINE todo == phy.todo
           next == phy.next
           tx == frame.tx
<1>1. /\ cpu = "app" /\ Pending(dma) /\ dma' = [dma EXCEPT !.pending = FALSE] /\ Enter("DMA_CMPLT")
      /\ frame' = frame /\ spi' = spi /\ irq' = irq /\ radio' = radio
      /\ mac' = [mac EXCEPT !.signal = "ON"]
  BY DEF DmaIrq
<1>2. Runs
  BY <1>1 DEF Machine, Stopped, Disabled, Pending
<1>3. dma.pending /\ dma.enabled /\ dma' \in InterruptType /\ ~dma'.pending /\ dma'.enabled
  BY <1>1, <1>2, HardwareFields DEF InterruptType, Pending
<1>4. spi = "idle" /\ (TakesDma(todo, next) \/ LeftOver(todo, next))
  BY <1>3, <1>2 DEF Runs, BusOK, Due, Free
<1>5. phy.main # "CONNECT" /\ ~IsFresh(todo, next) /\ TakesDma(todo, next)
  <2>1. LeftOver(todo, next) => IsFresh(todo, next) /\ next # <<>>
    BY DEF LeftOver, IsFresh
  <2>2. TakesDma(todo, next) => todo # <<"prepare_phy">>
    BY DEF TakesDma
  <2> QED
    BY <1>1, <1>2, <1>4, <2>1, <2>2, Rests
<1>6. /\ phy' \in PhyType /\ phy'.todo = todo /\ phy'.next = next /\ phy'.input = "DMA_CMPLT"
      /\ phy'.payload = phy.payload /\ phy'.main = "PROCESSING" /\ cpu' = "process"
  BY <1>1, <1>2, <1>5, EnterFields, HardwareFields DEF Inputs
<1>7. ~TakesIrq(todo) /\ Head(todo) \notin NeedRadioIrq
  BY <1>5 DEF TakesDma, TakesIrq, NeedRadioIrq
<1>8. /\ Deaf => Deaf'
      /\ Live(tx) => Live(tx)'
      /\ Filled(tx) => Filled(tx)'
      /\ EventRead(tx) => EventRead(tx)'
  BY <1>1, <1>4, <1>5, <1>6, <1>7 DEF Deaf, NoEdge, Live, Filled, EventRead
<1>9. ~Listens(todo, next, tx)
  BY <1>7, ListensHead DEF TakesIrq
<1>10. Place(todo, next, tx)'
  BY <1>1, <1>2, <1>4, <1>6, <1>8, <1>9 DEF Place, Runs
<1>11. BusOK(todo, next)'
  BY <1>1, <1>3, <1>4, <1>6 DEF BusOK, Free
<1>12. SignalOK(todo, next)'
  BY <1>5, <1>6, <1>7 DEF SignalOK
<1>13. mac'.signal = "ON"
  BY <1>1 DEF MacType
<1> QED
  BY <1>1, <1>3, <1>6, <1>10, <1>11, <1>12, <1>13 DEF PhyTypes, Machine, Runs

\* The layer above goes on, and does not touch the machine.
LEMMA HandsOver ==
  ASSUME PhyTypes, Runs, mac'.signal = mac.signal, UNCHANGED <<phy, frame, spi, dma, irq, radio>>,
         cpu \in {"handle", "next"}, cpu' \in {"app", "next", "frame"}, SignalOK(phy.todo, phy.next)'
  PROVE  PhyTypes' /\ Runs'
<1> DEFINE todo == phy.todo
           next == phy.next
           tx == frame.tx
<1>1. /\ phy' = phy /\ frame' = frame /\ spi' = spi /\ dma' = dma /\ irq' = irq /\ radio' = radio
  OBVIOUS
<1>2. /\ Live(tx) => Live(tx)'
      /\ Filled(tx) => Filled(tx)'
      /\ EventRead(tx) => EventRead(tx)'
  BY <1>1 DEF Live, Filled, EventRead
<1>3. BusOK(todo, next)'
  BY <1>1 DEF Runs, BusOK, Due, Free
<1>4. cpu' # "app" => ~TakesIrq(todo)
  <2>1. cpu' # "app" => IsFresh(todo, next)
    BY <1>1 DEF SignalOK
  <2>2. IsFresh(todo, next) => ~TakesIrq(todo)
    BY DEF IsFresh, TakesIrq
  <2> QED
    BY <2>1, <2>2
<1>5. Deaf => Deaf'
  BY <1>1, <1>4 DEF Deaf, NoEdge
<1>6. Place(todo, next, tx)'
  BY <1>1, <1>2, <1>5 DEF Place, Runs
<1> QED
  BY <1>1, <1>3, <1>6 DEF PhyTypes, Runs

\* The outcomes and signals after which the machine is fresh.
LEMMA FreshThen ==
  ASSUME Runs, \/ cpu \in {"next", "frame"}
               \/ cpu = "handle" /\ phy.main \in Outcomes \cup {"CONNECT"}
  PROVE  IsFresh(phy.todo, phy.next)
BY DEF Runs, SignalOK, IsFresh, Outcomes

LEMMA NotStopped ==
  ASSUME Machine, cpu # "app"
  PROVE  Runs
BY DEF Machine, Stopped

LEMMA OutcomeKeeps ==
  ASSUME PhyTypes, mac \in MacType, Machine, Outcome
  PROVE  PhyTypes' /\ Machine'
<1>1. cpu = "handle" /\ phy.main \in Outcomes /\ cpu' = "next" /\ UNCHANGED <<phy, frame, spi, dma, irq, radio>>
  BY DEF Outcome
<1>2. Runs
  BY <1>1, NotStopped
<1>3. PICK synced, up :
        mac' = [mac EXCEPT !.synced = synced, !.up[mac.slot] = up,
                           !.event[mac.slot] = EventAfter(mac.slot, up)]
  BY Zenon DEF Outcome
<1>4. mac'.signal = mac.signal
  BY <1>3 DEF MacType
<1>5. SignalOK(phy.todo, phy.next)'
  BY <1>1, <1>2, FreshThen DEF SignalOK, Outcomes
<1> QED
  BY <1>1, <1>2, <1>4, <1>5, HandsOver DEF Machine

LEMMA IdleKeeps ==
  ASSUME PhyTypes, Machine, Idle
  PROVE  PhyTypes' /\ Machine'
<1>1. /\ cpu = "handle" /\ phy.main \in {"YIELD", "PREPARE_DONE"} /\ cpu' = "app"
      /\ mac' = mac /\ UNCHANGED <<phy, frame, spi, dma, irq, radio>>
  BY DEF Idle, macVars
<1>2. Runs
  BY <1>1, NotStopped
<1>3. SignalOK(phy.todo, phy.next)'
  BY <1>1, <1>2 DEF Runs, SignalOK, Outcomes
<1> QED
  BY <1>1, <1>2, <1>3, HandsOver DEF Machine

LEMMA ConnectedKeeps ==
  ASSUME PhyTypes, Machine, Connected
  PROVE  PhyTypes' /\ Machine'
<1>1. /\ cpu = "handle" /\ phy.main = "CONNECT" /\ cpu' = "next"
      /\ mac' = mac /\ UNCHANGED <<phy, frame, spi, dma, irq, radio>>
  BY DEF Connected, macVars
<1>2. Runs
  BY <1>1, NotStopped
<1>3. SignalOK(phy.todo, phy.next)'
  BY <1>1, <1>2, FreshThen DEF SignalOK
<1> QED
  BY <1>1, <1>2, <1>3, HandsOver DEF Machine

LEMMA NextSlotKeeps ==
  ASSUME PhyTypes, mac \in MacType, Machine, NextSlot
  PROVE  PhyTypes' /\ Machine'
<1>1. cpu = "next" /\ cpu' \in {"frame", "next"} /\ UNCHANGED <<phy, frame, spi, dma, irq, radio>>
  BY DEF NextSlot
<1>2. Runs
  BY <1>1, NotStopped
<1>3. mac'.signal = mac.signal
  BY DEF NextSlot, MacType
<1>4. SignalOK(phy.todo, phy.next)'
  <2>1. phy.main # "ERROR" /\ IsFresh(phy.todo, phy.next)
    BY <1>1, <1>2 DEF Runs, SignalOK
  <2> QED
    BY <1>1, <2>1 DEF SignalOK
<1> QED
  BY <1>1, <1>2, <1>3, <1>4, HandsOver DEF Machine

LEMMA FrameTypes ==
  ASSUME cfg \in Settings, mac \in MacType, phy \in PhyType, PrepareFrame
  PROVE  /\ frame' \in FrameType /\ phy' \in PhyType
         /\ phy'.todo = phy.todo /\ phy'.next = phy.next /\ phy'.main = "PROCESSING"
         /\ phy'.input = "PREPARE_RADIO" \/ (phy'.input = "SYNCING" /\ ~frame'.tx)
<1> DEFINE s == mac.slot
<1>1. s \in Slots
  BY DEF MacType
<1>2. /\ Slot(s).tx \in BOOLEAN /\ Slot(s).auto \in {"none", "bare", "reply"}
      /\ cfg.phase \in BOOLEAN /\ cfg.exact \in BOOLEAN
  BY <1>1, SettingFacts
<1>3. Syncing(s) \in BOOLEAN /\ (Syncing(s) => ~Slot(s).tx)
  BY DEF Syncing
<1>4. \A sent \in Sends(s) : sent.content \in {"none", "joint", "split"} /\ sent.data \in BOOLEAN
  <2> DEFINE T == [content : {"none", "joint", "split"}, data : BOOLEAN]
             empty == [content : {"none", "joint"}, data : {FALSE}]
             data == {[content |-> IF cfg.user THEN "split" ELSE "joint", data |-> TRUE]}
             other == {[content |-> "none", data |-> FALSE]}
  <2>1. empty \subseteq T
    OBVIOUS
  <2>2. \A sent \in data : sent \in T
    <3>1. cfg.user => [content |-> "split", data |-> TRUE] \in T
      OBVIOUS
    <3>2. ~cfg.user => [content |-> "joint", data |-> TRUE] \in T
      OBVIOUS
    <3>3. \A sent \in data : \/ cfg.user /\ sent = [content |-> "split", data |-> TRUE]
                             \/ ~cfg.user /\ sent = [content |-> "joint", data |-> TRUE]
      BY Zenon
    <3> QED
      BY <3>1, <3>2, <3>3, Zenon
  <2>3. [content |-> "none", data |-> FALSE] \in T
    OBVIOUS
  <2>4. \/ Sends(s) = empty \cup (IF Unsynced THEN {} ELSE data)
        \/ Sends(s) = empty
        \/ Sends(s) = other
    BY <1>2 DEF Sends
  <2> HIDE DEF empty, data, T
  <2>5. Sends(s) \subseteq T
    BY <2>1, <2>2, <2>3, <2>4
  <2> QED
    BY <2>5 DEF T
<1>5. PICK sent \in Sends(s) :
        frame' = [tx |-> Slot(s).tx, auto |-> Slot(s).auto,
                  content |-> sent.content, data |-> sent.data,
                  sync |-> Syncing(s), phase |-> cfg.phase, exact |-> cfg.exact]
  BY DEF PrepareFrame
<1>6. frame' \in FrameType /\ frame'.tx = Slot(s).tx
  BY <1>2, <1>3, <1>4, <1>5 DEF FrameType
<1>7. phy' = [phy EXCEPT !.main = "PROCESSING",
                         !.input = IF Syncing(s) THEN "SYNCING" ELSE "PREPARE_RADIO",
                         !.outcome = "WAIT", !.wait = FALSE, !.payload = FALSE]
  BY DEF PrepareFrame
<1> HIDE DEF s
<1>8. /\ phy' \in PhyType
      /\ phy'.todo = phy.todo /\ phy'.next = phy.next /\ phy'.main = "PROCESSING"
      /\ phy'.input = IF Syncing(s) THEN "SYNCING" ELSE "PREPARE_RADIO"
  <2> DEFINE input == IF Syncing(s) THEN "SYNCING" ELSE "PREPARE_RADIO"
  <2>1. input \in Inputs
    BY DEF Inputs
  <2>2. phy' = [phy EXCEPT !.main = "PROCESSING", !.input = input,
                           !.outcome = "WAIT", !.wait = FALSE, !.payload = FALSE]
    BY <1>7
  <2> HIDE DEF input
  <2>3. /\ phy' \in PhyType /\ phy'.todo = phy.todo /\ phy'.next = phy.next
        /\ phy'.main = "PROCESSING" /\ phy'.input = input
    BY <2>1, <2>2 DEF PhyType, Signals, OutcomeNames
  <2> QED
    BY <2>3 DEF input
<1> QED
  BY <1>3, <1>6, <1>8

LEMMA PrepareFrameKeeps ==
  ASSUME PhyTypes, cfg \in Settings, mac \in MacType, Machine, PrepareFrame
  PROVE  PhyTypes' /\ Machine'
<1> DEFINE todo == phy.todo
           next == phy.next
<1>1. /\ cpu = "frame" /\ cpu' = "prepare" /\ spi' = spi /\ dma' = dma /\ irq' = irq /\ radio' = radio
      /\ mac' = mac
  BY DEF PrepareFrame, macVars
<1>2. Runs /\ IsFresh(todo, next)
  BY <1>1, NotStopped, FreshThen
<1>3. /\ frame' \in FrameType /\ phy' \in PhyType
      /\ phy'.todo = todo /\ phy'.next = next /\ phy'.main = "PROCESSING"
      /\ phy'.input = "PREPARE_RADIO" \/ (phy'.input = "SYNCING" /\ ~frame'.tx)
  BY FrameTypes, HardwareFields, <1>2
<1>4. Head(todo) \in {"prepare_phy", "transfer_register"} /\ ~TakesIrq(todo)
  BY <1>2 DEF IsFresh, TakesIrq
<1>5. Fresh(todo, next) /\ spi # "config" /\ Deaf
  <2>1. spi # "config" /\ Deaf
    BY <1>2, <1>4, AtPlace DEF Runs
  <2>2. todo = <<"prepare_phy">> => Fresh(todo, next)
    BY <1>2, AtPlace DEF Runs
  <2>3. todo = <<"transfer_register">> /\ next = <<"prepare_phy">> => Fresh(todo, next)
    BY DEF Fresh
  <2> QED
    BY <1>2, <2>1, <2>2, <2>3 DEF IsFresh
<1>6. Deaf'
  BY <1>1, <1>4, <1>5 DEF Deaf, NoEdge
<1>7. Place(phy.todo, phy.next, frame.tx)'
  BY <1>1, <1>3, <1>5, <1>6 DEF Place
<1>8. BusOK(phy.todo, phy.next)'
  BY <1>1, <1>2, <1>3 DEF Runs, BusOK, Due, Free
<1>9. SignalOK(phy.todo, phy.next)'
  BY <1>1, <1>2, <1>3 DEF SignalOK
<1> QED
  BY <1>1, <1>2, <1>3, <1>7, <1>8, <1>9 DEF PhyTypes, Machine, Runs

\* The configuration is complete, and only the radio is awaited.
LEMMA Configured ==
  ASSUME Runs, cpu = "handle", phy.main = "CONFIG_COMPLETE"
  PROVE  /\ Head(phy.todo) = "read_events" /\ phy.next = <<>> /\ phy.todo = <<"read_events", "close_spi", Processing(frame.tx)>>
         /\ Live(frame.tx) /\ Free /\ TakesIrq(phy.todo)
         /\ \A next : ~TakesDma(phy.todo, next) /\ ~LeftOver(phy.todo, next) /\ ~IsFresh(phy.todo, next)
<1>1. Head(phy.todo) = "read_events" /\ phy.next = <<>>
  BY DEF Runs, SignalOK, Outcomes
<1>2. Live(frame.tx) /\ phy.todo = <<"read_events", "close_spi", Processing(frame.tx)>>
  BY <1>1, AtPlace, ListensHead DEF Runs
<1>3. TakesIrq(phy.todo)
      /\ \A next : ~TakesDma(phy.todo, next) /\ ~LeftOver(phy.todo, next) /\ ~IsFresh(phy.todo, next)
  BY <1>1 DEF TakesIrq, TakesDma, LeftOver, IsFresh
<1> QED
  BY <1>1, <1>2, <1>3 DEF Runs, BusOK

\* A register is to be transferred when the event of the radio has been read.
LEMMA RegisterAsked ==
  ASSUME PhyTypes, Runs, cpu = "handle", phy.main = "CONFIG_COMPLETE", cpu' = "app", mac' = mac,
         UNCHANGED <<frame, spi, dma, irq, radio>>, phy' \in PhyType, phy'.todo = phy.todo,
         phy'.next \in Asked, phy'.main = phy.main
  PROVE  PhyTypes' /\ Runs'
<1>1. /\ phy.todo = <<"read_events", "close_spi", Processing(frame.tx)>>
      /\ Live(frame.tx) /\ Free /\ TakesIrq(phy.todo)
      /\ ~TakesDma(phy.todo, phy'.next) /\ ~LeftOver(phy.todo, phy'.next) /\ ~IsFresh(phy.todo, phy'.next)
  BY Configured
<1>2. Listens(phy.todo, phy.next, frame.tx)'
  BY <1>1 DEF Listens
<1>3. Live(frame.tx)'
  BY <1>1 DEF Live
<1>4. Place(phy.todo, phy.next, frame.tx)'
  BY <1>2, <1>3 DEF Place
<1>5. BusOK(phy.todo, phy.next)'
  BY <1>1 DEF BusOK, Free
<1>6. SignalOK(phy.todo, phy.next)'
  BY <1>1 DEF SignalOK
<1> QED
  BY <1>4, <1>5, <1>6 DEF PhyTypes, Runs

\* Once the radio is off and the interrupts are disabled, nothing runs.
LEMMA Aborted ==
  ASSUME PhyTypes, Runs, (cpu = "handle" /\ phy.main = "CONFIG_COMPLETE") \/ (cpu = "app" /\ ~dma.pending),
         Abort, cpu' = "app", mac'.signal = "DISCONNECT", spi' \in {"idle", "cut"}, UNCHANGED <<phy, frame>>
  PROVE  PhyTypes' /\ Stopped'
<1>1. irq' = Disabled /\ dma' = [dma EXCEPT !.enabled = FALSE] /\ radio' = Off
  BY DEF Abort
<1>2. ~dma.pending
  BY Configured DEF Free
<1>3. dma' = Disabled
  BY <1>1, <1>2, HardwareFields DEF InterruptType, Disabled
<1>4. phy.main # "ERROR"
  BY Rests DEF Outcomes
<1> QED
  BY <1>1, <1>3, <1>4, RestTypes DEF PhyTypes, Stopped

LEMMA ConfigCompleteKeeps ==
  ASSUME PhyTypes, mac \in MacType, Machine, ConfigComplete
  PROVE  PhyTypes' /\ Machine'
<1>1. cpu = "handle" /\ phy.main = "CONFIG_COMPLETE" /\ cpu' = "app" /\ frame' = frame /\ spi' = spi
  BY DEF ConfigComplete
<1>2. Runs
  BY <1>1, NotStopped
<1>3. phy.next = <<>> /\ spi = "idle"
  BY <1>1, <1>2, Configured DEF Free
<1>4. phy \in PhyType
  BY HardwareFields, <1>2
<1>5. CASE requests = <<>>
  <2>1. phy' = phy /\ mac' = mac /\ dma' = dma /\ irq' = irq /\ radio' = radio
    BY <1>5 DEF ConfigComplete
  <2> QED
    BY <1>1, <1>2, <1>3, <1>4, <2>1, RegisterAsked DEF Machine, Asked
<1>6. CASE requests # <<>> /\ Head(requests).kind = "ratio"
  <2>1. UNCHANGED <<phy, dma, irq, radio>>
    BY <1>6 DEF ConfigComplete, ServeRequest
  <2>2. mac'.signal = mac.signal
    BY <1>6 DEF ConfigComplete, ServeRequest, MacType
  <2>3. SignalOK(phy.todo, phy.next)'
    BY <1>1, <1>2, <2>1, Configured DEF SignalOK
  <2> QED
    BY <1>1, <1>2, <2>1, <2>2, <2>3, HandsOver DEF Machine
<1>7. CASE requests # <<>> /\ Head(requests).kind = "disconnect"
  <2>1. Abort /\ phy' = phy /\ mac' = [mac EXCEPT !.signal = "DISCONNECT", !.up = [s \in Slots |-> FALSE]]
    BY <1>7 DEF ConfigComplete, ServeRequest
  <2>2. mac'.signal = "DISCONNECT"
    BY <2>1 DEF MacType
  <2> QED
    BY <1>1, <1>2, <1>3, <2>1, <2>2, Aborted DEF Machine
<1>8. CASE requests # <<>> /\ Head(requests).kind \notin {"ratio", "disconnect"}
  <2>1. /\ mac' = mac /\ dma' = dma /\ irq' = irq /\ radio' = radio
        /\ phy' = CASE Head(requests).kind = "write" -> Enqueue([phy EXCEPT !.write = TRUE], "transfer_register")
                    [] Head(requests).kind = "read" -> Enqueue([phy EXCEPT !.read = TRUE], "transfer_register")
                    [] OTHER -> [phy EXCEPT !.overwrite = TRUE]
    BY <1>8 DEF ConfigComplete, ServeRequest
  <2>2. Append(<<>>, "transfer_register") = <<"transfer_register">> /\ <<"transfer_register">> \in Seq(Lists)
    BY ShortSeqs DEF Lists
  <2>3. phy' \in PhyType /\ phy'.todo = phy.todo /\ phy'.main = phy.main /\ phy'.next \in Asked
    BY <1>3, <1>4, <2>1, <2>2 DEF PhyType, Enqueue, Asked
  <2> QED
    BY <1>1, <1>2, <2>1, <2>3, RegisterAsked DEF Machine
<1> QED
  BY <1>5, <1>6, <1>7, <1>8

LEMMA ConnectKeeps ==
  ASSUME PhyTypes, mac \in MacType, Machine, Connect
  PROVE  PhyTypes' /\ Machine'
<1>1. /\ mac.signal = "DISCONNECT" /\ spi = "idle" /\ phy' = PhyReset(phy)
      /\ mac' = [mac EXCEPT !.signal = "ON", !.synced = FALSE]
      /\ irq' = [enabled |-> TRUE, pending |-> TRUE] /\ dma' = [dma EXCEPT !.enabled = TRUE]
      /\ cpu' = cpu /\ frame' = frame /\ spi' = spi /\ radio' = radio
  BY DEF Connect
<1>2. Stopped
  BY <1>1 DEF Machine, Runs
<1>3. /\ phy' \in PhyType /\ phy'.todo = <<"prepare_phy">> /\ phy'.next = <<>> /\ phy'.main = "CONNECT"
  <2>1. <<"prepare_phy">> \in Lines /\ <<>> \in Seq(Lists)
    BY DEF Lines, Names
  <2> QED
    BY <1>1, <2>1, FunctionsAre DEF PhyReset, PhyTypes, PhyType, Signals
<1>4. irq' \in InterruptType /\ irq'.pending /\ dma' \in InterruptType /\ dma'.enabled /\ ~dma'.pending
  BY <1>1, <1>2 DEF Stopped, Disabled, InterruptType
<1>5. mac'.signal = "ON"
  BY <1>1 DEF MacType
<1>6. cpu' = "app" /\ radio' = Off /\ spi' = "idle"
  BY <1>1, <1>2 DEF Stopped
<1>7. Place(phy.todo, phy.next, frame.tx)'
  <2>1. Fresh(phy.todo, phy.next)'
    BY <1>3 DEF Fresh
  <2>2. Deaf'
    BY <1>3, <1>6 DEF Deaf, Off
  <2> QED
    BY <1>6, <2>1, <2>2 DEF Place
<1>8. BusOK(phy.todo, phy.next)'
  BY <1>3, <1>4, <1>6 DEF BusOK, TakesDma, LeftOver, Free
<1>9. SignalOK(phy.todo, phy.next)'
  BY <1>3, <1>4, <1>6 DEF SignalOK
<1> QED
  BY <1>1, <1>3, <1>4, <1>5, <1>7, <1>8, <1>9 DEF PhyTypes, Machine, Runs

LEMMA CloseKeeps ==
  ASSUME PhyTypes, mac \in MacType, Machine, Close
  PROVE  PhyTypes' /\ Machine'
<1>1. /\ cpu = "app" /\ cpu' = cpu /\ ~Pending(dma) /\ phy' = phy /\ frame' = frame /\ Abort
      /\ mac' = [mac EXCEPT !.signal = "DISCONNECT"] /\ spi' \in {"idle", "cut"}
  BY DEF Close, AppRuns, Quiet
<1>2. mac'.signal = "DISCONNECT"
  BY <1>1 DEF MacType
<1>3. CASE Runs
  <2>1. ~dma.pending
    BY <1>1, <1>3 DEF Runs, Pending
  <2> QED
    BY <1>1, <1>2, <1>3, <2>1, Aborted DEF Machine
<1>4. CASE Stopped
  <2>1. irq' = Disabled /\ dma' = Disabled /\ radio' = Off
    BY <1>1, <1>4 DEF Abort, Stopped, Disabled
  <2> QED
    BY <1>1, <1>2, <1>4, <2>1, RestTypes DEF PhyTypes, Machine, Stopped
<1> QED
  BY <1>3, <1>4 DEF Machine

LEMMA ClearRegistersKeeps ==
  ASSUME PhyTypes, Machine, ClearRegisters
  PROVE  PhyTypes' /\ Machine'
<1>1. /\ cpu' = cpu /\ frame' = frame /\ spi' = spi /\ dma' = dma /\ irq' = irq /\ radio' = radio
      /\ phy' = [phy EXCEPT !.overwrite = FALSE] /\ mac' = mac
  BY DEF ClearRegisters, macVars
<1>2. /\ phy' \in PhyType /\ phy'.todo = phy.todo /\ phy'.next = phy.next /\ phy'.main = phy.main
      /\ phy'.input = phy.input /\ phy'.payload = phy.payload
  BY <1>1 DEF PhyTypes, PhyType
<1>3. Stopped => Stopped'
  BY <1>1, <1>2 DEF Stopped
<1>4. /\ Deaf' <=> Deaf
      /\ Live(frame.tx)' <=> Live(frame.tx)
      /\ Filled(frame.tx)' <=> Filled(frame.tx)
      /\ EventRead(frame.tx)' <=> EventRead(frame.tx)
  BY <1>1, <1>2 DEF Deaf, NoEdge, Live, Filled, EventRead
<1>5. Place(phy.todo, phy.next, frame.tx) => Place(phy.todo, phy.next, frame.tx)'
  BY <1>1, <1>2, <1>4 DEF Place
<1>6. BusOK(phy.todo, phy.next) => BusOK(phy.todo, phy.next)'
  BY <1>1, <1>2 DEF BusOK, Due, Free
<1>7. SignalOK(phy.todo, phy.next) => SignalOK(phy.todo, phy.next)'
  BY <1>1, <1>2 DEF SignalOK
<1> QED
  BY <1>1, <1>2, <1>3, <1>5, <1>6, <1>7 DEF PhyTypes, Machine, Runs

\* The steps that leave the machine as it was.
Still == \/ HandlerStart \/ RunCallback \/ ClearEvent \/ Dequeue \/ HandlerEnd
         \/ Disconnect \/ BusSeenFree \/ PollEnds \/ Request \/ UNCHANGED vars

LEMMA StillSame ==
  ASSUME mac \in MacType, Still
  PROVE  UNCHANGED phyVars /\ mac'.signal = mac.signal /\ cfg' = cfg
<1>1. CASE RunCallback
  BY <1>1 DEF RunCallback, MacType
<1>2. CASE ClearEvent
  BY <1>2 DEF ClearEvent, MacType
<1>3. CASE HandlerStart \/ Dequeue \/ HandlerEnd \/ Disconnect \/ BusSeenFree \/ PollEnds \/ Request \/ UNCHANGED vars
  BY <1>3 DEF HandlerStart, Dequeue, HandlerEnd, Disconnect, BusSeenFree, PollEnds, Request, macVars, vars
<1> QED
  BY <1>1, <1>2, <1>3 DEF Still

\* The steps of the machine itself and of the hardware under it.
Moves == Phy \/ Hardware

LEMMA MovesRun ==
  ASSUME PhyTypes, Machine, Moves
  PROVE  PhyTypes' /\ Machine' /\ Runs /\ UNCHANGED <<macVars, cfg, handler, app>>
<1>1. UNCHANGED <<macVars, cfg, handler, app>> /\ (PhyStep \/ RadioEvent \/ ReplyEnd \/ TransferDone)
  BY DEF Moves, Phy, Hardware, Apart
<1>2. mac' = mac
  BY <1>1 DEF macVars
<1>3. Runs
  <2>1. Stopped => cpu = "app" /\ ~radio.armed /\ radio.reply = "none" /\ spi \notin Transfers
    BY DEF Stopped, Off, Transfers
  <2>2. PhyStep => cpu # "app"
    <3>1. Refused => cpu # "app"
      BY DEF Refused
    <3>2. Function => cpu # "app"
      BY DEF Function, Called, prepare_phy, set_config, close_spi_early, close_spi, fill, enable_radio_irq,
             prepare_syncing, read_events, process_event_tx, process_event_rx, handle_good_frame,
             handle_good_auto_reply, get_frame_header, get_auto_reply_header, get_payload, check_radio_irq,
             transfer_register, overwrite_registers
    <3> QED
      BY <3>1, <3>2 DEF PhyStep
  <2>3. /\ RadioEvent => radio.armed
        /\ ReplyEnd => radio.reply = "sending"
        /\ TransferDone => spi \in Transfers
    BY DEF RadioEvent, ReplyEnd, TransferDone
  <2> QED
    BY <1>1, <2>1, <2>2, <2>3 DEF Machine
<1>4. PhyTypes' /\ Runs'
  BY <1>1, <1>2, <1>3, PhyStepKeeps, RadioEventKeeps, ReplyEndKeeps, TransferDoneKeeps
<1> QED
  BY <1>1, <1>3, <1>4 DEF Machine

LEMMA MachineStep ==
  ASSUME PhyTypes, cfg \in Settings, mac \in MacType, Machine, [Next]_vars
  PROVE  PhyTypes' /\ Machine'
<1>1. CASE Moves
  BY <1>1, MovesRun
<1>2. CASE Mac
  BY <1>2, OutcomeKeeps, IdleKeeps, ConnectedKeeps, ConfigCompleteKeeps, NextSlotKeeps, PrepareFrameKeeps DEF Mac
<1>3. CASE RadioIrq \/ DmaIrq
  BY <1>3, RadioIrqKeeps, DmaIrqKeeps
<1>4. CASE Connect \/ Close \/ ClearRegisters
  BY <1>4, ConnectKeeps, CloseKeeps, ClearRegistersKeeps
<1>5. CASE Still
  BY <1>5, StillSame, MachineSame
<1> QED
  BY <1>1, <1>2, <1>3, <1>4, <1>5 DEF Next, Moves, Handler, App, Still

LEMMA MachineInit ==
  ASSUME Init
  PROVE  PhyTypes /\ Machine
<1>1. /\ cpu = "app" /\ spi = "idle" /\ dma = Disabled /\ irq = Disabled /\ radio = Off
      /\ phy = [todo |-> <<"prepare_phy">>, next |-> <<>>, main |-> "YIELD", input |-> "PREPARE_RADIO",
                outcome |-> "WAIT", wait |-> FALSE, payload |-> FALSE,
                write |-> FALSE, read |-> FALSE, overwrite |-> FALSE]
      /\ mac.signal = "DISCONNECT" /\ cfg \in Settings
      /\ frame = [tx |-> FALSE, auto |-> "none", content |-> "none", data |-> FALSE, sync |-> FALSE,
                  phase |-> cfg.phase, exact |-> cfg.exact]
  BY FunctionsAre DEF Init, PhyInit
<1>2. <<"prepare_phy">> \in Lines /\ <<>> \in Seq(Lists)
  BY DEF Lines, Names
<1>3. phy \in PhyType /\ phy.main # "ERROR"
  BY <1>1, <1>2 DEF PhyType, Signals, Inputs, OutcomeNames
<1>4. frame \in FrameType
  BY <1>1, SettingFacts DEF FrameType
<1> QED
  BY <1>1, <1>3, <1>4, RestTypes DEF PhyTypes, Machine, Stopped

-----------------------------------------------------------------------------
(* The active pattern of a connection *)

LEMMA GreatestElement ==
  ASSUME NEW n \in Nat, NEW T \in SUBSET (1 .. n), T # {}
  PROVE  \E d \in T : \A e \in T : e <= d
<1> DEFINE U == {n - d : d \in T}
<1>1. U \in SUBSET Nat /\ U # {}
  <2>1. \A d \in T : n - d \in Nat
    OBVIOUS
  <2> QED
    BY <2>1
<1> HIDE DEF U
<1>2. PICK x \in U : \A y \in U : x <= y
  BY <1>1, LeastElement
<1>3. PICK d \in T : x = n - d
  BY DEF U
<1>4. ASSUME NEW e \in T PROVE e <= d
  <2>1. n - e \in U
    BY DEF U
  <2> QED
    BY <1>2, <1>3, <2>1
<1> QED
  BY <1>4

LEMMA GcdRange ==
  ASSUME NEW m \in Nat, NEW n \in Nat \ {0}
  PROVE  Gcd(m, n) \in 1 .. n
<1> DEFINE T == {d \in 1 .. n : Divides(d, m) /\ Divides(d, n)}
<1>1. T \in SUBSET (1 .. n) /\ T # {}
  <2>1. Divides(1, m) /\ Divides(1, n)
    BY DEF Divides
  <2> QED
    BY <2>1
<1>2. PICK d \in T : \A e \in T : e <= d
  BY <1>1, GreatestElement
<1>3. \A e \in d + 1 .. n : ~(Divides(e, m) /\ Divides(e, n))
  <2> SUFFICES ASSUME NEW e \in d + 1 .. n, Divides(e, m) /\ Divides(e, n) PROVE FALSE
    OBVIOUS
  <2>1. e \in 1 .. n /\ e > d
    BY <1>1
  <2>2. e \in T
    BY <2>1
  <2> QED
    BY <1>1, <1>2, <2>1, <2>2
<1>4. \E x \in 1 .. n : /\ Divides(x, m) /\ Divides(x, n)
                        /\ \A e \in x + 1 .. n : ~(Divides(e, m) /\ Divides(e, n))
  BY <1>3
<1> QED
  BY <1>4, Zenon DEF Gcd

\* A pattern has at least one turn.
LEMMA PatternType ==
  ASSUME NEW ratio \in 0 .. 100
  PROVE  ActivePattern(ratio) \in Seq(BOOLEAN) \ {<<>>} /\ Len(ActivePattern(ratio)) > 0
<1> DEFINE g == Gcd(ratio, 100)
           total == 100 \div g
           active == ratio \div g
           on(i) == \E k \in 0 .. active - 1 : i - 1 = ((k * total) \div active) % total
<1>1. g \in 1 .. 100
  <2>1. ratio \in Nat /\ 100 \in Nat \ {0}
    OBVIOUS
  <2> QED
    BY <2>1, GcdRange, Zenon
<1> HIDE DEF g
<1>2. total \in Nat \ {0}
  BY <1>1
<1>3. ActivePattern(ratio) = [i \in 1 .. total |-> on(i)]
  BY DEF ActivePattern, g
<1> HIDE DEF total
<1>4. \A i \in 1 .. total : on(i) \in BOOLEAN
  OBVIOUS
<1> HIDE DEF on
<1>5. [i \in 1 .. total |-> on(i)] \in Seq(BOOLEAN) /\ Len([i \in 1 .. total |-> on(i)]) = total
  BY <1>2, <1>4
<1> QED
  BY <1>2, <1>3, <1>5

-----------------------------------------------------------------------------
(* Types of the layers above, step by step *)

\* The callbacks with more behind them, as far as they fit.
LEMMA CallbacksAfterFields ==
  ASSUME QueueTypes, NEW more \in Seq(CallbackType)
  PROVE  LET after == CallbacksAfter(more)
         IN /\ after \in Seq(CallbackType) /\ Len(after) <= CallbackSize
            /\ Len(after) >= Len(callbacks)
            /\ \A i \in 1 .. Len(callbacks) : after[i] = callbacks[i]
            /\ Len(callbacks) + Len(more) <= CallbackSize => after = callbacks \o more
<1> DEFINE all == callbacks \o more
           n == IF Len(all) < CallbackSize THEN Len(all) ELSE CallbackSize
<1>1. /\ all \in Seq(CallbackType) /\ Len(all) = Len(callbacks) + Len(more)
      /\ Len(callbacks) \in Nat /\ Len(more) \in Nat /\ Len(callbacks) <= CallbackSize
      /\ \A i \in 1 .. Len(callbacks) : all[i] = callbacks[i]
  BY DEF QueueTypes
<1>2. CallbackSize \in Nat
  BY NodeAssumption
<1> HIDE DEF all
<1>3. n \in 0 .. Len(all) /\ n >= Len(callbacks) /\ n <= CallbackSize
  BY <1>1, <1>2
<1>4. CallbacksAfter(more) = SubSeq(all, 1, n)
  BY DEF CallbacksAfter, all
<1>5. Len(all) <= CallbackSize => n = Len(all)
  BY <1>1, <1>2
<1> HIDE DEF n
<1>6. /\ SubSeq(all, 1, n) \in Seq(CallbackType) /\ Len(SubSeq(all, 1, n)) = n
      /\ \A i \in 1 .. n : SubSeq(all, 1, n)[i] = all[i]
  BY <1>1, <1>3
<1>7. n = Len(all) => SubSeq(all, 1, n) = all
  BY <1>1, <1>3, <1>6, SeqEqual
<1> QED
  BY <1>1, <1>3, <1>4, <1>5, <1>6, <1>7 DEF all

\* The callback of an event is queued when the status of the slot changes.
Changed(s, up) == IF up # mac.up[s] THEN <<[kind |-> "event", slot |-> s]>> ELSE <<>>
Lasts(s) == {<<>>} \cup {<<[kind |-> k, slot |-> s]>> : k \in {"event", "tx", "rx"}}

LEMMA MacFields ==
  ASSUME mac \in MacType
  PROVE  /\ mac.slot \in Slots /\ mac.synced \in BOOLEAN
         /\ \A s \in Slots : /\ mac.up[s] \in BOOLEAN /\ mac.event[s] \in {"none", "connect", "disconnect"}
                             /\ mac.pattern[s] \in Seq(BOOLEAN) \ {<<>>} /\ mac.count[s] \in Nat
BY DEF MacType

LEMMA OutcomeFields ==
  ASSUME cfg \in Settings, mac \in MacType, QueueTypes, Outcome
  PROVE  \E synced \in BOOLEAN, up \in BOOLEAN, last \in Lasts(mac.slot), n \in 0 .. RxSize :
           LET s == mac.slot
               more == Changed(s, up) \o last
           IN /\ mac' = [mac EXCEPT !.synced = synced, !.up[s] = up, !.event[s] = EventAfter(s, up)]
              /\ rxq' = [rxq EXCEPT ![s] = n]
              /\ callbacks' = CallbacksAfter(more)
              /\ dropped' = (dropped \/ Len(callbacks) + Len(more) > CallbackSize)
<1> DEFINE s == mac.slot
           Last(new) == IF Result(s, new).callback # "none" THEN <<[kind |-> Result(s, new).callback, slot |-> s]>>
                        ELSE <<>>
<1>1. PICK synced \in SyncedAfter, new \in {FALSE, phy.payload} :
        \E up \in UpAfter(s, synced) :
          LET more == Changed(s, up) \o Last(new)
          IN /\ mac' = [mac EXCEPT !.synced = synced, !.up[s] = up, !.event[s] = EventAfter(s, up)]
             /\ rxq' = [rxq EXCEPT ![s] = Result(s, new).rx]
             /\ callbacks' = CallbacksAfter(more)
             /\ dropped' = (dropped \/ Len(callbacks) + Len(more) > CallbackSize)
  BY DEF Outcome, Changed
<1>2. s \in Slots /\ mac.synced \in BOOLEAN /\ mac.up[s] \in BOOLEAN
  BY MacFields
<1>3. synced \in BOOLEAN
  BY <1>2 DEF SyncedAfter
<1>4. \A up \in UpAfter(s, synced) : up \in BOOLEAN
  BY <1>2 DEF UpAfter
<1>5. rxq[s] \in 0 .. RxSize /\ RxSize \in Nat
  BY <1>2, NodeAssumption DEF QueueTypes
<1>6. Result(s, new).callback \in {"none", "event", "tx", "rx"} /\ Result(s, new).rx \in 0 .. RxSize
  BY <1>5 DEF Result
<1>7. Last(new) \in Lasts(s)
  BY <1>6 DEF Lasts
<1> HIDE DEF s, Last
<1>8. PICK up \in UpAfter(s, synced) :
        LET more == Changed(s, up) \o Last(new)
        IN /\ mac' = [mac EXCEPT !.synced = synced, !.up[s] = up, !.event[s] = EventAfter(s, up)]
           /\ rxq' = [rxq EXCEPT ![s] = Result(s, new).rx]
           /\ callbacks' = CallbacksAfter(more)
           /\ dropped' = (dropped \/ Len(callbacks) + Len(more) > CallbackSize)
  BY <1>1
<1>9. up \in BOOLEAN
  BY <1>4
<1> QED
  BY <1>3, <1>6, <1>7, <1>8, <1>9, Zenon DEF s

LEMMA MoreType ==
  ASSUME NEW s \in Slots, NEW up, NEW last \in Lasts(s)
  PROVE  Changed(s, up) \o last \in Seq(CallbackType)
<1>1. \A k \in {"event", "tx", "rx"} : [kind |-> k, slot |-> s] \in CallbackType
  BY DEF CallbackType
<1>2. \A c \in CallbackType : <<c>> \in Seq(CallbackType)
  OBVIOUS
<1>3. <<>> \in Seq(CallbackType)
  OBVIOUS
<1>4. Changed(s, up) \in Seq(CallbackType)
  BY <1>1, <1>2, <1>3 DEF Changed
<1>5. last \in Seq(CallbackType)
  BY <1>1, <1>2, <1>3 DEF Lasts
<1> QED
  BY <1>4, <1>5, Joined

\* The setting, and with it the slots, never changes.
LEMMA CfgSame ==
  ASSUME [Next]_vars
  PROVE  cfg' = cfg /\ Slots' = Slots
<1>1. cfg' = cfg
  <2>1. CASE Phy \/ Hardware
    BY <2>1, Zenon DEF Phy, Hardware, Apart
  <2>2. CASE Mac
    BY <2>2 DEF Mac, Outcome, Idle, Connected, ConfigComplete, NextSlot, PrepareFrame
  <2>3. CASE RadioIrq \/ DmaIrq
    BY <2>3 DEF RadioIrq, DmaIrq
  <2>4. CASE Handler
    BY <2>4 DEF Handler, HandlerStart, RunCallback, ClearEvent, Dequeue, HandlerEnd
  <2>5. CASE App
    BY <2>5 DEF App, Connect, Disconnect, BusSeenFree, Close, PollEnds, Request, ClearRegisters
  <2>6. CASE UNCHANGED vars
    BY <2>6 DEF vars
  <2> QED
    BY <2>1, <2>2, <2>3, <2>4, <2>5, <2>6 DEF Next
<1> QED
  BY <1>1 DEF Slots

\* A change of one slot.
LEMMA MacUpdate ==
  ASSUME MacTypes, cfg' = cfg, NEW s \in Slots, NEW synced \in BOOLEAN, NEW up \in BOOLEAN,
         NEW event \in {"none", "connect", "disconnect"},
         mac' = [mac EXCEPT !.synced = synced, !.up[s] = up, !.event[s] = event]
  PROVE  MacTypes'
<1>1. Slots' = Slots
  BY DEF Slots
<1>2. mac' \in MacType /\ mac'.count = mac.count /\ mac'.pattern = mac.pattern
  BY DEF MacTypes, MacType
<1> QED
  BY <1>1, <1>2 DEF MacTypes, MacType, CountsFit

LEMMA MacSame ==
  ASSUME MacTypes, cfg' = cfg, mac' = mac
  PROVE  MacTypes'
<1>1. Slots' = Slots
  BY DEF Slots
<1> QED
  BY <1>1 DEF MacTypes, MacType, CountsFit

LEMMA MacSignal ==
  ASSUME MacTypes, cfg' = cfg, NEW signal \in {"ON", "DISCONNECT"}, NEW synced \in BOOLEAN,
         NEW up \in [Slots -> BOOLEAN],
         mac' = [mac EXCEPT !.signal = signal, !.synced = synced, !.up = up]
  PROVE  MacTypes'
<1>1. Slots' = Slots
  BY DEF Slots
<1>2. mac' \in MacType /\ mac'.count = mac.count /\ mac'.pattern = mac.pattern
  BY DEF MacTypes, MacType
<1> QED
  BY <1>1, <1>2 DEF MacTypes, MacType, CountsFit

LEMMA MacPattern ==
  ASSUME MacTypes, cfg' = cfg, NEW s \in Slots, NEW pattern \in Seq(BOOLEAN) \ {<<>>}, Len(pattern) > 0,
         mac' = [mac EXCEPT !.pattern[s] = pattern, !.count[s] = 0]
  PROVE  MacTypes'
<1>1. Slots' = Slots
  BY DEF Slots
<1>2. mac \in MacType /\ CountsFit
  BY DEF MacTypes
<1>3. /\ mac'.pattern = [mac.pattern EXCEPT ![s] = pattern] /\ mac'.count = [mac.count EXCEPT ![s] = 0]
  BY <1>2 DEF MacType
<1>4. mac' \in MacType
  <2> DEFINE P == Seq(BOOLEAN) \ {<<>>}
  <2>1. mac.pattern \in [Slots -> P] /\ mac.count \in [Slots -> Nat]
    BY <1>2 DEF MacType
  <2> HIDE DEF P
  <2>2. [mac.pattern EXCEPT ![s] = pattern] \in [Slots -> P] /\ [mac.count EXCEPT ![s] = 0] \in [Slots -> Nat]
    BY <2>1 DEF P
  <2> QED
    BY <1>2, <2>2 DEF MacType, P
<1>5. CountsFit'
  <2> SUFFICES ASSUME NEW t \in Slots PROVE mac'.count[t] < Len(mac'.pattern[t])
    BY <1>1 DEF CountsFit
  <2>1. mac.pattern \in [Slots -> Seq(BOOLEAN) \ {<<>>}] /\ mac.count \in [Slots -> Nat]
    BY <1>2 DEF MacType
  <2>2. t # s => mac'.pattern[t] = mac.pattern[t] /\ mac'.count[t] = mac.count[t]
    BY <1>3, <2>1
  <2>3. mac'.pattern[s] = pattern /\ mac'.count[s] = 0
    BY <1>3, <2>1
  <2> QED
    BY <1>2, <2>2, <2>3 DEF CountsFit
<1> QED
  BY <1>1, <1>4, <1>5 DEF MacTypes, MacType

LEMMA MacNext ==
  ASSUME cfg \in Settings, MacTypes, NextSlot
  PROVE  MacTypes'
<1> DEFINE s == AfterSlot(mac.slot)
           n == Len(mac.pattern[s])
           count == (mac.count[s] + 1) % n
<1>1. Slots' = Slots /\ mac \in MacType /\ CountsFit
  BY DEF NextSlot, Slots, MacTypes
<1>2. mac' = [mac EXCEPT !.slot = s, !.count[s] = count]
  BY DEF NextSlot
<1>3. s \in Slots
  <2>1. Slots = 1 .. Len(cfg.schedule) /\ Len(cfg.schedule) \in Nat \ {0} /\ mac.slot \in Slots
    BY <1>1, SettingFacts, MacFields
  <2> QED
    BY <2>1 DEF AfterSlot
<1> HIDE DEF s
<1>4. n \in Nat \ {0} /\ mac.count[s] \in Nat
  <2> DEFINE pattern == mac.pattern[s]
  <2>1. pattern \in Seq(BOOLEAN) \ {<<>>} /\ mac.count[s] \in Nat
    BY <1>1, <1>3, MacFields
  <2> HIDE DEF pattern
  <2>2. Len(pattern) \in Nat \ {0}
    BY <2>1
  <2> QED
    BY <2>1, <2>2 DEF pattern
<1>5. count \in 0 .. n - 1
  <2> HIDE DEF n
  <2> QED
    BY <1>4
<1> HIDE DEF n, count
<1>6. mac' \in MacType /\ mac'.pattern = mac.pattern /\ mac'.count = [mac.count EXCEPT ![s] = count]
  <2>1. count \in Nat
    BY <1>4, <1>5
  <2>2. [mac.count EXCEPT ![s] = count] \in [Slots -> Nat]
    BY <1>1, <2>1 DEF MacType
  <2> QED
    BY <1>1, <1>2, <1>3, <2>2 DEF MacType
<1>7. CountsFit'
  <2> SUFFICES ASSUME NEW t \in Slots PROVE mac'.count[t] < Len(mac'.pattern[t])
    BY <1>1 DEF CountsFit
  <2>1. mac.count \in [Slots -> Nat]
    BY <1>1 DEF MacType
  <2> QED
    BY <1>1, <1>3, <1>4, <1>5, <1>6, <2>1 DEF CountsFit, n
<1> QED
  BY <1>1, <1>6, <1>7 DEF MacTypes, MacType

LEMMA RequestFields ==
  ASSUME NEW r \in RequestType
  PROVE  r.kind = "ratio" => r.slot \in Slots /\ r.ratio \in 0 .. 100
BY DEF RequestType

LEMMA MacTypesStep ==
  ASSUME cfg \in Settings, MacTypes, QueueTypes, HandlerTypes, [Next]_vars
  PROVE  MacTypes'
<1>1. cfg' = cfg /\ mac \in MacType
  BY CfgSame DEF MacTypes
<1>2. mac.slot \in Slots /\ mac.synced \in BOOLEAN /\ mac.up \in [Slots -> BOOLEAN] /\ mac.signal \in {"ON", "DISCONNECT"}
  BY <1>1 DEF MacType
<1>3. CASE Outcome
  <2>1. PICK synced \in BOOLEAN, up \in BOOLEAN :
          mac' = [mac EXCEPT !.synced = synced, !.up[mac.slot] = up, !.event[mac.slot] = EventAfter(mac.slot, up)]
    BY <1>1, <1>3, OutcomeFields
  <2>2. EventAfter(mac.slot, up) \in {"none", "connect", "disconnect"}
    BY <1>1, MacFields DEF EventAfter
  <2> QED
    BY <1>1, <1>2, <2>1, <2>2, MacUpdate
<1>4. CASE NextSlot
  BY <1>4, MacNext
<1>5. CASE ConfigComplete
  <2>1. CASE mac' = mac
    BY <1>1, <2>1, MacSame
  <2>2. CASE mac' # mac
    <3>1. requests # <<>> /\ ServeRequest
      BY <1>5, <2>2 DEF ConfigComplete
    <3>2. Head(requests) \in RequestType
      <4>1. requests \in Seq(RequestType)
        BY DEF QueueTypes
      <4> QED
        BY <3>1, <4>1, Seqs
    <3>3. CASE Head(requests).kind = "ratio"
      <4>1. Head(requests).slot \in Slots /\ Head(requests).ratio \in 0 .. 100
        BY <3>2, <3>3, RequestFields
      <4>2. /\ ActivePattern(Head(requests).ratio) \in Seq(BOOLEAN) \ {<<>>}
            /\ Len(ActivePattern(Head(requests).ratio)) > 0
        BY <4>1, PatternType
      <4>3. mac' = [mac EXCEPT !.pattern[Head(requests).slot] = ActivePattern(Head(requests).ratio),
                               !.count[Head(requests).slot] = 0]
        BY <3>1, <3>3 DEF ServeRequest
      <4> QED
        BY <1>1, <4>1, <4>2, <4>3, MacPattern
    <3>4. CASE Head(requests).kind = "disconnect"
      <4>1. mac' = [mac EXCEPT !.signal = "DISCONNECT", !.up = [t \in Slots |-> FALSE]]
        BY <3>1, <3>4 DEF ServeRequest
      <4>2. mac' = [mac EXCEPT !.signal = "DISCONNECT", !.synced = mac.synced, !.up = [t \in Slots |-> FALSE]]
        BY <1>1, <4>1 DEF MacType
      <4>3. [t \in Slots |-> FALSE] \in [Slots -> BOOLEAN]
        OBVIOUS
      <4> QED
        BY <1>1, <1>2, <4>2, <4>3, MacSignal
    <3> QED
      BY <2>2, <3>1, <3>3, <3>4 DEF ServeRequest
  <2> QED
    BY <2>1, <2>2
<1>6. CASE DmaIrq
  <2>1. mac' = [mac EXCEPT !.signal = "ON", !.synced = mac.synced, !.up = mac.up]
    BY <1>1, <1>6 DEF DmaIrq, MacType
  <2> QED
    BY <1>1, <1>2, <2>1, MacSignal
<1>7. CASE Connect
  <2>1. mac' = [mac EXCEPT !.signal = "ON", !.synced = FALSE, !.up = mac.up]
    BY <1>1, <1>7 DEF Connect, MacType
  <2> QED
    BY <1>1, <1>2, <2>1, MacSignal
<1>8. CASE Close
  <2>1. mac' = [mac EXCEPT !.signal = "DISCONNECT", !.synced = mac.synced, !.up = mac.up]
    BY <1>1, <1>8 DEF Close, MacType
  <2> QED
    BY <1>1, <1>2, <2>1, MacSignal
<1>9. CASE RunCallback \/ ClearEvent
  <2>1. CASE mac' = mac
    BY <1>1, <2>1, MacSame
  <2>2. CASE mac' # mac
    <3> DEFINE s == Head(callbacks).slot
    <3>1. mac' = [mac EXCEPT !.event[s] = "none"] /\ callbacks # <<>>
      BY <1>9, <2>2 DEF RunCallback, ClearEvent, HandlerTypes
    <3>2. s \in Slots
      <4>1. Head(callbacks) \in CallbackType
        <5>1. callbacks \in Seq(CallbackType)
          BY DEF QueueTypes
        <5> QED
          BY <3>1, <5>1, Seqs
      <4> QED
        BY <4>1 DEF CallbackType
    <3> HIDE DEF s
    <3>3. mac' = [mac EXCEPT !.synced = mac.synced, !.up[s] = mac.up[s], !.event[s] = "none"]
      BY <1>1, <3>1, <3>2 DEF MacType
    <3> QED
      BY <1>1, <1>2, <3>2, <3>3, MacUpdate
  <2> QED
    BY <2>1, <2>2
<1>10. CASE Phy \/ Hardware \/ Idle \/ Connected \/ PrepareFrame \/ RadioIrq \/ HandlerStart \/ Dequeue \/ HandlerEnd
            \/ Disconnect \/ BusSeenFree \/ PollEnds \/ Request \/ ClearRegisters \/ UNCHANGED vars
  <2>1. mac' = mac
    BY <1>10 DEF Phy, Hardware, Apart, Idle, Connected, PrepareFrame, RadioIrq, HandlerStart, Dequeue, HandlerEnd,
         Disconnect, BusSeenFree, PollEnds, Request, ClearRegisters, vars, macVars
  <2> QED
    BY <1>1, <2>1, MacSame
<1> QED
  BY <1>3, <1>4, <1>5, <1>6, <1>7, <1>8, <1>9, <1>10 DEF Next, Mac, Handler, App

LEMMA SlotOfCallback ==
  ASSUME QueueTypes, callbacks # <<>>
  PROVE  /\ Head(callbacks).slot \in Slots /\ Head(callbacks).kind \in {"event", "tx", "rx"}
         /\ Tail(callbacks) \in Seq(CallbackType) /\ Len(Tail(callbacks)) = Len(callbacks) - 1
<1> DEFINE S == CallbackType
<1>1. callbacks \in Seq(S)
  BY DEF QueueTypes
<1> HIDE DEF S
<1>2. Head(callbacks) \in S /\ Tail(callbacks) \in Seq(S) /\ Len(Tail(callbacks)) = Len(callbacks) - 1
  BY <1>1
<1> QED
  BY <1>2 DEF S, CallbackType

LEMMA RequestsStep ==
  ASSUME cfg \in Settings, QueueTypes, [Next]_vars
  PROVE  requests' \in Seq(RequestType) /\ Len(requests') <= RequestSize
<1>1. requests \in Seq(RequestType) /\ Len(requests) <= RequestSize /\ RequestSize \in Nat
  BY NodeAssumption DEF QueueTypes
<1>2. ASSUME NEW r \in RequestType, Len(requests) < RequestSize
      PROVE  Append(requests, r) \in Seq(RequestType) /\ Len(Append(requests, r)) <= RequestSize
  <2> DEFINE S == RequestType
  <2>1. requests \in Seq(S) /\ r \in S
    BY <1>1
  <2> HIDE DEF S
  <2>2. Append(requests, r) \in Seq(S) /\ Len(Append(requests, r)) = Len(requests) + 1 /\ Len(requests) \in Nat
    BY <2>1
  <2> QED
    BY <1>1, <1>2, <2>2 DEF S
<1>3. requests # <<>> => Tail(requests) \in Seq(RequestType) /\ Len(Tail(requests)) <= RequestSize
  <2> DEFINE S == RequestType
  <2>1. requests \in Seq(S)
    BY <1>1
  <2> HIDE DEF S
  <2>2. requests # <<>> => Tail(requests) \in Seq(S) /\ Len(Tail(requests)) = Len(requests) - 1 /\ Len(requests) \in Nat
    BY <2>1
  <2> QED
    BY <1>1, <2>2 DEF S
<1>4. CASE ConfigComplete
  <2>1. requests' = requests \/ (requests # <<>> /\ requests' = Tail(requests))
    BY <1>4 DEF ConfigComplete, ServeRequest, Served
  <2> QED
    BY <1>1, <1>3, <2>1
<1>5. CASE Disconnect
  <2>1. [kind |-> "disconnect"] \in RequestType
    BY DEF RequestType
  <2>2. \/ requests' = requests
        \/ Len(requests) < RequestSize /\ requests' = Append(requests, [kind |-> "disconnect"])
    BY <1>5 DEF Disconnect
  <2> QED
    BY <1>1, <1>2, <2>1, <2>2
<1>6. CASE Request
  <2>1. ASSUME NEW kind \in cfg.calls \cap {"read", "write", "periodic"},
               requests' = Append(requests, [kind |-> kind])
        PROVE  QueueTypes => requests' \in Seq(RequestType) /\ Len(requests') <= RequestSize
    <3>1. [kind |-> kind] \in RequestType
      BY <2>1 DEF RequestType
    <3> QED
      BY <1>2, <1>6, <2>1, <3>1 DEF Request
  <2>2. ASSUME NEW r \in cfg.ratios,
               requests' = Append(requests, [kind |-> "ratio", slot |-> r[1], ratio |-> r[2]])
        PROVE  QueueTypes => requests' \in Seq(RequestType) /\ Len(requests') <= RequestSize
    <3>1. r[1] \in Slots /\ r[2] \in 0 .. 100
      BY SettingFacts
    <3>2. [kind |-> "ratio", slot |-> r[1], ratio |-> r[2]] \in RequestType
      BY <3>1 DEF RequestType
    <3> QED
      BY <1>2, <1>6, <2>2, <3>2 DEF Request
  <2>3. \/ \E kind \in cfg.calls \cap {"read", "write", "periodic"} :
             requests' = Append(requests, [kind |-> kind])
        \/ \E r \in cfg.ratios :
             requests' = Append(requests, [kind |-> "ratio", slot |-> r[1], ratio |-> r[2]])
    <3> HIDE DEF RequestType
    <3> QED
      BY <1>6, Zenon DEF Request
  <2> QED
    BY <2>1, <2>2, <2>3
<1>7. CASE ~ConfigComplete /\ ~Disconnect /\ ~Request
  <2>1. requests' = requests
    <3>1. CASE Phy \/ Hardware
      BY <3>1, Zenon DEF Phy, Hardware, Apart, macVars
    <3>2. CASE Mac
      BY <1>7, <3>2 DEF Mac, Outcome, Idle, Connected, NextSlot, PrepareFrame, macVars
    <3>3. CASE RadioIrq \/ DmaIrq
      BY <3>3 DEF RadioIrq, DmaIrq, macVars
    <3>4. CASE Handler
      BY <3>4 DEF Handler, HandlerStart, RunCallback, ClearEvent, Dequeue, HandlerEnd, macVars
    <3>5. CASE App
      BY <1>7, <3>5 DEF App, Connect, BusSeenFree, Close, PollEnds, ClearRegisters, macVars
    <3>6. CASE UNCHANGED vars
      BY <3>6 DEF vars, macVars
    <3> QED
      BY <3>1, <3>2, <3>3, <3>4, <3>5, <3>6 DEF Next
  <2> QED
    BY <1>1, <2>1
<1> QED
  BY <1>4, <1>5, <1>6, <1>7

LEMMA CallbacksStep ==
  ASSUME cfg \in Settings, mac \in MacType, QueueTypes, HandlerTypes, [Next]_vars
  PROVE  /\ callbacks' \in Seq(CallbackType) /\ Len(callbacks') <= CallbackSize
         /\ rxq' \in [Slots -> 0 .. RxSize]
         /\ HandlerTypes'
<1>1. /\ callbacks \in Seq(CallbackType) /\ Len(callbacks) <= CallbackSize /\ rxq \in [Slots -> 0 .. RxSize]
      /\ CallbackSize \in Nat /\ RxSize \in Nat
      /\ handler \in [pc : {"off", "run", "clear", "ran"}, pended : BOOLEAN]
      /\ handler.pc \in {"clear", "ran"} => callbacks # <<>>
  BY NodeAssumption DEF QueueTypes, HandlerTypes
<1>2. \A signal : /\ HandlerAfter(signal) \in [pc : {"off", "run", "clear", "ran"}, pended : BOOLEAN]
                  /\ HandlerAfter(signal).pc = handler.pc
  BY <1>1 DEF HandlerAfter
<1>3. CASE Outcome
  <2>1. PICK synced \in BOOLEAN, up \in BOOLEAN, last \in Lasts(mac.slot), n \in 0 .. RxSize :
          /\ rxq' = [rxq EXCEPT ![mac.slot] = n]
          /\ callbacks' = CallbacksAfter(Changed(mac.slot, up) \o last)
    BY <1>3, OutcomeFields
  <2> DEFINE more == Changed(mac.slot, up) \o last
  <2>2. more \in Seq(CallbackType)
    BY MacFields, MoreType
  <2> HIDE DEF more
  <2>3. callbacks' \in Seq(CallbackType) /\ Len(callbacks') <= CallbackSize /\ Len(callbacks') >= Len(callbacks)
    BY <2>1, <2>2, CallbacksAfterFields DEF more
  <2>4. callbacks # <<>> => callbacks' # <<>>
    BY <1>1, <2>3
  <2>5. handler' = HandlerAfter(phy.main)
    BY <1>3 DEF Outcome
  <2> QED
    BY <1>1, <1>2, <2>1, <2>3, <2>4, <2>5, MacFields DEF HandlerTypes
<1>4. CASE RunCallback
  <2>1. /\ callbacks' = callbacks /\ callbacks # <<>> /\ handler'.pc \in {"clear", "ran"}
        /\ handler' = [handler EXCEPT !.pc = handler'.pc]
    BY <1>1, <1>4 DEF RunCallback
  <2>2. \/ rxq' = rxq
        \/ rxq' = [rxq EXCEPT ![Head(callbacks).slot] = IF @ > 0 THEN @ - 1 ELSE 0]
    BY <1>4 DEF RunCallback
  <2>3. Head(callbacks).slot \in Slots
    BY <2>1, SlotOfCallback
  <2>4. rxq' \in [Slots -> 0 .. RxSize]
    BY <1>1, <2>2, <2>3
  <2>5. handler' \in [pc : {"off", "run", "clear", "ran"}, pended : BOOLEAN]
    BY <1>1, <2>1
  <2> QED
    BY <1>1, <2>1, <2>4, <2>5 DEF HandlerTypes
<1>5. CASE Dequeue
  <2>1. callbacks # <<>> /\ callbacks' = Tail(callbacks) /\ rxq' = rxq /\ handler' = [handler EXCEPT !.pc = "run"]
    BY <1>1, <1>5 DEF Dequeue
  <2>2. Tail(callbacks) \in Seq(CallbackType) /\ Len(Tail(callbacks)) = Len(callbacks) - 1
    BY <2>1, SlotOfCallback
  <2>3. Len(callbacks) \in Nat
    BY <1>1
  <2>4. handler' \in [pc : {"off", "run", "clear", "ran"}, pended : BOOLEAN] /\ handler'.pc = "run"
    BY <1>1, <2>1
  <2>5. Len(callbacks') <= CallbackSize
    BY <1>1, <2>1, <2>2, <2>3
  <2> QED
    BY <1>1, <2>1, <2>2, <2>4, <2>5 DEF HandlerTypes
<1>6. CASE Connected \/ ConfigComplete \/ HandlerStart \/ ClearEvent \/ HandlerEnd
  <2>1. callbacks' = callbacks /\ rxq' = rxq
    BY <1>6 DEF Connected, ConfigComplete, HandlerStart, ClearEvent, HandlerEnd, macVars
  <2>2. CASE Connected \/ ConfigComplete
    BY <1>1, <1>2, <2>1, <2>2 DEF Connected, ConfigComplete, HandlerTypes
  <2>3. CASE HandlerStart
    BY <1>1, <2>1, <2>3 DEF HandlerStart, HandlerTypes
  <2>4. CASE ClearEvent
    BY <1>1, <2>1, <2>4 DEF ClearEvent, HandlerTypes
  <2>5. CASE HandlerEnd
    BY <1>1, <2>1, <2>5 DEF HandlerEnd, HandlerTypes
  <2> QED
    BY <1>1, <1>6, <2>1, <2>2, <2>3, <2>4, <2>5
<1>7. CASE UNCHANGED <<callbacks, rxq, handler>>
  BY <1>1, <1>7 DEF HandlerTypes
<1>8. CASE Phy \/ Hardware
  BY <1>7, <1>8 DEF Phy, Hardware, Apart, macVars
<1>9. CASE Idle \/ NextSlot \/ PrepareFrame \/ RadioIrq \/ DmaIrq
  BY <1>7, <1>9 DEF Idle, NextSlot, PrepareFrame, RadioIrq, DmaIrq, macVars
<1>10. CASE App
  BY <1>7, <1>10 DEF App, Connect, Disconnect, BusSeenFree, Close, PollEnds, Request, ClearRegisters, macVars
<1>11. CASE UNCHANGED vars
  BY <1>7, <1>11 DEF vars, macVars
<1> QED
  BY <1>3, <1>4, <1>5, <1>6, <1>8, <1>9, <1>10, <1>11 DEF Next, Mac, Handler

LEMMA AppStep ==
  ASSUME mac \in MacType, QueueTypes, app \in AppType, [Next]_vars
  PROVE  app' \in AppType
<1>1. Slots' = Slots
  BY CfgSame
<1>2. CASE RunCallback
  <2>1. callbacks # <<>> /\ Head(callbacks).slot \in Slots
    BY <1>2, SlotOfCallback DEF RunCallback
  <2>2. app' = app \/ app' = [app EXCEPT !.view[Head(callbacks).slot] = Seen(Head(callbacks).slot)]
    BY <1>2 DEF RunCallback
  <2>3. Seen(Head(callbacks).slot) \in BOOLEAN
    BY <2>1 DEF Seen, AppType
  <2> QED
    BY <1>1, <2>1, <2>2, <2>3 DEF AppType
<1>3. CASE App
  <2>0. Called1 \in AppType
    BY DEF Called1, AppType
  <2>1. CASE Connect
    BY <1>1, <2>0, <2>1 DEF Connect, AppType
  <2>2. CASE Disconnect
    <3>1. \/ app' = [Called1 EXCEPT !.pc = "abort"]
          \/ app' = [Called1 EXCEPT !.pc = "poll"]
          \/ app' = [Called1 EXCEPT !.started = FALSE, !.failed = TRUE]
      BY <2>2 DEF Disconnect
    <3> QED
      BY <1>1, <2>0, <3>1 DEF AppType
  <2>3. CASE BusSeenFree \/ Close
    BY <1>1, <2>3 DEF BusSeenFree, Close, AppType
  <2>4. CASE PollEnds
    BY <1>1, <2>4 DEF PollEnds, AppType
  <2>5. CASE Request \/ ClearRegisters
    BY <1>1, <2>0, <2>5 DEF Request, ClearRegisters
  <2> QED
    BY <1>3, <2>1, <2>2, <2>3, <2>4, <2>5 DEF App
<1>4. CASE ~RunCallback /\ ~App
  <2>1. app' = app
    <3>1. CASE Phy \/ Hardware
      BY <3>1, Zenon DEF Phy, Hardware, Apart
    <3>2. CASE Mac
      BY <3>2 DEF Mac, Outcome, Idle, Connected, ConfigComplete, NextSlot, PrepareFrame
    <3>3. CASE RadioIrq \/ DmaIrq
      BY <3>3 DEF RadioIrq, DmaIrq
    <3>4. CASE Handler
      BY <1>4, <3>4 DEF Handler, HandlerStart, ClearEvent, Dequeue, HandlerEnd
    <3>5. CASE UNCHANGED vars
      BY <3>5 DEF vars
    <3> QED
      BY <1>4, <3>1, <3>2, <3>3, <3>4, <3>5 DEF Next
  <2> QED
    BY <1>1, <2>1 DEF AppType
<1> QED
  BY <1>2, <1>3, <1>4

LEMMA NodeTypesStep ==
  ASSUME NodeTypes, Machine, [Next]_vars
  PROVE  NodeTypes' /\ Machine'
<1>1. PhyTypes /\ cfg \in Settings /\ MacTypes /\ mac \in MacType /\ QueueTypes /\ HandlerTypes /\ app \in AppType
  BY DEF NodeTypes, MacTypes
<1>2. PhyTypes' /\ Machine'
  BY <1>1, MachineStep
<1>3. MacTypes'
  BY <1>1, MacTypesStep
<1>4. Slots' = Slots /\ cfg' = cfg
  BY CfgSame
<1>5. QueueTypes'
  <2>1. CallbackType' = CallbackType /\ RequestType' = RequestType
    BY <1>4 DEF CallbackType, RequestType
  <2> QED
    BY <1>1, <1>4, <2>1, RequestsStep, CallbacksStep DEF QueueTypes
<1>6. HandlerTypes'
  BY <1>1, CallbacksStep
<1>7. app' \in AppType /\ AppType' = AppType
  BY <1>1, <1>4, AppStep DEF AppType
<1> QED
  BY <1>1, <1>2, <1>3, <1>4, <1>5, <1>6, <1>7 DEF NodeTypes

LEMMA NodeTypesInit ==
  ASSUME Init
  PROVE  NodeTypes /\ Machine
<1>1. PhyTypes /\ Machine /\ cfg \in Settings
  BY MachineInit DEF Init
<1>2. 1 \in Slots
  BY <1>1, SettingFacts
<1>3. <<TRUE>> \in Seq(BOOLEAN) \ {<<>>} /\ Len(<<TRUE>>) = 1
  OBVIOUS
<1>4. mac = [slot |-> 1, synced |-> FALSE, signal |-> "DISCONNECT",
             up |-> [s \in Slots |-> FALSE], event |-> [s \in Slots |-> "none"],
             pattern |-> [s \in Slots |-> <<TRUE>>], count |-> [s \in Slots |-> 0]]
  BY DEF Init
<1>5. mac \in MacType
  <2> DEFINE P == Seq(BOOLEAN) \ {<<>>}
             p == <<TRUE>>
  <2>1. p \in P
    BY <1>3
  <2> HIDE DEF P, p
  <2>2. [s \in Slots |-> p] \in [Slots -> P]
    BY <2>1
  <2> QED
    BY <1>2, <1>4, <2>2 DEF MacType, P, p
<1>6. CountsFit
  BY <1>3, <1>4 DEF CountsFit
<1>7. QueueTypes
  <2>1. requests = <<>> /\ callbacks = <<>> /\ rxq = [s \in Slots |-> 0]
    BY DEF Init
  <2>2. \A S : <<>> \in Seq(S) /\ Len(<<>>) = 0
    OBVIOUS
  <2> QED
    BY <2>1, <2>2, NodeAssumption DEF QueueTypes
<1>8. HandlerTypes
  BY DEF Init, Rested, HandlerTypes
<1>9. app \in AppType
  BY DEF Init, AppType
<1> QED
  BY <1>1, <1>5, <1>6, <1>7, <1>8, <1>9 DEF NodeTypes, MacTypes

-----------------------------------------------------------------------------
(* The queue of lists *)

LEMMA ShortLengths ==
  /\ Len(<<>>) = 0
  /\ \A x : Len(<<x>>) = 1
  /\ \A x, y : Len(<<x, y>>) = 2
  /\ \A x, y, z : Len(<<x, y, z>>) = 3
OBVIOUS

LEMMA AskedLength ==
  ASSUME NEW q \in Asked
  PROVE  Len(q) <= 6
<1>1. CASE q = <<>>
  BY <1>1
<1>2. CASE q = <<"transfer_register">>
  BY <1>2
<1> QED
  BY <1>1, <1>2 DEF Asked

\* The longest queue of lists is the one of a frame that waits to be sent.
LEMMA QueueLengths ==
  ASSUME NEW tx \in BOOLEAN
  PROVE  /\ \A f \in Filling(tx) : f \in Seq(Lists) /\ Len(f) <= 3
         /\ \A c \in Configuring(tx) : c \in Seq(Lists) /\ Len(c) <= 4
         /\ \A s \in Setup(tx) : /\ s \in Seq(Lists) /\ Len(s) <= 5
                                 /\ Len(<<"wait_to_send">> \o s) <= 6
<1>1. ASSUME NEW f \in Filling(tx) PROVE f \in Seq(Lists) /\ Len(f) <= 3
  <2> DEFINE w == Waiting(tx)
  <2>1. \/ f = <<w>> \/ f = <<"set_header_with_payload", w>> \/ f = <<"set_header", "set_payload", w>>
    BY DEF Filling
  <2> HIDE DEF w
  <2>2. Len(f) = 1 \/ Len(f) = 2 \/ Len(f) = 3
    <3>1. CASE f = <<w>>
      BY <3>1
    <3>2. CASE f = <<"set_header_with_payload", w>>
      BY <3>2
    <3>3. CASE f = <<"set_header", "set_payload", w>>
      BY <3>3
    <3> QED
      BY <2>1, <3>1, <3>2, <3>3
  <2>3. f \in Seq(Lists)
    BY ToFilling
  <2>4. Len(f) <= 3
    <3> DEFINE n == Len(f)
    <3>1. n = 1 \/ n = 2 \/ n = 3
      BY <2>2
    <3> HIDE DEF n
    <3>2. n <= 3
      BY <3>1
    <3> QED
      BY <3>2 DEF n
  <2> QED
    BY <2>3, <2>4
<1>2. ASSUME NEW c \in Configuring(tx) PROVE c \in Seq(Lists) /\ Len(c) <= 4
  <2>1. CASE c \in Filling(tx)
    BY <1>1, <2>1
  <2>2. ASSUME NEW f \in Filling(tx), c = <<"overwrite_register">> \o f PROVE Len(c) <= 4
    <3>1. "overwrite_register" \in Lists /\ f \in Seq(Lists) /\ Len(f) <= 3
      BY <1>1 DEF Lists
    <3> QED
      BY <2>2, <3>1, InFront
  <2> QED
    BY <1>2, <2>1, <2>2, ToConfiguring DEF Configuring
<1>3. ASSUME NEW s \in Setup(tx) PROVE s \in Seq(Lists) /\ Len(s) <= 5 /\ Len(<<"wait_to_send">> \o s) <= 6
  <2>1. s \in Seq(Lists)
    BY ToSetup
  <2>2. ASSUME NEW c \in Configuring(tx), s = <<"set_config">> \o c PROVE Len(s) <= 5
    <3>1. "set_config" \in Lists /\ c \in Seq(Lists) /\ Len(c) <= 4
      BY <1>2 DEF Lists
    <3> QED
      BY <2>2, <3>1, InFront
  <2>3. s = <<"syncing">> => Len(s) <= 5
    OBVIOUS
  <2>4. Len(s) <= 5
    BY <2>2, <2>3 DEF Setup
  <2>5. "wait_to_send" \in Lists
    BY DEF Lists
  <2>6. Len(<<"wait_to_send">> \o s) = Len(s) + 1 /\ Len(s) \in Nat
    BY <2>1, <2>5, InFront
  <2> QED
    BY <2>1, <2>4, <2>6
<1> QED
  BY <1>1, <1>2, <1>3

\* What the queue of lists holds, and the list that is current.
Lined == phy.todo # <<"stale">> /\ Len(phy.next) <= 6

LEMMA LinedPlace ==
  ASSUME NEW todo, NEW next, NEW tx \in BOOLEAN, Place(todo, next, tx)
  PROVE  todo # <<"stale">> /\ Len(next) <= 6
<1>1. /\ Processing(tx) # "stale" /\ \A f \in Readings(tx) : f # "stale"
      /\ Head(<<"stale">>) = "stale"
  BY DEF Processing, Readings
<1>2. Len(<<>>) <= 6 /\ \A x : Len(<<x>>) <= 6
  OBVIOUS
<1>3. CASE Fresh(todo, next)
  <2>1. Len(next) <= 6
    BY <1>3 DEF Fresh
  <2>2. Head(todo) # "stale"
    BY <1>3, FreshHead
  <2> QED
    BY <1>1, <2>1, <2>2
<1>4. CASE Tidy(todo, next, tx)
  <2>1. Head(todo) # "stale"
    BY <1>4, TidyHead
  <2>2. \/ next \in Setup(tx) \/ next \in Configuring(tx) \/ next = <<>>
        \/ \E s \in Setup(tx) : next = <<"wait_to_send">> \o s
    BY <1>4 DEF Tidy
  <2>3. /\ \A c \in Configuring(tx) : c \in Seq(Lists) /\ Len(c) <= 4
        /\ \A s \in Setup(tx) : s \in Seq(Lists) /\ Len(s) <= 5 /\ Len(<<"wait_to_send">> \o s) <= 6
    BY QueueLengths
  <2>4. \A q \in Seq(Lists) : Len(q) \in Nat
    OBVIOUS
  <2> QED
    BY <1>1, <1>2, <2>1, <2>2, <2>3, <2>4
<1>5. CASE Configures(todo, next, tx)
  <2>1. Head(todo) # "stale" /\ next \in Configuring(tx)
    BY <1>5 DEF Configures
  <2>2. next \in Seq(Lists) /\ Len(next) <= 4
    BY <2>1, QueueLengths
  <2>3. \A q \in Seq(Lists) : Len(q) \in Nat
    OBVIOUS
  <2> QED
    BY <1>1, <2>1, <2>2, <2>3
<1>6. CASE Fills(todo, next, tx)
  <2> DEFINE w == Waiting(tx)
  <2>1. Head(todo) # "stale"
    BY <1>6, FillsHead, Zenon
  <2>2. next \in Filling(tx) \/ next = <<"set_payload", w>> \/ next = <<w>> \/ next = <<>>
    BY <1>6, FillsHead, Zenon
  <2> HIDE DEF w
  <2>3. next \in Filling(tx) => Len(next) <= 6
    <3>1. next \in Filling(tx) => next \in Seq(Lists) /\ Len(next) <= 3
      BY QueueLengths
    <3> QED
      BY <3>1
  <2>4. next = <<"set_payload", w>> => Len(next) <= 6
    OBVIOUS
  <2>5. next = <<w>> => Len(next) <= 6
    OBVIOUS
  <2>6. next = <<>> => Len(next) <= 6
    OBVIOUS
  <2> QED
    BY <1>1, <2>1, <2>2, <2>3, <2>4, <2>5, <2>6
<1>7. CASE Listens(todo, next, tx)
  <2>1. Head(todo) # "stale" /\ next \in Asked
    BY <1>7, ListensHead DEF Asked
  <2> QED
    BY <1>1, <2>1, AskedLength
<1>8. CASE Reads(todo, next, tx)
  <2>1. Head(todo) # "stale" /\ next \in Asked
    BY <1>1, <1>8, ReadsHead
  <2> QED
    BY <1>1, <2>1, AskedLength
<1>9. CASE Receives(todo, next, tx)
  <2>1. Head(todo) # "stale"
    BY <1>1, <1>9, ReceivesHead
  <2>2. next = <<>> \/ \E list : next = <<list>>
    BY <1>9 DEF Receives
  <2>3. Len(next) <= 6
    <3>1. CASE next = <<>>
      BY <3>1
    <3>2. ASSUME NEW list, next = <<list>> PROVE Len(next) <= 6
      BY <3>2
    <3> QED
      BY <2>2, <3>1, <3>2
  <2> QED
    BY <1>1, <2>1, <2>3
<1> QED
  BY <1>3, <1>4, <1>5, <1>6, <1>7, <1>8, <1>9 DEF Place

\* A machine that is off keeps its lists.
LEMMA StoppedLists ==
  ASSUME PhyTypes, mac \in MacType, Machine, [Next]_vars, Stopped'
  PROVE  phy'.todo = phy.todo /\ phy'.next = phy.next
<1> DEFINE Same == phy'.todo = phy.todo /\ phy'.next = phy.next
<1>1. phy \in PhyType /\ mac'.signal # "ON"
  BY DEF PhyTypes, Stopped
<1>2. CASE Moves
  <2>1. mac' = mac /\ cpu' = "app"
    BY <1>2, MovesRun DEF macVars, Stopped
  <2>2. mac.signal = "ON"
    BY <1>2, MovesRun, Zenon DEF Runs
  <2> QED
    BY <1>1, <2>1, <2>2
<1>3. CASE Outcome \/ Idle \/ Connected \/ NextSlot
  BY <1>3 DEF Outcome, Idle, Connected, NextSlot
<1>4. CASE PrepareFrame
  BY <1>1, <1>4 DEF PrepareFrame, PhyType
<1>5. CASE ConfigComplete
  <2>1. cpu = "handle"
    BY <1>5 DEF ConfigComplete
  <2>2. mac.signal = "ON"
    BY <2>1, NotStopped DEF Runs
  <2>3. mac' = mac \/ phy' = phy
    BY <1>5 DEF ConfigComplete, ServeRequest
  <2> QED
    BY <1>1, <2>2, <2>3
<1>6. CASE RadioIrq \/ DmaIrq
  <2>1. phy' = phy \/ Enter("RADIO_IRQ") \/ Enter("DMA_CMPLT")
    BY <1>6 DEF RadioIrq, DmaIrq
  <2> QED
    BY <1>1, <2>1, EnterFields DEF Inputs
<1>7. CASE Connect
  BY <1>1, <1>7 DEF Connect, MacType
<1>8. CASE Close \/ ClearRegisters
  BY <1>1, <1>8 DEF Close, ClearRegisters, PhyType
<1>9. CASE Still
  BY <1>9, StillSame DEF phyVars
<1> QED
  BY <1>2, <1>3, <1>4, <1>5, <1>6, <1>7, <1>8, <1>9 DEF Next, Moves, Mac, Handler, App, Still

LEMMA LinedRuns ==
  ASSUME PhyTypes, Runs
  PROVE  Lined
<1>1. frame.tx \in BOOLEAN /\ Place(phy.todo, phy.next, frame.tx)
  BY StepTypes DEF Runs
<1> QED
  BY <1>1, LinedPlace DEF Lined

LEMMA LinedStep ==
  ASSUME NodeTypes, Machine, Stopped => Lined, [Next]_vars
  PROVE  Stopped' => Lined'
<1> SUFFICES ASSUME Stopped' PROVE Lined'
  OBVIOUS
<1>1. PhyTypes /\ mac \in MacType
  BY DEF NodeTypes, MacTypes
<1>2. Lined
  BY <1>1, LinedRuns DEF Machine
<1>3. phy'.todo = phy.todo /\ phy'.next = phy.next
  BY <1>1, StoppedLists
<1> QED
  BY <1>2, <1>3 DEF Lined

-----------------------------------------------------------------------------
(* The invariant of the node, and what it keeps *)

NodeInv == NodeTypes /\ Machine /\ (Stopped => Lined)

LEMMA NodeInvInit ==
  ASSUME Init
  PROVE  NodeInv
<1>1. phy.todo = <<"prepare_phy">> /\ phy.next = <<>>
  BY FunctionsAre DEF Init, PhyInit
<1>2. Lined
  BY <1>1 DEF Lined
<1> QED
  BY <1>2, NodeTypesInit DEF NodeInv

LEMMA NodeInvStep ==
  ASSUME NodeInv, [Next]_vars
  PROVE  NodeInv'
BY NodeTypesStep, LinedStep DEF NodeInv

LEMMA NodeInvHolds == Spec => []NodeInv
<1>1. Init => NodeInv
  BY NodeInvInit
<1>2. NodeInv /\ [Next]_vars => NodeInv'
  BY NodeInvStep
<1> QED
  BY <1>1, <1>2, PTL DEF Spec

\* Every variable of the node keeps its type, the count of each active pattern
\* stays inside the pattern, and the queues stay within their capacities.
THEOREM NodeTypeOK == Spec => []TypeOK
<1>1. NodeInv => TypeOK
  <2> SUFFICES ASSUME NodeInv PROVE TypeOK
    OBVIOUS
  <2>1. /\ PhyTypes /\ mac \in MacType /\ CountsFit /\ QueueTypes /\ HandlerTypes /\ app \in AppType
    BY DEF NodeInv, NodeTypes, MacTypes
  <2>2. /\ cpu \in {"app", "process", "prepare", "handle", "next", "frame"} /\ phy.main \in Signals
        /\ phy.input \in {"DMA_CMPLT", "RADIO_IRQ", "SYNCING", "PREPARE_RADIO"}
        /\ spi \in Transfers \cup {"idle", "cut", "clash"}
    BY <2>1 DEF PhyTypes, PhyType, Inputs
  <2>3. mac.slot \in Slots /\ mac.signal \in {"ON", "DISCONNECT"} /\ app.pc \in {"idle", "poll", "abort", "close"}
    BY <2>1 DEF MacType, AppType
  <2>4. ASSUME NEW s \in Slots
        PROVE  rxq[s] \in 0 .. RxSize /\ mac.count[s] \in 0 .. Len(mac.pattern[s]) - 1
    <3>1. rxq[s] \in 0 .. RxSize
      BY <2>1 DEF QueueTypes
    <3> DEFINE pattern == mac.pattern[s]
               count == mac.count[s]
    <3>2. pattern \in Seq(BOOLEAN) /\ count \in Nat /\ count < Len(pattern)
      BY <2>1, MacFields DEF CountsFit
    <3> HIDE DEF pattern, count
    <3>3. Len(pattern) \in Nat
      BY <3>2
    <3>4. count \in 0 .. Len(pattern) - 1
      BY <3>2, <3>3
    <3> QED
      BY <3>1, <3>4 DEF pattern, count
  <2>5. handler.pc \in {"off", "run", "clear", "ran"}
    BY <2>1 DEF HandlerTypes
  <2>6. Len(callbacks) <= CallbackSize /\ Len(requests) <= RequestSize
    BY <2>1 DEF QueueTypes
  <2> QED
    BY <2>2, <2>3, <2>4, <2>5, <2>6 DEF TypeOK
<1> QED
  BY <1>1, NodeInvHolds, PTL

\* No interrupt reaches a function of the machine that does not take it, in
\* whatever order the radio, the DMA and the processor go on: the loop of
\* phy_handle always ends.
THEOREM NodeNoPhyError == Spec => []NoPhyError
<1>1. NodeInv => NoPhyError
  <2>1. Runs => phy.main # "ERROR"
    BY DEF Runs, SignalOK, Outcomes
  <2> QED
    BY <2>1 DEF NodeInv, Machine, Stopped, NoPhyError
<1> QED
  BY <1>1, NodeInvHolds, PTL

\* A transfer on the bus of the radio, blocking or not, is started only when
\* none is in progress.
THEOREM NodeTransfersAlone == Spec => []TransfersAlone
<1>1. NodeInv => TransfersAlone
  <2>1. Runs => spi # "clash"
    BY DEF Runs, BusOK, Free, Due, Transfers
  <2> QED
    BY <2>1 DEF NodeInv, Machine, Stopped, TransfersAlone
<1> QED
  BY <1>1, NodeInvHolds, PTL

\* The unchecked queue of lists is neither read empty nor filled beyond its
\* size.  prepare_phy holds seven lists before end takes one off
\* (PHY_STATE_Q_SIZE is 10).
THEOREM NodeStateQueueSound ==
  ASSUME QueueSize >= 7
  PROVE  Spec => []StateQueueSound
<1>1. NodeInv => StateQueueSound
  <2> SUFFICES ASSUME NodeInv PROVE StateQueueSound
    OBVIOUS
  <2>1. PhyTypes /\ Machine /\ (Stopped => Lined)
    BY DEF NodeInv, NodeTypes
  <2>2. Lined
    BY <2>1, LinedRuns DEF Machine
  <2>3. Len(phy.next) \in Nat /\ QueueSize \in Nat
    BY <2>1, QueueAssumption, StepTypes
  <2> QED
    BY <2>2, <2>3 DEF Lined, StateQueueSound
<1> QED
  BY <1>1, NodeInvHolds, PTL

\* wps_mac pends the handler of the callbacks only when the bus is free: the
\* payload of a frame it announces has come in.
THEOREM NodePayloadInPlace == Spec => PayloadInPlace
<1>1. NodeInv /\ [Next]_vars => (~handler.pended /\ handler'.pended => spi # "payload_in")
  <2> SUFFICES ASSUME NodeInv, [Next]_vars, ~handler.pended, handler'.pended PROVE spi # "payload_in"
    OBVIOUS
  <2>1. PhyTypes /\ mac \in MacType /\ Machine /\ HandlerTypes
    BY DEF NodeInv, NodeTypes, MacTypes
  <2>2. handler \in [pc : {"off", "run", "clear", "ran"}, pended : BOOLEAN]
    BY <2>1 DEF HandlerTypes
  <2>3. CASE Outcome
    BY <2>3 DEF Outcome, Outcomes, HandlerAfter
  <2>4. CASE Connected
    <3>1. cpu = "handle" /\ phy.main = "CONNECT"
      BY <2>4 DEF Connected
    <3>2. Runs
      BY <2>1, <3>1, NotStopped
    <3>3. phy.todo = <<"prepare_phy">> /\ phy.next = <<>>
      BY <3>1, <3>2 DEF Runs, SignalOK, Outcomes
    <3>4. ~TakesDma(phy.todo, phy.next) /\ ~LeftOver(phy.todo, phy.next)
      BY <3>3 DEF TakesDma, LeftOver
    <3> QED
      BY <3>2, <3>4 DEF Runs, BusOK, Free
  <2>5. CASE ConfigComplete
    <3>1. cpu = "handle" /\ phy.main = "CONFIG_COMPLETE"
      BY <2>5 DEF ConfigComplete
    <3> QED
      BY <2>1, <3>1, NotStopped, Configured DEF Free
  <2>6. CASE HandlerStart \/ RunCallback \/ ClearEvent \/ Dequeue \/ HandlerEnd
    BY <2>2, <2>6 DEF HandlerStart, RunCallback, ClearEvent, Dequeue, HandlerEnd
  <2>7. CASE UNCHANGED handler
    BY <2>7
  <2>8. CASE Phy \/ Hardware \/ Idle \/ NextSlot \/ PrepareFrame \/ RadioIrq \/ DmaIrq
    BY <2>7, <2>8 DEF Phy, Hardware, Apart, Idle, NextSlot, PrepareFrame, RadioIrq, DmaIrq
  <2>9. CASE App
    BY <2>7, <2>9 DEF App, Connect, Disconnect, BusSeenFree, Close, PollEnds, Request, ClearRegisters
  <2>10. CASE UNCHANGED vars
    BY <2>7, <2>10 DEF vars
  <2> QED
    BY <2>3, <2>4, <2>5, <2>6, <2>8, <2>9, <2>10 DEF Next, Mac, Handler
<1> QED
  BY <1>1, NodeInvHolds, PTL DEF Spec, PayloadInPlace

-----------------------------------------------------------------------------
(* The requests to disconnect *)

Asks(q) == {i \in DOMAIN q : q[i].kind = "disconnect"}

\* Unless a disconnection failed, one at most is asked for, while the
\* application waits for it, and none is left once the core is off.
AskedOnce ==
  ~app.failed =>
    /\ app.pc = "idle" => (app.started <=> mac.signal # "DISCONNECT")
    /\ app.pc # "poll" => Asks(requests) = {}
    /\ \A i, j \in Asks(requests) : i = j
    /\ mac.signal = "DISCONNECT" => Asks(requests) = {}

LEMMA AsksAppend ==
  ASSUME NEW S, NEW q \in Seq(S), NEW r
  PROVE  /\ r.kind # "disconnect" => Asks(Append(q, r)) = Asks(q)
         /\ Asks(q) = {} => Asks(Append(q, r)) \subseteq {Len(q) + 1}
<1>1. /\ DOMAIN q = 1 .. Len(q) /\ DOMAIN Append(q, r) = 1 .. Len(q) + 1 /\ Len(q) \in Nat
      /\ Append(q, r)[Len(q) + 1] = r /\ \A i \in 1 .. Len(q) : Append(q, r)[i] = q[i]
  OBVIOUS
<1> DEFINE a == Append(q, r)
           n == Len(q)
<1> HIDE DEF a, n
<1>2. /\ DOMAIN q = 1 .. n /\ DOMAIN a = 1 .. n + 1 /\ n \in Nat
      /\ a[n + 1] = r /\ \A i \in 1 .. n : a[i] = q[i]
  BY <1>1 DEF a, n
<1>3. \A i \in DOMAIN a : i \in DOMAIN q \/ i = n + 1
  BY <1>2
<1>4. n + 1 \in DOMAIN a /\ DOMAIN q \subseteq DOMAIN a
  BY <1>2
<1>5. \A i \in DOMAIN q : a[i] = q[i]
  BY <1>2
<1>6. r.kind # "disconnect" => Asks(a) = Asks(q)
  BY <1>2, <1>3, <1>4, <1>5 DEF Asks
<1>7. Asks(q) = {} => Asks(a) \subseteq {n + 1}
  BY <1>2, <1>3, <1>5 DEF Asks
<1> QED
  BY <1>6, <1>7 DEF a, n

LEMMA AsksTail ==
  ASSUME NEW S, NEW q \in Seq(S), q # <<>>
  PROVE  /\ \A i \in Asks(Tail(q)) : i + 1 \in Asks(q) /\ i \in Nat \ {0}
         /\ Head(q).kind = "disconnect" => 1 \in Asks(q)
<1> DEFINE t == Tail(q)
<1>1. /\ DOMAIN q = 1 .. Len(q) /\ DOMAIN t = 1 .. Len(q) - 1 /\ Len(q) \in Nat \ {0}
      /\ Head(q) = q[1] /\ \A i \in 1 .. Len(q) - 1 : t[i] = q[i + 1]
  OBVIOUS
<1> HIDE DEF t
<1>2. ASSUME NEW i \in Asks(t) PROVE i + 1 \in Asks(q) /\ i \in Nat \ {0}
  <2>1. i \in 1 .. Len(q) - 1 /\ t[i].kind = "disconnect"
    BY <1>1 DEF Asks
  <2>2. i + 1 \in DOMAIN q /\ q[i + 1].kind = "disconnect"
    BY <1>1, <2>1
  <2> QED
    BY <2>1, <2>2 DEF Asks
<1>3. Head(q).kind = "disconnect" => 1 \in Asks(q)
  BY <1>1 DEF Asks
<1> QED
  BY <1>2, <1>3 DEF t

\* What is left of the requests when the first is served.
LEMMA AsksServed ==
  ASSUME QueueTypes, requests # <<>>, \A i, j \in Asks(requests) : i = j
  PROVE  /\ \A i, j \in Asks(Tail(requests)) : i = j
         /\ Asks(requests) = {} => Asks(Tail(requests)) = {} /\ Head(requests).kind # "disconnect"
         /\ Head(requests).kind = "disconnect" => Asks(Tail(requests)) = {}
<1>1. /\ \A i \in Asks(Tail(requests)) : i + 1 \in Asks(requests) /\ i \in Nat \ {0}
      /\ Head(requests).kind = "disconnect" => 1 \in Asks(requests)
  BY AsksTail DEF QueueTypes
<1> QED
  BY <1>1

LEMMA RequestKinds ==
  ASSUME Request
  PROVE  \E r : r.kind # "disconnect" /\ requests' = Append(requests, r)
<1>1. ASSUME NEW kind \in cfg.calls \cap {"read", "write", "periodic"},
             requests' = Append(requests, [kind |-> kind])
      PROVE  \E r : r.kind # "disconnect" /\ requests' = Append(requests, r)
  <2>1. [kind |-> kind].kind # "disconnect"
    OBVIOUS
  <2> QED
    BY <1>1, <2>1
<1>2. ASSUME NEW r \in cfg.ratios,
             requests' = Append(requests, [kind |-> "ratio", slot |-> r[1], ratio |-> r[2]])
      PROVE  \E q : q.kind # "disconnect" /\ requests' = Append(requests, q)
  <2>1. [kind |-> "ratio", slot |-> r[1], ratio |-> r[2]].kind # "disconnect"
    OBVIOUS
  <2> QED
    BY <1>2, <2>1
<1>3. \/ \E kind \in cfg.calls \cap {"read", "write", "periodic"} :
           requests' = Append(requests, [kind |-> kind])
      \/ \E r \in cfg.ratios :
           requests' = Append(requests, [kind |-> "ratio", slot |-> r[1], ratio |-> r[2]])
  BY Zenon DEF Request
<1> QED
  BY <1>1, <1>2, <1>3

LEMMA AskedOnceStep ==
  ASSUME NodeInv, AskedOnce, [Next]_vars
  PROVE  AskedOnce'
<1>1. /\ PhyTypes /\ mac \in MacType /\ Machine /\ QueueTypes /\ app \in AppType
      /\ requests \in Seq(RequestType)
  BY DEF NodeInv, NodeTypes, MacTypes, QueueTypes
<1>2. CASE UNCHANGED <<requests, app>> /\ mac'.signal = mac.signal
  BY <1>2 DEF AskedOnce
<1>3. CASE Moves
  BY <1>1, <1>2, <1>3, MovesRun DEF macVars
<1>4. CASE Outcome
  <2>1. mac'.signal = mac.signal
    <3>1. PICK synced \in BOOLEAN, up \in BOOLEAN :
            mac' = [mac EXCEPT !.synced = synced, !.up[mac.slot] = up,
                               !.event[mac.slot] = EventAfter(mac.slot, up)]
      BY <1>1, <1>4, OutcomeFields DEF NodeInv, NodeTypes
    <3> QED
      BY <1>1, <3>1 DEF MacType
  <2> QED
    BY <1>2, <1>4, <2>1 DEF Outcome
<1>5. CASE Idle \/ Connected \/ PrepareFrame \/ RadioIrq
  BY <1>2, <1>5 DEF Idle, Connected, PrepareFrame, RadioIrq, macVars
<1>6. CASE NextSlot
  BY <1>1, <1>2, <1>6 DEF NextSlot, MacType
<1>7. CASE ConfigComplete
  <2>1. app' = app
    BY <1>7 DEF ConfigComplete
  <2>2. mac.signal = "ON"
    <3>1. cpu = "handle"
      BY <1>7 DEF ConfigComplete
    <3> QED
      BY <1>1, <3>1, NotStopped DEF Runs
  <2>3. CASE requests = <<>>
    BY <1>2, <1>7, <2>1, <2>3 DEF ConfigComplete
  <2>4. CASE requests # <<>>
    <3>1. ServeRequest /\ requests' = Tail(requests)
      BY <1>7, <2>4 DEF ConfigComplete, ServeRequest, Served
    <3>2. Head(requests).kind # "disconnect" => mac'.signal = mac.signal
      BY <1>1, <3>1 DEF ServeRequest, MacType
    <3>3. Head(requests).kind = "disconnect" => mac'.signal = "DISCONNECT"
      BY <1>1, <3>1 DEF ServeRequest, MacType
    <3>4. ~app.failed =>
            /\ \A i, j \in Asks(Tail(requests)) : i = j
            /\ Asks(requests) = {} => Asks(Tail(requests)) = {} /\ Head(requests).kind # "disconnect"
            /\ Head(requests).kind = "disconnect" => Asks(Tail(requests)) = {}
      BY <1>1, <2>4, AsksServed DEF AskedOnce
    <3> QED
      BY <2>1, <2>2, <3>1, <3>2, <3>3, <3>4 DEF AskedOnce
  <2> QED
    BY <2>3, <2>4
<1>8. CASE DmaIrq
  <2>1. mac.signal = "ON"
    BY <1>1, <1>8 DEF DmaIrq, Machine, Stopped, Runs, Pending, Disabled
  <2>2. mac'.signal = "ON"
    BY <1>1, <1>8 DEF DmaIrq, MacType
  <2> QED
    BY <1>2, <1>8, <2>1, <2>2 DEF DmaIrq
<1>9. CASE Handler
  <2>1. mac'.signal = mac.signal /\ requests' = requests
    <3>1. mac'.signal = mac.signal
      BY <1>1, <1>9, StillSame DEF Handler, Still
    <3> QED
      BY <1>9, <3>1 DEF Handler, HandlerStart, RunCallback, ClearEvent, Dequeue, HandlerEnd, macVars
  <2>2. app'.pc = app.pc /\ app'.started = app.started /\ app'.failed = app.failed
    <3>1. \/ app' = app
          \/ \E s, seen : app' = [app EXCEPT !.view[s] = seen]
      BY <1>9 DEF Handler, HandlerStart, RunCallback, ClearEvent, Dequeue, HandlerEnd
    <3> QED
      BY <1>1, <3>1 DEF AppType
  <2> QED
    BY <2>1, <2>2 DEF AskedOnce
<1>10. CASE Connect
  <2>1. app.pc = "idle" /\ requests' = requests
    BY <1>10 DEF Connect, Calling
  <2>2. mac'.signal = "ON"
    BY <1>1, <1>10 DEF Connect, MacType
  <2>3. app'.pc = "idle" /\ app'.started = TRUE /\ app'.failed = app.failed
    BY <1>1, <1>10, <2>1 DEF Connect, Called1, AppType
  <2> QED
    BY <2>1, <2>2, <2>3 DEF AskedOnce
<1>11. CASE Disconnect
  <2>1. app.pc = "idle" /\ mac' = mac /\ mac.signal # "DISCONNECT"
    BY <1>11 DEF Disconnect, Calling
  <2>2. CASE app' = [Called1 EXCEPT !.pc = "abort"] /\ requests' = requests
    <3>1. app'.pc = "abort" /\ app'.failed = app.failed
      BY <1>1, <2>2 DEF Called1, AppType
    <3> QED
      BY <2>1, <2>2, <3>1 DEF AskedOnce
  <2>3. CASE app' = [Called1 EXCEPT !.pc = "poll"] /\ requests' = Append(requests, [kind |-> "disconnect"])
    <3>1. app'.pc = "poll" /\ app'.failed = app.failed
      BY <1>1, <2>3 DEF Called1, AppType
    <3>2. Asks(requests) = {} => Asks(requests') \subseteq {Len(requests) + 1}
      BY <1>1, <2>3, AsksAppend
    <3> QED
      BY <2>1, <3>1, <3>2 DEF AskedOnce
  <2>4. CASE app' = [Called1 EXCEPT !.started = FALSE, !.failed = TRUE]
    BY <1>1, <2>4 DEF Called1, AppType, AskedOnce
  <2> QED
    BY <1>11, <2>2, <2>3, <2>4 DEF Disconnect
<1>12. CASE BusSeenFree
  BY <1>1, <1>12 DEF BusSeenFree, macVars, AppType, AskedOnce
<1>13. CASE Close
  <2>1. app.pc = "close" /\ requests' = requests
    BY <1>13 DEF Close
  <2>2. mac'.signal = "DISCONNECT"
    BY <1>1, <1>13 DEF Close, MacType
  <2>3. app'.pc = "idle" /\ app'.started = FALSE /\ app'.failed = app.failed
    BY <1>1, <1>13 DEF Close, AppType
  <2> QED
    BY <2>1, <2>2, <2>3 DEF AskedOnce
<1>14. CASE PollEnds
  <2>1. mac' = mac /\ requests' = requests
    BY <1>14 DEF PollEnds, macVars
  <2>2. \/ /\ mac.signal = "DISCONNECT"
           /\ app'.pc = "idle" /\ app'.started = FALSE /\ app'.failed = app.failed
        \/ app'.failed
    BY <1>1, <1>14 DEF PollEnds, AppType
  <2> QED
    BY <2>1, <2>2 DEF AskedOnce
<1>15. CASE Request
  <2>1. mac' = mac /\ app.pc = "idle" /\ app' = Called1
    BY <1>15 DEF Request, Calling
  <2>2. app'.pc = "idle" /\ app'.started = app.started /\ app'.failed = app.failed
    BY <1>1, <2>1 DEF Called1, AppType
  <2>3. \E r : r.kind # "disconnect" /\ requests' = Append(requests, r)
    BY <1>15, RequestKinds
  <2>4. Asks(requests') = Asks(requests)
    BY <1>1, <2>3, AsksAppend
  <2> QED
    BY <2>1, <2>2, <2>4 DEF AskedOnce
<1>16. CASE ClearRegisters
  <2>1. app'.pc = app.pc /\ app'.started = app.started /\ app'.failed = app.failed
    BY <1>1, <1>16 DEF ClearRegisters, Called1, AppType
  <2> QED
    BY <1>16, <2>1 DEF ClearRegisters, macVars, AskedOnce
<1>17. CASE UNCHANGED vars
  BY <1>2, <1>17 DEF vars, macVars
<1> QED
  BY <1>3, <1>4, <1>5, <1>6, <1>7, <1>8, <1>9, <1>10, <1>11, <1>12, <1>13, <1>14, <1>15, <1>16, <1>17
     DEF Next, Moves, Mac, App

\* Unless a disconnection failed, the core is started for the application
\* exactly when it is for the MAC layer: swc_disconnect waits for its request
\* to be served, and no request is left to stop the core after it connects.
THEOREM NodeStartedMeansRunning == Spec => []StartedMeansRunning
<1>1. Init => AskedOnce
  <2> SUFFICES ASSUME Init PROVE AskedOnce
    OBVIOUS
  <2>1. ~app.started /\ app.pc = "idle" /\ mac.signal = "DISCONNECT" /\ requests = <<>>
    BY DEF Init
  <2>2. Asks(requests) = {}
    BY <2>1 DEF Asks
  <2> QED
    BY <2>1, <2>2 DEF AskedOnce
<1>2. NodeInv /\ AskedOnce /\ [Next]_vars => AskedOnce'
  BY AskedOnceStep
<1>3. AskedOnce => StartedMeansRunning
  BY DEF AskedOnce, StartedMeansRunning
<1> QED
  BY <1>1, <1>2, <1>3, NodeInvHolds, PTL DEF Spec

-----------------------------------------------------------------------------
(* The events of the connections *)

\* What wps_get_event promises an application that reads without being
\* interrupted and does not disconnect, while no callback is lost.
Hears == cfg.atomic /\ "disconnect" \notin cfg.calls /\ ~dropped

\* Callback i is to tell the application the event of slot s.
Tells(i, s) ==
  /\ i \in DOMAIN callbacks
  /\ callbacks[i].kind = "event" /\ callbacks[i].slot = s
  /\ handler.pc = "ran" => i > 1

\* The application knows the status of slot s, or an event names it and a
\* callback is still to tell.
Told(s) ==
  IF mac.event[s] = "none" THEN app.view[s] = mac.up[s]
  ELSE /\ mac.event[s] = (IF mac.up[s] THEN "connect" ELSE "disconnect")
       /\ \E i \in Nat : Tells(i, s)

EventsTold ==
  Hears => /\ Asks(requests) = {}
           /\ handler.pc # "clear"
           /\ \A s \in Slots : Told(s)

\* What leaves the callbacks, the handler and the status alone.
LEMMA ToldSame ==
  ASSUME cfg' = cfg, callbacks' = callbacks, handler'.pc = "ran" => handler.pc = "ran", app'.view = app.view,
         mac'.up = mac.up, mac'.event = mac.event
  PROVE  \A s : Told(s) => Told(s)'
BY DEF Told, Tells

\* The requests and what is dropped: only the application asks to disconnect.
LEMMA HearsStep ==
  ASSUME NodeInv, [Next]_vars, Hears'
  PROVE  Hears
<1>1. cfg' = cfg
  BY CfgSame
<1>2. dropped => dropped'
  <2>1. CASE Outcome
    <3>1. PICK n : dropped' = (dropped \/ n)
      <4>1. mac \in MacType /\ cfg \in Settings /\ QueueTypes
        BY DEF NodeInv, NodeTypes, MacTypes
      <4>2. PICK up \in BOOLEAN, last \in Lasts(mac.slot) :
              dropped' = (dropped \/ Len(callbacks) + Len(Changed(mac.slot, up) \o last) > CallbackSize)
        BY <2>1, <4>1, OutcomeFields
      <4> QED
        BY <4>2
    <3> QED
      BY <3>1
  <2>2. CASE Mac /\ ~Outcome
    BY <2>2 DEF Mac, Idle, Connected, ConfigComplete, NextSlot, PrepareFrame, macVars
  <2>3. CASE Phy \/ Hardware \/ RadioIrq \/ DmaIrq
    BY <2>3 DEF Phy, Hardware, Apart, RadioIrq, DmaIrq, macVars
  <2>4. CASE Handler
    BY <2>4 DEF Handler, HandlerStart, RunCallback, ClearEvent, Dequeue, HandlerEnd, macVars
  <2>5. CASE App
    BY <2>5 DEF App, Connect, Disconnect, BusSeenFree, Close, PollEnds, Request, ClearRegisters, macVars
  <2>6. CASE UNCHANGED vars
    BY <2>6 DEF vars, macVars
  <2> QED
    BY <2>1, <2>2, <2>3, <2>4, <2>5, <2>6 DEF Next
<1> QED
  BY <1>1, <1>2 DEF Hears

LEMMA NoneAsked ==
  ASSUME NodeInv, Asks(requests) = {}, "disconnect" \notin cfg.calls, [Next]_vars
  PROVE  Asks(requests') = {}
<1>1. requests \in Seq(RequestType) /\ QueueTypes
  BY DEF NodeInv, NodeTypes, QueueTypes
<1>2. CASE ConfigComplete
  <2>1. requests' = requests \/ (requests # <<>> /\ requests' = Tail(requests))
    BY <1>2 DEF ConfigComplete, ServeRequest, Served
  <2>2. requests # <<>> => Asks(Tail(requests)) = {}
    BY <1>1, AsksServed
  <2> QED
    BY <2>1, <2>2
<1>3. CASE Request
  <2>1. \E r : r.kind # "disconnect" /\ requests' = Append(requests, r)
    BY <1>3, RequestKinds
  <2> QED
    BY <1>1, <2>1, AsksAppend
<1>4. CASE UNCHANGED requests
  BY <1>4, Zenon
<1>5. CASE Mac /\ ~ConfigComplete
  BY <1>4, <1>5 DEF Mac, Outcome, Idle, Connected, NextSlot, PrepareFrame, macVars
<1>6. CASE Phy \/ Hardware \/ RadioIrq \/ DmaIrq
  BY <1>4, <1>6 DEF Phy, Hardware, Apart, RadioIrq, DmaIrq, macVars
<1>7. CASE Handler
  BY <1>4, <1>7 DEF Handler, HandlerStart, RunCallback, ClearEvent, Dequeue, HandlerEnd, macVars
<1>8. CASE App /\ ~Request
  BY <1>4, <1>8 DEF App, Connect, Disconnect, BusSeenFree, Close, PollEnds, ClearRegisters, macVars
<1>9. CASE UNCHANGED vars
  BY <1>4, <1>9 DEF vars, macVars
<1> QED
  BY <1>2, <1>3, <1>5, <1>6, <1>7, <1>8, <1>9 DEF Next

\* The status of a slot changes with its event, and its callback is queued.
LEMMA ToldOutcome ==
  ASSUME NodeInv, EventsTold, Hears, Outcome, Hears', NEW t \in Slots
  PROVE  Told(t)'
<1> DEFINE s == mac.slot
<1>1. /\ mac \in MacType /\ cfg \in Settings /\ QueueTypes /\ HandlerTypes /\ s \in Slots
  BY MacFields DEF NodeInv, NodeTypes, MacTypes
<1>2. PICK synced \in BOOLEAN, up \in BOOLEAN, last \in Lasts(s) :
        LET more == Changed(s, up) \o last
        IN /\ mac' = [mac EXCEPT !.synced = synced, !.up[s] = up, !.event[s] = EventAfter(s, up)]
           /\ callbacks' = CallbacksAfter(more)
           /\ dropped' = (dropped \/ Len(callbacks) + Len(more) > CallbackSize)
  BY <1>1, OutcomeFields
<1> DEFINE more == Changed(s, up) \o last
<1>3. more \in Seq(CallbackType)
  BY <1>1, MoreType
<1>4. Len(callbacks) + Len(more) <= CallbackSize
  <2>1. Len(callbacks) \in Nat /\ Len(more) \in Nat /\ CallbackSize \in Nat
    BY <1>1, <1>3, NodeAssumption DEF QueueTypes
  <2>2. ~dropped'
    BY DEF Hears
  <2>3. dropped' = (dropped \/ Len(callbacks) + Len(more) > CallbackSize)
    BY <1>2
  <2> HIDE DEF more
  <2>4. ~(Len(callbacks) + Len(more) > CallbackSize)
    BY <2>2, <2>3
  <2> QED
    BY <2>1, <2>4
<1>5. callbacks' = callbacks \o more
  BY <1>1, <1>2, <1>3, <1>4, CallbacksAfterFields
<1>6. app' = app /\ handler'.pc = handler.pc
  BY <1>1 DEF Outcome, HandlerAfter, HandlerTypes
<1>7. /\ mac'.up = [mac.up EXCEPT ![s] = up] /\ mac'.event = [mac.event EXCEPT ![s] = EventAfter(s, up)]
      /\ mac.up \in [Slots -> BOOLEAN] /\ mac.event \in [Slots -> {"none", "connect", "disconnect"}]
  BY <1>1, <1>2 DEF MacType
<1>8. Told(t)
  BY DEF EventsTold
<1>9. \A i \in Nat : Tells(i, t) => Tells(i, t)'
  <2>1. \A i \in DOMAIN callbacks : i \in DOMAIN callbacks' /\ callbacks'[i] = callbacks[i]
    <3> DEFINE S == CallbackType
               q == callbacks
    <3>1. q \in Seq(S) /\ more \in Seq(S)
      BY <1>1, <1>3 DEF QueueTypes
    <3> HIDE DEF S, q, more
    <3>2. \A i \in DOMAIN q : i \in DOMAIN (q \o more) /\ (q \o more)[i] = q[i]
      BY <3>1
    <3> QED
      BY <1>5, <3>2 DEF q
  <2> QED
    BY <1>6, <2>1 DEF Tells
<1> HIDE DEF more
<1>10. CASE t # s \/ up = mac.up[s]
  <2>1. mac'.up[t] = mac.up[t] /\ mac'.event[t] = mac.event[t]
    BY <1>1, <1>7, <1>10 DEF EventAfter
  <2> QED
    BY <1>6, <1>8, <1>9, <2>1 DEF Told
<1>11. CASE t = s /\ up # mac.up[s]
  <2>1. mac'.up[t] = up /\ mac'.event[t] = IF up THEN "connect" ELSE "disconnect"
    BY <1>1, <1>7, <1>11 DEF EventAfter
  <2> DEFINE c == [kind |-> "event", slot |-> s]
             i == Len(callbacks) + 1
  <2>2. more = <<c>> \o last
    BY <1>11 DEF more, Changed
  <2>3. last \in Seq(CallbackType) /\ c \in CallbackType
    <3>1. \A k \in {"event", "tx", "rx"} : [kind |-> k, slot |-> s] \in CallbackType
      BY <1>1 DEF CallbackType
    <3>2. \A x \in CallbackType : <<x>> \in Seq(CallbackType)
      OBVIOUS
    <3>3. <<>> \in Seq(CallbackType)
      OBVIOUS
    <3>4. last \in Seq(CallbackType)
      BY <3>1, <3>2, <3>3 DEF Lasts
    <3>5. c \in CallbackType
      BY <3>1
    <3> QED
      BY <3>4, <3>5
  <2>4. c.kind = "event" /\ c.slot = s
    OBVIOUS
  <2> HIDE DEF c
  <2>5. i \in DOMAIN callbacks' /\ callbacks'[i] = c /\ i \in Nat /\ i > Len(callbacks) /\ Len(callbacks) \in Nat
    <3> DEFINE S == CallbackType
               q == callbacks
               m == <<c>> \o last
    <3>1. q \in Seq(S) /\ c \in S /\ last \in Seq(S)
      BY <1>1, <2>3 DEF QueueTypes
    <3> HIDE DEF S, q
    <3>2. m \in Seq(S) /\ m[1] = c /\ Len(m) = 1 + Len(last) /\ Len(last) \in Nat
      BY <3>1
    <3> HIDE DEF m
    <3>3. /\ Len(q) + 1 \in DOMAIN (q \o m) /\ (q \o m)[Len(q) + 1] = m[1]
          /\ Len(q) \in Nat
      BY <3>1, <3>2
    <3> QED
      BY <1>5, <2>2, <3>2, <3>3 DEF q, m
  <2>6. handler.pc = "ran" => i > 1
    <3>1. handler.pc = "ran" => callbacks # <<>>
      BY <1>1 DEF HandlerTypes
    <3>2. callbacks # <<>> => Len(callbacks) > 0
      BY <1>1 DEF QueueTypes
    <3> QED
      BY <2>5, <3>1, <3>2
  <2>7. PICK j \in Nat : j \in DOMAIN callbacks' /\ callbacks'[j] = c /\ (handler.pc = "ran" => j > 1)
    BY <2>5, <2>6
  <2>8. Tells(j, t)'
    BY <1>6, <1>11, <2>4, <2>7 DEF Tells
  <2> QED
    BY <2>1, <2>8 DEF Told
<1> QED
  BY <1>10, <1>11

\* The application reads the event of the first callback.
LEMMA ToldRead ==
  ASSUME NodeInv, EventsTold, Hears, RunCallback, NEW t \in Slots
  PROVE  Told(t)' /\ handler'.pc = "ran"
<1> DEFINE s == Head(callbacks).slot
           kind == Head(callbacks).kind
<1>1. /\ mac \in MacType /\ QueueTypes /\ HandlerTypes /\ app \in AppType
  BY DEF NodeInv, NodeTypes, MacTypes
<1>2. callbacks # <<>> /\ callbacks' = callbacks /\ handler.pc = "run" /\ cfg.atomic
  BY DEF RunCallback, Hears
<1>3. s \in Slots /\ Head(callbacks) = callbacks[1]
  BY <1>1, <1>2, SlotOfCallback
<1>4. handler'.pc = "ran"
  BY <1>1, <1>2 DEF RunCallback, HandlerTypes
<1>5. Told(t)
  BY DEF EventsTold
<1>6. \A i \in Nat : Tells(i, t) /\ ~(kind = "event" /\ s = t) => Tells(i, t)'
  <2> SUFFICES ASSUME NEW i \in Nat, Tells(i, t), ~(kind = "event" /\ s = t) PROVE Tells(i, t)'
    OBVIOUS
  <2>1. i # 1
    BY <1>3 DEF Tells
  <2>2. i > 1
    <3>1. i \in 1 .. Len(callbacks) /\ Len(callbacks) \in Nat
      BY <1>1 DEF Tells, QueueTypes
    <3> QED
      BY <2>1, <3>1
  <2> QED
    BY <1>2, <2>2 DEF Tells
<1>7. CASE kind = "event"
  <2>1. /\ app' = [app EXCEPT !.view[s] = Seen(s)] /\ mac' = [mac EXCEPT !.event[s] = "none"]
    BY <1>2, <1>7 DEF RunCallback
  <2>2. /\ app'.view = [app.view EXCEPT ![s] = Seen(s)] /\ mac'.event = [mac.event EXCEPT ![s] = "none"]
        /\ mac'.up = mac.up /\ app.view \in [Slots -> BOOLEAN] /\ mac.up \in [Slots -> BOOLEAN]
        /\ mac.event \in [Slots -> {"none", "connect", "disconnect"}]
    BY <1>1, <2>1 DEF AppType, MacType
  <2> HIDE DEF s, kind
  <2>3. CASE t = s
    <3>1. Seen(s) = mac.up[s]
      BY <1>3, <1>5, <2>2, <2>3 DEF Seen, Told
    <3>2. mac'.event[t] = "none" /\ app'.view[t] = Seen(s) /\ mac'.up[t] = mac.up[s]
      BY <1>3, <2>2, <2>3
    <3> QED
      BY <1>4, <3>1, <3>2 DEF Told
  <2>4. CASE t # s
    <3>1. mac'.event[t] = mac.event[t] /\ app'.view[t] = app.view[t] /\ mac'.up[t] = mac.up[t]
      BY <2>2, <2>4
    <3> QED
      BY <1>4, <1>5, <1>6, <2>4, <3>1 DEF Told
  <2> QED
    BY <2>3, <2>4
<1>8. CASE kind # "event"
  <2>1. mac' = mac /\ app' = app
    BY <1>8 DEF RunCallback
  <2> QED
    BY <1>4, <1>5, <1>6, <1>8, <2>1 DEF Told
<1> QED
  BY <1>4, <1>7, <1>8

LEMMA ToldDequeue ==
  ASSUME NodeInv, EventsTold, Hears, Dequeue, NEW t \in Slots
  PROVE  Told(t)' /\ handler'.pc = "run"
<1>1. /\ QueueTypes /\ HandlerTypes
  BY DEF NodeInv, NodeTypes
<1>2. /\ handler.pc = "ran" /\ callbacks # <<>> /\ callbacks' = Tail(callbacks) /\ handler'.pc = "run"
      /\ mac' = mac /\ app' = app
  BY <1>1 DEF Dequeue, HandlerTypes
<1>3. Told(t)
  BY DEF EventsTold
<1>4. ASSUME NEW i \in Nat, Tells(i, t) PROVE i - 1 \in Nat /\ Tells(i - 1, t)'
  <2> DEFINE S == CallbackType
             q == callbacks
  <2>1. q \in Seq(S) /\ q # <<>> /\ i \in DOMAIN q /\ i > 1
    BY <1>1, <1>2, <1>4 DEF Tells, QueueTypes
  <2> HIDE DEF S, q
  <2>2. i - 1 \in DOMAIN Tail(q) /\ Tail(q)[i - 1] = q[i] /\ i - 1 \in Nat
    BY <2>1
  <2> QED
    BY <1>2, <1>4, <2>2 DEF Tells, q
<1> QED
  BY <1>2, <1>3, <1>4 DEF Told

LEMMA ToldStep ==
  ASSUME NodeInv, EventsTold, [Next]_vars
  PROVE  EventsTold'
<1> SUFFICES ASSUME Hears' PROVE Asks(requests') = {} /\ handler'.pc # "clear" /\ \A t \in Slots : Told(t)'
  BY CfgSame DEF EventsTold
<1>1. Hears /\ Asks(requests) = {} /\ handler.pc # "clear" /\ \A t \in Slots : Told(t)
  BY HearsStep DEF EventsTold
<1>2. Asks(requests') = {} /\ cfg' = cfg
  BY <1>1, NoneAsked, CfgSame DEF Hears
<1>3. /\ PhyTypes /\ mac \in MacType /\ Machine /\ QueueTypes /\ HandlerTypes /\ app \in AppType
  BY DEF NodeInv, NodeTypes, MacTypes
<1> DEFINE Same == /\ callbacks' = callbacks /\ handler'.pc = handler.pc /\ app'.view = app.view
                   /\ mac'.up = mac.up /\ mac'.event = mac.event
<1>4. CASE Same
  BY <1>1, <1>2, <1>4, ToldSame
<1>5. CASE Outcome
  <2>1. handler'.pc = handler.pc
    BY <1>3, <1>5 DEF Outcome, HandlerAfter, HandlerTypes
  <2> QED
    BY <1>1, <1>2, <1>5, <2>1, ToldOutcome
<1>6. CASE RunCallback
  <2>1. \A t \in Slots : Told(t)' /\ handler'.pc = "ran"
    BY <1>1, <1>6, ToldRead
  <2>2. handler'.pc # "clear"
    BY <1>1, <1>3, <1>6 DEF RunCallback, Hears, HandlerTypes
  <2> QED
    BY <1>2, <2>1, <2>2
<1>7. CASE Dequeue
  <2>1. handler'.pc = "run"
    BY <1>3, <1>7 DEF Dequeue, HandlerTypes
  <2> QED
    BY <1>1, <1>2, <1>7, <2>1, ToldDequeue
<1>8. CASE HandlerStart \/ HandlerEnd
  <2>1. /\ handler'.pc \in {"run", "off"} /\ callbacks' = callbacks /\ mac' = mac /\ app' = app
    BY <1>3, <1>8 DEF HandlerStart, HandlerEnd, macVars, HandlerTypes
  <2> QED
    BY <1>1, <1>2, <2>1, ToldSame
<1>9. CASE ClearEvent
  BY <1>1, <1>9 DEF ClearEvent
<1>10. CASE Moves
  BY <1>3, <1>4, <1>10, MovesRun DEF macVars
<1>11. CASE Idle \/ PrepareFrame \/ RadioIrq
  BY <1>4, <1>11 DEF Idle, PrepareFrame, RadioIrq, macVars
<1>12. CASE Connected
  BY <1>3, <1>4, <1>12 DEF Connected, macVars, HandlerAfter, HandlerTypes
<1>13. CASE NextSlot \/ DmaIrq
  BY <1>3, <1>4, <1>13 DEF NextSlot, DmaIrq, MacType
<1>14. CASE ConfigComplete
  <2>1. mac'.up = mac.up /\ mac'.event = mac.event
    <3>1. requests # <<>> => Head(requests).kind # "disconnect"
      BY <1>1, <1>3, AsksServed
    <3>2. CASE mac' = mac
      BY <3>2
    <3>3. CASE mac' # mac
      <4>1. mac' = [mac EXCEPT !.pattern[Head(requests).slot] = ActivePattern(Head(requests).ratio),
                               !.count[Head(requests).slot] = 0]
        BY <1>14, <3>1, <3>3 DEF ConfigComplete, ServeRequest
      <4> QED
        BY <1>3, <4>1 DEF MacType
    <3> QED
      BY <3>2, <3>3
  <2> QED
    BY <1>3, <1>4, <1>14, <2>1 DEF ConfigComplete, HandlerAfter, HandlerTypes
<1>15. CASE App
  <2>1. callbacks' = callbacks /\ handler' = handler
    BY <1>15 DEF App, Connect, Disconnect, BusSeenFree, Close, PollEnds, Request, ClearRegisters, macVars
  <2>2. mac'.up = mac.up /\ mac'.event = mac.event
    <3>1. CASE Connect \/ Close
      BY <1>3, <3>1 DEF Connect, Close, MacType
    <3>2. CASE mac' = mac
      BY <3>2
    <3>3. CASE Disconnect \/ BusSeenFree \/ PollEnds \/ Request \/ ClearRegisters
      BY <3>2, <3>3 DEF Disconnect, BusSeenFree, PollEnds, Request, ClearRegisters, macVars
    <3> QED
      BY <1>15, <3>1, <3>3 DEF App
  <2>3. app'.view = app.view
    <3>1. Called1.view = app.view /\ Called1 \in AppType
      BY <1>3 DEF Called1, AppType
    <3>2. CASE Connect \/ Request \/ ClearRegisters
      BY <3>1, <3>2 DEF Connect, Request, ClearRegisters, AppType
    <3>3. CASE Disconnect
      <4>1. \/ app' = [Called1 EXCEPT !.pc = "abort"]
            \/ app' = [Called1 EXCEPT !.pc = "poll"]
            \/ app' = [Called1 EXCEPT !.started = FALSE, !.failed = TRUE]
        BY <3>3 DEF Disconnect
      <4> QED
        BY <3>1, <4>1 DEF AppType
    <3>4. CASE BusSeenFree \/ Close \/ PollEnds
      BY <1>3, <3>4 DEF BusSeenFree, Close, PollEnds, AppType
    <3> QED
      BY <1>15, <3>2, <3>3, <3>4 DEF App
  <2> QED
    BY <1>4, <2>1, <2>2, <2>3
<1>16. CASE UNCHANGED vars
  BY <1>4, <1>16 DEF vars, macVars
<1> QED
  BY <1>5, <1>6, <1>7, <1>8, <1>9, <1>10, <1>11, <1>12, <1>13, <1>14, <1>15, <1>16 DEF Next, Moves, Mac, Handler

\* An application that reads its events without being interrupted and does not
\* disconnect knows the status of each connection once all callbacks have run,
\* if none was dropped: an event is overwritten only by a later one, and the
\* callback of the last is never behind its reading.
THEOREM NodeEventsReach == Spec => []EventsReach
<1>1. Init => EventsTold
  <2> SUFFICES ASSUME Init PROVE EventsTold
    OBVIOUS
  <2>1. /\ requests = <<>> /\ handler.pc = "off"
        /\ \A s \in Slots : mac.event[s] = "none" /\ app.view[s] = mac.up[s]
    BY DEF Init, Rested
  <2>2. Asks(requests) = {}
    BY <2>1 DEF Asks
  <2> QED
    BY <2>1, <2>2 DEF EventsTold, Told
<1>2. NodeInv /\ EventsTold /\ [Next]_vars => EventsTold'
  BY ToldStep
<1>3. NodeInv /\ EventsTold => EventsReach
  <2> SUFFICES ASSUME NodeInv, EventsTold, Hears, callbacks = <<>>, handler.pc = "off" PROVE app.view = mac.up
    BY DEF EventsReach, Hears
  <2>1. app.view \in [Slots -> BOOLEAN] /\ mac.up \in [Slots -> BOOLEAN]
    BY DEF NodeInv, NodeTypes, MacTypes, MacType, AppType
  <2>2. ASSUME NEW s \in Slots PROVE app.view[s] = mac.up[s]
    <3>1. \A i \in Nat : ~Tells(i, s)
      BY DEF Tells
    <3> QED
      BY <3>1 DEF EventsTold, Told
  <2> QED
    BY <2>1, <2>2
<1> QED
  BY <1>1, <1>2, <1>3, NodeInvHolds, PTL DEF Spec

-----------------------------------------------------------------------------
(* The frames in a receive queue *)

\* The lists and functions that read the header and the payload of a frame.
Headers == {"get_frame_header", "get_payload"}
Heading(q) == \E i \in DOMAIN q : q[i] \in Headers
HeaderDue == Heading(phy.todo) \/ Heading(phy.next)

\* The radio has not sent the reply to a frame before its events are read.
RadioExact ==
  /\ ~radio.readReply /\ radio.read # "broadcast" /\ radio.event # "broadcast"
  /\ radio.event # "none" => radio.reply # "sent"

\* The end of the reply is awaited before the payload of the frame is handed
\* over, so that the signal of a frame sent is not raised for one received.
Exact ==
  cfg.exact => /\ frame.exact
               /\ RadioExact
               /\ phy.main = "SENT_ACK" => frame.tx
               /\ HeaderDue /\ Replies => phy.wait

LEMMA HeadingTail ==
  ASSUME NEW S, NEW q \in Seq(S), q # <<>>, Heading(Tail(q))
  PROVE  Heading(q)
<1>1. PICK i \in DOMAIN Tail(q) : Tail(q)[i] \in Headers
  BY DEF Heading
<1>2. i \in 1 .. Len(q) - 1 /\ Tail(q)[i] = q[i + 1] /\ i + 1 \in DOMAIN q
  BY <1>1
<1> QED
  BY <1>1, <1>2 DEF Heading

LEMMA HeadingJoined ==
  ASSUME NEW S, NEW q \in Seq(S), NEW r \in Seq(S), Heading(q \o r)
  PROVE  Heading(q) \/ Heading(r)
<1>1. PICK i \in DOMAIN (q \o r) : (q \o r)[i] \in Headers
  BY DEF Heading
<1>2. Len(q) \in Nat /\ Len(r) \in Nat /\ DOMAIN q = 1 .. Len(q) /\ DOMAIN r = 1 .. Len(r)
  OBVIOUS
<1>3. \/ i \in DOMAIN q /\ (q \o r)[i] = q[i]
      \/ i - Len(q) \in DOMAIN r /\ (q \o r)[i] = r[i - Len(q)]
  BY <1>1, <1>2
<1> QED
  BY <1>1, <1>3 DEF Heading

LEMMA HeadingAppend ==
  ASSUME NEW S, NEW q \in Seq(S), NEW x \in S, Heading(Append(q, x))
  PROVE  Heading(q) \/ x \in Headers
<1>1. PICK i \in DOMAIN Append(q, x) : Append(q, x)[i] \in Headers
  BY DEF Heading
<1>2. \/ i \in DOMAIN q /\ Append(q, x)[i] = q[i]
      \/ Append(q, x)[i] = x
  BY <1>1
<1> QED
  BY <1>1, <1>2 DEF Heading

LEMMA HeadingShort ==
  /\ ~Heading(<<>>)
  /\ \A a : Heading(<<a>>) <=> a \in Headers
  /\ \A a, b : Heading(<<a, b>>) <=> a \in Headers \/ b \in Headers
  /\ \A a, b, c, d : Heading(<<a, b, c, d>>) => {a, b, c, d} \cap Headers # {}
  /\ \A a, b, c, d, e : Heading(<<a, b, c, d, e>>) => {a, b, c, d, e} \cap Headers # {}
<1> HIDE DEF Headers
<1>1. ~Heading(<<>>)
  BY DEF Heading
<1>2. \A a : Heading(<<a>>) <=> a \in Headers
  BY DEF Heading
<1>3. \A a, b : Heading(<<a, b>>) <=> a \in Headers \/ b \in Headers
  BY DEF Heading
<1>4. \A a, b, c, d : Heading(<<a, b, c, d>>) => {a, b, c, d} \cap Headers # {}
  BY DEF Heading
<1>5. \A a, b, c, d, e : Heading(<<a, b, c, d, e>>) => {a, b, c, d, e} \cap Headers # {}
  BY DEF Heading
<1> QED
  BY <1>1, <1>2, <1>3, <1>4, <1>5

LEMMA HeadingFunctions ==
  ASSUME NEW list \in Lists, Heading(Functions[list])
  PROVE  list \in Headers
<1>1. CASE list = "prepare_phy"
  <2>1. ~Heading(<<"prepare_phy">>)
    BY HeadingShort DEF Headers
  <2> QED
    BY <1>1, <2>1, FunctionsAre
<1>2. CASE list = "set_config"
  <2>1. ~Heading(<<"set_config", "close_spi">>)
    BY HeadingShort DEF Headers
  <2> QED
    BY <1>2, <2>1, FunctionsAre
<1>3. CASE list = "set_header"
  <2>1. ~Heading(<<"close_spi", "set_header">>)
    BY HeadingShort DEF Headers
  <2> QED
    BY <1>3, <2>1, FunctionsAre
<1>4. CASE list = "set_payload"
  <2>1. ~Heading(<<"set_payload">>)
    BY HeadingShort DEF Headers
  <2> QED
    BY <1>4, <2>1, FunctionsAre
<1>5. CASE list = "set_header_with_payload"
  <2>1. ~Heading(<<"close_spi", "set_header_and_payload">>)
    BY HeadingShort DEF Headers
  <2> QED
    BY <1>5, <2>1, FunctionsAre
<1>6. CASE list = "wait_radio_tx"
  <2>1. ~Heading(<<"close_spi", "enable_radio_irq", "read_events", "close_spi", "process_event_tx">>)
    BY HeadingShort DEF Headers
  <2> QED
    BY <1>6, <2>1, FunctionsAre
<1>7. CASE list = "wait_radio_rx"
  <2>1. ~Heading(<<"close_spi", "enable_radio_irq", "read_events", "close_spi", "process_event_rx">>)
    BY HeadingShort DEF Headers
  <2> QED
    BY <1>7, <2>1, FunctionsAre
<1>8. CASE list = "handle_good_frame"
  <2>1. ~Heading(<<"close_spi", "handle_good_frame">>)
    BY HeadingShort DEF Headers
  <2> QED
    BY <1>8, <2>1, FunctionsAre
<1>9. CASE list = "handle_good_frame_auto"
  <2>1. ~Heading(<<"close_spi", "handle_good_auto_reply">>)
    BY HeadingShort DEF Headers
  <2> QED
    BY <1>9, <2>1, FunctionsAre
<1>10. CASE list = "get_auto_reply_header"
  <2>1. ~Heading(<<"close_spi", "get_auto_reply_header">>)
    BY HeadingShort DEF Headers
  <2> QED
    BY <1>10, <2>1, FunctionsAre
<1>11. CASE list = "new_frame"
  <2>1. ~Heading(<<"close_spi">>)
    BY HeadingShort DEF Headers
  <2> QED
    BY <1>11, <2>1, FunctionsAre
<1>12. CASE list = "syncing"
  <2>1. ~Heading(<<"prepare_syncing", "read_events_syncing", "close_spi", "process_event_rx">>)
    BY HeadingShort DEF Headers
  <2> QED
    BY <1>12, <2>1, FunctionsAre
<1>13. CASE list = "wait_to_send"
  <2>1. ~Heading(<<"check_radio_irq">>)
    BY HeadingShort DEF Headers
  <2> QED
    BY <1>13, <2>1, FunctionsAre
<1>14. CASE list = "transfer_register"
  <2>1. ~Heading(<<"transfer_register">>)
    BY HeadingShort DEF Headers
  <2> QED
    BY <1>14, <2>1, FunctionsAre
<1>15. CASE list = "overwrite_register"
  <2>1. ~Heading(<<"overwrite_registers">>)
    BY HeadingShort DEF Headers
  <2> QED
    BY <1>15, <2>1, FunctionsAre
<1> QED
  BY <1>1, <1>2, <1>3, <1>4, <1>5, <1>6, <1>7, <1>8, <1>9, <1>10, <1>11, <1>12, <1>13, <1>14, <1>15 DEF Lists, Headers

\* A function leaves a header to read only if there was one, or it queued one.
LEMMA HeadingLeft ==
  ASSUME phy \in PhyType, NEW p \in PhyType, Leaves(p), HeaderDue'
  PROVE  Heading(phy.todo) \/ Heading(p.next)
<1> DEFINE rest == Tail(phy.todo)
           next == p.next
<1>1. /\ phy.todo \in Seq(Names) /\ phy.todo # <<>> /\ rest \in Seq(Names) /\ next \in Seq(Lists)
  BY PhyFields
<1>2. phy'.todo = Todo(rest, next) /\ phy'.next = Queue(rest, next)
  BY Leaving DEF Left
<1>3. Heading(rest) => Heading(phy.todo)
  BY <1>1, HeadingTail
<1> HIDE DEF rest, next
<1>4. Heading(Todo(rest, next)) \/ Heading(Queue(rest, next))
  BY <1>2 DEF HeaderDue
<1>5. CASE rest # <<>>
  BY <1>3, <1>4, <1>5 DEF Todo, Queue, next
<1>6. CASE rest = <<>> /\ next = <<>>
  <2>1. Heading(<<"stale">>) \/ Heading(<<>>)
    BY <1>4, <1>6 DEF Todo, Queue
  <2> QED
    BY <2>1, HeadingShort DEF Headers
<1>7. CASE rest = <<>> /\ next # <<>>
  <2>1. Head(next) \in Lists /\ Head(next) = next[1] /\ 1 \in DOMAIN next
    BY <1>1, <1>7
  <2>2. Heading(Functions[Head(next)]) \/ Heading(Tail(next))
    BY <1>4, <1>7 DEF Todo, Queue
  <2>3. Heading(Functions[Head(next)]) => Heading(next)
    BY <2>1, HeadingFunctions DEF Heading
  <2>4. Heading(Tail(next)) => Heading(next)
    BY <1>1, <1>7, HeadingTail
  <2> QED
    BY <2>2, <2>3, <2>4 DEF next
<1> QED
  BY <1>5, <1>6, <1>7

-----------------------------------------------------------------------------
(* Steps of the machine and the frames *)

\* What the fields of a step must be for the frames to stay with the reader.
LEMMA ExactKept ==
  ASSUME Exact, cfg' = cfg, frame' = frame, cfg.exact => RadioExact', phy'.main = "SENT_ACK" => phy.main = "SENT_ACK" \/ frame.tx,
         HeaderDue' /\ Replies /\ (HeaderDue => phy.wait) => phy'.wait
  PROVE  Exact'
BY DEF Exact, Replies

\* A function that leaves the wait as it was and queues nothing to read.
LEMMA ExactLeft ==
  ASSUME phy \in PhyType, Exact, cfg' = cfg, frame' = frame, cfg.exact => RadioExact',
         NEW p \in PhyType, Leaves(p), p.wait = phy.wait, p.main = "SENT_ACK" => phy.main = "SENT_ACK" \/ frame.tx,
         Heading(p.next) => HeaderDue
  PROVE  Exact'
<1>1. phy'.wait = phy.wait /\ phy'.main = p.main
  BY Leaving DEF Left
<1>2. HeaderDue' => HeaderDue
  BY HeadingLeft DEF HeaderDue
<1> QED
  BY <1>1, <1>2, ExactKept

\* A function that queues a list which reads nothing, and raises a signal.
LEMMA ExactQueued ==
  ASSUME phy \in PhyType, Exact, cfg' = cfg, frame' = frame, cfg.exact => RadioExact',
         NEW main \in Signals, NEW outcome \in OutcomeNames, NEW list \in Lists,
         Leaves(Enqueue([phy EXCEPT !.main = main, !.outcome = outcome], list)), main # "SENT_ACK",
         list \notin Headers
  PROVE  Exact'
<1> DEFINE p == Enqueue([phy EXCEPT !.main = main, !.outcome = outcome], list)
           q == Append(phy.next, list)
<1>1. phy.next \in Seq(Lists)
  BY PhyFields
<1>2. q \in Seq(Lists) /\ (Heading(q) => Heading(phy.next))
  BY <1>1, Seqs, HeadingAppend
<1>3. p \in PhyType /\ p.wait = phy.wait /\ p.main = main /\ p.next = q
  <2> HIDE DEF q, OutcomeNames, Signals
  <2>1. p = [phy EXCEPT !.main = main, !.outcome = outcome, !.next = q]
    BY DEF Enqueue, q, PhyType
  <2> HIDE DEF p
  <2> QED
    BY <1>2, <2>1 DEF PhyType
<1>4. Leaves(p)
  OBVIOUS
<1> HIDE DEF p, q
<1> QED
  BY <1>2, <1>3, <1>4, ExactLeft DEF HeaderDue

\* A header is read already, and the wait it goes with is settled.
LEMMA ExactReading ==
  ASSUME Exact, cfg' = cfg, frame' = frame, cfg.exact => RadioExact', phy'.main # "SENT_ACK", HeaderDue,
         phy'.wait = phy.wait
  PROVE  Exact'
BY ExactKept

LEMMA CalledIsDue ==
  ASSUME phy \in PhyType, Head(phy.todo) \in Headers
  PROVE  HeaderDue
<1>1. phy.todo \in Seq(Names) /\ phy.todo # <<>>
  BY PhyFields
<1>2. 1 \in DOMAIN phy.todo /\ phy.todo[1] = Head(phy.todo)
  BY <1>1
<1> QED
  BY <1>2 DEF HeaderDue, Heading

\* While we transmit there is no frame to hand over.
LEMMA ExactSending ==
  ASSUME cfg' = cfg, frame' = frame, frame.tx, Exact, cfg.exact => RadioExact'
  PROVE  Exact'
BY DEF Exact, Replies

LEMMA ExactGoodFrame ==
  ASSUME phy \in PhyType, radio \in RadioType, Exact, cfg' = cfg, frame' = frame, GoodFrame
  PROVE  Exact'
<1> DEFINE list == "get_frame_header"
           waiting == Replies /\ radio.read # "broadcast"
           wait == IF waiting THEN Waits ELSE phy.wait
           q == Append(phy.next, list)
           p == Enqueue(Raise([phy EXCEPT !.outcome = "RECEIVED", !.wait = IF waiting THEN Waits ELSE @], "YIELD"),
                        list)
<1>1. /\ Leaves(p)
      /\ \/ radio' = radio
         \/ radio' = [radio EXCEPT !.await = TRUE, !.pin = @ \/ radio.reply = "sent"]
  BY DEF GoodFrame
<1>2. RadioExact => RadioExact'
  <2>1. CASE radio' = radio
    BY <2>1 DEF RadioExact
  <2>2. CASE radio' = [radio EXCEPT !.await = TRUE, !.pin = @ \/ radio.reply = "sent"]
    <3>1. /\ radio'.readReply = radio.readReply /\ radio'.read = radio.read /\ radio'.event = radio.event
          /\ radio'.reply = radio.reply
      BY <2>2 DEF RadioType
    <3> QED
      BY <3>1 DEF RadioExact
  <2> QED
    BY <1>1, <2>1, <2>2
<1>3. wait \in BOOLEAN /\ q \in Seq(Lists)
  <2>1. phy.next \in Seq(Lists) /\ phy.wait \in BOOLEAN
    BY PhyFields
  <2>2. list \in Lists
    BY DEF Lists
  <2>3. q \in Seq(Lists)
    BY <2>1, <2>2, Seqs
  <2> QED
    BY <2>1, <2>3 DEF Waits
<1>4. p \in PhyType /\ p.main = "YIELD" /\ p.wait = wait
  <2> HIDE DEF waiting, q
  <2>1. p = [phy EXCEPT !.outcome = "RECEIVED", !.wait = wait, !.main = "YIELD", !.next = q]
    BY DEF Enqueue, Raise, PhyType, q
  <2> HIDE DEF wait, p
  <2> QED
    BY <1>3, <2>1 DEF PhyType, Signals, OutcomeNames
<1> HIDE DEF p
<1>5. phy'.main = "YIELD" /\ phy'.wait = wait
  BY <1>1, <1>4, Leaving DEF Left
<1>6. cfg.exact /\ Replies => wait
  BY DEF Exact, RadioExact, Waits
<1> QED
  BY <1>2, <1>5, <1>6 DEF Exact, Replies

LEMMA ExactPreparePhy ==
  ASSUME PhyTypes, Exact, cfg' = cfg, prepare_phy
  PROVE  Exact'
<1> DEFINE n == phy.next
<1>1. frame' = frame /\ radio' = radio /\ phy \in PhyType /\ n \in Seq(Lists)
  BY StepTypes DEF prepare_phy
<1>2. cfg.exact => RadioExact'
  BY <1>1 DEF Exact, RadioExact
<1>3. CASE phy.input = "SYNCING"
  <2> DEFINE p == Enqueue(phy, "syncing")
             q == Append(n, "syncing")
  <2>1. "syncing" \in Lists /\ "syncing" \notin Headers
    BY DEF Lists, Headers
  <2>2. q \in Seq(Lists) /\ (Heading(q) => Heading(n))
    BY <1>1, <2>1, Seqs, HeadingAppend
  <2>3. p \in PhyType /\ p.main = phy.main /\ p.wait = phy.wait /\ p.next = q
    BY <1>1, <2>2 DEF PhyType, Enqueue
  <2>4. Leaves(p)
    BY <1>3 DEF prepare_phy
  <2> HIDE DEF p, q
  <2> QED
    BY <1>1, <1>2, <2>2, <2>3, <2>4, ExactLeft DEF HeaderDue
<1>4. CASE phy.input # "SYNCING"
  <2> DEFINE q == FrameQueue(n)
             p == [phy EXCEPT !.next = q]
             a == n \o <<"set_config">>
             b == IF phy.overwrite THEN <<"overwrite_register">> ELSE <<>>
             c == IF frame.tx THEN "wait_radio_tx" ELSE "wait_radio_rx"
  <2>1. q \in Seq(Lists)
    BY <1>1, FrameLists
  <2>2. Leaves([phy EXCEPT !.next = @ \o <<"set_config">>
                               \o (IF phy.overwrite THEN <<"overwrite_register">> ELSE <<>>)
                               \o SendStates
                               \o <<IF frame.tx THEN "wait_radio_tx" ELSE "wait_radio_rx">>])
    BY <1>4 DEF prepare_phy
  <2>3. Leaves(p)
    BY <2>2 DEF FrameQueue
  <2>4. p \in PhyType /\ p.main = phy.main /\ p.wait = phy.wait /\ p.next = q
    <3> HIDE DEF q
    <3> QED
      BY <1>1, <2>1 DEF PhyType
  <2>5. /\ <<"set_config">> \in Seq(Lists) /\ ~Heading(<<"set_config">>)
        /\ b \in Seq(Lists) /\ ~Heading(b)
        /\ SendStates \in Seq(Lists) /\ ~Heading(SendStates)
        /\ <<c>> \in Seq(Lists) /\ ~Heading(<<c>>)
    <3>1. /\ {"set_config", "overwrite_register", "set_header", "set_payload"} \subseteq Lists
          /\ "set_header_with_payload" \in Lists /\ c \in Lists
      BY DEF Lists
    <3>2. /\ <<"set_header_with_payload">> \in Seq(Lists) /\ <<"set_header", "set_payload">> \in Seq(Lists)
          /\ <<>> \in Seq(Lists) /\ <<"overwrite_register">> \in Seq(Lists) /\ <<"set_config">> \in Seq(Lists)
          /\ <<c>> \in Seq(Lists)
      BY <3>1, ShortTypes
    <3>3. /\ ~Heading(<<"set_header_with_payload">>) /\ ~Heading(<<"overwrite_register">>)
          /\ ~Heading(<<>>) /\ ~Heading(<<"set_config">>)
      BY HeadingShort DEF Headers
    <3>4. ~Heading(<<"set_header", "set_payload">>)
      BY HeadingShort DEF Headers
    <3>5. ~Heading(<<c>>)
      BY HeadingShort DEF Headers
    <3> HIDE DEF c
    <3> QED
      BY <3>2, <3>3, <3>4, <3>5 DEF SendStates
  <2> DEFINE ab == a \o b
             abs == ab \o SendStates
  <2>6. q = abs \o <<c>>
    BY DEF FrameQueue
  <2> HIDE DEF q, b, c
  <2>7. a \in Seq(Lists) /\ ab \in Seq(Lists) /\ abs \in Seq(Lists)
    BY <1>1, <2>5, Joined
  <2>8. Heading(a) => Heading(n)
    BY <1>1, <2>5, HeadingJoined
  <2> HIDE DEF a
  <2>9. Heading(ab) => Heading(a)
    BY <2>5, <2>7, HeadingJoined
  <2> HIDE DEF ab
  <2>10. Heading(abs) => Heading(ab)
    BY <2>5, <2>7, HeadingJoined
  <2> HIDE DEF abs
  <2>11. Heading(q) => Heading(abs)
    BY <2>5, <2>6, <2>7, HeadingJoined
  <2> HIDE DEF p
  <2> QED
    BY <1>1, <1>2, <2>3, <2>4, <2>8, <2>9, <2>10, <2>11, ExactLeft DEF HeaderDue
<1> QED
  BY <1>3, <1>4

\* The functions that queue no list.
LEMMA ExactPlain ==
  ASSUME PhyTypes, Exact, cfg' = cfg, frame' = frame, cfg.exact => RadioExact',
         NEW main \in Signals \ {"SENT_ACK"}, Leaves(Raise(phy, main)) \/ Leaves(phy)
  PROVE  Exact'
<1>1. phy \in PhyType
  BY StepTypes
<1>2. CASE Leaves(phy)
  BY <1>1, <1>2, ExactLeft DEF HeaderDue
<1>3. CASE Leaves(Raise(phy, main))
  <2> DEFINE p == Raise(phy, main)
  <2>1. p \in PhyType /\ p.wait = phy.wait /\ p.main = main /\ p.next = phy.next
    BY <1>1 DEF PhyType, Raise
  <2>2. Leaves(p)
    BY <1>3
  <2> HIDE DEF p
  <2> QED
    BY <1>1, <2>1, <2>2, ExactLeft DEF HeaderDue
<1> QED
  BY <1>2, <1>3

LEMMA ExactPlainFunctions ==
  ASSUME PhyTypes, Exact, cfg' = cfg,
         set_config \/ close_spi \/ fill \/ enable_radio_irq \/ prepare_syncing \/ read_events
           \/ check_radio_irq \/ overwrite_registers
  PROVE  Exact'
<1>1. {"YIELD", "PREPARE_DONE", "CONFIG_COMPLETE"} \subseteq Signals \ {"SENT_ACK"}
  BY DEF Signals
<1>2. frame' = frame
  BY DEF set_config, close_spi, fill, enable_radio_irq, prepare_syncing, read_events, check_radio_irq,
         overwrite_registers
<1>3. cfg.exact => RadioExact'
  <2>1. CASE radio' = radio
    BY <2>1 DEF Exact, RadioExact
  <2>2. CASE prepare_syncing
    <3>1. radio' = [Off EXCEPT !.armed = TRUE, !.pin = radio.pin]
      BY <2>2 DEF prepare_syncing
    <3>2. ~radio'.readReply /\ radio'.read = "none" /\ radio'.event = "none"
      BY <3>1 DEF Off
    <3> QED
      BY <3>2 DEF RadioExact
  <2> QED
    BY <2>1, <2>2 DEF set_config, close_spi, fill, enable_radio_irq, read_events, check_radio_irq,
                      overwrite_registers
<1>4. \E main \in Signals \ {"SENT_ACK"} : Leaves(Raise(phy, main)) \/ Leaves(phy)
  <2>1. CASE set_config
    BY <1>1, <2>1 DEF set_config
  <2>2. CASE close_spi \/ overwrite_registers
    BY <1>1, <2>2 DEF close_spi, overwrite_registers
  <2>3. CASE fill \/ prepare_syncing \/ read_events
    BY <1>1, <2>3 DEF fill, prepare_syncing, read_events
  <2>4. CASE enable_radio_irq
    BY <1>1, <2>4 DEF enable_radio_irq
  <2>5. CASE check_radio_irq
    BY <1>1, <2>5 DEF check_radio_irq
  <2> QED
    BY <2>1, <2>2, <2>3, <2>4, <2>5
<1> QED
  BY <1>2, <1>3, <1>4, ExactPlain

LEMMA ExactTransferRegister ==
  ASSUME PhyTypes, Exact, cfg' = cfg, transfer_register
  PROVE  Exact'
<1> DEFINE p == IF phy.write THEN [phy EXCEPT !.write = FALSE] ELSE [phy EXCEPT !.read = FALSE]
<1>1. phy \in PhyType /\ frame' = frame /\ radio' = radio /\ Leaves(p)
  BY StepTypes DEF transfer_register
<1>2. p \in PhyType /\ p.next = phy.next /\ p.main = phy.main /\ p.wait = phy.wait
  BY <1>1 DEF PhyType
<1>3. cfg.exact => RadioExact'
  BY <1>1 DEF Exact, RadioExact
<1> HIDE DEF p
<1> QED
  BY <1>1, <1>2, <1>3, ExactLeft DEF HeaderDue

LEMMA ExactCloseEarly ==
  ASSUME PhyTypes, Exact, cfg' = cfg, close_spi_early
  PROVE  Exact'
<1>1. frame' = frame /\ radio' = radio /\ phy' = [phy EXCEPT !.main = "YIELD"] /\ phy \in PhyType
  BY StepTypes DEF close_spi_early, Raise
<1>2. /\ phy'.todo = phy.todo /\ phy'.next = phy.next /\ phy'.wait = phy.wait /\ phy'.main = "YIELD"
  BY <1>1 DEF PhyType
<1>3. HeaderDue' => HeaderDue
  BY <1>2 DEF HeaderDue
<1>4. cfg.exact => RadioExact'
  BY <1>1 DEF Exact, RadioExact
<1> QED
  BY <1>1, <1>2, <1>3, <1>4, ExactKept

LEMMA ExactEventRx ==
  ASSUME PhyTypes, Runs, Exact, cfg' = cfg, process_event_rx
  PROVE  Exact'
<1>1. frame' = frame /\ phy \in PhyType /\ radio \in RadioType /\ frame.phase \in BOOLEAN
  BY StepTypes DEF process_event_rx, PhyTypes, FrameType
<1>2. \/ \E signal \in {"MISSED"}, outcome \in {"LOST", "REJECTED"} :
           Leaves(Over(signal, outcome)) /\ radio' = radio
      \/ ReadCir("handle_good_frame", "RECEIVED") /\ radio' = radio
      \/ GoodFrame
      \/ Leaves(phy) /\ radio' = radio
  BY <1>1 DEF process_event_rx
<1>3. radio' = radio => (cfg.exact => RadioExact')
  BY DEF Exact, RadioExact
<1>4. {"LOST", "REJECTED", "RECEIVED"} \subseteq OutcomeNames /\ {"MISSED", "YIELD"} \subseteq Signals \ {"SENT_ACK"}
      /\ {"prepare_phy", "handle_good_frame"} \subseteq Lists \ Headers
  BY DEF OutcomeNames, Signals, Outcomes, Lists, Headers
<1>5. ASSUME NEW outcome \in {"LOST", "REJECTED"}, Leaves(Over("MISSED", outcome)), radio' = radio
      PROVE  Exact'
  <2>1. Leaves(Enqueue([phy EXCEPT !.main = "MISSED", !.outcome = outcome], "prepare_phy"))
    BY <1>5 DEF Over
  <2> QED
    BY <1>1, <1>3, <1>4, <1>5, <2>1, ExactQueued
<1>6. CASE ReadCir("handle_good_frame", "RECEIVED") /\ radio' = radio
  <2>1. Raise([phy EXCEPT !.outcome = "RECEIVED"], "YIELD") = [phy EXCEPT !.main = "YIELD", !.outcome = "RECEIVED"]
    BY <1>1 DEF Raise, PhyType
  <2>2. Leaves(Enqueue([phy EXCEPT !.main = "YIELD", !.outcome = "RECEIVED"], "handle_good_frame"))
    BY <1>6, <2>1 DEF ReadCir
  <2> QED
    BY <1>1, <1>3, <1>4, <1>6, <2>2, ExactQueued
<1>7. CASE GoodFrame
  BY <1>1, <1>7, ExactGoodFrame
<1>8. CASE Leaves(phy) /\ radio' = radio
  BY <1>1, <1>3, <1>4, <1>8, ExactPlain
<1> QED
  BY <1>2, <1>5, <1>6, <1>7, <1>8

LEMMA ExactFrameHeader ==
  ASSUME PhyTypes, Exact, cfg' = cfg, get_frame_header
  PROVE  Exact'
<1>1. /\ frame' = frame /\ radio' = radio /\ phy \in PhyType /\ phy.next \in Seq(Lists) /\ phy.outcome \in OutcomeNames
      /\ Head(phy.todo) \in Headers
  BY StepTypes, PhyFields DEF get_frame_header, Called, Headers
<1>2. cfg.exact => RadioExact'
  BY <1>1 DEF Exact, RadioExact
<1>3. HeaderDue
  BY <1>1, CalledIsDue
<1>4. {"prepare_phy", "get_payload"} \subseteq Lists /\ {"MISSED", "YIELD"} \subseteq Signals
  BY DEF Lists, Signals, Outcomes
<1>5. phy'.main # "SENT_ACK" /\ phy'.wait = phy.wait
  <2>1. CASE Leaves(Over("MISSED", phy.outcome))
    <3> DEFINE p == Over("MISSED", phy.outcome)
               q == Append(phy.next, "prepare_phy")
    <3>1. q \in Seq(Lists)
      BY <1>1, <1>4, Seqs
    <3> HIDE DEF q
    <3>2. p = [phy EXCEPT !.main = "MISSED", !.outcome = phy.outcome, !.next = q]
      BY <1>1 DEF Over, Enqueue, PhyType, q
    <3>3. p \in PhyType /\ p.main = "MISSED" /\ p.wait = phy.wait
      <4> HIDE DEF p, Signals, OutcomeNames
      <4> QED
        BY <1>1, <1>4, <3>1, <3>2 DEF PhyType
    <3> HIDE DEF p
    <3>4. Left(p)
      BY <1>1, <2>1, <3>3, Leaving DEF p
    <3> QED
      BY <3>3, <3>4 DEF Left
  <2>2. ASSUME NEW payload \in BOOLEAN, Leaves(HeaderRead(payload))
        PROVE  phy'.main # "SENT_ACK" /\ phy'.wait = phy.wait
    <3> DEFINE p == HeaderRead(payload)
               r == Append(phy.next, "get_payload")
               q == Append(r, "prepare_phy")
    <3>1. r \in Seq(Lists)
      BY <1>1, <1>4, Seqs
    <3> HIDE DEF r
    <3>2. q \in Seq(Lists)
      BY <1>4, <3>1, Seqs
    <3> HIDE DEF q
    <3>3. p = [phy EXCEPT !.main = "YIELD", !.payload = payload, !.next = q]
      BY <1>1 DEF HeaderRead, Enqueue, PhyType, q, r
    <3>4. p \in PhyType /\ p.main = "YIELD" /\ p.wait = phy.wait
      <4> HIDE DEF p, Signals
      <4> QED
        BY <1>1, <1>4, <3>2, <3>3 DEF PhyType
    <3> HIDE DEF p
    <3>5. Left(p)
      BY <1>1, <2>2, <3>4, Leaving DEF p
    <3> QED
      BY <3>4, <3>5 DEF Left
  <2> QED
    BY <2>1, <2>2 DEF get_frame_header
<1> QED
  BY <1>1, <1>2, <1>3, <1>5, ExactReading

\* The payload is handed over: the wait for the reply is what keeps the signal.
LEMMA ExactPayload ==
  ASSUME PhyTypes, ~frame.tx, Exact, cfg' = cfg, get_payload
  PROVE  Exact'
<1> DEFINE q == [phy EXCEPT !.main = "RECEIVED"]
           s == PayloadStates(q)
           r == CASE frame.auto # "reply" -> s
                  [] Replies /\ phy.wait /\ radio.read # "broadcast" -> Enqueue(s, "wait_to_send")
                  [] OTHER -> Raise(s, "SENT_ACK")
<1>1. /\ frame' = frame /\ radio' = radio /\ phy \in PhyType /\ phy.next \in Seq(Lists)
      /\ Head(phy.todo) \in Headers
  BY StepTypes, PhyFields DEF get_payload, Called, Headers
<1>2. Leaves(r)
  BY DEF get_payload
<1>3. HeaderDue
  BY <1>1, CalledIsDue
<1>4. {"new_frame", "wait_to_send"} \subseteq Lists
  BY DEF Lists
<1>5. q \in PhyType /\ q.main = "RECEIVED" /\ q.wait = phy.wait /\ q.next = phy.next
  BY <1>1 DEF PhyType, Signals, Outcomes
<1> HIDE DEF q
<1>6. s \in PhyType /\ s.main = "RECEIVED" /\ s.wait = phy.wait
  <2>1. Append(q.next, "new_frame") \in Seq(Lists)
    BY <1>1, <1>4, <1>5, Seqs
  <2> DEFINE n == Append(q.next, "new_frame")
  <2>2. s = [q EXCEPT !.next = n] \/ s = q
    BY <1>5 DEF PayloadStates, Enqueue, PhyType
  <2> HIDE DEF n, s
  <2> QED
    BY <1>5, <2>1, <2>2 DEF PhyType, n
<1> HIDE DEF s
<1>7. cfg.exact => r \in PhyType /\ r.main = "RECEIVED" /\ r.wait = phy.wait
  <2> SUFFICES ASSUME cfg.exact PROVE r \in PhyType /\ r.main = "RECEIVED" /\ r.wait = phy.wait
    OBVIOUS
  <2>1. radio.read # "broadcast" /\ (Replies => phy.wait)
    BY <1>3 DEF Exact, RadioExact
  <2>2. Replies <=> frame.auto = "reply"
    BY DEF Replies
  <2>3. r = s \/ r = Enqueue(s, "wait_to_send")
    BY <2>1, <2>2
  <2> DEFINE n == Append(s.next, "wait_to_send")
  <2>4. n \in Seq(Lists)
    BY <1>4, <1>6, PhyFields, Seqs
  <2>5. r = s \/ r = [s EXCEPT !.next = n]
    BY <1>6, <2>3 DEF Enqueue, PhyType
  <2> HIDE DEF n, r
  <2> QED
    BY <1>6, <2>4, <2>5 DEF PhyType
<1> HIDE DEF r
<1>8. cfg.exact => phy'.main = "RECEIVED" /\ phy'.wait = phy.wait
  BY <1>1, <1>2, <1>7, Leaving DEF Left
<1>9. cfg.exact => RadioExact'
  BY <1>1 DEF Exact, RadioExact
<1>10. CASE cfg.exact
  BY <1>1, <1>3, <1>8, <1>9, <1>10, ExactReading
<1>11. CASE ~cfg.exact
  BY <1>11 DEF Exact
<1> QED
  BY <1>10, <1>11

LEMMA ExactPhy ==
  ASSUME PhyTypes, Runs, Exact, cfg' = cfg, PhyStep
  PROVE  Exact'
<1>1. Function
  BY NeverRefused DEF PhyStep
<1>2. frame' = frame /\ phy \in PhyType /\ radio \in RadioType /\ frame.tx \in BOOLEAN
  <2>1. frame' = frame
    BY <1>1 DEF Function, prepare_phy, set_config, close_spi_early, close_spi, fill, enable_radio_irq,
                prepare_syncing, read_events, process_event_tx, process_event_rx, handle_good_frame,
                handle_good_auto_reply, get_frame_header, get_auto_reply_header, get_payload, check_radio_irq,
                transfer_register, overwrite_registers
  <2> QED
    BY <2>1, StepTypes
<1>3. radio' = radio => (cfg.exact => RadioExact')
  BY DEF Exact, RadioExact
<1>4. CASE process_event_tx
  <2>1. /\ radio' = radio /\ cpu \in {"process", "prepare"} /\ Head(phy.todo) = "process_event_tx"
    BY <1>4 DEF process_event_tx, Called
  <2>2. frame.tx
    BY <1>2, <2>1, EventsKnown DEF Processing
  <2> QED
    BY <1>2, <1>3, <2>1, <2>2, ExactSending
<1>5. CASE handle_good_auto_reply \/ get_auto_reply_header
  <2>1. /\ radio' = radio /\ cpu \in {"process", "prepare"}
        /\ Head(phy.todo) \in {"handle_good_auto_reply", "get_auto_reply_header"}
    BY <1>5 DEF handle_good_auto_reply, get_auto_reply_header, Called
  <2>2. Head(phy.todo) \in Readings(frame.tx)
    BY <2>1, ReceptionKnown
  <2>3. frame.tx
    BY <2>1, <2>2 DEF Readings
  <2> QED
    BY <1>2, <1>3, <2>1, <2>3, ExactSending
<1>6. CASE get_payload
  <2>1. radio' = radio
    BY <1>6 DEF get_payload
  <2> QED
    BY <1>2, <1>3, <1>6, <2>1, ExactPayload, ExactSending
<1>7. CASE handle_good_frame
  BY <1>2, <1>7, ExactGoodFrame DEF handle_good_frame
<1> QED
  BY <1>1, <1>4, <1>5, <1>6, <1>7, ExactPreparePhy, ExactPlainFunctions, ExactTransferRegister, ExactCloseEarly,
     ExactEventRx, ExactFrameHeader DEF Function

\* The radio: what it reports in a setting with exact timing.
LEMMA ExactHardware ==
  ASSUME PhyTypes, Runs, Exact, cfg' = cfg, RadioEvent \/ ReplyEnd \/ TransferDone
  PROVE  Exact'
<1>1. frame' = frame /\ phy' = phy /\ radio \in RadioType
  BY StepTypes DEF RadioEvent, ReplyEnd, TransferDone
<1>2. cfg.exact => RadioExact /\ frame.exact
  BY DEF Exact
<1>3. CASE RadioEvent
  <2>1. PICK event \in Events :
          radio' = [[radio EXCEPT !.armed = FALSE, !.event = event,
                                  !.reply = IF event = "good" /\ Replies THEN "sending" ELSE "none"]
                    EXCEPT !.pin = TRUE]
    BY <1>3 DEF RadioEvent, Edge
  <2>2. /\ radio'.event = event /\ radio'.reply \in {"sending", "none"} /\ radio'.read = radio.read
        /\ radio'.readReply = radio.readReply
    BY <1>1, <2>1 DEF RadioType
  <2>3. frame.exact => event # "broadcast"
    BY DEF Events
  <2>4. cfg.exact => RadioExact'
    BY <1>2, <2>2, <2>3 DEF RadioExact
  <2> QED
    BY <1>1, <2>4, ExactKept DEF HeaderDue
<1>4. CASE ReplyEnd
  <2>1. \/ radio' = [radio EXCEPT !.reply = "sent"]
        \/ radio' = [[radio EXCEPT !.reply = "sent"] EXCEPT !.pin = TRUE]
    BY <1>4 DEF ReplyEnd, Edge
  <2>2. radio'.event = radio.event /\ radio'.read = radio.read /\ radio'.readReply = radio.readReply
    BY <1>1, <2>1 DEF RadioType
  <2>3. frame.exact => radio.event = "none"
    BY <1>4 DEF ReplyEnd
  <2>4. cfg.exact => RadioExact'
    BY <1>2, <2>2, <2>3 DEF RadioExact
  <2> QED
    BY <1>1, <2>4, ExactKept DEF HeaderDue
<1>5. CASE TransferDone
  <2>1. CASE spi = "config"
    <3>1. radio' = [Off EXCEPT !.armed = TRUE]
      BY <1>5, <2>1 DEF TransferDone
    <3>2. ~radio'.readReply /\ radio'.read = "none" /\ radio'.event = "none"
      BY <3>1 DEF Off
    <3>3. RadioExact'
      BY <3>2 DEF RadioExact
    <3> QED
      BY <1>1, <3>3, ExactKept DEF HeaderDue
  <2>2. CASE spi = "events"
    <3>1. radio' = [radio EXCEPT !.event = "none", !.pin = FALSE, !.read = radio.event,
                                 !.readReply = radio.reply = "sent"]
      BY <1>5, <2>2 DEF TransferDone
    <3>2. radio'.event = "none" /\ radio'.read = radio.event /\ radio'.readReply = (radio.reply = "sent")
      BY <1>1, <3>1 DEF RadioType
    <3>3. radio.event # "none"
      <4>1. EventRead(frame.tx)
        BY <2>2 DEF Runs, Place, Deaf, Filled, Live
      <4> QED
        BY <2>2, <4>1 DEF EventRead, EventsOf
    <3>4. cfg.exact => RadioExact'
      BY <1>2, <3>2, <3>3 DEF RadioExact
    <3> QED
      BY <1>1, <3>4, ExactKept DEF HeaderDue
  <2>3. CASE spi \notin {"config", "events"}
    <3>1. radio' = radio
      BY <1>5, <2>3 DEF TransferDone
    <3>2. cfg.exact => RadioExact'
      BY <1>2, <3>1 DEF RadioExact
    <3> QED
      BY <1>1, <3>2, ExactKept DEF HeaderDue
  <2> QED
    BY <2>1, <2>2, <2>3
<1> QED
  BY <1>3, <1>4, <1>5

\* A new frame finds nothing left to read of the last.
LEMMA ExactPrepareFrame ==
  ASSUME NodeInv, Exact, cfg' = cfg, PrepareFrame
  PROVE  Exact'
<1>1. PhyTypes /\ Machine /\ phy \in PhyType
  BY StepTypes DEF NodeInv, NodeTypes
<1>2. cpu = "frame" /\ radio' = radio
  BY DEF PrepareFrame
<1>3. Runs
  BY <1>1, <1>2, NotStopped
<1>4. IsFresh(phy.todo, phy.next)
  BY <1>2, <1>3 DEF Runs, SignalOK
<1>5. ~HeaderDue
  <2>1. CASE phy.todo = <<"prepare_phy">>
    <3>1. Head(phy.todo) = "prepare_phy"
      BY <2>1
    <3>2. Fresh(phy.todo, phy.next)
      BY <1>3, <3>1, AtPlace DEF Runs
    <3>3. phy.next \in Queued
      BY <3>1, <3>2, FreshHead DEF Queued
    <3>4. ~Heading(<<"prepare_phy">>)
      BY HeadingShort DEF Headers
    <3>5. ~Heading(<<>>) /\ ~Heading(<<"new_frame">>) /\ ~Heading(<<"wait_to_send">>)
      BY HeadingShort DEF Headers
    <3>6. ~Heading(<<"new_frame", "wait_to_send">>)
      BY HeadingShort DEF Headers
    <3> QED
      BY <2>1, <3>3, <3>4, <3>5, <3>6 DEF Queued, HeaderDue
  <2>2. CASE phy.todo = <<"transfer_register">> /\ phy.next = <<"prepare_phy">>
    <3>1. ~Heading(<<"transfer_register">>) /\ ~Heading(<<"prepare_phy">>)
      BY HeadingShort DEF Headers
    <3> QED
      BY <2>2, <3>1 DEF HeaderDue
  <2> QED
    BY <1>4, <2>1, <2>2 DEF IsFresh
<1>6. /\ phy'.todo = phy.todo /\ phy'.next = phy.next /\ phy'.main = "PROCESSING"
  BY <1>1 DEF PrepareFrame, PhyType
<1>7. frame'.exact = cfg.exact
  BY DEF PrepareFrame
<1>8. ~HeaderDue'
  BY <1>5, <1>6 DEF HeaderDue
<1> QED
  BY <1>2, <1>6, <1>7, <1>8 DEF Exact, RadioExact

\* The requests, the interrupts, and what switches the radio on and off.
LEMMA ExactCalls ==
  ASSUME NodeInv, Exact, cfg' = cfg,
         ConfigComplete \/ RadioIrq \/ DmaIrq \/ Connect \/ Close \/ ClearRegisters
  PROVE  Exact'
<1>1. phy \in PhyType /\ phy.next \in Seq(Lists)
  BY StepTypes DEF NodeInv, NodeTypes
<1>2. frame' = frame
  BY DEF ConfigComplete, RadioIrq, DmaIrq, Connect, Close, ClearRegisters
<1>3. cfg.exact => RadioExact'
  <2>1. radio' = radio \/ radio' = Off
    BY DEF ConfigComplete, ServeRequest, RadioIrq, DmaIrq, Connect, Close, ClearRegisters, Abort
  <2>2. radio' = Off => RadioExact'
    BY DEF Off, RadioExact
  <2> QED
    BY <2>1, <2>2 DEF Exact, RadioExact
<1>4. ASSUME phy'.todo = phy.todo, Heading(phy'.next) => Heading(phy.next), phy'.wait = phy.wait,
             phy'.main = "SENT_ACK" => phy.main = "SENT_ACK"
      PROVE  Exact'
  BY <1>2, <1>3, <1>4, ExactKept DEF HeaderDue
<1>5. CASE phy' = phy
  BY <1>4, <1>5
<1>6. CASE phy' = [phy EXCEPT !.overwrite = FALSE] \/ phy' = [phy EXCEPT !.overwrite = TRUE]
  <2>1. phy'.todo = phy.todo /\ phy'.next = phy.next /\ phy'.wait = phy.wait /\ phy'.main = phy.main
    BY <1>1, <1>6 DEF PhyType
  <2> QED
    BY <1>4, <2>1
<1>7. CASE \/ phy' = Enqueue([phy EXCEPT !.write = TRUE], "transfer_register")
           \/ phy' = Enqueue([phy EXCEPT !.read = TRUE], "transfer_register")
  <2> DEFINE q == Append(phy.next, "transfer_register")
  <2>1. phy'.todo = phy.todo /\ phy'.next = q /\ phy'.wait = phy.wait /\ phy'.main = phy.main
    BY <1>1, <1>7 DEF PhyType, Enqueue
  <2>2. "transfer_register" \in Lists /\ "transfer_register" \notin Headers
    BY DEF Lists, Headers
  <2>3. Heading(q) => Heading(phy.next)
    BY <1>1, <2>2, HeadingAppend
  <2> HIDE DEF q
  <2> QED
    BY <1>4, <2>1, <2>3
<1>8. CASE \E input : phy' = [phy EXCEPT !.input = input, !.main = IF @ = "CONNECT" THEN @ ELSE "PROCESSING"]
  <2>1. phy'.todo = phy.todo /\ phy'.next = phy.next /\ phy'.wait = phy.wait
        /\ phy'.main \in {"CONNECT", "PROCESSING"}
    BY <1>1, <1>8 DEF PhyType
  <2> QED
    BY <1>4, <2>1
<1>9. CASE phy' = PhyReset(phy)
  <2>1. phy'.todo = <<"prepare_phy">> /\ phy'.next = <<>> /\ phy'.main = "CONNECT"
    BY <1>1, <1>9, FunctionsAre DEF PhyReset, PhyType
  <2>2. ~Heading(<<"prepare_phy">>) /\ ~Heading(<<>>)
    BY HeadingShort DEF Headers
  <2>3. ~HeaderDue'
    BY <2>1, <2>2 DEF HeaderDue
  <2> QED
    BY <1>2, <1>3, <2>1, <2>3, ExactKept
<1>10. CASE ConfigComplete
  BY <1>5, <1>6, <1>7, <1>10 DEF ConfigComplete, ServeRequest
<1>11. CASE RadioIrq
  BY <1>5, <1>8, <1>11 DEF RadioIrq, Enter
<1>12. CASE DmaIrq
  BY <1>8, <1>12 DEF DmaIrq, Enter
<1>13. CASE Connect \/ Close \/ ClearRegisters
  BY <1>5, <1>6, <1>9, <1>13 DEF Connect, Close, ClearRegisters
<1> QED
  BY <1>10, <1>11, <1>12, <1>13

LEMMA ExactStep ==
  ASSUME NodeInv, Exact, [Next]_vars
  PROVE  Exact'
<1>1. PhyTypes /\ Machine /\ cfg' = cfg
  BY CfgSame DEF NodeInv, NodeTypes
<1>2. CASE UNCHANGED <<phy, frame, radio>>
  BY <1>1, <1>2 DEF Exact, RadioExact, HeaderDue, Replies
<1>3. CASE Phy
  <2>1. Runs
    BY <1>1, <1>3, MovesRun DEF Moves
  <2> QED
    BY <1>1, <1>3, <2>1, ExactPhy DEF Phy
<1>4. CASE Hardware
  <2>1. Runs
    BY <1>1, <1>4, MovesRun DEF Moves
  <2> QED
    BY <1>1, <1>4, <2>1, ExactHardware DEF Hardware, Apart
<1>5. CASE Mac
  <2>1. Outcome \/ Idle \/ Connected \/ NextSlot => UNCHANGED <<phy, frame, radio>>
    BY DEF Outcome, Idle, Connected, NextSlot
  <2> QED
    BY <1>1, <1>2, <1>5, <2>1, ExactPrepareFrame, ExactCalls, Zenon DEF Mac
<1>6. CASE RadioIrq \/ DmaIrq
  BY <1>1, <1>6, ExactCalls
<1>7. CASE Handler
  <2>1. UNCHANGED <<phy, frame, radio>>
    BY <1>7 DEF Handler, HandlerStart, RunCallback, ClearEvent, Dequeue, HandlerEnd, phyVars
  <2> QED
    BY <1>2, <2>1
<1>8. CASE App
  <2>1. Disconnect \/ BusSeenFree \/ PollEnds \/ Request => UNCHANGED <<phy, frame, radio>>
    BY DEF Disconnect, BusSeenFree, PollEnds, Request, phyVars
  <2> QED
    BY <1>1, <1>2, <1>8, <2>1, ExactCalls DEF App
<1>9. CASE UNCHANGED vars
  <2>1. UNCHANGED <<phy, frame, radio>>
    BY <1>9 DEF vars, phyVars
  <2> QED
    BY <1>2, <2>1
<1> QED
  BY <1>3, <1>4, <1>5, <1>6, <1>7, <1>8, <1>9 DEF Next

LEMMA ExactInit ==
  ASSUME Init
  PROVE  Exact
<1>1. frame.exact = cfg.exact /\ phy.todo = <<"prepare_phy">> /\ phy.next = <<>> /\ phy.main = "YIELD" /\ radio = Off
  BY FunctionsAre DEF Init, PhyInit
<1>2. ~Heading(<<"prepare_phy">>) /\ ~Heading(<<>>)
  BY HeadingShort DEF Headers
<1>3. ~HeaderDue
  BY <1>1, <1>2 DEF HeaderDue
<1>4. RadioExact
  BY <1>1 DEF RadioExact, Off
<1> QED
  BY <1>1, <1>3, <1>4 DEF Exact

\* A frame received is taken out of the queue by the outcome of a slot only
\* if the signal of a frame sent was raised for it.
LEMMA ResultGrows ==
  ASSUME NEW s \in Slots, NEW new, rxq[s] \in 0 .. RxSize, phy.main = "SENT_ACK" => frame.tx
  PROVE  Result(s, new).rx >= rxq[s]
<1>1. rxq[s] \in Int
  OBVIOUS
<1>2. Result(s, new).rx \in {rxq[s], rxq[s] + 1}
  BY DEF Result
<1> QED
  BY <1>1, <1>2

\* Where the events of a frame are read before the reply to it has gone, only
\* the application takes frames out of a receive queue: process_tx_main, which
\* takes one out for every frame sent, is not run for a frame received.
THEOREM NodeFramesForReader == Spec => FramesForReader
<1>1. Init => Exact
  BY ExactInit
<1>2. NodeInv /\ Exact /\ [Next]_vars => Exact'
  BY ExactStep
<1>3. NodeInv /\ Exact /\ [Next]_vars =>
        [cfg.exact => \A s \in Slots : rxq'[s] < rxq[s] => handler.pc = "run"]_vars
  <2> SUFFICES ASSUME NodeInv, Exact, [Next]_vars, cfg.exact, NEW s \in Slots, handler.pc # "run"
               PROVE  ~(rxq'[s] < rxq[s])
    OBVIOUS
  <2>1. rxq \in [Slots -> 0 .. RxSize] /\ RxSize \in Nat /\ rxq[s] \in 0 .. RxSize
    BY NodeAssumption DEF NodeInv, NodeTypes, QueueTypes
  <2>2. CASE Outcome
    <3>1. phy.main = "SENT_ACK" => frame.tx
      BY DEF Exact
    <3>2. mac.slot \in Slots
      BY MacFields DEF NodeInv, NodeTypes, MacTypes
    <3>3. PICK new \in {FALSE, phy.payload} : rxq' = [rxq EXCEPT ![mac.slot] = Result(mac.slot, new).rx]
      BY <2>2 DEF Outcome
    <3>4. rxq[mac.slot] \in 0 .. RxSize
      BY <2>1, <3>2
    <3>5. Result(mac.slot, new).rx >= rxq[mac.slot]
      BY <3>1, <3>2, <3>4, ResultGrows
    <3>6. rxq'[s] = IF s = mac.slot THEN Result(mac.slot, new).rx ELSE rxq[s]
      BY <2>1, <3>3
    <3>7. rxq[s] \in Int
      BY <2>1
    <3>8. CASE s = mac.slot
      <4>1. Result(mac.slot, new).rx \in {rxq[mac.slot], rxq[mac.slot] + 1}
        BY <3>1 DEF Result
      <4> QED
        BY <3>6, <3>7, <3>8, <4>1
    <3>9. CASE s # mac.slot
      BY <3>6, <3>7, <3>9
    <3> QED
      BY <3>8, <3>9
  <2>3. CASE rxq' = rxq
    BY <2>1, <2>3
  <2>4. CASE Mac /\ ~Outcome
    BY <2>3, <2>4 DEF Mac, Idle, Connected, ConfigComplete, NextSlot, PrepareFrame, macVars
  <2>5. CASE Phy \/ Hardware \/ RadioIrq \/ DmaIrq
    BY <2>3, <2>5 DEF Phy, Hardware, Apart, RadioIrq, DmaIrq, macVars
  <2>6. CASE Handler
    BY <2>3, <2>6 DEF Handler, HandlerStart, RunCallback, ClearEvent, Dequeue, HandlerEnd, macVars
  <2>7. CASE App
    BY <2>3, <2>7 DEF App, Connect, Disconnect, BusSeenFree, Close, PollEnds, Request, ClearRegisters, macVars
  <2>8. CASE UNCHANGED vars
    BY <2>3, <2>8 DEF vars, macVars
  <2> QED
    BY <2>2, <2>4, <2>5, <2>6, <2>7, <2>8 DEF Next
<1> QED
  BY <1>1, <1>2, <1>3, NodeInvHolds, PTL DEF Spec, FramesForReader
=============================================================================
