------------------------------- MODULE WpsPhy -------------------------------
(***************************************************************************)
(* The physical layer of a node with one radio                             *)
(* (src/core/wireless/protocol_stack/sr1100/wps_phy_common.c and           *)
(* single_radio/wps_phy.c): a machine driven by two interrupts, the pin of *)
(* the radio and the end of an SPI transfer.                               *)
(*                                                                         *)
(* The machine holds lists of functions.  Each interrupt runs functions of *)
(* the current list, going on to the next list of a queue at its end,      *)
(* until one of them raises a signal.  A step below is one function, so    *)
(* that the radio and the DMA go on between any two.  An interrupt is      *)
(* never interrupted by the other (they have one priority).                *)
(*                                                                         *)
(* Replies to a frame carry a header at most; the signal of the reply,     *)
(* which then decides nothing in the MAC layer, is left out.               *)
(*                                                                         *)
(* A definition named Bug... is not part of the model: it is the one below *)
(* it with a plausible slip, kept to show that a property notices.         *)
(***************************************************************************)
EXTENDS Integers, Sequences

CONSTANTS QueueSize  \* PHY_STATE_Q_SIZE

ASSUME QueueAssumption == QueueSize \in Nat \ {0}

VARIABLES
  cpu,    \* who runs: the application, or which part of an interrupt
  phy,    \* wps_phy_t
  frame,  \* what the MAC layer prepared
  spi,    \* the transfer in progress
  dma,    \* the interrupt at the end of a transfer
  irq,    \* the interrupt of the radio pin
  radio   \* the radio

phyVars == <<cpu, phy, frame, spi, dma, irq, radio>>

\* The lists, without the end() that closes each.
Functions ==
  [prepare_phy |-> <<"prepare_phy">>,
   set_config |-> <<"set_config", "close_spi">>,
   set_header |-> <<"close_spi", "set_header">>,
   set_payload |-> <<"set_payload">>,
   set_header_with_payload |-> <<"close_spi", "set_header_and_payload">>,
   wait_radio_tx |-> <<"close_spi", "enable_radio_irq", "read_events", "close_spi", "process_event_tx">>,
   wait_radio_rx |-> <<"close_spi", "enable_radio_irq", "read_events", "close_spi", "process_event_rx">>,
   handle_good_frame |-> <<"close_spi", "handle_good_frame">>,
   handle_good_frame_auto |-> <<"close_spi", "handle_good_auto_reply">>,
   get_frame_header |-> <<"close_spi", "get_frame_header">>,
   get_auto_reply_header |-> <<"close_spi", "get_auto_reply_header">>,
   get_payload |-> <<"get_payload">>,
   new_frame |-> <<"close_spi">>,
   syncing |-> <<"prepare_syncing", "read_events_syncing", "close_spi", "process_event_rx">>,
   wait_to_send |-> <<"check_radio_irq">>,
   transfer_register |-> <<"transfer_register">>,
   overwrite_register |-> <<"overwrite_registers">>]

NeedDma ==
  {"set_payload", "set_header_and_payload", "enable_radio_irq", "process_event_tx",
   "process_event_rx", "get_frame_header", "get_auto_reply_header", "get_payload"}
NeedRadioIrq == {"read_events", "read_events_syncing"}

Outcomes == {"SENT_ACK", "SENT_NACK", "RECEIVED", "MISSED"}
Signals == Outcomes \cup {"CONNECT", "PROCESSING", "YIELD", "PREPARE_DONE", "CONFIG_COMPLETE", "ERROR"}
Transfers == {"config", "header", "payload_out", "joint", "events", "cir", "info", "header_in", "payload_in"}

\* main_is_tx; a reply of our own is sent in a slot where we receive (auto_is_tx).
Replies == frame.auto = "reply" /\ ~frame.tx

-----------------------------------------------------------------------------
(* Lists and queue *)

Enqueue(p, list) == [p EXCEPT !.next = Append(@, list)]

\* end: the raw queue gives whatever its front holds, also when it is empty.
End(p) ==
  IF p.todo # <<>> THEN p
  ELSE IF p.next = <<>> THEN [p EXCEPT !.todo = <<"stale">>]
  ELSE [p EXCEPT !.todo = Functions[Head(p.next)], !.next = Tail(@)]

\* phy_connect: the queue is emptied, a frame is prepared first.
PhyReset(p) ==
  [p EXCEPT !.todo = Functions.prepare_phy, !.next = <<>>, !.main = "CONNECT",
            !.write = FALSE, !.read = FALSE, !.overwrite = FALSE]

\* Function f is the one to run.
Called(f) ==
  /\ cpu \in {"process", "prepare"}
  /\ Head(phy.todo) = f

\* The function called leaves the machine as p.  phy_process goes on while it
\* raised no signal; phy_handle follows, but not in prepare_frame.
Leaves(p) ==
  /\ phy' = End([p EXCEPT !.todo = Tail(phy.todo)])
  /\ cpu' = IF p.main = "PROCESSING" THEN cpu ELSE IF cpu = "process" THEN "handle" ELSE "app"

Raise(p, signal) == [p EXCEPT !.main = signal]

\* The frame is over: the machine prepares the next.
Over(signal, outcome) ==
  Enqueue([phy EXCEPT !.main = signal, !.outcome = outcome], "prepare_phy")

Transfer(kind) == spi' = IF spi = "idle" THEN kind ELSE "clash"

\* The radio at rest, and what was last read of it forgotten.
Off == [armed |-> FALSE, event |-> "none", pin |-> FALSE, reply |-> "none", await |-> FALSE,
        read |-> "none", readReply |-> FALSE]

Enabled(i) == [i EXCEPT !.enabled = TRUE]
Disabled == [enabled |-> FALSE, pending |-> FALSE]

-----------------------------------------------------------------------------
(* Preparation of a frame *)

SendStates ==
  CASE frame.content = "joint" -> <<"set_header_with_payload">>
    [] frame.content = "split" -> <<"set_header", "set_payload">>
    [] OTHER -> <<>>

prepare_phy ==
  /\ Called("prepare_phy")
  /\ Leaves(IF phy.input = "SYNCING" THEN Enqueue(phy, "syncing")
            ELSE [phy EXCEPT !.next = @ \o <<"set_config">>
                                         \o (IF phy.overwrite THEN <<"overwrite_register">> ELSE <<>>)
                                         \o SendStates
                                         \o <<IF frame.tx THEN "wait_radio_tx" ELSE "wait_radio_rx">>])
  /\ UNCHANGED <<frame, spi, dma, irq, radio>>

set_config ==
  /\ Called("set_config")
  /\ Leaves(Raise(phy, "PREPARE_DONE"))
  /\ Transfer("config")
  /\ UNCHANGED <<frame, dma, irq, radio>>

\* close_spi, the first time: not this interrupt, so it stays the function to run.
close_spi_early ==
  /\ Called("close_spi") /\ phy.input # "DMA_CMPLT"
  /\ phy' = Raise(phy, "YIELD")
  /\ cpu' = IF cpu = "process" THEN "handle" ELSE "app"
  /\ UNCHANGED <<frame, spi, dma, irq, radio>>

close_spi ==
  /\ Called("close_spi") /\ phy.input = "DMA_CMPLT"
  /\ Leaves(phy)
  /\ UNCHANGED <<frame, spi, dma, irq, radio>>

BugIrqWhileFilling == irq

\* set_header and set_header_and_payload first disable the interrupt of the radio.
IrqWhileFilling == Disabled

\* The transfers that fill the radio.
fill ==
  /\ \/ Called("set_header") /\ Transfer("header") /\ irq' = IrqWhileFilling
     \/ Called("set_header_and_payload") /\ Transfer("joint") /\ irq' = IrqWhileFilling
     \/ Called("set_payload") /\ Transfer("payload_out") /\ UNCHANGED irq
  /\ Leaves(Raise(phy, "YIELD"))
  /\ UNCHANGED <<frame, dma, radio>>

BugEnabledAgain == Enabled(irq)

\* An edge missed while the interrupt was disabled is made up for.
EnabledAgain == [enabled |-> TRUE, pending |-> irq.pending \/ radio.pin]

enable_radio_irq ==
  /\ Called("enable_radio_irq")
  /\ Leaves(Raise(phy, "CONFIG_COMPLETE"))
  /\ irq' = EnabledAgain
  /\ UNCHANGED <<frame, spi, dma, radio>>

prepare_syncing ==
  /\ Called("prepare_syncing")
  /\ Leaves(Raise(phy, "YIELD"))
  /\ irq' = Enabled(irq)
  /\ radio' = [Off EXCEPT !.armed = TRUE, !.pin = radio.pin]
  /\ UNCHANGED <<frame, spi, dma>>

-----------------------------------------------------------------------------
(* Events of the radio *)

read_events ==
  /\ Called("read_events") \/ Called("read_events_syncing")
  /\ Leaves(Raise(phy, "YIELD"))
  /\ Transfer("events")
  /\ UNCHANGED <<frame, dma, irq, radio>>

\* handle_good_auto_reply
GoodReply ==
  /\ Leaves(Enqueue(Raise([phy EXCEPT !.outcome = "SENT_ACK"], "YIELD"), "get_auto_reply_header"))
  /\ Transfer("info")

ReadCir(list, outcome) ==
  /\ Leaves(Enqueue(Raise([phy EXCEPT !.outcome = outcome], "YIELD"), list))
  /\ Transfer("cir")

process_event_tx ==
  /\ Called("process_event_tx")
  /\ CASE radio.read \in {"cca", "lost", "sent"} -> Leaves(Over("SENT_NACK", "SENT_ACK_LOST")) /\ UNCHANGED spi
       [] radio.read = "rejected" -> Leaves(Over("SENT_NACK", "SENT_ACK_REJECTED")) /\ UNCHANGED spi
       [] radio.read = "wakeup" -> Leaves(Over("SENT_NACK", "WAIT")) /\ UNCHANGED spi
       [] radio.read = "good" /\ frame.phase -> ReadCir("handle_good_frame_auto", "SENT_ACK")
       [] radio.read = "good" /\ ~frame.phase -> GoodReply
       [] OTHER -> Leaves(phy) /\ UNCHANGED spi
  /\ UNCHANGED <<frame, dma, irq, radio>>

BugWaits == ~radio.readReply /\ frame.content # "none"

\* The reply to the frame is still being sent.
Waits == ~radio.readReply

\* handle_good_frame: when a reply goes out, its end is awaited with the
\* interrupt disabled.
GoodFrame ==
  LET waiting == Replies /\ radio.read # "broadcast"
  IN /\ Leaves(Enqueue(Raise([phy EXCEPT !.outcome = "RECEIVED",
                                         !.wait = IF waiting THEN Waits ELSE @], "YIELD"),
                       "get_frame_header"))
     /\ Transfer("info")
     /\ IF waiting /\ Waits
        THEN /\ irq' = Disabled
             /\ radio' = [radio EXCEPT !.await = TRUE, !.pin = @ \/ radio.reply = "sent"]
        ELSE UNCHANGED <<irq, radio>>

process_event_rx ==
  /\ Called("process_event_rx")
  /\ CASE radio.read \in {"good", "broadcast"} /\ frame.phase ->
            ReadCir("handle_good_frame", "RECEIVED") /\ UNCHANGED <<irq, radio>>
       [] radio.read \in {"good", "broadcast"} /\ ~frame.phase -> GoodFrame
       [] radio.read = "lost" ->
            /\ Leaves(Over("MISSED", "LOST"))
            /\ irq' \in {irq, Disabled}  \* the receiver was still on
            /\ UNCHANGED <<spi, radio>>
       [] radio.read = "rejected" -> Leaves(Over("MISSED", "REJECTED")) /\ UNCHANGED <<spi, irq, radio>>
       [] OTHER -> Leaves(phy) /\ UNCHANGED <<spi, irq, radio>>
  /\ UNCHANGED <<frame, dma>>

handle_good_frame ==
  /\ Called("handle_good_frame")
  /\ GoodFrame
  /\ UNCHANGED <<frame, dma>>

handle_good_auto_reply ==
  /\ Called("handle_good_auto_reply")
  /\ GoodReply
  /\ UNCHANGED <<frame, dma, irq, radio>>

BugHeaderRead(payload) ==
  Enqueue([phy EXCEPT !.main = "YIELD", !.payload = payload], "get_payload")

\* The sizes are good: the header is read, then the payload if there is one.
HeaderRead(payload) ==
  Enqueue(Enqueue([phy EXCEPT !.main = "YIELD", !.payload = payload], "get_payload"), "prepare_phy")

get_frame_header ==
  /\ Called("get_frame_header")
  /\ \/ Leaves(Over("MISSED", phy.outcome)) /\ UNCHANGED spi  \* a size is not one expected
     \/ \E payload \in BOOLEAN : Leaves(HeaderRead(payload)) /\ Transfer("header_in")
  /\ UNCHANGED <<frame, dma, irq, radio>>

get_auto_reply_header ==
  /\ Called("get_auto_reply_header")
  /\ \/ Leaves(Over("SENT_ACK", "SENT_ACK")) /\ UNCHANGED spi  \* an empty reply, or too long
     \/ frame.auto = "reply" /\ Leaves(Over("MISSED", "SENT_ACK")) /\ UNCHANGED spi  \* a header too long
     \/ frame.auto = "reply" /\ Leaves(HeaderRead(FALSE)) /\ Transfer("header_in")
  /\ UNCHANGED <<frame, dma, irq, radio>>

BugPayloadStates(p) == p

\* A payload in transfer is closed before anything else is done with the bus.
PayloadStates(p) == IF p.payload THEN Enqueue(p, "new_frame") ELSE p

get_payload ==
  /\ Called("get_payload")
  /\ Leaves(LET p == PayloadStates([phy EXCEPT !.main = IF frame.tx THEN @ ELSE "RECEIVED"])
            IN CASE frame.auto # "reply" -> p
                 [] Replies /\ phy.wait /\ radio.read # "broadcast" -> Enqueue(p, "wait_to_send")
                 [] OTHER -> Raise(p, "SENT_ACK"))
  /\ IF phy.payload THEN Transfer("payload_in") ELSE UNCHANGED spi
  /\ UNCHANGED <<frame, dma, irq, radio>>

check_radio_irq ==
  /\ Called("check_radio_irq")
  /\ Leaves(IF radio.pin THEN phy ELSE Raise(phy, "YIELD"))
  /\ irq' = Enabled(irq)
  /\ UNCHANGED <<frame, spi, dma, radio>>

-----------------------------------------------------------------------------
(* Registers *)

\* sr_access_is_spi_busy is polled; the functions never find it busy.
BusFree == spi = "idle"

\* The blocking transfers of a register; a write goes before a read.
transfer_register ==
  /\ Called("transfer_register")
  /\ BusFree
  /\ Leaves(IF phy.write THEN [phy EXCEPT !.write = FALSE] ELSE [phy EXCEPT !.read = FALSE])
  /\ spi' = IF spi = "idle" THEN spi ELSE "clash"
  /\ UNCHANGED <<frame, dma, irq, radio>>

overwrite_registers ==
  /\ Called("overwrite_registers")
  /\ Leaves(phy)
  /\ spi' = IF spi = "idle" THEN spi ELSE "clash"
  /\ UNCHANGED <<frame, dma, irq, radio>>

\* An interrupt the function to run does not take.
Refused ==
  /\ cpu \in {"process", "prepare"}
  /\ \/ Head(phy.todo) \in NeedDma /\ phy.input # "DMA_CMPLT"
     \/ Head(phy.todo) \in NeedRadioIrq /\ phy.input # "RADIO_IRQ"

Refuse ==
  /\ Leaves(Raise(phy, "ERROR"))
  /\ UNCHANGED <<frame, spi, dma, irq, radio>>

-----------------------------------------------------------------------------
(* The radio, the DMA and the interrupts *)

\* The radio raises its pin: an edge pends the interrupt if it is enabled.
Edge(r) ==
  /\ radio' = [r EXCEPT !.pin = TRUE]
  /\ irq' = [irq EXCEPT !.pending = @ \/ (irq.enabled /\ ~radio.pin)]

\* What may happen in the slot, from what the configuration enables.
Events ==
  CASE frame.tx /\ frame.content = "none" -> {"wakeup"}
    [] frame.tx /\ frame.content # "none" /\ frame.auto = "none" -> {"sent", "cca"}
    [] frame.tx /\ frame.content # "none" /\ frame.auto # "none" -> {"good", "lost", "rejected", "cca"}
    [] frame.sync -> {"good", "rejected"}
    [] OTHER -> {"good", "lost", "rejected"} \cup (IF frame.exact THEN {} ELSE {"broadcast"})

RadioEvent ==
  /\ radio.armed
  /\ \E event \in Events :
       Edge([radio EXCEPT !.armed = FALSE, !.event = event,
                          !.reply = IF event = "good" /\ Replies THEN "sending" ELSE "none"])
  /\ UNCHANGED <<cpu, phy, frame, spi, dma>>

\* The reply has gone out.  With exact timing, not before the events were read.
ReplyEnd ==
  /\ radio.reply = "sending"
  /\ frame.exact => radio.event = "none"
  /\ IF radio.await THEN Edge([radio EXCEPT !.reply = "sent"])
     ELSE radio' = [radio EXCEPT !.reply = "sent"] /\ UNCHANGED irq
  /\ UNCHANGED <<cpu, phy, frame, spi, dma>>

TransferDone ==
  /\ spi \in Transfers
  /\ spi' = "idle"
  /\ dma' = [dma EXCEPT !.pending = TRUE]
  /\ radio' = CASE spi = "config" -> [Off EXCEPT !.armed = TRUE]
                [] spi = "events" -> [radio EXCEPT !.event = "none", !.pin = FALSE, !.read = radio.event,
                                                   !.readReply = radio.reply = "sent"]
                [] OTHER -> radio
  /\ UNCHANGED <<cpu, phy, frame, irq>>

\* An interrupt enters wps_phy_process.
Enter(input) ==
  /\ phy' = [phy EXCEPT !.input = input, !.main = IF @ = "CONNECT" THEN @ ELSE "PROCESSING"]
  /\ cpu' = IF phy.main = "CONNECT" THEN "handle" ELSE "process"

Pending(interrupt) == interrupt.enabled /\ interrupt.pending

\* phy_abort_radio_events and phy_disconnect, once the bus is free.
Abort ==
  /\ irq' = Disabled
  /\ dma' = [dma EXCEPT !.enabled = FALSE]
  /\ radio' = Off

Function ==
  \/ prepare_phy \/ set_config \/ close_spi_early \/ close_spi \/ fill
  \/ enable_radio_irq \/ prepare_syncing \/ read_events
  \/ process_event_tx \/ process_event_rx \/ handle_good_frame \/ handle_good_auto_reply
  \/ get_frame_header \/ get_auto_reply_header \/ get_payload \/ check_radio_irq
  \/ transfer_register \/ overwrite_registers

PhyStep == IF Refused THEN Refuse ELSE Function

\* phy_init; nothing is enabled before the first connection.
PhyInit ==
  /\ cpu = "app"
  /\ phy = [todo |-> Functions.prepare_phy, next |-> <<>>, main |-> "YIELD", input |-> "PREPARE_RADIO",
            outcome |-> "WAIT", wait |-> FALSE, payload |-> FALSE,
            write |-> FALSE, read |-> FALSE, overwrite |-> FALSE]
  /\ spi = "idle"
  /\ dma = Disabled
  /\ irq = Disabled
  /\ radio = Off
=============================================================================
