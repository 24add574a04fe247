------------------------------- MODULE Pairing -------------------------------
(***************************************************************************)
(* Pairing of a coordinator with the nodes of its network                  *)
(* (src/core/wireless/pairing).  At each end a loop runs the function of   *)
(* the current state, while the callbacks of the wireless core store the   *)
(* message received and move the state when a message is acknowledged.     *)
(* Pairing has three stages: authentication, identification, addressing.   *)
(* In each one end asks and the other answers.                             *)
(*                                                                         *)
(* The link below carries one message per direction at a time and          *)
(* transmits it until it is acknowledged (WpsLink).                        *)
(*                                                                         *)
(* A definition named Bug... is not part of the model: it is the one below *)
(* it with a plausible slip, kept to show that a property notices.         *)
(***************************************************************************)
EXTENDS Integers, FiniteSets

CONSTANTS
  Settings,     \* how the two ends are used
  Coord, Devices,
  Role,         \* device_role of each device
  Generated,    \* the address generated from the unique identifier of each end
  MaxAddress,   \* addresses are 1 .. MaxAddress, 254 in the code
  ListSize,     \* discovery_list_size
  MaxStarts,    \* bound: pairings each end starts
  None

Ends == Devices \cup {Coord}
Address == 1 .. MaxAddress

SettingsType ==
  [exact : BOOLEAN,   \* the link loses no acknowledged message and repeats none
   prompt : BOOLEAN,  \* a message is read before the next one arrives, and the
                      \* delay at the exit is enough to acknowledge the last
   atomic : BOOLEAN,  \* no callback comes in the middle of a state function
   compatible : SUBSET Devices,  \* devices with the application code of Coord
   stops : SUBSET Ends]  \* whose time runs out, whose application aborts and
                         \* starts again

ASSUME PairingAssumption ==
  /\ Settings \subseteq SettingsType
  \* bound: a callback in the middle of a state function where nothing stops the
  \* ends, so that what comes between to an end that answers is a repetition
  /\ \A s \in Settings : s.atomic \/ s.stops = {}
  /\ Coord \notin Devices
  /\ Role \in [Devices -> Nat \ {0}]
  /\ MaxAddress \in Nat
  /\ Generated \in [Ends -> Address]
  /\ ListSize \in Nat /\ ListSize >= 2
  /\ IsFiniteSet(Devices) /\ ListSize < MaxAddress
  /\ MaxStarts \in [Ends -> Nat]

VARIABLES
  cfg,      \* the setting
  end,      \* the loop and the static variables of each end
  out,      \* the message each end has in its transmit queue
  list,     \* the discovery list of the coordinator: an address for each role
  adopted   \* history: the address a device took, and in which pairing of the coordinator

vars == <<cfg, end, out, list, adopted>>

Stages == {"authentication", "identification", "addressing"}

\* pairing_authentication_action_t and its like; any other byte is neither.
NoAction == 0
Success == 1
Fail == 2

-----------------------------------------------------------------------------
(* The states: a stage, and in it sending, waiting for the acknowledgement, *)
(* waiting for a message, acting on it.                                     *)

\* Whether e sends the first message of the stage and the other end answers.
Asks(e, stage) == (e = Coord) <=> (stage # "identification")

FirstPart(e, stage) == IF Asks(e, stage) THEN "send" ELSE "wait"

BugAfterAck(e, stage) == "wait"

\* sent_message_coordinator_callback, sent_message_node_callback
AfterAck(e, stage) == IF Asks(e, stage) THEN "wait" ELSE "action"

AfterMessage(e, stage) == IF Asks(e, stage) THEN "action" ELSE "send"

NextStage(stage) ==
  IF stage = "authentication" THEN "identification" ELSE "addressing"

Peers(e) == IF e = Coord THEN Devices ELSE {Coord}

Running(e) == end[e].pc # "off"
Linked(e) == Running(e) /\ end[e].stage # "enter"

-----------------------------------------------------------------------------
(* Addresses *)

Taken(l) == {l[i] : i \in DOMAIN l}

BugAvailable(l, wanted) ==
  CHOOSE address \in wanted .. wanted + Cardinality(Taken(l)) :
    address \notin Taken(l) /\ \A other \in wanted .. address - 1 : other \in Taken(l)

\* pairing_address_get_available_node_id: the first address free in the list
\* from the generated one on, round from the last to 1.
Available(l, wanted) ==
  LET After(k) == IF wanted + k > MaxAddress THEN wanted + k - MaxAddress ELSE wanted + k
      free == {k \in 0 .. MaxAddress - 1 : After(k) \notin Taken(l)}
  IN After(CHOOSE k \in free : \A j \in free : k <= j)

BugAddToList(l, role, address) == l

\* pairing_address_add_node_to_device_discovery_list
AddToList(l, role, address) == IF role < ListSize THEN [l EXCEPT ![role] = address] ELSE l

-----------------------------------------------------------------------------
(* Messages: the command is the stage and whether it asks; byte is the one  *)
(* after the command, in whatever message it is read; pairing is history.   *)

MessageType ==
  [stage : Stages, asks : BOOLEAN, from : Ends, address : 0 .. MaxAddress, pairing : Nat, byte : Nat]

CommandType == [stage : Stages, asks : BOOLEAN]

ASSUME NoneAssumption == None \notin MessageType \cup CommandType

Message(e) ==
  LET stage == end[e].stage
  IN [stage |-> stage, asks |-> Asks(e, stage), from |-> e, address |-> end[e].address,
      pairing |-> end[e].starts,
      byte |-> CASE ~Asks(e, stage) -> end[e].action
                 [] Asks(e, stage) /\ e # Coord -> Role[e]
                 [] OTHER -> Fail + 1]

-----------------------------------------------------------------------------
(* One pass of the loop in pairing_process *)

\* The rest of the pass when the state function has left e as record: the
\* timeout is looked at, then the condition of the loop.
EndPass(e, record, late) ==
  LET event == IF late THEN "timeout" ELSE record.event
  IN [end EXCEPT ![e] = [record EXCEPT !.event = event,
                                       !.pc = IF event = "none" THEN "execute" ELSE "leave"]]

\* enter_pairing: the callbacks are set and the core connects.
Enter(e, late) ==
  /\ end[e].pc = "execute" /\ end[e].stage = "enter"
  /\ end' = EndPass(e, [end[e] EXCEPT !.stage = "authentication",
                                      !.part = FirstPart(e, "authentication")], late)
  /\ list' = IF e = Coord THEN AddToList(list, 0, Generated[Coord]) ELSE list
  /\ UNCHANGED <<cfg, out, adopted>>

BugSend(e, late) ==
  /\ end[e].pc = "execute" /\ end[e].part = "send"
  /\ out' = [out EXCEPT ![e] = [message |-> Message(e), delivered |-> FALSE]]
  /\ end' = EndPass(e, [end[e] EXCEPT !.part = AfterAck(e, end[e].stage)], late)
  /\ UNCHANGED <<cfg, list, adopted>>

\* The message is queued, and only then does the state become the one in
\* which the acknowledgement is expected.
Send(e, late) ==
  /\ end[e].pc = "execute" /\ end[e].part = "send"
  /\ out' = [out EXCEPT ![e] = [message |-> Message(e), delivered |-> FALSE]]
  /\ end' = IF cfg.atomic THEN EndPass(e, [end[e] EXCEPT !.part = "ack"], late)
                          ELSE [end EXCEPT ![e].pc = "sent"]
  /\ UNCHANGED <<cfg, list, adopted>>

Sent(e, late) ==
  /\ end[e].pc = "sent"
  /\ end' = EndPass(e, [end[e] EXCEPT !.part = "ack"], late)
  /\ UNCHANGED <<cfg, out, list, adopted>>

BugExpected(e) == end[e].command # None

\* The command e waits for has come.
Expected(e) ==
  /\ end[e].command # None
  /\ end[e].command.stage = end[e].stage
  /\ end[e].command.asks # Asks(e, end[e].stage)

\* What e does with the message it copies: remember the action of an answer,
\* or decide the action to answer with.  A payload without its command is not
\* read again before the next message, so it is forgotten.
Handle(e, command, late) ==
  LET stage == end[e].stage
      message == end[e].payload
      Read(action, address) ==
        EndPass(e, [end[e] EXCEPT !.part = AfterMessage(e, stage), !.command = command,
                                  !.payload = IF command = None THEN None ELSE @,
                                  !.action = action, !.address = address], late)
      available == Available(list, Generated[message.from])
  IN CASE Asks(e, stage) ->
            /\ end' = Read(message.byte, end[e].address)
            /\ UNCHANGED <<list, adopted>>
       [] ~Asks(e, stage) /\ stage = "authentication" ->
            /\ end' = Read(IF e \in cfg.compatible THEN Success ELSE Fail, end[e].address)
            /\ UNCHANGED <<list, adopted>>
       [] ~Asks(e, stage) /\ stage = "identification" ->
            /\ end' = Read(Success, available)
            /\ list' = AddToList(list, Role[message.from], available)
            /\ UNCHANGED adopted
       [] OTHER ->
            /\ end' = Read(Success, message.address)
            /\ adopted' = [adopted EXCEPT ![e] = [address |-> message.address,
                                                  pairing |-> message.pairing]]
            /\ UNCHANGED list

\* The command is looked at, then cleared, and the message is copied last.
Receive(e, late) ==
  /\ end[e].pc = "execute" /\ end[e].part = "wait" /\ Expected(e)
  /\ IF cfg.atomic THEN Handle(e, None, late)
     ELSE end' = [end EXCEPT ![e].pc = "expected"] /\ UNCHANGED <<list, adopted>>
  /\ UNCHANGED <<cfg, out>>

Clear(e) ==
  /\ end[e].pc = "expected"
  /\ end' = [end EXCEPT ![e].pc = "cleared", ![e].command = None]
  /\ UNCHANGED <<cfg, out, list, adopted>>

\* A message may have come between: its bytes are copied, and its command
\* stays if it came after the command was cleared.
Copy(e, late) ==
  /\ end[e].pc = "cleared"
  /\ Handle(e, end[e].command, late)
  /\ UNCHANGED <<cfg, out>>

\* The action of the stage.  A failed identification leaves without an event;
\* an action that is neither leaves the state as it is.
Act(e, late) ==
  /\ end[e].pc = "execute" /\ end[e].part = "action"
  /\ LET stage == end[e].stage
         done == [end[e] EXCEPT !.action = NoAction]
         Exit(event) == [done EXCEPT !.stage = "exit", !.part = "none", !.event = event]
         Advance == [done EXCEPT !.stage = NextStage(stage), !.part = FirstPart(e, NextStage(stage))]
         record == CASE end[e].action = Success /\ stage = "addressing" -> Exit("success")
                     [] end[e].action = Success /\ stage # "addressing" -> Advance
                     [] end[e].action = Fail /\ stage = "authentication" -> Exit("invalid_app_code")
                     [] end[e].action = Fail /\ stage = "identification" -> Exit(end[e].event)
                     [] OTHER -> done
     IN end' = EndPass(e, record, late)
  /\ UNCHANGED <<cfg, out, list, adopted>>

\* A state function that only returns.
Idle(e, late) ==
  /\ end[e].pc = "execute"
  /\ \/ end[e].part = "ack" \/ end[e].stage = "exit"
     \/ end[e].part = "wait" /\ ~Expected(e)
  /\ end' = EndPass(e, end[e], late)
  /\ UNCHANGED <<cfg, out, list, adopted>>

\* pairing_abort, from a callback of the application or an interrupt.
Abort(e) ==
  /\ e \in cfg.stops /\ Running(e)
  /\ end' = [end EXCEPT ![e].event = "abort"]
  /\ UNCHANGED <<cfg, out, list, adopted>>

\* pairing_deinit: a delay for the last acknowledgements, then the core
\* disconnects.  The static variables keep their values; the state is set
\* again before it is read.
Leave(e) ==
  /\ end[e].pc = "leave"
  /\ cfg.prompt => \A f \in Peers(e) : out[f] # None => ~out[f].delivered
  /\ end' = [end EXCEPT ![e].pc = "off", ![e].stage = "enter", ![e].part = "none"]
  /\ out' = [d \in Ends |-> IF d = e THEN None
                            ELSE IF out[d] = None THEN None
                            ELSE [out[d] EXCEPT !.delivered = FALSE]]
  /\ UNCHANGED <<cfg, list, adopted>>

\* pairing_coordinator_start, pairing_node_start.  One node pairs at a time.
Start(e) ==
  /\ ~Running(e) /\ end[e].starts < MaxStarts[e]
  /\ end[e].starts = 0 \/ e \in cfg.stops
  /\ e \in Devices => \A d \in Devices : ~Running(d)
  /\ end' = [end EXCEPT ![e].pc = "execute", ![e].event = "none", ![e].address = 0,
                        ![e].starts = @ + 1]
  /\ UNCHANGED <<cfg, out, list, adopted>>

-----------------------------------------------------------------------------
(* The callbacks of the wireless core, over the link *)

Communicate(e, f) == out[e] # None /\ f \in Peers(e) /\ Linked(e) /\ Linked(f)

\* received_message_coordinator_callback, received_message_node_callback
Deliver(e, f) ==
  /\ Communicate(e, f)
  /\ out[e].delivered => ~cfg.exact
  /\ cfg.prompt => end[f].command = None
  /\ end' = [end EXCEPT ![f].command = [stage |-> out[e].message.stage, asks |-> out[e].message.asks],
                        ![f].payload = out[e].message]
  /\ out' = [out EXCEPT ![e].delivered = cfg.exact]
  /\ UNCHANGED <<cfg, list, adopted>>

\* The message is acknowledged.  Over a link with automatic synchronisation
\* it may have been taken for a repetition and discarded (WpsLink).
Acknowledge(e, f) ==
  /\ Communicate(e, f)
  /\ cfg.exact => out[e].delivered
  /\ out' = [out EXCEPT ![e] = None]
  /\ end' = IF end[e].part = "ack" THEN [end EXCEPT ![e].part = AfterAck(e, end[e].stage)] ELSE end
  /\ UNCHANGED <<cfg, list, adopted>>

-----------------------------------------------------------------------------
Init ==
  /\ cfg \in Settings
  /\ end = [e \in Ends |->
              [pc |-> "off", stage |-> "enter", part |-> "none", command |-> None, payload |-> None,
               action |-> NoAction, event |-> "none", address |-> 0, starts |-> 0]]
  /\ out = [e \in Ends |-> None]
  /\ list = [role \in 0 .. ListSize - 1 |-> 0]
  /\ adopted = [d \in Devices |-> [address |-> 0, pairing |-> 0]]

Pass(e) ==
  \E late \in BOOLEAN :
    /\ late => e \in cfg.stops
    /\ \/ Enter(e, late) \/ Send(e, late) \/ Sent(e, late) \/ Receive(e, late)
       \/ Clear(e) \/ Copy(e, late) \/ Act(e, late) \/ Idle(e, late)

Next ==
  \/ \E e \in Ends : Pass(e) \/ Abort(e) \/ Leave(e) \/ Start(e)
  \/ \E e, f \in Ends : Deliver(e, f) \/ Acknowledge(e, f)

Spec == Init /\ [][Next]_vars

\* The loops run, the applications start them, and the link makes progress.
Fairness ==
  /\ \A e \in Ends : WF_vars(Pass(e)) /\ WF_vars(Start(e)) /\ WF_vars(Leave(e))
  /\ \A e, f \in Ends : WF_vars(Deliver(e, f)) /\ WF_vars(Acknowledge(e, f))

FairSpec == Spec /\ Fairness

-----------------------------------------------------------------------------
(* Properties *)

Events == {"none", "success", "timeout", "invalid_app_code", "abort"}

EndType ==
  [pc : {"off", "execute", "sent", "expected", "cleared", "leave"},
   stage : Stages \cup {"enter", "exit"},
   part : {"none", "send", "ack", "wait", "action"},
   command : CommandType \cup {None},
   payload : MessageType \cup {None},
   action : Nat, event : Events, address : 0 .. MaxAddress, starts : Nat]

(* Every variable has its type. *)
TypeOK ==
  /\ cfg \in Settings
  /\ end \in [Ends -> EndType]
  /\ out \in [Ends -> [message : MessageType, delivered : BOOLEAN] \cup {None}]
  /\ list \in [0 .. ListSize - 1 -> 0 .. MaxAddress]
  /\ adopted \in [Devices -> [address : 0 .. MaxAddress, pairing : Nat]]

Succeeded(e) == end[e].event = "success"

\* d took its address from a message of the last pairing the coordinator started.
InThisPairing(d) == adopted[d].pairing = end[Coord].starts

(* The coordinator reports success only when a device with its application     *)
(* code took the address it assigned, in this very pairing, whatever an        *)
(* earlier one left behind.                                                    *)
CoordinatorSuccess ==
  Succeeded(Coord) =>
    \E d \in cfg.compatible : InThisPairing(d) /\ adopted[d].address = end[Coord].address

(* While no device pairs a second time, the discovery list says the address of *)
(* every device that paired with success and has a role of its own in it, so   *)
(* those addresses differ from each other and from the coordinator's, also     *)
(* after pairings that the coordinator aborted or that timed out.  (A device   *)
(* that pairs again may answer a message left from before, join the pairing of *)
(* another device and take the address listed for that one.)                   *)
UniqueAddresses ==
  LET listed == {d \in Devices : /\ Succeeded(d) /\ Role[d] < ListSize
                                 /\ \A f \in Devices : Role[f] = Role[d] => f = d}
  IN (\A d \in Devices : end[d].starts <= 1) =>
       /\ \A d \in listed : list[Role[d]] = end[d].address /\ end[d].address # Generated[Coord]
       /\ \A d1, d2 \in listed : d1 # d2 => end[d1].address # end[d2].address

(* Over a link that loses nothing, and while no device pairs a second time, a  *)
(* node does not report success alone: the coordinator of the same pairing has *)
(* the response of the node, has acted on it, or was stopped.  (A device that  *)
(* pairs again may answer a message left from before, and so overwrite the     *)
(* response of another one in the coordinator's mailbox.)                      *)
NodeNeverAlone ==
  \A d \in Devices :
    /\ cfg.exact /\ \A f \in Devices : end[f].starts <= 1
    /\ Succeeded(d) /\ InThisPairing(d)
    =>
      \/ end[Coord].event # "none"
      \/ end[Coord].pc \in {"expected", "cleared"}
      \/ /\ end[Coord].command # None
         /\ end[Coord].command.stage = "addressing"
      \/ end[Coord].stage = "addressing" /\ end[Coord].part = "action"

(* A device whose application code differs is the only cause of                *)
(* PAIRING_EVENT_INVALID_APP_CODE at the coordinator, while the loop reads a   *)
(* message undisturbed.                                                        *)
InvalidMeansDifferent ==
  cfg.atomic /\ end[Coord].event = "invalid_app_code" =>
    \E d \in Devices \ cfg.compatible : end[d].starts > 0

(* When nothing stops the ends, messages are read in time, and every device    *)
(* has the application code, a coordinator and the first device to pair report *)
(* success.                                                                    *)
PairingCompletes ==
  cfg.exact /\ cfg.prompt /\ cfg.atomic /\ cfg.stops = {} /\ cfg.compatible = Devices
    => <>(Succeeded(Coord) /\ \E d \in Devices : Succeeded(d))
=============================================================================
