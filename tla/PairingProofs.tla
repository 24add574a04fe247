---------------------------- MODULE PairingProofs ----------------------------
(***************************************************************************)
(* Proofs about Pairing, for every number of devices and of pairings: its  *)
(* types; that only a device with another application code is refused;     *)
(* and where no callback comes in the middle of a pass of the loop, with   *)
(* ends stopped at any time, that no success of the coordinator is false,  *)
(* none of a node is alone, and no address is given twice.                 *)
(* Step says, field by field, what a step does to an end; the invariants   *)
(* rest on it and on nothing else of the actions.                          *)
(***************************************************************************)
EXTENDS Pairing, SetInduction, FiniteSetTheorems, TLAPS

-----------------------------------------------------------------------------
(* Addresses *)

\* The list does not hold every address: it has fewer places than there are.
LEMMA AddressIsFree ==
  ASSUME PairingAssumption, NEW l, l \in [0 .. ListSize - 1 -> 0 .. MaxAddress]
  PROVE  \E address \in Address : address \notin Taken(l)
<1> SUFFICES ASSUME \A address \in Address : address \in Taken(l) PROVE FALSE
  OBVIOUS
<1> DEFINE place == [address \in Address |-> CHOOSE i \in 0 .. ListSize - 1 : l[i] = address]
<1>1. ASSUME NEW address \in Address
      PROVE  place[address] \in 0 .. ListSize - 1 /\ l[place[address]] = address
  <2>1. \E i \in 0 .. ListSize - 1 : l[i] = address
    BY DEF Taken
  <2> QED
    BY <2>1
<1>2. place \in Injection(Address, 0 .. ListSize - 1)
  <2>1. place \in [Address -> 0 .. ListSize - 1]
    BY <1>1
  <2>2. \A a, b \in Address : place[a] = place[b] => a = b
    BY <1>1
  <2> HIDE DEF place
  <2> QED
    BY <2>1, <2>2 DEF Injection, IsInjective
<1>3. IsFiniteSet(0 .. ListSize - 1) /\ Cardinality(0 .. ListSize - 1) = ListSize
  BY FS_Interval DEF PairingAssumption
<1>4. IsFiniteSet(Address) /\ Cardinality(Address) = MaxAddress
  BY FS_Interval DEF PairingAssumption, Address
<1>5. Cardinality(Address) <= Cardinality(0 .. ListSize - 1)
  BY <1>2, <1>3, FS_Injection
<1> QED
  BY <1>3, <1>4, <1>5 DEF PairingAssumption

\* What pairing_address_get_available_node_id returns.
LEMMA AvailableIsFree ==
  ASSUME PairingAssumption, NEW l, l \in [0 .. ListSize - 1 -> 0 .. MaxAddress], NEW wanted \in Address
  PROVE  Available(l, wanted) \in Address /\ Available(l, wanted) \notin Taken(l)
<1> DEFINE After(k) == IF wanted + k > MaxAddress THEN wanted + k - MaxAddress ELSE wanted + k
           free == {k \in 0 .. MaxAddress - 1 : After(k) \notin Taken(l)}
<1>1. PICK address \in Address : address \notin Taken(l)
  BY AddressIsFree
<1>2. free # {}
  <2> DEFINE k == IF address >= wanted THEN address - wanted ELSE address - wanted + MaxAddress
  <2>1. k \in 0 .. MaxAddress - 1 /\ After(k) = address
    BY DEF PairingAssumption, Address
  <2> QED
    BY <1>1, <2>1
<1>3. free \subseteq Nat
  BY DEF PairingAssumption
<1>4. PICK x \in free : \A y \in free : x <= y
  <2> HIDE DEF free
  <2> QED
    BY <1>2, <1>3, LeastElement
<1> DEFINE least == CHOOSE k \in free : \A j \in free : k <= j
<1>5. least \in free
  <2> HIDE DEF free
  <2> QED
    BY <1>4
<1>6. Available(l, wanted) = After(least)
  BY DEF Available
<1>7. ASSUME NEW k \in 0 .. MaxAddress - 1 PROVE After(k) \in Address
  BY DEF PairingAssumption, Address
<1> HIDE DEF least
<1> QED
  BY <1>5, <1>6, <1>7
-----------------------------------------------------------------------------
(* What each step changes, field by field *)

\* Only the record of e changes.
Others(e) == end' \in [Ends -> EndType] /\ \A f \in Ends \ {e} : end'[f] = end[f]

\* The end of a pass, whose state function left the event as given.
Loops(e, event) ==
  /\ end'[e].event \in {event, "timeout"}
  /\ end'[e].pc = IF end'[e].event = "none" THEN "execute" ELSE "leave"

Goes(e, stage, part) == end'[e].stage = stage /\ end'[e].part = part

Mail(e, command, payload) == end'[e].command = command /\ end'[e].payload = payload

Data(e, action, address) ==
  end'[e].action = action /\ end'[e].address = address /\ end'[e].starts = end[e].starts

Same(e) == end'[e].event = end[e].event

Entered(e) ==
  /\ end[e].pc = "execute" /\ end[e].stage = "enter"
  /\ Others(e) /\ Loops(e, end[e].event) /\ Goes(e, "authentication", FirstPart(e, "authentication"))
  /\ Mail(e, end[e].command, end[e].payload) /\ Data(e, end[e].action, end[e].address)
  /\ list' = IF e = Coord THEN AddToList(list, 0, Generated[Coord]) ELSE list
  /\ UNCHANGED <<cfg, out, adopted>>

Queued(e) ==
  /\ end[e].pc = "execute" /\ end[e].part = "send"
  /\ Others(e) /\ Mail(e, end[e].command, end[e].payload) /\ Data(e, end[e].action, end[e].address)
  /\ IF cfg.atomic THEN Loops(e, end[e].event) /\ Goes(e, end[e].stage, "ack")
     ELSE end'[e].pc = "sent" /\ Same(e) /\ Goes(e, end[e].stage, "send")
  /\ out' = [out EXCEPT ![e] = [message |-> Message(e), delivered |-> FALSE]]
  /\ UNCHANGED <<cfg, list, adopted>>

WaitsForAck(e) ==
  /\ end[e].pc = "sent"
  /\ Others(e) /\ Loops(e, end[e].event) /\ Goes(e, end[e].stage, "ack")
  /\ Mail(e, end[e].command, end[e].payload) /\ Data(e, end[e].action, end[e].address)
  /\ UNCHANGED <<cfg, out, list, adopted>>

\* The message of e is read, and the command left as given.
Reads(e, command) ==
  /\ end[e].part = "wait"
  /\ \/ cfg.atomic /\ end[e].pc = "execute" /\ Expected(e) /\ command = None
     \/ end[e].pc = "cleared" /\ command = end[e].command
  /\ Others(e) /\ Loops(e, end[e].event) /\ Goes(e, end[e].stage, AfterMessage(e, end[e].stage))
  /\ Mail(e, command, IF command = None THEN None ELSE end[e].payload)
  /\ UNCHANGED <<cfg, out>>

ReadsAnswer(e) ==
  /\ Asks(e, end[e].stage)
  /\ Data(e, end[e].payload.byte, end[e].address)
  /\ UNCHANGED <<list, adopted>>

ReadsAuthentication(e) ==
  /\ ~Asks(e, end[e].stage) /\ end[e].stage = "authentication"
  /\ Data(e, IF e \in cfg.compatible THEN Success ELSE Fail, end[e].address)
  /\ UNCHANGED <<list, adopted>>

ReadsIdentification(e) ==
  /\ ~Asks(e, end[e].stage) /\ end[e].stage = "identification"
  /\ LET available == Available(list, Generated[end[e].payload.from])
     IN /\ Data(e, Success, available)
        /\ list' = AddToList(list, Role[end[e].payload.from], available)
  /\ UNCHANGED adopted

ReadsAddressing(e) ==
  /\ ~Asks(e, end[e].stage) /\ end[e].stage \notin {"authentication", "identification"}
  /\ Data(e, Success, end[e].payload.address)
  /\ adopted' = [adopted EXCEPT ![e] = [address |-> end[e].payload.address,
                                        pairing |-> end[e].payload.pairing]]
  /\ UNCHANGED list

Looks(e) ==
  /\ ~cfg.atomic /\ end[e].pc = "execute" /\ end[e].part = "wait" /\ Expected(e)
  /\ Others(e) /\ end'[e].pc = "expected" /\ Same(e) /\ Goes(e, end[e].stage, end[e].part)
  /\ Mail(e, end[e].command, end[e].payload) /\ Data(e, end[e].action, end[e].address)
  /\ UNCHANGED <<cfg, out, list, adopted>>

Clears(e) ==
  /\ end[e].pc = "expected"
  /\ Others(e) /\ end'[e].pc = "cleared" /\ Same(e) /\ Goes(e, end[e].stage, end[e].part)
  /\ Mail(e, None, end[e].payload) /\ Data(e, end[e].action, end[e].address)
  /\ UNCHANGED <<cfg, out, list, adopted>>

Acts(e) ==
  /\ end[e].pc = "execute" /\ end[e].part = "action"
  /\ Others(e) /\ Mail(e, end[e].command, end[e].payload) /\ Data(e, NoAction, end[e].address)
  /\ UNCHANGED <<cfg, out, list, adopted>>

Advances(e) ==
  /\ end[e].action = Success /\ end[e].stage # "addressing"
  /\ Goes(e, NextStage(end[e].stage), FirstPart(e, NextStage(end[e].stage)))
  /\ Loops(e, end[e].event)

Succeeds(e) ==
  /\ end[e].action = Success /\ end[e].stage = "addressing"
  /\ Goes(e, "exit", "none") /\ Loops(e, "success")

Refuses(e) ==
  /\ end[e].action = Fail /\ end[e].stage = "authentication"
  /\ Goes(e, "exit", "none") /\ Loops(e, "invalid_app_code")

GivesUp(e) ==
  /\ end[e].action = Fail /\ end[e].stage = "identification"
  /\ Goes(e, "exit", "none") /\ Loops(e, end[e].event)

Hesitates(e) ==
  /\ end[e].action # Success /\ (end[e].action = Fail => end[e].stage = "addressing")
  /\ Goes(e, end[e].stage, end[e].part) /\ Loops(e, end[e].event)

Idles(e) ==
  /\ end[e].pc = "execute" /\ end[e].stage # "enter"
  /\ Others(e) /\ Loops(e, end[e].event) /\ Goes(e, end[e].stage, end[e].part)
  /\ Mail(e, end[e].command, end[e].payload) /\ Data(e, end[e].action, end[e].address)
  /\ UNCHANGED <<cfg, out, list, adopted>>

Aborts(e) ==
  /\ Running(e)
  /\ Others(e) /\ end'[e].event = "abort" /\ end'[e].pc = end[e].pc
  /\ Goes(e, end[e].stage, end[e].part)
  /\ Mail(e, end[e].command, end[e].payload) /\ Data(e, end[e].action, end[e].address)
  /\ UNCHANGED <<cfg, out, list, adopted>>

Leaves(e) ==
  /\ end[e].pc = "leave"
  /\ Others(e) /\ end'[e].pc = "off" /\ Same(e) /\ Goes(e, "enter", "none")
  /\ Mail(e, end[e].command, end[e].payload) /\ Data(e, end[e].action, end[e].address)
  /\ out' = [d \in Ends |-> IF d = e THEN None
                            ELSE IF out[d] = None THEN None
                            ELSE [out[d] EXCEPT !.delivered = FALSE]]
  /\ UNCHANGED <<cfg, list, adopted>>

Starts(e) ==
  /\ ~Running(e)
  /\ e \in Devices => \A d \in Devices : ~Running(d)
  /\ Others(e) /\ end'[e].pc = "execute" /\ end'[e].event = "none"
  /\ Goes(e, end[e].stage, end[e].part) /\ Mail(e, end[e].command, end[e].payload)
  /\ end'[e].action = end[e].action /\ end'[e].address = 0 /\ end'[e].starts = end[e].starts + 1
  /\ UNCHANGED <<cfg, out, list, adopted>>

Delivers(e, f) ==
  /\ out[e] # None /\ f \in Peers(e) /\ Linked(e) /\ Linked(f)
  /\ out[e].delivered => ~cfg.exact
  /\ Others(f) /\ end'[f].pc = end[f].pc /\ Same(f) /\ Goes(f, end[f].stage, end[f].part)
  /\ Mail(f, [stage |-> out[e].message.stage, asks |-> out[e].message.asks], out[e].message)
  /\ Data(f, end[f].action, end[f].address)
  /\ out' = [out EXCEPT ![e].delivered = cfg.exact]
  /\ UNCHANGED <<cfg, list, adopted>>

Acknowledges(e, f) ==
  /\ out[e] # None /\ f \in Peers(e) /\ Linked(e) /\ Linked(f)
  /\ cfg.exact => out[e].delivered
  /\ Others(e) /\ end'[e].pc = end[e].pc /\ Same(e)
  /\ Goes(e, end[e].stage, IF end[e].part = "ack" THEN AfterAck(e, end[e].stage) ELSE end[e].part)
  /\ Mail(e, end[e].command, end[e].payload) /\ Data(e, end[e].action, end[e].address)
  /\ out' = [out EXCEPT ![e] = None]
  /\ UNCHANGED <<cfg, list, adopted>>
-----------------------------------------------------------------------------
(* Control *)

\* The state of an end, its program counter and its event agree.
ControlOf(e) ==
  /\ end[e].stage \in Stages <=> end[e].part # "none"
  /\ end[e].pc = "sent" => end[e].part = "send"
  /\ end[e].pc \in {"expected", "cleared"} => end[e].part = "wait" /\ end[e].payload # None
  /\ end[e].pc = "off" => end[e].stage = "enter"
  /\ end[e].pc # "off" => end[e].starts >= 1
  /\ end[e].pc = "leave" => end[e].event # "none" /\ end[e].stage # "enter"
  /\ Succeeded(e) => end[e].pc = "off" \/ (end[e].pc = "leave" /\ end[e].stage = "exit")
  /\ cfg.atomic => end[e].pc \in {"off", "execute", "leave"}

Control == \A e \in Ends : ControlOf(e)

\* A queued message says where its sender is; a command is that of the payload.
PostedOf(e) ==
  /\ out[e] # None =>
       out[e].message = Message(e) /\ (end[e].part = "ack" \/ end[e].pc = "sent")
  /\ end[e].command # None =>
       /\ end[e].payload # None
       /\ end[e].payload.stage = end[e].command.stage
       /\ end[e].payload.asks = end[e].command.asks
  /\ end[e].payload # None => end[e].payload.from \in Peers(e)

Posted == \A e \in Ends : PostedOf(e)

OneDevice == \A d, f \in Devices : Running(d) /\ Running(f) => d = f

TypeInv == TypeOK /\ Control /\ Posted /\ OneDevice

-----------------------------------------------------------------------------
(* The steps change what is said above *)

Is(e, record) ==
  /\ Goes(e, record.stage, record.part)
  /\ Mail(e, record.command, record.payload)
  /\ end'[e].action = record.action /\ end'[e].address = record.address
  /\ end'[e].starts = record.starts

LEMMA PassFields ==
  ASSUME end \in [Ends -> EndType], NEW e \in Ends, NEW record \in EndType, NEW late \in BOOLEAN,
         end' = EndPass(e, record, late)
  PROVE  Others(e) /\ Loops(e, record.event) /\ Is(e, record)
<1> DEFINE event == IF late THEN "timeout" ELSE record.event
           final == [record EXCEPT !.event = event,
                                   !.pc = IF event = "none" THEN "execute" ELSE "leave"]
<1>1. end' = [end EXCEPT ![e] = final]
  BY DEF EndPass
<1>2. event \in Events
  BY DEF EndType, Events
<1>3. /\ final \in EndType
      /\ final.stage = record.stage /\ final.part = record.part
      /\ final.command = record.command /\ final.payload = record.payload
      /\ final.action = record.action /\ final.address = record.address
      /\ final.starts = record.starts /\ final.event = event
      /\ final.pc = IF event = "none" THEN "execute" ELSE "leave"
  BY <1>2 DEF EndType
<1> HIDE DEF final
<1>4. Others(e) /\ end'[e] = final
  BY <1>1, <1>3 DEF Others
<1>5. Is(e, record)
  BY <1>3, <1>4 DEF Is, Goes, Mail
<1>6. Loops(e, record.event)
  BY <1>3, <1>4 DEF Loops
<1> QED
  BY <1>4, <1>5, <1>6

\* A step of e that is not the end of a pass.
LEMMA StepFields ==
  ASSUME end \in [Ends -> EndType], NEW e \in Ends, NEW record \in EndType,
         end' = [end EXCEPT ![e] = record]
  PROVE  Others(e) /\ Is(e, record) /\ end'[e].pc = record.pc /\ end'[e].event = record.event
<1>1. Others(e) /\ end'[e] = record
  BY DEF Others
<1> QED
  BY <1>1 DEF Is, Goes, Mail

LEMMA EnterFields ==
  ASSUME TypeInv, NEW e \in Ends, NEW late \in BOOLEAN, Enter(e, late)
  PROVE  Entered(e)
<1> DEFINE record == [end[e] EXCEPT !.stage = "authentication", !.part = FirstPart(e, "authentication")]
<1>1. end[e] \in EndType
  BY DEF TypeInv, TypeOK
<1>2. /\ record \in EndType
      /\ record.stage = "authentication" /\ record.part = FirstPart(e, "authentication")
      /\ record.command = end[e].command /\ record.payload = end[e].payload
      /\ record.action = end[e].action /\ record.address = end[e].address
      /\ record.starts = end[e].starts /\ record.event = end[e].event
  BY <1>1 DEF EndType, Stages, FirstPart
<1>3. end' = EndPass(e, record, late)
  BY DEF Enter
<1> HIDE DEF record
<1>4. Others(e) /\ Loops(e, record.event) /\ Is(e, record)
  BY <1>2, <1>3, PassFields DEF TypeInv, TypeOK
<1> QED
  BY <1>2, <1>4 DEF Enter, Entered, Is, Data, Goes, Mail

LEMMA SendFields ==
  ASSUME TypeInv, NEW e \in Ends, NEW late \in BOOLEAN, Send(e, late)
  PROVE  Queued(e)
<1>1. end[e] \in EndType /\ end \in [Ends -> EndType]
  BY DEF TypeInv, TypeOK
<1>2. CASE cfg.atomic
  <2> DEFINE record == [end[e] EXCEPT !.part = "ack"]
  <2>1. /\ record \in EndType
        /\ record.stage = end[e].stage /\ record.part = "ack"
        /\ record.command = end[e].command /\ record.payload = end[e].payload
        /\ record.action = end[e].action /\ record.address = end[e].address
        /\ record.starts = end[e].starts /\ record.event = end[e].event
    BY <1>1 DEF EndType
  <2>2. end' = EndPass(e, record, late)
    BY <1>2 DEF Send
  <2> HIDE DEF record
  <2>3. Others(e) /\ Loops(e, record.event) /\ Is(e, record)
    BY <1>1, <2>1, <2>2, PassFields
  <2> QED
    BY <1>2, <2>1, <2>3 DEF Send, Queued, Is, Data, Goes, Mail
<1>3. CASE ~cfg.atomic
  <2> DEFINE record == [end[e] EXCEPT !.pc = "sent"]
  <2>1. /\ record \in EndType
        /\ record.stage = end[e].stage /\ record.part = end[e].part /\ record.pc = "sent"
        /\ record.command = end[e].command /\ record.payload = end[e].payload
        /\ record.action = end[e].action /\ record.address = end[e].address
        /\ record.starts = end[e].starts /\ record.event = end[e].event
    BY <1>1 DEF EndType
  <2>2. end' = [end EXCEPT ![e] = record]
    BY <1>3 DEF Send
  <2> HIDE DEF record
  <2>3. Others(e) /\ Is(e, record) /\ end'[e].pc = record.pc /\ end'[e].event = record.event
    BY <1>1, <2>1, <2>2, StepFields
  <2> QED
    BY <1>3, <2>1, <2>3 DEF Send, Queued, Is, Data, Goes, Mail, Same
<1> QED
  BY <1>2, <1>3

LEMMA SentFields ==
  ASSUME TypeInv, NEW e \in Ends, NEW late \in BOOLEAN, Sent(e, late)
  PROVE  WaitsForAck(e)
<1>1. end[e] \in EndType /\ end \in [Ends -> EndType]
  BY DEF TypeInv, TypeOK
<1> DEFINE record == [end[e] EXCEPT !.part = "ack"]
<1>2. /\ record \in EndType
      /\ record.stage = end[e].stage /\ record.part = "ack"
      /\ record.command = end[e].command /\ record.payload = end[e].payload
      /\ record.action = end[e].action /\ record.address = end[e].address
      /\ record.starts = end[e].starts /\ record.event = end[e].event
  BY <1>1 DEF EndType
<1>3. end' = EndPass(e, record, late)
  BY DEF Sent
<1> HIDE DEF record
<1>4. Others(e) /\ Loops(e, record.event) /\ Is(e, record)
  BY <1>1, <1>2, <1>3, PassFields
<1> QED
  BY <1>2, <1>4 DEF Sent, WaitsForAck, Is, Data, Goes, Mail

LEMMA IdleFields ==
  ASSUME TypeInv, NEW e \in Ends, NEW late \in BOOLEAN, Idle(e, late)
  PROVE  Idles(e)
<1>1. end[e] \in EndType /\ end \in [Ends -> EndType]
  BY DEF TypeInv, TypeOK
<1>2. Others(e) /\ Loops(e, end[e].event) /\ Is(e, end[e])
  BY <1>1, PassFields DEF Idle
<1>3. end[e].stage # "enter"
  BY DEF Idle, TypeInv, Control, ControlOf, Stages
<1> QED
  BY <1>2, <1>3 DEF Idle, Idles, Is, Data, Goes, Mail

LEMMA ClearFields ==
  ASSUME TypeInv, NEW e \in Ends, Clear(e)
  PROVE  Clears(e)
<1>1. end[e] \in EndType /\ end \in [Ends -> EndType]
  BY DEF TypeInv, TypeOK
<1> DEFINE record == [end[e] EXCEPT !.pc = "cleared", !.command = None]
<1>2. /\ record \in EndType
      /\ record.stage = end[e].stage /\ record.part = end[e].part /\ record.pc = "cleared"
      /\ record.command = None /\ record.payload = end[e].payload
      /\ record.action = end[e].action /\ record.address = end[e].address
      /\ record.starts = end[e].starts /\ record.event = end[e].event
  BY <1>1 DEF EndType
<1>3. end' = [end EXCEPT ![e] = record]
  BY <1>1 DEF Clear, EndType
<1> HIDE DEF record
<1>4. Others(e) /\ Is(e, record) /\ end'[e].pc = record.pc /\ end'[e].event = record.event
  BY <1>1, <1>2, <1>3, StepFields
<1> QED
  BY <1>2, <1>4 DEF Clear, Clears, Is, Data, Goes, Mail, Same

LEMMA AbortFields ==
  ASSUME TypeInv, NEW e \in Ends, Abort(e)
  PROVE  Aborts(e)
<1>1. end[e] \in EndType /\ end \in [Ends -> EndType]
  BY DEF TypeInv, TypeOK
<1> DEFINE record == [end[e] EXCEPT !.event = "abort"]
<1>2. /\ record \in EndType
      /\ record.stage = end[e].stage /\ record.part = end[e].part /\ record.pc = end[e].pc
      /\ record.command = end[e].command /\ record.payload = end[e].payload
      /\ record.action = end[e].action /\ record.address = end[e].address
      /\ record.starts = end[e].starts /\ record.event = "abort"
  BY <1>1 DEF EndType, Events
<1>3. end' = [end EXCEPT ![e] = record]
  BY DEF Abort
<1> HIDE DEF record
<1>4. Others(e) /\ Is(e, record) /\ end'[e].pc = record.pc /\ end'[e].event = record.event
  BY <1>1, <1>2, <1>3, StepFields
<1> QED
  BY <1>2, <1>4 DEF Abort, Aborts, Is, Data, Goes, Mail

LEMMA LeaveFields ==
  ASSUME TypeInv, NEW e \in Ends, Leave(e)
  PROVE  Leaves(e)
<1>1. end[e] \in EndType /\ end \in [Ends -> EndType]
  BY DEF TypeInv, TypeOK
<1> DEFINE record == [end[e] EXCEPT !.pc = "off", !.stage = "enter", !.part = "none"]
<1>2. /\ record \in EndType
      /\ record.stage = "enter" /\ record.part = "none" /\ record.pc = "off"
      /\ record.command = end[e].command /\ record.payload = end[e].payload
      /\ record.action = end[e].action /\ record.address = end[e].address
      /\ record.starts = end[e].starts /\ record.event = end[e].event
  BY <1>1 DEF EndType
<1>3. end' = [end EXCEPT ![e] = record]
  BY <1>1 DEF Leave, EndType
<1> HIDE DEF record
<1>4. Others(e) /\ Is(e, record) /\ end'[e].pc = record.pc /\ end'[e].event = record.event
  BY <1>1, <1>2, <1>3, StepFields
<1> QED
  BY <1>2, <1>4 DEF Leave, Leaves, Is, Data, Goes, Mail, Same

LEMMA StartFields ==
  ASSUME TypeInv, NEW e \in Ends, Start(e)
  PROVE  Starts(e)
<1>1. end[e] \in EndType /\ end \in [Ends -> EndType]
  BY DEF TypeInv, TypeOK
<1> DEFINE starts == end[e].starts + 1
           record == [end[e] EXCEPT !.pc = "execute", !.event = "none", !.address = 0, !.starts = starts]
<1>2. /\ record \in EndType
      /\ record.stage = end[e].stage /\ record.part = end[e].part /\ record.pc = "execute"
      /\ record.command = end[e].command /\ record.payload = end[e].payload
      /\ record.action = end[e].action /\ record.address = 0
      /\ record.starts = starts /\ record.event = "none"
  <2>1. 0 \in 0 .. MaxAddress
    BY PairingAssumption DEF PairingAssumption
  <2>2. starts \in Nat
    BY <1>1 DEF EndType
  <2> HIDE DEF starts
  <2> QED
    BY ZenonT(30), <1>1, <2>1, <2>2 DEF EndType, Events
<1>3. end' = [end EXCEPT ![e] = record]
  BY <1>1 DEF Start, EndType
<1> HIDE DEF record
<1>4. Others(e) /\ Is(e, record) /\ end'[e].pc = record.pc /\ end'[e].event = record.event
  BY <1>1, <1>2, <1>3, StepFields
<1> QED
  BY <1>2, <1>4 DEF Start, Starts, Is, Data, Goes, Mail
LEMMA DeliverFields ==
  ASSUME TypeInv, NEW e \in Ends, NEW f \in Ends, Deliver(e, f)
  PROVE  Delivers(e, f)
<1>1. end[f] \in EndType /\ end \in [Ends -> EndType]
  BY DEF TypeInv, TypeOK
<1>2. out[e] # None /\ out[e].message \in MessageType
  BY DEF TypeInv, TypeOK, Deliver, Communicate
<1> DEFINE command == [stage |-> out[e].message.stage, asks |-> out[e].message.asks]
           record == [end[f] EXCEPT !.command = command, !.payload = out[e].message]
<1>3. command \in CommandType
  BY <1>2 DEF MessageType, CommandType
<1>4. end' = [end EXCEPT ![f] = record]
  BY <1>1 DEF Deliver, EndType
<1>5. /\ record \in EndType
      /\ record.stage = end[f].stage /\ record.part = end[f].part /\ record.pc = end[f].pc
      /\ record.command = command /\ record.payload = out[e].message
      /\ record.action = end[f].action /\ record.address = end[f].address
      /\ record.starts = end[f].starts /\ record.event = end[f].event
  <2> HIDE DEF command
  <2> QED
    BY <1>1, <1>2, <1>3 DEF EndType
<1> HIDE DEF record
<1>6. Others(f) /\ Is(f, record) /\ end'[f].pc = record.pc /\ end'[f].event = record.event
  BY <1>1, <1>4, <1>5, StepFields
<1> QED
  BY <1>5, <1>6 DEF Deliver, Communicate, Delivers, Is, Data, Goes, Mail, Same

LEMMA AcknowledgeFields ==
  ASSUME TypeInv, NEW e \in Ends, NEW f \in Ends, Acknowledge(e, f)
  PROVE  Acknowledges(e, f)
<1>1. end[e] \in EndType /\ end \in [Ends -> EndType]
  BY DEF TypeInv, TypeOK
<1> DEFINE part == IF end[e].part = "ack" THEN AfterAck(e, end[e].stage) ELSE end[e].part
           record == [end[e] EXCEPT !.part = part]
<1>2. /\ record \in EndType
      /\ record.stage = end[e].stage /\ record.part = part /\ record.pc = end[e].pc
      /\ record.command = end[e].command /\ record.payload = end[e].payload
      /\ record.action = end[e].action /\ record.address = end[e].address
      /\ record.starts = end[e].starts /\ record.event = end[e].event
  BY <1>1 DEF EndType, AfterAck
<1>3. end' = [end EXCEPT ![e] = record]
  <2>1. CASE end[e].part = "ack"
    BY <2>1 DEF Acknowledge
  <2>2. CASE end[e].part # "ack"
    <3>1. record = end[e]
      BY <1>1, <2>2 DEF EndType
    <3> QED
      BY <1>1, <2>2, <3>1 DEF Acknowledge
  <2> QED
    BY <2>1, <2>2
<1> HIDE DEF record
<1>4. Others(e) /\ Is(e, record) /\ end'[e].pc = record.pc /\ end'[e].event = record.event
  BY <1>1, <1>2, <1>3, StepFields
<1> QED
  BY <1>2, <1>4 DEF Acknowledge, Communicate, Acknowledges, Is, Data, Goes, Mail, Same

LEMMA ActFields ==
  ASSUME TypeInv, NEW e \in Ends, NEW late \in BOOLEAN, Act(e, late)
  PROVE  Acts(e) /\ (Advances(e) \/ Succeeds(e) \/ Refuses(e) \/ GivesUp(e) \/ Hesitates(e))
<1>1. end[e] \in EndType /\ end \in [Ends -> EndType]
  BY DEF TypeInv, TypeOK
<1> DEFINE stage == end[e].stage
           done == [end[e] EXCEPT !.action = NoAction]
           Exit(event) == [done EXCEPT !.stage = "exit", !.part = "none", !.event = event]
           forward == [done EXCEPT !.stage = NextStage(stage), !.part = FirstPart(e, NextStage(stage))]
           record == CASE end[e].action = Success /\ stage = "addressing" -> Exit("success")
                       [] end[e].action = Success /\ stage # "addressing" -> forward
                       [] end[e].action = Fail /\ stage = "authentication" -> Exit("invalid_app_code")
                       [] end[e].action = Fail /\ stage = "identification" -> Exit(end[e].event)
                       [] OTHER -> done
<1>2. end' = EndPass(e, record, late) /\ end[e].pc = "execute" /\ end[e].part = "action"
      /\ UNCHANGED <<cfg, out, list, adopted>>
  BY DEF Act
<1>3. /\ done \in EndType
      /\ done.stage = stage /\ done.part = end[e].part
      /\ done.command = end[e].command /\ done.payload = end[e].payload
      /\ done.action = NoAction /\ done.address = end[e].address
      /\ done.starts = end[e].starts /\ done.event = end[e].event
  BY <1>1 DEF EndType, NoAction
<1>4. ASSUME NEW event \in Events
      PROVE  /\ Exit(event) \in EndType
             /\ Exit(event).stage = "exit" /\ Exit(event).part = "none"
             /\ Exit(event).command = end[e].command /\ Exit(event).payload = end[e].payload
             /\ Exit(event).action = NoAction /\ Exit(event).address = end[e].address
             /\ Exit(event).starts = end[e].starts /\ Exit(event).event = event
  <2> HIDE DEF done
  <2> QED
    BY <1>3 DEF EndType
<1>5. /\ forward \in EndType
      /\ forward.stage = NextStage(stage) /\ forward.part = FirstPart(e, NextStage(stage))
      /\ forward.command = end[e].command /\ forward.payload = end[e].payload
      /\ forward.action = NoAction /\ forward.address = end[e].address
      /\ forward.starts = end[e].starts /\ forward.event = end[e].event
  <2>1. NextStage(stage) \in Stages /\ FirstPart(e, NextStage(stage)) \in {"send", "wait"}
    BY DEF NextStage, Stages, FirstPart
  <2> HIDE DEF done
  <2> QED
    BY <1>3, <2>1 DEF EndType
<1>6. "success" \in Events /\ "invalid_app_code" \in Events /\ end[e].event \in Events
  BY <1>1 DEF EndType, Events
<1>7. ASSUME NEW r \in EndType, record = r,
             r.command = end[e].command, r.payload = end[e].payload,
             r.action = NoAction, r.address = end[e].address, r.starts = end[e].starts
      PROVE  Acts(e) /\ Loops(e, r.event) /\ Goes(e, r.stage, r.part)
  <2> HIDE DEF record
  <2>1. Others(e) /\ Loops(e, r.event) /\ Is(e, r)
    BY <1>1, <1>2, <1>7, PassFields
  <2> QED
    BY <1>2, <1>7, <2>1 DEF Acts, Is, Data, Goes, Mail
<1>8. CASE end[e].action = Success /\ stage = "addressing"
  <2>1. record = Exit("success")
    BY <1>8
  <2> HIDE DEF record, Exit
  <2>2. Acts(e) /\ Loops(e, "success") /\ Goes(e, "exit", "none")
    BY <1>4, <1>6, <1>7, <2>1
  <2> QED
    BY <1>8, <2>2 DEF Succeeds
<1>9. CASE end[e].action = Success /\ stage # "addressing"
  <2>1. record = forward
    BY <1>9 DEF Success, Fail
  <2> HIDE DEF record, forward
  <2>2. Acts(e) /\ Loops(e, end[e].event) /\ Goes(e, NextStage(stage), FirstPart(e, NextStage(stage)))
    BY <1>5, <1>7, <2>1
  <2> QED
    BY <1>9, <2>2 DEF Advances
<1>10. CASE end[e].action = Fail /\ stage = "authentication"
  <2>1. record = Exit("invalid_app_code")
    BY <1>10 DEF Success, Fail
  <2> HIDE DEF record, Exit
  <2>2. Acts(e) /\ Loops(e, "invalid_app_code") /\ Goes(e, "exit", "none")
    BY <1>4, <1>6, <1>7, <2>1
  <2> QED
    BY <1>10, <2>2 DEF Refuses
<1>11. CASE end[e].action = Fail /\ stage = "identification"
  <2>1. record = Exit(end[e].event)
    BY <1>11 DEF Success, Fail
  <2> HIDE DEF record, Exit
  <2>2. Acts(e) /\ Loops(e, end[e].event) /\ Goes(e, "exit", "none")
    BY <1>4, <1>6, <1>7, <2>1
  <2> QED
    BY <1>11, <2>2 DEF GivesUp
<1>12. CASE end[e].action # Success /\ (end[e].action = Fail => stage \notin {"authentication", "identification"})
  <2>1. record = done
    BY <1>12
  <2> HIDE DEF record, done
  <2>2. Acts(e) /\ Loops(e, end[e].event) /\ Goes(e, stage, end[e].part)
    BY <1>3, <1>7, <2>1
  <2>3. stage \in Stages
    BY <1>2 DEF TypeInv, Control, ControlOf
  <2> QED
    BY <1>12, <2>2, <2>3 DEF Hesitates, Stages
<1> QED
  BY <1>8, <1>9, <1>10, <1>11, <1>12
\* Reading the message, undisturbed or with another one that came between.
LEMMA HandleFields ==
  ASSUME PairingAssumption, TypeInv, NEW e \in Ends, NEW command, NEW late \in BOOLEAN,
         end[e].part = "wait", Handle(e, command, late), UNCHANGED <<cfg, out>>,
         \/ cfg.atomic /\ end[e].pc = "execute" /\ Expected(e) /\ command = None
         \/ end[e].pc = "cleared" /\ command = end[e].command
  PROVE  /\ Reads(e, command)
         /\ \/ ReadsAnswer(e) \/ ReadsAuthentication(e)
            \/ ReadsIdentification(e) \/ ReadsAddressing(e)
<1> DEFINE stage == end[e].stage
           payload == IF command = None THEN None ELSE end[e].payload
           part == AfterMessage(e, stage)
           record(action, address) ==
             [end[e] EXCEPT !.part = part, !.command = command, !.payload = payload,
                            !.action = action, !.address = address]
<1>1. end[e] \in EndType /\ end \in [Ends -> EndType]
  BY DEF TypeInv, TypeOK
<1>2. end[e].payload # None /\ end[e].payload \in MessageType /\ end[e].payload.from \in Peers(e)
  <2>1. end[e].payload # None
    BY DEF TypeInv, Control, ControlOf, Posted, PostedOf, Expected
  <2> QED
    BY <1>1, <2>1 DEF EndType, TypeInv, Posted, PostedOf
<1>3. command \in CommandType \cup {None} /\ payload \in MessageType \cup {None}
  BY <1>1 DEF EndType
<1>4. part \in {"send", "action"}
  BY DEF AfterMessage
<1>5. ASSUME NEW action \in Nat, NEW address \in 0 .. MaxAddress,
             end' = EndPass(e, record(action, address), late)
      PROVE  Reads(e, command) /\ Data(e, action, address)
  <2> DEFINE r == record(action, address)
  <2>1. /\ r \in EndType
        /\ r.stage = stage /\ r.part = part /\ r.command = command /\ r.payload = payload
        /\ r.action = action /\ r.address = address
        /\ r.starts = end[e].starts /\ r.event = end[e].event
    <3> HIDE DEF payload, part
    <3> QED
      BY <1>1, <1>3, <1>4 DEF EndType
  <2> HIDE DEF r
  <2>2. Others(e) /\ Loops(e, r.event) /\ Is(e, r)
    BY <1>1, <1>5, <2>1, PassFields DEF r
  <2>3. Data(e, action, address) /\ Goes(e, stage, part) /\ Mail(e, command, payload)
    BY <2>1, <2>2 DEF Is, Data, Goes, Mail
  <2> QED
    BY <2>1, <2>2, <2>3 DEF Reads
<1>6. CASE Asks(e, stage)
  <2>1. end' = EndPass(e, record(end[e].payload.byte, end[e].address), late)
        /\ UNCHANGED <<list, adopted>>
    BY <1>6 DEF Handle
  <2>2. end[e].payload.byte \in Nat /\ end[e].address \in 0 .. MaxAddress
    BY <1>1, <1>2 DEF EndType, MessageType
  <2> HIDE DEF record
  <2> QED
    BY <1>5, <1>6, <2>1, <2>2 DEF ReadsAnswer
<1>7. CASE ~Asks(e, stage) /\ stage = "authentication"
  <2> DEFINE action == IF e \in cfg.compatible THEN Success ELSE Fail
  <2>1. end' = EndPass(e, record(action, end[e].address), late)
        /\ UNCHANGED <<list, adopted>>
    BY <1>7 DEF Handle
  <2>2. action \in Nat /\ end[e].address \in 0 .. MaxAddress
    BY <1>1 DEF EndType, Success, Fail
  <2> HIDE DEF record
  <2>3. Reads(e, command) /\ Data(e, action, end[e].address)
    BY <1>5, <2>1, <2>2
  <2> QED
    BY <1>7, <2>1, <2>3 DEF ReadsAuthentication
<1>8. CASE ~Asks(e, stage) /\ stage = "identification"
  <2> DEFINE available == Available(list, Generated[end[e].payload.from])
  <2>1. end' = EndPass(e, record(Success, available), late)
        /\ list' = AddToList(list, Role[end[e].payload.from], available)
        /\ UNCHANGED adopted
    BY <1>8 DEF Handle
  <2>2. available \in 0 .. MaxAddress
    <3>1. Generated[end[e].payload.from] \in Address
      BY <1>2 DEF MessageType, PairingAssumption
    <3>2. available \in Address
      BY <3>1, AvailableIsFree DEF TypeInv, TypeOK
    <3> HIDE DEF available
    <3> QED
      BY <3>2 DEF Address, PairingAssumption
  <2>3. Success \in Nat
    BY DEF Success
  <2> HIDE DEF record, available
  <2>4. Reads(e, command) /\ Data(e, Success, available)
    BY <1>5, <2>1, <2>2, <2>3
  <2> QED
    BY <1>8, <2>1, <2>4 DEF ReadsIdentification, available
<1>9. CASE ~Asks(e, stage) /\ stage \notin {"authentication", "identification"}
  <2>1. end' = EndPass(e, record(Success, end[e].payload.address), late)
        /\ adopted' = [adopted EXCEPT ![e] = [address |-> end[e].payload.address,
                                              pairing |-> end[e].payload.pairing]]
        /\ UNCHANGED list
    BY <1>9 DEF Handle
  <2>2. Success \in Nat /\ end[e].payload.address \in 0 .. MaxAddress
    BY <1>2 DEF Success, MessageType
  <2> HIDE DEF record
  <2> QED
    BY <1>5, <1>9, <2>1, <2>2 DEF ReadsAddressing
<1> QED
  BY <1>6, <1>7, <1>8, <1>9

Read(e) ==
  \E command :
    /\ Reads(e, command)
    /\ \/ ReadsAnswer(e) \/ ReadsAuthentication(e)
       \/ ReadsIdentification(e) \/ ReadsAddressing(e)

LEMMA ReceiveFields ==
  ASSUME PairingAssumption, TypeInv, NEW e \in Ends, NEW late \in BOOLEAN, Receive(e, late)
  PROVE  Read(e) \/ Looks(e)
<1>1. CASE cfg.atomic
  <2>1. Handle(e, None, late) /\ UNCHANGED <<cfg, out>>
    BY <1>1 DEF Receive
  <2>2. end[e].pc = "execute" /\ end[e].part = "wait" /\ Expected(e)
    BY DEF Receive
  <2> QED
    BY <1>1, <2>1, <2>2, HandleFields DEF Read
<1>2. CASE ~cfg.atomic
  <2> DEFINE record == [end[e] EXCEPT !.pc = "expected"]
  <2>1. end[e] \in EndType /\ end \in [Ends -> EndType]
    BY DEF TypeInv, TypeOK
  <2>2. /\ record \in EndType
        /\ record.stage = end[e].stage /\ record.part = end[e].part /\ record.pc = "expected"
        /\ record.command = end[e].command /\ record.payload = end[e].payload
        /\ record.action = end[e].action /\ record.address = end[e].address
        /\ record.starts = end[e].starts /\ record.event = end[e].event
    BY <2>1 DEF EndType
  <2>3. end' = [end EXCEPT ![e] = record]
    BY <1>2 DEF Receive
  <2> HIDE DEF record
  <2>4. Others(e) /\ Is(e, record) /\ end'[e].pc = record.pc /\ end'[e].event = record.event
    BY <2>1, <2>2, <2>3, StepFields
  <2> QED
    BY <1>2, <2>2, <2>4 DEF Receive, Looks, Is, Data, Goes, Mail, Same
<1> QED
  BY <1>1, <1>2

LEMMA CopyFields ==
  ASSUME PairingAssumption, TypeInv, NEW e \in Ends, NEW late \in BOOLEAN, Copy(e, late)
  PROVE  Read(e)
<1>1. Handle(e, end[e].command, late) /\ UNCHANGED <<cfg, out>> /\ end[e].pc = "cleared"
  BY DEF Copy
<1>2. end[e].part = "wait"
  BY <1>1 DEF TypeInv, Control, ControlOf
<1> QED
  BY <1>1, <1>2, HandleFields DEF Read

\* One of the two ends of a step changes as said above.
Step(e) ==
  \/ Entered(e) \/ Queued(e) \/ WaitsForAck(e) \/ Read(e) \/ Looks(e) \/ Clears(e)
  \/ Acts(e) /\ (Advances(e) \/ Succeeds(e) \/ Refuses(e) \/ GivesUp(e) \/ Hesitates(e))
  \/ Idles(e) \/ Aborts(e) \/ Leaves(e) \/ Starts(e)

LEMMA StepCases ==
  ASSUME PairingAssumption, TypeInv, Next
  PROVE  \/ \E e \in Ends : Step(e)
         \/ \E e, f \in Ends : Delivers(e, f) \/ Acknowledges(e, f)
<1>1. ASSUME NEW e \in Ends, NEW late \in BOOLEAN,
             \/ Enter(e, late) \/ Send(e, late) \/ Sent(e, late) \/ Receive(e, late)
             \/ Clear(e) \/ Copy(e, late) \/ Act(e, late) \/ Idle(e, late)
      PROVE  Step(e)
  BY <1>1, EnterFields, SendFields, SentFields, ReceiveFields, ClearFields, CopyFields, ActFields,
     IdleFields DEF Step
<1>2. ASSUME NEW e \in Ends, Pass(e) \/ Abort(e) \/ Leave(e) \/ Start(e)
      PROVE  Step(e)
  <2>1. CASE Pass(e)
    BY <1>1, <2>1 DEF Pass
  <2>2. CASE Abort(e) \/ Leave(e) \/ Start(e)
    BY <2>2, AbortFields, LeaveFields, StartFields DEF Step
  <2> QED
    BY <1>2, <2>1, <2>2
<1>3. ASSUME NEW e \in Ends, NEW f \in Ends, Deliver(e, f) \/ Acknowledge(e, f)
      PROVE  Delivers(e, f) \/ Acknowledges(e, f)
  BY <1>3, DeliverFields, AcknowledgeFields
<1> QED
  BY <1>2, <1>3 DEF Next
-----------------------------------------------------------------------------
(* Types and control are kept *)

\* In the end that does not change, nothing said of it alone does.
LEMMA OtherEnds ==
  ASSUME NEW e \in Ends, Others(e), NEW f \in Ends \ {e}, UNCHANGED cfg, ControlOf(f)
  PROVE  ControlOf(f)' /\ Message(f)' = Message(f) /\ (Running(f)' <=> Running(f))
<1>1. end'[f] = end[f]
  BY DEF Others
<1>2. ControlOf(f)'
  BY <1>1 DEF ControlOf, Succeeded
<1> QED
  BY <1>1, <1>2 DEF Message, Running

LEMMA ControlStep ==
  ASSUME PairingAssumption, TypeInv, NEW e \in Ends, Step(e)
  PROVE  Control'
<1>1. end[e] \in EndType /\ ControlOf(e) /\ PostedOf(e)
  BY DEF TypeInv, TypeOK, Control, Posted
<1>2. Others(e) /\ UNCHANGED cfg
  BY DEF Step, Entered, Queued, WaitsForAck, Read, Reads, Looks, Clears, Acts, Idles, Aborts, Leaves,
     Starts
<1>3. ASSUME NEW f \in Ends \ {e} PROVE ControlOf(f)'
  BY <1>2, OtherEnds DEF TypeInv, Control
<1>4. end'[e] \in EndType
  BY <1>2 DEF Others
<1>5. ControlOf(e)'
  <2>1. CASE Entered(e)
    BY <1>1, <1>2, <2>1 DEF Entered, ControlOf, Succeeded, Loops, Goes, Mail, Data, Stages, FirstPart
  <2>2. CASE Queued(e)
    BY <1>1, <1>2, <2>2 DEF Queued, ControlOf, Succeeded, Loops, Goes, Mail, Data, Stages, Same
  <2>3. CASE WaitsForAck(e)
    BY <1>1, <1>2, <2>3 DEF WaitsForAck, ControlOf, Succeeded, Loops, Goes, Mail, Data, Stages
  <2>4. CASE Read(e)
    <3>1. PICK command : Reads(e, command)
      BY <2>4 DEF Read
    <3>2. end'[e].starts = end[e].starts
      BY <2>4 DEF Read, ReadsAnswer, ReadsAuthentication, ReadsIdentification, ReadsAddressing, Data
    <3> QED
      BY <1>1, <1>2, <3>1, <3>2
      DEF Reads, ControlOf, Succeeded, Loops, Goes, Stages, AfterMessage
  <2>5. CASE Looks(e)
    BY <1>1, <1>2, <2>5
    DEF Looks, ControlOf, PostedOf, Expected, Succeeded, Goes, Mail, Data, Stages, Same
  <2>6. CASE Clears(e)
    BY <1>1, <1>2, <2>6 DEF Clears, ControlOf, Succeeded, Goes, Mail, Data, Stages, Same
  <2>7. CASE Acts(e) /\ (Advances(e) \/ Hesitates(e))
    BY <1>1, <1>2, <2>7
    DEF Acts, Advances, Hesitates, ControlOf, Succeeded, Loops, Goes, Mail, Data, Stages, NextStage,
        FirstPart
  <2>8. CASE Acts(e) /\ (Succeeds(e) \/ Refuses(e) \/ GivesUp(e))
    BY <1>1, <1>2, <2>8
    DEF Acts, Succeeds, Refuses, GivesUp, ControlOf, Succeeded, Loops, Goes, Mail, Data, Stages
  <2>9. CASE Idles(e)
    BY <1>1, <1>2, <2>9 DEF Idles, ControlOf, Succeeded, Loops, Goes, Mail, Data, Stages
  <2>10. CASE Aborts(e)
    BY <1>1, <1>2, <2>10 DEF Aborts, Running, ControlOf, Succeeded, Goes, Mail, Data, Stages
  <2>11. CASE Leaves(e)
    BY <1>1, <1>2, <2>11 DEF Leaves, ControlOf, Succeeded, Goes, Mail, Data, Stages, Same
  <2>12. CASE Starts(e)
    BY <1>1, <1>2, <2>12 DEF Starts, Running, ControlOf, Succeeded, Goes, Mail, Stages, EndType
  <2> QED
    BY <2>1, <2>2, <2>3, <2>4, <2>5, <2>6, <2>7, <2>8, <2>9, <2>10, <2>11, <2>12 DEF Step
<1> QED
  BY <1>3, <1>5 DEF Control

LEMMA PostedStep ==
  ASSUME PairingAssumption, TypeInv, NEW e \in Ends, Step(e)
  PROVE  Posted'
<1>1. ControlOf(e) /\ PostedOf(e)
  BY DEF TypeInv, Control, Posted
<1>2. Others(e) /\ UNCHANGED cfg
  BY DEF Step, Entered, Queued, WaitsForAck, Read, Reads, Looks, Clears, Acts, Idles, Aborts, Leaves,
     Starts
<1>3. out \in [Ends -> [message : MessageType, delivered : BOOLEAN] \cup {None}]
  BY DEF TypeInv, TypeOK
<1>4. ASSUME NEW f \in Ends \ {e} PROVE PostedOf(f)'
  <2>1. end'[f] = end[f] /\ Message(f)' = Message(f) /\ PostedOf(f)
    BY <1>2, OtherEnds DEF TypeInv, Control, Posted, Others
  <2>2. out'[f] # None => out[f] # None /\ out'[f].message = out[f].message
    <3>1. CASE Leaves(e)
      BY <1>3, <3>1 DEF Leaves
    <3>2. CASE ~Leaves(e)
      BY <1>3, <3>2 DEF Step, Entered, Queued, WaitsForAck, Read, Reads, Looks, Clears, Acts, Idles,
           Aborts, Starts
    <3> QED
      BY <3>1, <3>2
  <2> QED
    BY <2>1, <2>2 DEF PostedOf
<1>5. PostedOf(e)'
  <2>1. CASE Entered(e)
    <3>1. out[e] = None
      BY <1>1, <2>1 DEF Entered, ControlOf, PostedOf, Stages
    <3> QED
      BY <1>1, <2>1, <3>1 DEF Entered, PostedOf, Mail
  <2>2. CASE Queued(e)
    <3>1. Message(e)' = Message(e)
      BY <2>2 DEF Queued, Message, Goes, Data
    <3>2. out'[e].message = Message(e)
      BY <1>3, <2>2 DEF Queued
    <3> QED
      BY <1>1, <2>2, <3>1, <3>2 DEF Queued, PostedOf, Mail, Goes
  <2>3. CASE WaitsForAck(e)
    <3>1. Message(e)' = Message(e)
      BY <2>3 DEF WaitsForAck, Message, Goes, Data
    <3> QED
      BY <1>1, <2>3, <3>1 DEF WaitsForAck, PostedOf, Mail, Goes
  <2>4. CASE Read(e)
    <3>1. PICK command : Reads(e, command)
      BY <2>4 DEF Read
    <3>2. out[e] = None
      BY <1>1, <3>1 DEF Reads, PostedOf
    <3> QED
      BY <1>1, <3>1, <3>2 DEF Reads, PostedOf, Mail
  <2>5. CASE Looks(e) \/ Clears(e)
    <3>1. out[e] = None
      BY <1>1, <2>5 DEF Looks, Clears, PostedOf, ControlOf
    <3> QED
      BY <1>1, <2>5, <3>1 DEF Looks, Clears, PostedOf, Mail
  <2>6. CASE Acts(e)
    <3>1. out[e] = None
      BY <1>1, <2>6 DEF Acts, PostedOf
    <3> QED
      BY <1>1, <2>6, <3>1 DEF Acts, PostedOf, Mail
  <2>7. CASE Idles(e) \/ Aborts(e)
    <3>1. Message(e)' = Message(e)
      BY <2>7 DEF Idles, Aborts, Message, Goes, Data
    <3> QED
      BY <1>1, <2>7, <3>1 DEF Idles, Aborts, PostedOf, Mail, Goes
  <2>8. CASE Leaves(e)
    BY <1>1, <2>8 DEF Leaves, PostedOf, Mail
  <2>9. CASE Starts(e)
    <3>1. out[e] = None
      BY <1>1, <2>9 DEF Starts, Running, PostedOf, ControlOf, Stages
    <3> QED
      BY <1>1, <2>9, <3>1 DEF Starts, PostedOf, Mail
  <2> QED
    BY <2>1, <2>2, <2>3, <2>4, <2>5, <2>6, <2>7, <2>8, <2>9 DEF Step
<1> QED
  BY <1>4, <1>5 DEF Posted

LEMMA OneDeviceStep ==
  ASSUME PairingAssumption, TypeInv, NEW e \in Ends, Step(e)
  PROVE  OneDevice'
<1>1. Others(e) /\ UNCHANGED cfg
  BY DEF Step, Entered, Queued, WaitsForAck, Read, Reads, Looks, Clears, Acts, Idles, Aborts, Leaves,
     Starts
<1>2. ASSUME NEW f \in Ends \ {e} PROVE Running(f)' <=> Running(f)
  BY <1>1, OtherEnds DEF TypeInv, Control
<1>3. CASE Starts(e)
  BY <1>2, <1>3 DEF TypeInv, OneDevice, Starts, Ends
<1>4. CASE ~Starts(e)
  <2>1. Running(e)
    BY <1>4 DEF Step, Entered, Queued, WaitsForAck, Read, Reads, Looks, Clears, Acts, Idles, Aborts,
         Leaves, Running
  <2> QED
    BY <1>2, <2>1 DEF TypeInv, OneDevice, Ends
<1> QED
  BY <1>3, <1>4

LEMMA MessageType1 ==
  ASSUME PairingAssumption, TypeInv, NEW e \in Ends, end[e].stage \in Stages
  PROVE  Message(e) \in MessageType
<1>1. end[e] \in EndType
  BY DEF TypeInv, TypeOK
<1>2. end[e].starts \in Nat /\ end[e].address \in 0 .. MaxAddress /\ end[e].action \in Nat
  BY <1>1 DEF EndType
<1>3. e # Coord => Role[e] \in Nat
  BY DEF PairingAssumption, Ends
<1> DEFINE byte == CASE ~Asks(e, end[e].stage) -> end[e].action
                     [] Asks(e, end[e].stage) /\ e # Coord -> Role[e]
                     [] OTHER -> Fail + 1
<1>4. byte \in Nat
  <2>1. CASE ~Asks(e, end[e].stage) /\ e = Coord
    BY <1>2, <2>1
  <2>2. CASE e # Coord
    BY <1>2, <1>3, <2>2
  <2>3. CASE Asks(e, end[e].stage) /\ e = Coord
    BY <2>3 DEF Fail
  <2> QED
    BY <2>1, <2>2, <2>3
<1>5. Asks(e, end[e].stage) \in BOOLEAN
  BY DEF Asks
<1> HIDE DEF byte
<1>6. [stage |-> end[e].stage, asks |-> Asks(e, end[e].stage), from |-> e, address |-> end[e].address,
       pairing |-> end[e].starts, byte |-> byte] \in MessageType
  BY <1>2, <1>4, <1>5 DEF MessageType
<1> QED
  BY <1>6 DEF Message, byte

LEMMA AddToListType ==
  ASSUME PairingAssumption, list \in [0 .. ListSize - 1 -> 0 .. MaxAddress],
         NEW role \in Nat, NEW address \in 0 .. MaxAddress
  PROVE  AddToList(list, role, address) \in [0 .. ListSize - 1 -> 0 .. MaxAddress]
  BY DEF AddToList

LEMMA TypeStep ==
  ASSUME PairingAssumption, TypeInv, NEW e \in Ends, Step(e)
  PROVE  TypeOK'
<1>1. Others(e) /\ UNCHANGED cfg
  BY DEF Step, Entered, Queued, WaitsForAck, Read, Reads, Looks, Clears, Acts, Idles, Aborts, Leaves,
     Starts
<1>2. end' \in [Ends -> EndType] /\ cfg' \in Settings
  BY <1>1 DEF Others, TypeInv, TypeOK
<1> DEFINE Letter == [message : MessageType, delivered : BOOLEAN]
<1>3. out \in [Ends -> Letter \cup {None}] /\ list \in [0 .. ListSize - 1 -> 0 .. MaxAddress]
      /\ adopted \in [Devices -> [address : 0 .. MaxAddress, pairing : Nat]]
  BY DEF TypeInv, TypeOK
<1>4. ControlOf(e) /\ PostedOf(e) /\ end[e] \in EndType
  BY DEF TypeInv, Control, Posted, TypeOK
<1>5. out' \in [Ends -> Letter \cup {None}]
  <2>1. CASE Queued(e)
    <3>1. Message(e) \in MessageType
      BY <1>4, <2>1, MessageType1 DEF Queued, ControlOf
    <3>2. [message |-> Message(e), delivered |-> FALSE] \in Letter
      BY <3>1
    <3> QED
      BY <1>3, <2>1, <3>2 DEF Queued
  <2>2. CASE Leaves(e)
    <3>1. ASSUME NEW d \in Ends, out[d] # None PROVE [out[d] EXCEPT !.delivered = FALSE] \in Letter
      BY <1>3, <3>1
    <3> QED
      BY <1>3, <2>2, <3>1 DEF Leaves
  <2>3. CASE ~Queued(e) /\ ~Leaves(e)
    BY <1>3, <2>3 DEF Step, Entered, WaitsForAck, Read, Reads, Looks, Clears, Acts, Idles, Aborts, Starts
  <2> QED
    BY <2>1, <2>2, <2>3
<1>6. CASE Read(e)
  <2>1. end[e].payload # None /\ end[e].payload \in MessageType /\ end[e].payload.from \in Peers(e)
    <3>1. end[e].payload # None
      BY <1>4, <1>6 DEF Read, Reads, ControlOf, PostedOf, Expected
    <3> QED
      BY <1>4, <3>1 DEF EndType, PostedOf
  <2>2. end[e].part # "none" /\ end[e].stage \in Stages
    BY <1>4, <1>6 DEF Read, Reads, ControlOf
  <2>3. list' \in [0 .. ListSize - 1 -> 0 .. MaxAddress]
    <3>1. CASE ReadsIdentification(e)
      <4>1. e = Coord
        BY <3>1 DEF ReadsIdentification, Asks
      <4>2. Role[end[e].payload.from] \in Nat
        BY <2>1, <4>1 DEF Peers, PairingAssumption
      <4>3. end'[e].address \in 0 .. MaxAddress
        BY <1>2 DEF EndType
      <4> QED
        BY <1>3, <3>1, <4>2, <4>3, AddToListType DEF ReadsIdentification, Data
    <3> QED
      BY <1>3, <1>6, <3>1 DEF Read, ReadsAnswer, ReadsAuthentication, ReadsAddressing
  <2>4. adopted' \in [Devices -> [address : 0 .. MaxAddress, pairing : Nat]]
    <3>1. CASE ReadsAddressing(e)
      <4>1. [address |-> end[e].payload.address, pairing |-> end[e].payload.pairing]
              \in [address : 0 .. MaxAddress, pairing : Nat]
        BY <2>1 DEF MessageType
      <4> QED
        BY <1>3, <3>1, <4>1 DEF ReadsAddressing
    <3> QED
      BY <1>3, <1>6, <3>1 DEF Read, ReadsAnswer, ReadsAuthentication, ReadsIdentification
  <2> QED
    BY <1>2, <1>5, <2>3, <2>4 DEF TypeOK
<1>7. CASE Entered(e)
  <2>1. Generated[Coord] \in 0 .. MaxAddress
    <3>1. Generated[Coord] \in Address
      BY DEF PairingAssumption, Ends
    <3> QED
      BY <3>1 DEF Address, PairingAssumption
  <2>2. list' \in [0 .. ListSize - 1 -> 0 .. MaxAddress] /\ UNCHANGED adopted
    BY <1>3, <1>7, <2>1, AddToListType DEF Entered
  <2> QED
    BY <1>2, <1>3, <1>5, <2>2 DEF TypeOK
<1>8. CASE ~Read(e) /\ ~Entered(e)
  <2>1. UNCHANGED <<list, adopted>>
    BY <1>8 DEF Step, Queued, WaitsForAck, Looks, Clears, Acts, Idles, Aborts, Leaves, Starts
  <2> QED
    BY <1>2, <1>3, <1>5, <2>1 DEF TypeOK
<1> QED
  BY <1>6, <1>7, <1>8

\* The link: a message is delivered.
LEMMA DeliverStep ==
  ASSUME PairingAssumption, TypeInv, NEW e \in Ends, NEW f \in Ends, Delivers(e, f)
  PROVE  TypeInv'
<1>1. Others(f) /\ UNCHANGED cfg /\ out[e] # None /\ f \in Peers(e)
  BY DEF Delivers
<1> DEFINE Letter == [message : MessageType, delivered : BOOLEAN]
<1>2. out \in [Ends -> Letter \cup {None}] /\ cfg \in SettingsType
  BY DEF TypeInv, TypeOK, PairingAssumption
<1>3. /\ out' \in [Ends -> Letter \cup {None}]
      /\ out'[e] # None => out'[e].message = out[e].message
      /\ \A d \in Ends \ {e} : out'[d] = out[d]
  <2>1. out[e] \in Letter /\ out' = [out EXCEPT ![e] = [out[e] EXCEPT !.delivered = cfg.exact]]
    BY <1>1, <1>2 DEF Delivers
  <2>2. [out[e] EXCEPT !.delivered = cfg.exact] \in Letter
        /\ [out[e] EXCEPT !.delivered = cfg.exact].message = out[e].message
    BY <1>2, <2>1 DEF SettingsType
  <2> QED
    BY <1>2, <2>1, <2>2
<1>4. TypeOK'
  BY <1>1, <1>3 DEF Delivers, Others, TypeInv, TypeOK
<1>5. ASSUME NEW d \in Ends
      PROVE  /\ ControlOf(d)' /\ Message(d)' = Message(d) /\ (Running(d)' <=> Running(d))
             /\ end'[d].part = end[d].part /\ end'[d].pc = end[d].pc
  <2>1. CASE d # f
    <3>1. ControlOf(d)' /\ Message(d)' = Message(d) /\ (Running(d)' <=> Running(d))
      BY <1>1, <2>1, OtherEnds DEF TypeInv, Control
    <3> QED
      BY <1>1, <2>1, <3>1 DEF Others
  <2>2. CASE d = f
    <3>1. ControlOf(f) /\ end[f] \in EndType
      BY DEF TypeInv, Control, TypeOK
    <3>2. end'[f].pc = end[f].pc /\ end'[f].event = end[f].event /\ Goes(f, end[f].stage, end[f].part)
          /\ Data(f, end[f].action, end[f].address)
      BY DEF Delivers, Same
    <3>3. end'[f].payload # None
      BY <1>2, <1>1, NoneAssumption DEF Delivers, Mail
    <3> QED
      BY <1>1, <2>2, <3>1, <3>2, <3>3 DEF ControlOf, Succeeded, Message, Running, Goes, Data
  <2> QED
    BY <2>1, <2>2
<1>6. Control'
  BY <1>5 DEF Control
<1>7. OneDevice'
  BY <1>5 DEF TypeInv, OneDevice, Ends
<1>8. ASSUME NEW d \in Ends PROVE PostedOf(d)'
  <2>1. PostedOf(d) /\ PostedOf(e)
    BY DEF TypeInv, Posted
  <2>2. out'[d] # None => out[d] # None /\ out'[d].message = out[d].message
    BY <1>1, <1>3
  <2>3. CASE d # f
    BY <1>1, <1>5, <2>1, <2>2, <2>3 DEF PostedOf, Others
  <2>4. CASE d = f
    <3>1. end'[f].command = [stage |-> out[e].message.stage, asks |-> out[e].message.asks]
          /\ end'[f].payload = out[e].message
      BY DEF Delivers, Mail
    <3>2. out[e].message.from = e
      BY <1>1, <2>1 DEF PostedOf, Message
    <3>3. e \in Peers(f)
      BY <1>1 DEF Peers, Ends, PairingAssumption
    <3>4. out[e].message # None
      BY <1>1, <1>2, NoneAssumption
    <3> QED
      BY <1>1, <1>5, <2>1, <2>2, <2>4, <3>1, <3>2, <3>3, <3>4 DEF PostedOf
  <2> QED
    BY <2>3, <2>4
<1> QED
  BY <1>4, <1>6, <1>7, <1>8 DEF TypeInv, Posted

LEMMA AcknowledgeStep ==
  ASSUME PairingAssumption, TypeInv, NEW e \in Ends, NEW f \in Ends, Acknowledges(e, f)
  PROVE  TypeInv'
<1>1. Others(e) /\ UNCHANGED cfg /\ out[e] # None /\ out' = [out EXCEPT ![e] = None]
  BY DEF Acknowledges
<1>2. TypeOK'
  BY <1>1 DEF Acknowledges, Others, TypeInv, TypeOK
<1>3. ControlOf(e) /\ PostedOf(e) /\ end[e] \in EndType
  BY DEF TypeInv, Control, Posted, TypeOK
<1>4. ASSUME NEW d \in Ends \ {e}
      PROVE  ControlOf(d)' /\ Message(d)' = Message(d) /\ (Running(d)' <=> Running(d)) /\ end'[d] = end[d]
  BY <1>1, OtherEnds DEF TypeInv, Control, Others
<1>5. ControlOf(e)' /\ (Running(e)' <=> Running(e))
  BY <1>3 DEF Acknowledges, ControlOf, Succeeded, Running, Goes, Data, Mail, Same, AfterAck, Stages
<1>6. Control'
  BY <1>4, <1>5 DEF Control
<1>7. OneDevice'
  BY <1>4, <1>5 DEF TypeInv, OneDevice, Ends
<1>8. out'[e] = None /\ \A d \in Ends \ {e} : out'[d] = out[d]
  BY <1>1 DEF TypeInv, TypeOK
<1>9. PostedOf(e)'
  BY <1>3, <1>8 DEF Acknowledges, PostedOf, Mail
<1>10. ASSUME NEW d \in Ends \ {e} PROVE PostedOf(d)'
  BY <1>4, <1>8 DEF TypeInv, Posted, PostedOf
<1> QED
  BY <1>2, <1>6, <1>7, <1>9, <1>10 DEF TypeInv, Posted

LEMMA TypeInvInit ==
  ASSUME PairingAssumption, Init
  PROVE  TypeInv
<1>1. cfg \in Settings /\ out = [e \in Ends |-> None] /\ list = [role \in 0 .. ListSize - 1 |-> 0]
      /\ adopted = [d \in Devices |-> [address |-> 0, pairing |-> 0]]
  BY DEF Init
<1> DEFINE zero == [pc |-> "off", stage |-> "enter", part |-> "none", command |-> None, payload |-> None,
                    action |-> NoAction, event |-> "none", address |-> 0, starts |-> 0]
<1>2. 0 \in 0 .. MaxAddress
  BY DEF PairingAssumption
<1>3. zero \in EndType
  BY <1>2 DEF EndType, NoAction, Events
<1>4. zero.pc = "off" /\ zero.stage = "enter" /\ zero.part = "none" /\ zero.command = None
      /\ zero.payload = None /\ zero.event = "none"
  OBVIOUS
<1>5. end = [e \in Ends |-> zero]
  BY DEF Init
<1> HIDE DEF zero
<1>6. [address |-> 0, pairing |-> 0] \in [address : 0 .. MaxAddress, pairing : Nat]
  BY <1>2
<1>7. TypeOK
  BY <1>1, <1>2, <1>3, <1>5, <1>6 DEF TypeOK
<1>8. Control
  BY <1>4, <1>5 DEF Control, ControlOf, Stages, Succeeded
<1>9. Posted
  BY <1>1, <1>4, <1>5 DEF Posted, PostedOf
<1>10. OneDevice
  BY <1>4, <1>5 DEF OneDevice, Running, Ends
<1> QED
  BY <1>7, <1>8, <1>9, <1>10 DEF TypeInv

LEMMA TypeInvNext ==
  ASSUME PairingAssumption, TypeInv, [Next]_vars
  PROVE  TypeInv'
<1>1. CASE Next
  <2>1. ASSUME NEW e \in Ends, Step(e) PROVE TypeInv'
    BY <2>1, TypeStep, ControlStep, PostedStep, OneDeviceStep DEF TypeInv
  <2> QED
    BY <1>1, <2>1, StepCases, DeliverStep, AcknowledgeStep
<1>2. CASE UNCHANGED vars
  BY <1>2 DEF vars, TypeInv, TypeOK, Control, ControlOf, Posted, PostedOf, OneDevice, Succeeded, Message,
     Running
<1> QED
  BY <1>1, <1>2

(* Every variable has its type, whatever stops the ends and whatever the link  *)
(* loses or repeats: in particular an address is always found, and is one that *)
(* may be used, because the discovery list has fewer places than there are     *)
(* addresses.                                                                  *)
THEOREM PairingTypeOK == Spec => []TypeOK
<1>1. Init => TypeInv
  BY PairingAssumption, TypeInvInit
<1>2. TypeInv /\ [Next]_vars => TypeInv'
  BY PairingAssumption, TypeInvNext
<1>3. TypeInv => TypeOK
  BY DEF TypeInv
<1> QED
  BY <1>1, <1>2, <1>3, PTL DEF Spec
-----------------------------------------------------------------------------
(* Where no callback comes in the middle of a state function *)

Holds(e, stage, asks) ==
  /\ end[e].command # None
  /\ end[e].command.stage = stage
  /\ end[e].command.asks = asks

At(e, stage, parts) == end[e].stage = stage /\ end[e].part \in parts

ReadNow(e) ==
  /\ Reads(e, None) /\ end[e].pc = "execute" /\ Expected(e)
  /\ \/ ReadsAnswer(e) \/ ReadsAuthentication(e)
     \/ ReadsIdentification(e) \/ ReadsAddressing(e)

AtomicStep(e) ==
  \/ Entered(e) \/ Queued(e) \/ ReadNow(e)
  \/ Acts(e) /\ (Advances(e) \/ Succeeds(e) \/ Refuses(e) \/ GivesUp(e) \/ Hesitates(e))
  \/ Idles(e) \/ Aborts(e) \/ Leaves(e) \/ Starts(e)

LEMMA AtomicCases ==
  ASSUME PairingAssumption, TypeInv, cfg.atomic, NEW e \in Ends, Step(e)
  PROVE  AtomicStep(e) /\ Others(e) /\ UNCHANGED cfg /\ ControlOf(e)
<1>1. ControlOf(e)
  BY DEF TypeInv, Control
<1>2. Others(e) /\ UNCHANGED cfg
  BY DEF Step, Entered, Queued, WaitsForAck, Read, Reads, Looks, Clears, Acts, Idles, Aborts, Leaves,
     Starts
<1>3. end[e].pc \notin {"sent", "expected", "cleared"}
  BY <1>1 DEF ControlOf
<1>4. Read(e) => ReadNow(e)
  BY <1>3 DEF Read, Reads, ReadNow
<1>5. ~WaitsForAck(e) /\ ~Looks(e) /\ ~Clears(e)
  BY <1>3 DEF WaitsForAck, Looks, Clears
<1> QED
  BY <1>1, <1>2, <1>4, <1>5 DEF Step, AtomicStep

\* Who asks in each stage.
LEMMA WhoAsks ==
  ASSUME PairingAssumption
  PROVE  /\ Asks(Coord, "authentication") /\ ~Asks(Coord, "identification") /\ Asks(Coord, "addressing")
         /\ \A d \in Devices :
              ~Asks(d, "authentication") /\ Asks(d, "identification") /\ ~Asks(d, "addressing")
  BY DEF Asks, PairingAssumption

\* The message an end reads is the one its state waits for.
LEMMA ReadsExpected ==
  ASSUME PairingAssumption, TypeInv, NEW e \in Ends, Expected(e)
  PROVE  /\ end[e].payload # None /\ end[e].payload \in MessageType
         /\ e = Coord =>
              /\ end[e].stage = "authentication" => Holds(e, "authentication", FALSE)
              /\ end[e].stage = "identification" => Holds(e, "identification", TRUE)
              /\ end[e].stage = "addressing" => Holds(e, "addressing", FALSE)
         /\ e # Coord =>
              /\ end[e].stage = "authentication" => Holds(e, "authentication", TRUE)
              /\ end[e].stage = "identification" => Holds(e, "identification", FALSE)
              /\ end[e].stage = "addressing" => Holds(e, "addressing", TRUE)
<1>1. end[e] \in EndType /\ PostedOf(e) /\ end[e].command # None
  BY DEF TypeInv, TypeOK, Posted, Expected
<1>2. end[e].payload # None /\ end[e].payload \in MessageType
  BY <1>1 DEF PostedOf, EndType
<1>3. end[e].command \in CommandType
  BY <1>1 DEF EndType
<1>4. end[e].command.asks \in BOOLEAN
  BY <1>3 DEF CommandType
<1>5. end[e].command.stage = end[e].stage /\ end[e].command.asks # Asks(e, end[e].stage)
  BY DEF Expected
<1>6. e # Coord => e \in Devices
  BY DEF Ends
<1> QED
  BY <1>1, <1>2, <1>4, <1>5, <1>6, WhoAsks DEF Holds, Asks

\* A number of pairings started never decreases, and grows only at a start.
LEMMA StartsGrow ==
  ASSUME PairingAssumption, TypeInv, cfg.atomic, NEW e \in Ends, Step(e), NEW f \in Ends
  PROVE  /\ end[f].starts \in Nat
         /\ end'[f].starts = IF Starts(e) /\ f = e THEN end[f].starts + 1 ELSE end[f].starts
<1>1. Others(e) /\ AtomicStep(e)
  BY AtomicCases
<1>2. end[f].starts \in Nat
  BY DEF TypeInv, TypeOK, EndType
<1>3. CASE f # e
  BY <1>1, <1>2, <1>3 DEF Others
<1>4. CASE f = e
  <2>1. CASE Starts(e)
    BY <1>2, <1>4, <2>1 DEF Starts
  <2>2. CASE ~Starts(e)
    BY <1>1, <1>2, <1>4, <2>2
    DEF AtomicStep, Entered, Queued, ReadNow, ReadsAnswer, ReadsAuthentication, ReadsIdentification,
        ReadsAddressing, Acts, Idles, Aborts, Leaves, Data
  <2> QED
    BY <2>1, <2>2
<1> QED
  BY <1>3, <1>4

-----------------------------------------------------------------------------
(* The application code *)

\* What a device tells of its application code, and what it says by going on.
HonestDevice(d) ==
  /\ At(d, "authentication", {"send", "ack", "action"}) =>
       /\ end[d].action = Fail => d \notin cfg.compatible
       /\ end[d].action = Success => d \in cfg.compatible
  /\ end[d].stage \in {"identification", "addressing"} => d \in cfg.compatible
  /\ adopted[d].pairing # 0 => d \in cfg.compatible

OtherStarted == \E d \in Devices \ cfg.compatible : end[d].starts > 0

\* The coordinator hears of a failure, and reports it, from such a device only.
HonestAnswer ==
  /\ Holds(Coord, "authentication", FALSE) /\ end[Coord].payload.byte = Fail => OtherStarted
  /\ At(Coord, "authentication", {"action"}) /\ end[Coord].action = Fail => OtherStarted
  /\ end[Coord].event = "invalid_app_code" => OtherStarted

Honest == HonestAnswer /\ \A d \in Devices : HonestDevice(d)

LEMMA HonestDeviceStep ==
  ASSUME PairingAssumption, TypeInv, cfg.atomic, NEW d \in Devices, Step(d), HonestDevice(d)
  PROVE  HonestDevice(d)'
<1>1. d \in Ends /\ d # Coord
  BY DEF Ends, PairingAssumption
<1>2. AtomicStep(d) /\ Others(d) /\ UNCHANGED cfg /\ ControlOf(d)
  BY <1>1, AtomicCases
<1>3. adopted \in [Devices -> [address : 0 .. MaxAddress, pairing : Nat]]
  BY DEF TypeInv, TypeOK
<1>4. ~Asks(d, "authentication") /\ Asks(d, "identification") /\ ~Asks(d, "addressing")
  BY WhoAsks
<1>5. CASE Entered(d)
  BY <1>2, <1>4, <1>5 DEF Entered, HonestDevice, At, Goes, FirstPart
<1>6. CASE Queued(d)
  BY <1>2, <1>6 DEF Queued, HonestDevice, At, Goes, Data
<1>7. CASE ReadNow(d)
  <2>1. end[d].stage \in Stages /\ Goes(d, end[d].stage, AfterMessage(d, end[d].stage))
    BY <1>2, <1>7 DEF ReadNow, Reads, ControlOf
  <2>2. CASE ReadsAnswer(d)
    BY <1>2, <1>4, <2>1, <2>2 DEF ReadsAnswer, HonestDevice, At, Goes, Stages
  <2>3. CASE ReadsAuthentication(d)
    BY <1>2, <2>1, <2>3 DEF ReadsAuthentication, HonestDevice, At, Goes, Data, Success, Fail
  <2>4. CASE ReadsIdentification(d)
    BY <1>4, <2>4 DEF ReadsIdentification
  <2>5. CASE ReadsAddressing(d)
    <3>1. end[d].stage = "addressing"
      BY <2>1, <2>5 DEF ReadsAddressing, Stages
    <3> QED
      BY <1>2, <2>1, <2>5, <3>1 DEF ReadsAddressing, HonestDevice, At, Goes
  <2> QED
    BY <1>7, <2>2, <2>3, <2>4, <2>5 DEF ReadNow
<1>8. CASE Acts(d) /\ (Advances(d) \/ Hesitates(d))
  BY <1>2, <1>8
  DEF Acts, Advances, Hesitates, HonestDevice, At, Goes, Data, NextStage, ControlOf, Stages,
      NoAction, Success, Fail
<1>9. CASE Acts(d) /\ (Succeeds(d) \/ Refuses(d) \/ GivesUp(d))
  BY <1>2, <1>9 DEF Acts, Succeeds, Refuses, GivesUp, HonestDevice, At, Goes
<1>10. CASE Idles(d) \/ Aborts(d)
  BY <1>2, <1>10 DEF Idles, Aborts, HonestDevice, At, Goes, Data
<1>11. CASE Leaves(d)
  BY <1>2, <1>11 DEF Leaves, HonestDevice, At, Goes
<1>12. CASE Starts(d)
  BY <1>2, <1>12 DEF Starts, Running, ControlOf, HonestDevice, At, Goes
<1> QED
  BY <1>2, <1>5, <1>6, <1>7, <1>8, <1>9, <1>10, <1>11, <1>12 DEF AtomicStep

LEMMA HonestStep ==
  ASSUME PairingAssumption, TypeInv, cfg.atomic, Honest, NEW e \in Ends, Step(e)
  PROVE  Honest'
<1>1. AtomicStep(e) /\ Others(e) /\ UNCHANGED cfg /\ ControlOf(e)
  BY AtomicCases
<1>2. ASSUME NEW d \in Devices PROVE HonestDevice(d)'
  <2>1. CASE d = e
    BY <2>1, HonestDeviceStep DEF Honest
  <2>2. CASE d # e
    <3>1. end'[d] = end[d]
      BY <1>1, <2>2 DEF Others, Ends
    <3>2. adopted'[d] = adopted[d]
      BY <1>1, <2>2
      DEF AtomicStep, Entered, Queued, ReadNow, ReadsAnswer, ReadsAuthentication, ReadsIdentification,
          ReadsAddressing, Acts, Idles, Aborts, Leaves, Starts, TypeInv, TypeOK
    <3> QED
      BY <1>1, <3>1, <3>2 DEF Honest, HonestDevice, At
  <2> QED
    BY <2>1, <2>2
<1>3. OtherStarted => OtherStarted'
  <2> SUFFICES ASSUME NEW d \in Devices \ cfg.compatible, end[d].starts > 0 PROVE OtherStarted'
    BY DEF OtherStarted
  <2>1. end'[d].starts > 0
    BY StartsGrow DEF Ends
  <2> QED
    BY <1>1, <2>1 DEF OtherStarted
<1>4. HonestAnswer'
  <2>1. HonestAnswer
    BY DEF Honest
  <2>2. CASE e # Coord
    <3>1. end'[Coord] = end[Coord]
      BY <1>1, <2>2 DEF Others, Ends
    <3> QED
      BY <1>3, <2>1, <3>1 DEF HonestAnswer, Holds, At
  <2>3. CASE e = Coord
    <3>1. CASE Entered(e)
      BY <1>3, <2>1, <2>3, <3>1, WhoAsks
      DEF Entered, HonestAnswer, Holds, At, Goes, Mail, Loops, FirstPart
    <3>2. CASE Queued(e)
      BY <1>3, <2>1, <2>3, <3>2 DEF Queued, HonestAnswer, Holds, At, Goes, Mail, Loops
    <3>3. CASE ReadNow(e)
      <4>1. end'[e].command = None /\ Goes(e, end[e].stage, AfterMessage(e, end[e].stage))
            /\ Loops(e, end[e].event) /\ Expected(e)
        BY <3>3 DEF ReadNow, Reads, Mail
      <4>2. end[e].stage = "authentication" =>
              Holds(e, "authentication", FALSE) /\ end'[e].action = end[e].payload.byte
        BY <2>3, <3>3, <4>1, ReadsExpected, WhoAsks
        DEF ReadNow, ReadsAnswer, ReadsAuthentication, ReadsIdentification, ReadsAddressing, Data
      <4> QED
        BY <1>3, <2>1, <2>3, <4>1, <4>2 DEF HonestAnswer, Holds, At, Goes, Loops
    <3>4. CASE Acts(e) /\ (Advances(e) \/ Hesitates(e))
      BY <1>3, <2>1, <2>3, <3>4
      DEF Acts, Advances, Hesitates, HonestAnswer, Holds, At, Goes, Mail, Data, Loops, NoAction, Fail
    <3>5. CASE Acts(e) /\ (Succeeds(e) \/ GivesUp(e))
      BY <1>3, <2>1, <2>3, <3>5
      DEF Acts, Succeeds, GivesUp, HonestAnswer, Holds, At, Goes, Mail, Data, Loops
    <3>6. CASE Acts(e) /\ Refuses(e)
      BY <1>3, <2>1, <2>3, <3>6
      DEF Acts, Refuses, HonestAnswer, Holds, At, Goes, Mail, Data, Loops
    <3>7. CASE Idles(e) \/ Aborts(e)
      BY <1>3, <2>1, <2>3, <3>7 DEF Idles, Aborts, HonestAnswer, Holds, At, Goes, Mail, Data, Loops
    <3>8. CASE Leaves(e)
      BY <1>3, <2>1, <2>3, <3>8 DEF Leaves, HonestAnswer, Holds, At, Goes, Mail, Same
    <3>9. CASE Starts(e)
      BY <1>1, <1>3, <2>1, <2>3, <3>9
      DEF Starts, Running, ControlOf, HonestAnswer, Holds, At, Goes, Mail
    <3> QED
      BY <1>1, <3>1, <3>2, <3>3, <3>4, <3>5, <3>6, <3>7, <3>8, <3>9 DEF AtomicStep
  <2> QED
    BY <2>2, <2>3
<1> QED
  BY <1>2, <1>4 DEF Honest

\* A message is delivered by an end that has queued it and waits.
LEMMA DeliveredMessage ==
  ASSUME PairingAssumption, TypeInv, cfg.atomic, NEW e \in Ends, NEW f \in Ends, Delivers(e, f)
  PROVE  /\ (e = Coord /\ f \in Devices) \/ (e \in Devices /\ f = Coord)
         /\ Running(e) /\ end[e].part = "ack" /\ end[e].stage \in Stages
         /\ end'[f].payload = Message(e) /\ end'[f].command # None
         /\ end'[f].command.stage = end[e].stage
         /\ end'[f].command.asks = Asks(e, end[e].stage)
         /\ \A g \in Ends \ {f} : end'[g] = end[g]
         /\ end'[f].stage = end[f].stage /\ end'[f].part = end[f].part
         /\ end'[f].action = end[f].action /\ end'[f].address = end[f].address
         /\ end'[f].starts = end[f].starts /\ end'[f].event = end[f].event
         /\ end'[f].pc = end[f].pc /\ Running(f)
         /\ UNCHANGED <<cfg, list, adopted>>
<1>1. out[e] # None /\ f \in Peers(e) /\ Running(e) /\ Running(f)
  BY DEF Delivers, Linked
<1>2. PostedOf(e) /\ ControlOf(e) /\ ControlOf(f)
  BY DEF TypeInv, Posted, Control
<1>3. out[e].message = Message(e) /\ end[e].part = "ack"
  BY <1>1, <1>2 DEF PostedOf, ControlOf
<1>4. end[e].stage \in Stages
  BY <1>2, <1>3 DEF ControlOf
<1>5. Message(e).stage = end[e].stage /\ Message(e).asks = Asks(e, end[e].stage)
  BY DEF Message
<1>6. end'[f].command = [stage |-> out[e].message.stage, asks |-> out[e].message.asks]
      /\ end'[f].payload = out[e].message
  BY DEF Delivers, Mail
<1>7. end'[f].command # None
  <2>1. [stage |-> out[e].message.stage, asks |-> out[e].message.asks] \in CommandType
    BY <1>3, <1>4, <1>5 DEF Asks, CommandType
  <2> QED
    BY <1>6, <2>1, NoneAssumption
<1>8. (e = Coord /\ f \in Devices) \/ (e \in Devices /\ f = Coord)
  BY <1>1 DEF Peers, Ends
<1> QED
  BY <1>1, <1>3, <1>4, <1>5, <1>6, <1>7, <1>8 DEF Delivers, Others, Goes, Data, Same

LEMMA MessageFields ==
  ASSUME NEW e \in Ends
  PROVE  /\ Message(e).stage = end[e].stage /\ Message(e).from = e
         /\ Message(e).address = end[e].address /\ Message(e).pairing = end[e].starts
         /\ ~Asks(e, end[e].stage) => Message(e).byte = end[e].action
<1> DEFINE byte == CASE ~Asks(e, end[e].stage) -> end[e].action
                     [] Asks(e, end[e].stage) /\ e # Coord -> Role[e]
                     [] OTHER -> Fail + 1
<1>1. ~Asks(e, end[e].stage) => byte = end[e].action
  OBVIOUS
<1>2. Message(e) = [stage |-> end[e].stage, asks |-> Asks(e, end[e].stage), from |-> e,
                    address |-> end[e].address, pairing |-> end[e].starts, byte |-> byte]
  BY DEF Message
<1> HIDE DEF byte
<1> QED
  BY <1>1, <1>2

LEMMA HonestDeliver ==
  ASSUME PairingAssumption, TypeInv, cfg.atomic, Honest, NEW e \in Ends, NEW f \in Ends, Delivers(e, f)
  PROVE  Honest'
<1>1. ASSUME NEW d \in Devices PROVE HonestDevice(d)'
  <2>1. end'[d].stage = end[d].stage /\ end'[d].part = end[d].part /\ end'[d].action = end[d].action
    BY DeliveredMessage DEF Ends
  <2> QED
    BY <2>1, DeliveredMessage DEF Honest, HonestDevice, At
<1>2. OtherStarted => OtherStarted'
  BY DeliveredMessage DEF OtherStarted, Ends
<1>3. CASE e = Coord
  <2>1. end'[Coord] = end[Coord]
    BY <1>3, DeliveredMessage, PairingAssumption DEF PairingAssumption
  <2> QED
    BY <1>1, <1>2, <2>1 DEF Honest, HonestAnswer, Holds, At
<1>4. CASE e \in Devices /\ f = Coord
  <2>1. end'[f].payload.byte = Fail /\ end[e].stage = "authentication" => OtherStarted'
    <3> SUFFICES ASSUME end'[f].payload.byte = Fail, end[e].stage = "authentication"
                 PROVE  OtherStarted
      BY <1>2
    <3>1. end[e].action = Fail /\ end[e].part = "ack" /\ Running(e)
      <4>1. ~Asks(e, end[e].stage)
        BY <1>4, WhoAsks
      <4>2. end'[f].payload = Message(e) /\ end[e].part = "ack" /\ Running(e)
        BY DeliveredMessage
      <4> QED
        BY <4>1, <4>2, MessageFields
    <3>2. e \notin cfg.compatible
      BY <1>4, <3>1 DEF Honest, HonestDevice, At
    <3>3. end[e].starts > 0
      BY <3>1 DEF TypeInv, Control, ControlOf, Running, TypeOK, EndType
    <3> QED
      BY <1>4, <3>2, <3>3 DEF OtherStarted
  <2> QED
    BY <1>1, <1>2, <1>4, <2>1, DeliveredMessage DEF Honest, HonestAnswer, Holds, At
<1> QED
  BY <1>3, <1>4, DeliveredMessage

\* A message is acknowledged to the end that waits.
LEMMA AcknowledgedMessage ==
  ASSUME PairingAssumption, TypeInv, cfg.atomic, NEW e \in Ends, NEW f \in Ends, Acknowledges(e, f)
  PROVE  /\ Running(e) /\ end[e].part = "ack" /\ end[e].stage \in Stages
         /\ \A g \in Ends \ {e} : end'[g] = end[g]
         /\ end'[e].stage = end[e].stage /\ end'[e].part = AfterAck(e, end[e].stage)
         /\ end'[e].command = end[e].command /\ end'[e].payload = end[e].payload
         /\ end'[e].action = end[e].action /\ end'[e].address = end[e].address
         /\ end'[e].starts = end[e].starts /\ end'[e].event = end[e].event
         /\ end'[e].pc = end[e].pc
         /\ cfg.exact => out[e].delivered
         /\ UNCHANGED <<cfg, list, adopted>>
<1>1. out[e] # None /\ Running(e)
  BY DEF Acknowledges, Linked
<1>2. PostedOf(e) /\ ControlOf(e)
  BY DEF TypeInv, Posted, Control
<1>3. end[e].part = "ack" /\ end[e].stage \in Stages
  BY <1>1, <1>2 DEF PostedOf, ControlOf
<1> QED
  BY <1>1, <1>3 DEF Acknowledges, Others, Goes, Data, Mail, Same

LEMMA HonestAcknowledge ==
  ASSUME PairingAssumption, TypeInv, cfg.atomic, Honest, NEW e \in Ends, NEW f \in Ends,
         Acknowledges(e, f)
  PROVE  Honest'
<1>1. OtherStarted => OtherStarted'
  BY AcknowledgedMessage DEF OtherStarted, Ends
<1>2. HonestAnswer'
  <2>1. end'[Coord].command = end[Coord].command /\ end'[Coord].payload = end[Coord].payload
        /\ end'[Coord].event = end[Coord].event /\ end'[Coord].action = end[Coord].action
        /\ end'[Coord].stage = end[Coord].stage
    BY AcknowledgedMessage DEF Ends
  <2>2. At(Coord, "authentication", {"action"})' => At(Coord, "authentication", {"action"})
    BY AcknowledgedMessage, WhoAsks DEF Ends, At, AfterAck
  <2> QED
    BY <1>1, <2>1, <2>2 DEF Honest, HonestAnswer, Holds
<1>3. ASSUME NEW d \in Devices PROVE HonestDevice(d)'
  <2>1. end'[d].action = end[d].action /\ end'[d].stage = end[d].stage
    BY AcknowledgedMessage DEF Ends
  <2>2. At(d, "authentication", {"send", "ack", "action"})' =>
          At(d, "authentication", {"send", "ack", "action"})
    BY AcknowledgedMessage DEF Ends, At
  <2> QED
    BY <2>1, <2>2, AcknowledgedMessage DEF Honest, HonestDevice
<1> QED
  BY <1>2, <1>3 DEF Honest

LEMMA HonestNext ==
  ASSUME PairingAssumption, TypeInv, cfg.atomic, Honest, [Next]_vars
  PROVE  Honest'
<1>1. CASE Next
  BY <1>1, StepCases, HonestStep, HonestDeliver, HonestAcknowledge
<1>2. CASE UNCHANGED vars
  BY <1>2 DEF vars, Honest, HonestAnswer, HonestDevice, OtherStarted, Holds, At
<1> QED
  BY <1>1, <1>2

\* The setting stays.
LEMMA SettingStays ==
  ASSUME PairingAssumption, TypeInv, [Next]_vars
  PROVE  UNCHANGED cfg
<1>1. CASE Next
  <2>1. ASSUME NEW e \in Ends, Step(e) PROVE UNCHANGED cfg
    BY <2>1 DEF Step, Entered, Queued, WaitsForAck, Read, Reads, Looks, Clears, Acts, Idles, Aborts,
       Leaves, Starts
  <2> QED
    BY <1>1, <2>1, StepCases DEF Delivers, Acknowledges
<1>2. CASE UNCHANGED vars
  BY <1>2 DEF vars
<1> QED
  BY <1>1, <1>2

LEMMA HonestInit ==
  ASSUME PairingAssumption, Init
  PROVE  Honest
<1> DEFINE zero == [pc |-> "off", stage |-> "enter", part |-> "none", command |-> None, payload |-> None,
                    action |-> NoAction, event |-> "none", address |-> 0, starts |-> 0]
<1>1. zero.stage = "enter" /\ zero.command = None /\ zero.event = "none"
  OBVIOUS
<1>2. end = [e \in Ends |-> zero] /\ \A d \in Devices : adopted[d].pairing = 0
  BY DEF Init
<1> HIDE DEF zero
<1> QED
  BY <1>1, <1>2 DEF Honest, HonestAnswer, HonestDevice, Holds, At, Ends

(* While no callback comes in the middle of a state function, the coordinator  *)
(* reports a different application code only if a device with a different code *)
(* has started, however many devices pair, at whatever time they are stopped.  *)
THEOREM PairingInvalidMeansDifferent == Spec => []InvalidMeansDifferent
<1> DEFINE Inv == TypeInv /\ (cfg.atomic => Honest)
<1>1. Init => Inv
  BY PairingAssumption, TypeInvInit, HonestInit
<1>2. Inv /\ [Next]_vars => Inv'
  BY PairingAssumption, TypeInvNext, HonestNext, SettingStays
<1>3. Inv => InvalidMeansDifferent
  BY DEF Honest, HonestAnswer, OtherStarted, InvalidMeansDifferent
<1> QED
  BY <1>1, <1>2, <1>3, PTL DEF Spec

-----------------------------------------------------------------------------
(* Addresses are those of the pairing *)

\* The coordinator has not assigned an address in the pairing it is in.
Early == Running(Coord) /\ end[Coord].stage \in {"enter", "authentication", "identification"}

\* An address adopted or about to be, in the pairing the coordinator started
\* last, is the one it assigned.
CurrentDevice(d) ==
  /\ adopted[d].pairing <= end[Coord].starts
  /\ InThisPairing(d) /\ adopted[d].pairing # 0 =>
       ~Early /\ adopted[d].address = end[Coord].address
  /\ Holds(d, "addressing", TRUE) =>
       /\ end[d].payload.pairing \in 1 .. end[Coord].starts
       /\ end[d].payload.pairing = end[Coord].starts =>
            ~Early /\ end[d].payload.address = end[Coord].address

Current == \A d \in Devices : CurrentDevice(d)

\* A step of an end leaves the others as they are.
LEMMA StepLeaves ==
  ASSUME PairingAssumption, TypeInv, cfg.atomic, NEW e \in Ends, Step(e)
  PROVE  /\ \A f \in Ends \ {e} : end'[f] = end[f]
         /\ \A d \in Devices \ {e} : adopted'[d] = adopted[d]
<1>1. AtomicStep(e) /\ Others(e)
  BY AtomicCases
<1>2. ASSUME NEW d \in Devices \ {e} PROVE adopted'[d] = adopted[d]
  BY <1>1
  DEF AtomicStep, Entered, Queued, ReadNow, ReadsAnswer, ReadsAuthentication, ReadsIdentification,
      ReadsAddressing, Acts, Idles, Aborts, Leaves, Starts, TypeInv, TypeOK
<1> QED
  BY <1>1, <1>2 DEF Others

\* The coordinator comes to a stage before addressing by a new start only, and
\* decides the address before addressing.
LEMMA CoordKeepsAddress ==
  ASSUME PairingAssumption, TypeInv, cfg.atomic, Step(Coord), ~Starts(Coord)
  PROVE  /\ end'[Coord].starts = end[Coord].starts
         /\ Early' => Early
         /\ ~Early => end'[Coord].address = end[Coord].address
<1>1. Coord \in Ends
  BY DEF Ends
<1>2. AtomicStep(Coord) /\ ControlOf(Coord)
  BY <1>1, AtomicCases
<1>3. end'[Coord].starts = end[Coord].starts
  BY <1>1, StartsGrow
<1>4. CASE Entered(Coord)
  BY <1>4 DEF Entered, Data, Early, Running
<1>5. CASE Queued(Coord)
  BY <1>2, <1>5 DEF Queued, Data, Early, Running, Goes
<1>6. CASE ReadNow(Coord)
  <2>1. end'[Coord].stage = end[Coord].stage /\ Running(Coord)
    BY <1>6 DEF ReadNow, Reads, Goes, Running
  <2>2. ~Early => end'[Coord].address = end[Coord].address
    <3>1. end[Coord].stage \in Stages
      BY <1>2, <1>6 DEF ReadNow, Reads, ControlOf
    <3> QED
      BY <1>6, <2>1, <3>1, WhoAsks
      DEF ReadNow, ReadsAnswer, ReadsAuthentication, ReadsIdentification, ReadsAddressing, Data, Early, Stages
  <2> QED
    BY <1>3, <2>1, <2>2 DEF Early
<1>7. CASE Acts(Coord) /\ (Advances(Coord) \/ Hesitates(Coord))
  BY <1>2, <1>3, <1>7
  DEF Acts, Advances, Hesitates, Goes, Data, NextStage, Early, Running, ControlOf, Stages
<1>8. CASE Acts(Coord) /\ (Succeeds(Coord) \/ Refuses(Coord) \/ GivesUp(Coord))
  BY <1>3, <1>8 DEF Acts, Succeeds, Refuses, GivesUp, Goes, Data, Early
<1>9. CASE Idles(Coord) \/ Aborts(Coord)
  BY <1>3, <1>9 DEF Idles, Aborts, Goes, Data, Early, Running
<1>10. CASE Leaves(Coord)
  BY <1>3, <1>10 DEF Leaves, Data, Early, Running
<1> QED
  BY <1>2, <1>4, <1>5, <1>6, <1>7, <1>8, <1>9, <1>10 DEF AtomicStep

\* What a step of a device may read.
LEMMA DeviceReads ==
  ASSUME PairingAssumption, TypeInv, cfg.atomic, NEW d \in Devices, Step(d)
  PROVE  /\ \/ adopted'[d] = adopted[d]
            \/ /\ ReadNow(d) /\ At(d, "addressing", {"wait"}) /\ Holds(d, "addressing", TRUE)
               /\ adopted'[d].address = end[d].payload.address
               /\ adopted'[d].pairing = end[d].payload.pairing
               /\ end'[d].address = end[d].payload.address
         /\ \/ end'[d].command = end[d].command /\ end'[d].payload = end[d].payload
            \/ ReadNow(d) /\ end'[d].command = None
<1>1. d \in Ends /\ d # Coord
  BY DEF Ends, PairingAssumption
<1>2. AtomicStep(d) /\ ControlOf(d)
  BY <1>1, AtomicCases
<1>3. CASE ReadNow(d)
  <2>1. Mail(d, None, None) /\ end[d].stage \in Stages /\ end[d].part = "wait"
    BY <1>2, <1>3 DEF ReadNow, Reads, ControlOf
  <2>2. CASE ReadsAddressing(d)
    <3>1. end[d].stage = "addressing"
      BY <2>1, <2>2 DEF ReadsAddressing, Stages
    <3>2. Holds(d, "addressing", TRUE)
      BY <1>1, <1>3, <3>1, ReadsExpected DEF ReadNow
    <3>3. adopted \in [Devices -> [address : 0 .. MaxAddress, pairing : Nat]]
      BY DEF TypeInv, TypeOK
    <3> QED
      BY <1>3, <2>1, <2>2, <3>1, <3>2, <3>3 DEF ReadsAddressing, At, Mail, Data
  <2> QED
    BY <1>3, <2>1, <2>2 DEF ReadNow, ReadsAnswer, ReadsAuthentication, ReadsIdentification, Mail
<1>4. CASE ~ReadNow(d)
  BY <1>2, <1>4 DEF AtomicStep, Entered, Queued, Acts, Idles, Aborts, Leaves, Starts, Mail
<1> QED
  BY <1>3, <1>4

LEMMA CurrentStep ==
  ASSUME PairingAssumption, TypeInv, cfg.atomic, Current, NEW e \in Ends, Step(e)
  PROVE  Current'
<1> SUFFICES ASSUME NEW d \in Devices PROVE CurrentDevice(d)'
  BY DEF Current
<1>1. CurrentDevice(d) /\ d \in Ends /\ d # Coord /\ Coord \in Ends
  BY DEF Current, Ends, PairingAssumption
<1>2. end[Coord].starts \in Nat /\ adopted[d].pairing \in Nat
  BY <1>1 DEF TypeInv, TypeOK, EndType
<1>3. CASE e = Coord
  <2>1. end'[d] = end[d] /\ adopted'[d] = adopted[d]
    BY <1>1, <1>3, StepLeaves
  <2>2. CASE Starts(Coord)
    <3>1. end'[Coord].starts = end[Coord].starts + 1
      BY <2>2 DEF Starts
    <3> QED
      BY <1>1, <1>2, <2>1, <3>1 DEF CurrentDevice, InThisPairing, Holds
  <2>3. CASE ~Starts(Coord)
    BY <1>1, <1>3, <2>1, <2>3, CoordKeepsAddress DEF CurrentDevice, InThisPairing, Holds
  <2> QED
    BY <2>2, <2>3
<1>4. CASE e # Coord /\ e # d
  <2>1. end'[d] = end[d] /\ adopted'[d] = adopted[d] /\ end'[Coord] = end[Coord]
    BY <1>1, <1>4, StepLeaves
  <2> QED
    BY <1>1, <2>1 DEF CurrentDevice, InThisPairing, Holds, Early, Running
<1>5. CASE e = d
  <2>1. end'[Coord] = end[Coord]
    BY <1>1, <1>5, StepLeaves
  <2>2. Early' <=> Early
    BY <2>1 DEF Early, Running
  <2>3. CASE adopted'[d] = adopted[d]
    <3>1. InThisPairing(d)' <=> InThisPairing(d)
      BY <2>1, <2>3 DEF InThisPairing
    <3>2. Holds(d, "addressing", TRUE)' =>
            Holds(d, "addressing", TRUE) /\ end'[d].payload = end[d].payload
      BY <1>5, DeviceReads DEF Holds
    <3> QED
      BY <1>1, <2>1, <2>2, <2>3, <3>1, <3>2 DEF CurrentDevice
  <2>4. CASE adopted'[d] # adopted[d]
    <3>1. Holds(d, "addressing", TRUE) /\ adopted'[d].address = end[d].payload.address
          /\ adopted'[d].pairing = end[d].payload.pairing
      BY <1>5, <2>4, DeviceReads
    <3>2. ~Holds(d, "addressing", TRUE)'
      <4>1. ReadNow(d)
        BY <1>5, <2>4, DeviceReads
      <4> QED
        BY <4>1 DEF ReadNow, Reads, Mail, Holds
    <3>3. end[d].payload.pairing <= end[Coord].starts
      BY <1>1, <1>2, <3>1 DEF CurrentDevice
    <3> QED
      BY <1>1, <2>1, <2>2, <3>1, <3>2, <3>3 DEF CurrentDevice, InThisPairing
  <2> QED
    BY <2>3, <2>4
<1> QED
  BY <1>3, <1>4, <1>5

LEMMA CurrentDeliver ==
  ASSUME PairingAssumption, TypeInv, cfg.atomic, Current, NEW e \in Ends, NEW f \in Ends, Delivers(e, f)
  PROVE  Current'
<1> SUFFICES ASSUME NEW d \in Devices PROVE CurrentDevice(d)'
  BY DEF Current
<1>1. CurrentDevice(d) /\ d \in Ends /\ d # Coord /\ Coord \in Ends
  BY DEF Current, Ends, PairingAssumption
<1>2. end'[Coord].stage = end[Coord].stage /\ end'[Coord].address = end[Coord].address
      /\ end'[Coord].starts = end[Coord].starts /\ end'[Coord].pc = end[Coord].pc
      /\ adopted' = adopted
  BY <1>1, DeliveredMessage
<1>3. Early' <=> Early
  BY <1>2 DEF Early, Running
<1>4. CASE f # d
  <2>1. end'[d] = end[d]
    BY <1>1, <1>4, DeliveredMessage
  <2> QED
    BY <1>1, <1>2, <1>3, <2>1 DEF CurrentDevice, InThisPairing, Holds
<1>5. CASE f = d
  <2>1. e = Coord /\ end'[d].payload = Message(Coord) /\ end'[d].command.stage = end[Coord].stage
        /\ Running(Coord)
    BY <1>1, <1>5, DeliveredMessage
  <2>2. end[Coord].starts \in Nat /\ end[Coord].starts >= 1
    BY <1>1, <2>1 DEF TypeInv, TypeOK, EndType, Control, ControlOf, Running
  <2>3. end'[d].payload.pairing = end[Coord].starts /\ end'[d].payload.address = end[Coord].address
    BY <1>1, <2>1, MessageFields
  <2>4. Holds(d, "addressing", TRUE)' => ~Early
    BY <2>1 DEF Holds, Early
  <2>5. end'[d].payload.pairing \in 1 .. end[Coord].starts
    BY <2>2, <2>3
  <2>6. InThisPairing(d)' <=> InThisPairing(d)
    BY <1>2 DEF InThisPairing
  <2> QED
    BY <1>1, <1>2, <1>3, <2>3, <2>4, <2>5, <2>6 DEF CurrentDevice
<1> QED
  BY <1>4, <1>5

LEMMA CurrentAcknowledge ==
  ASSUME PairingAssumption, TypeInv, cfg.atomic, Current, NEW e \in Ends, NEW f \in Ends,
         Acknowledges(e, f)
  PROVE  Current'
<1> SUFFICES ASSUME NEW d \in Devices PROVE CurrentDevice(d)'
  BY DEF Current
<1>1. CurrentDevice(d) /\ d \in Ends /\ Coord \in Ends
  BY DEF Current, Ends
<1>2. ASSUME NEW g \in Ends
      PROVE  end'[g].stage = end[g].stage /\ end'[g].address = end[g].address
             /\ end'[g].starts = end[g].starts /\ end'[g].pc = end[g].pc
             /\ end'[g].command = end[g].command /\ end'[g].payload = end[g].payload
             /\ adopted' = adopted
  BY AcknowledgedMessage
<1>3. Early' <=> Early
  BY <1>1, <1>2 DEF Early, Running
<1> QED
  BY <1>1, <1>2, <1>3 DEF CurrentDevice, InThisPairing, Holds

LEMMA CurrentNext ==
  ASSUME PairingAssumption, TypeInv, cfg.atomic, Current, [Next]_vars
  PROVE  Current'
<1>1. CASE Next
  BY <1>1, StepCases, CurrentStep, CurrentDeliver, CurrentAcknowledge
<1>2. CASE UNCHANGED vars
  BY <1>2 DEF vars, Current, CurrentDevice, InThisPairing, Holds, Early, Running
<1> QED
  BY <1>1, <1>2

-----------------------------------------------------------------------------
(* Who answers the coordinator *)

\* d answers, or is about to answer, an address of an earlier pairing.
Behind(d) ==
  \/ /\ At(d, "identification", {"action"}) \/ At(d, "addressing", {"wait"})
     /\ Holds(d, "addressing", TRUE) /\ end[d].payload.pairing # end[Coord].starts
  \/ At(d, "addressing", {"send", "ack"}) /\ ~InThisPairing(d)

Given == At(Coord, "identification", {"send", "ack", "action"})

\* The coordinator has assigned an address, or has what it needs to do so.
Assigned ==
  \/ /\ At(Coord, "authentication", {"action"}) \/ At(Coord, "identification", {"wait"})
     /\ Holds(Coord, "identification", TRUE)
  \/ Given
  \/ end[Coord].stage = "addressing"
  \/ Succeeded(Coord)

Paired == \E d \in cfg.compatible : InThisPairing(d) /\ adopted[d].address = end[Coord].address

\* The answer to an address comes from the device that took it.
Answered ==
  /\ Assigned => \A d \in Devices : ~Behind(d)
  /\ Given => ~Holds(Coord, "addressing", FALSE)
  /\ end[Coord].stage = "addressing" /\ Holds(Coord, "addressing", FALSE) => Paired
  /\ At(Coord, "addressing", {"action"}) => Paired
  /\ Succeeded(Coord) => Paired

LEMMA CompatibleDevices ==
  ASSUME PairingAssumption, TypeInv
  PROVE  cfg.compatible \subseteq Devices
  BY DEF PairingAssumption, SettingsType, TypeInv, TypeOK

\* How the coordinator goes on: with an answer it has, from the stage before.
CoordProgress ==
  /\ Assigned' => Assigned
  /\ Given' /\ Holds(Coord, "addressing", FALSE)' => Given /\ Holds(Coord, "addressing", FALSE)
  /\ end'[Coord].stage = "addressing" /\ Holds(Coord, "addressing", FALSE)' =>
       (end[Coord].stage = "addressing" \/ Given) /\ Holds(Coord, "addressing", FALSE)
  /\ At(Coord, "addressing", {"action"})' =>
       \/ At(Coord, "addressing", {"action"})
       \/ end[Coord].stage = "addressing" /\ Holds(Coord, "addressing", FALSE)
  /\ Succeeded(Coord)' => Succeeded(Coord) \/ At(Coord, "addressing", {"action"})

LEMMA CoordProgresses ==
  ASSUME PairingAssumption, TypeInv, cfg.atomic, Step(Coord)
  PROVE  CoordProgress
<1>1. Coord \in Ends
  BY DEF Ends
<1>2. AtomicStep(Coord) /\ ControlOf(Coord)
  BY <1>1, AtomicCases
<1>3. Asks(Coord, "authentication") /\ ~Asks(Coord, "identification") /\ Asks(Coord, "addressing")
  BY WhoAsks
<1>4. CASE Entered(Coord)
  BY <1>2, <1>3, <1>4
  DEF Entered, CoordProgress, Assigned, Given, At, Holds, Succeeded, Goes, Mail, Loops, FirstPart, ControlOf
<1>5. CASE Queued(Coord)
  BY <1>2, <1>3, <1>5
  DEF Queued, CoordProgress, Assigned, Given, At, Holds, Succeeded, Goes, Mail, Loops, ControlOf
<1>6. CASE ReadNow(Coord)
  <2>1. end'[Coord].command = None /\ Goes(Coord, end[Coord].stage, AfterMessage(Coord, end[Coord].stage))
        /\ Loops(Coord, end[Coord].event) /\ end[Coord].part = "wait"
    BY <1>6 DEF ReadNow, Reads, Mail
  <2>2. /\ end[Coord].stage = "identification" => Holds(Coord, "identification", TRUE)
        /\ end[Coord].stage = "addressing" => Holds(Coord, "addressing", FALSE)
    BY <1>1, <1>6, ReadsExpected DEF ReadNow
  <2> QED
    BY <1>2, <1>3, <2>1, <2>2
    DEF CoordProgress, Assigned, Given, At, Holds, Succeeded, Goes, Loops, AfterMessage, ControlOf
<1>7. CASE Acts(Coord) /\ Advances(Coord)
  BY <1>2, <1>3, <1>7
  DEF Acts, Advances, CoordProgress, Assigned, Given, At, Holds, Succeeded, Goes, Mail, Loops,
      NextStage, FirstPart, ControlOf, Stages
<1>8. CASE Acts(Coord) /\ Succeeds(Coord)
  BY <1>2, <1>8
  DEF Acts, Succeeds, CoordProgress, Assigned, Given, At, Holds, Succeeded, Goes, Mail, Loops
<1>9. CASE Acts(Coord) /\ (Refuses(Coord) \/ GivesUp(Coord))
  BY <1>2, <1>9
  DEF Acts, Refuses, GivesUp, CoordProgress, Assigned, Given, At, Holds, Succeeded, Goes, Mail, Loops
<1>10. CASE Acts(Coord) /\ Hesitates(Coord)
  BY <1>2, <1>10
  DEF Acts, Hesitates, CoordProgress, Assigned, Given, At, Holds, Succeeded, Goes, Mail, Loops
<1>11. CASE Idles(Coord) \/ Aborts(Coord)
  BY <1>2, <1>11
  DEF Idles, Aborts, CoordProgress, Assigned, Given, At, Holds, Succeeded, Goes, Mail, Loops
<1>12. CASE Leaves(Coord)
  BY <1>2, <1>12
  DEF Leaves, CoordProgress, Assigned, Given, At, Holds, Succeeded, Goes, Mail, Same
<1>13. CASE Starts(Coord)
  BY <1>2, <1>13
  DEF Starts, Running, ControlOf, CoordProgress, Assigned, Given, At, Holds, Succeeded, Goes, Mail
<1> QED
  BY <1>2, <1>4, <1>5, <1>6, <1>7, <1>8, <1>9, <1>10, <1>11, <1>12, <1>13 DEF AtomicStep

\* A step of the coordinator.
LEMMA AnsweredCoord ==
  ASSUME PairingAssumption, TypeInv, cfg.atomic, Answered, Step(Coord)
  PROVE  Answered'
<1>1. Coord \in Ends /\ Coord \notin Devices
  BY DEF Ends, PairingAssumption
<1>2. /\ \A d \in Devices : end'[d] = end[d] /\ adopted'[d] = adopted[d]
      /\ UNCHANGED cfg /\ ControlOf(Coord)
  BY <1>1, StepLeaves, AtomicCases DEF Ends
<1>3. CASE Starts(Coord)
  <2>1. end'[Coord].stage = "enter" /\ end'[Coord].event = "none"
    BY <1>2, <1>3 DEF Starts, Goes, Running, ControlOf
  <2>2. ~Assigned' /\ ~Given' /\ ~At(Coord, "addressing", {"action"})' /\ ~Succeeded(Coord)'
    BY <2>1 DEF Assigned, Given, At, Succeeded
  <2> QED
    BY <2>1, <2>2 DEF Answered
<1>4. CASE ~Starts(Coord)
  <2>1. end'[Coord].starts = end[Coord].starts
    BY <1>4, CoordKeepsAddress
  <2>2. CoordProgress
    BY CoordProgresses
  <2>3. \A d \in Devices : Behind(d)' <=> Behind(d)
    BY <1>2, <2>1 DEF Behind, At, Holds, InThisPairing
  <2>4. (end[Coord].stage = "addressing" \/ Succeeded(Coord)) /\ Paired => Paired'
    <3>1. (end[Coord].stage = "addressing" \/ Succeeded(Coord)) => ~Early
      BY <1>2 DEF Early, Running, ControlOf
    <3>2. ~Early => end'[Coord].address = end[Coord].address
      BY <1>4, CoordKeepsAddress
    <3> QED
      BY <1>2, <2>1, <3>1, <3>2, CompatibleDevices DEF Paired, InThisPairing
  <2> QED
    BY <2>2, <2>3, <2>4 DEF Answered, CoordProgress, At
<1> QED
  BY <1>3, <1>4

\* How a device goes on.
LEMMA BehindGrows ==
  ASSUME PairingAssumption, TypeInv, cfg.atomic, NEW d \in Devices, Step(d), Behind(d)'
  PROVE  Behind(d)
<1>1. d \in Ends /\ Coord \in Ends /\ d # Coord
  BY DEF Ends, PairingAssumption
<1>2. AtomicStep(d) /\ ControlOf(d) /\ end'[Coord] = end[Coord]
  BY <1>1, AtomicCases, StepLeaves
<1>3. ~Asks(d, "authentication") /\ Asks(d, "identification") /\ ~Asks(d, "addressing")
  BY WhoAsks
<1>4. CASE Entered(d)
  BY <1>3, <1>4 DEF Entered, Behind, At, Goes
<1>5. CASE Queued(d)
  BY <1>2, <1>5 DEF Queued, Behind, At, Holds, InThisPairing, Goes, Mail
<1>6. CASE ReadNow(d)
  <2>1. end'[d].command = None /\ Goes(d, end[d].stage, AfterMessage(d, end[d].stage))
        /\ end[d].part = "wait"
    BY <1>6 DEF ReadNow, Reads, Mail
  <2>2. end'[d].stage = "addressing" /\ ~InThisPairing(d)' /\ end[d].stage = "addressing"
    BY <2>1 DEF Behind, At, Holds, Goes
  <2>3. Holds(d, "addressing", TRUE)
    BY <1>1, <1>6, <2>2, ReadsExpected DEF ReadNow
  <2>4. adopted'[d].pairing = end[d].payload.pairing
    <3>1. ReadsAddressing(d)
      BY <1>3, <1>6, <2>2 DEF ReadNow, ReadsAnswer, ReadsAuthentication, ReadsIdentification
    <3>2. adopted \in [Devices -> [address : 0 .. MaxAddress, pairing : Nat]]
      BY DEF TypeInv, TypeOK
    <3> QED
      BY <3>1, <3>2 DEF ReadsAddressing
  <2> QED
    BY <1>2, <2>1, <2>2, <2>3, <2>4 DEF Behind, At, InThisPairing
<1>7. CASE Acts(d) /\ (Advances(d) \/ Hesitates(d))
  BY <1>2, <1>3, <1>7
  DEF Acts, Advances, Hesitates, Behind, At, Holds, InThisPairing, Goes, Mail, NextStage, FirstPart,
      ControlOf, Stages
<1>8. CASE Acts(d) /\ (Succeeds(d) \/ Refuses(d) \/ GivesUp(d))
  BY <1>8 DEF Acts, Succeeds, Refuses, GivesUp, Behind, At, Goes
<1>9. CASE Idles(d) \/ Aborts(d)
  BY <1>2, <1>9 DEF Idles, Aborts, Behind, At, Holds, InThisPairing, Goes, Mail
<1>10. CASE Leaves(d)
  BY <1>10 DEF Leaves, Behind, At, Goes
<1>11. CASE Starts(d)
  BY <1>2, <1>11 DEF Starts, Running, ControlOf, Behind, At, Goes
<1> QED
  BY <1>2, <1>4, <1>5, <1>6, <1>7, <1>8, <1>9, <1>10, <1>11 DEF AtomicStep

LEMMA AnsweredDevice ==
  ASSUME PairingAssumption, TypeInv, cfg.atomic, Honest, Current, Answered, NEW d \in Devices, Step(d)
  PROVE  Answered'
<1>1. d \in Ends /\ Coord \in Ends /\ d # Coord
  BY DEF Ends, PairingAssumption
<1>2. /\ end'[Coord] = end[Coord] /\ UNCHANGED cfg
      /\ \A f \in Devices \ {d} : end'[f] = end[f] /\ adopted'[f] = adopted[f]
  BY <1>1, AtomicCases, StepLeaves DEF Ends
<1>3. (Assigned' <=> Assigned) /\ (Given' <=> Given)
  BY <1>2 DEF Assigned, Given, At, Holds, Succeeded
<1>4. \A f \in Devices \ {d} : Behind(f)' <=> Behind(f)
  BY <1>2 DEF Behind, At, Holds, InThisPairing
<1>5. Behind(d)' => Behind(d)
  BY BehindGrows
<1>6. Assigned /\ Paired => Paired'
  <2> SUFFICES ASSUME Assigned, NEW w \in cfg.compatible, InThisPairing(w),
                      adopted[w].address = end[Coord].address
               PROVE  Paired'
    BY DEF Paired
  <2>1. CASE adopted'[w] = adopted[w]
    BY <1>2, <2>1 DEF Paired, InThisPairing
  <2>2. CASE adopted'[w] # adopted[w]
    <3>1. w = d
      BY <1>2, <2>2, CompatibleDevices
    <3>2. /\ At(d, "addressing", {"wait"}) /\ Holds(d, "addressing", TRUE)
          /\ adopted'[d].address = end[d].payload.address
          /\ adopted'[d].pairing = end[d].payload.pairing
      BY <2>2, <3>1, DeviceReads
    <3>3. end[d].payload.pairing = end[Coord].starts
      BY <3>2 DEF Answered, Behind
    <3>4. end[d].payload.address = end[Coord].address
      BY <3>2, <3>3 DEF Current, CurrentDevice
    <3> QED
      BY <1>2, <3>1, <3>2, <3>3, <3>4 DEF Paired, InThisPairing
  <2> QED
    BY <2>1, <2>2
<1>7. end[Coord].stage = "addressing" \/ Succeeded(Coord) => Assigned
  BY DEF Assigned
<1> QED
  BY <1>2, <1>3, <1>4, <1>5, <1>6, <1>7 DEF Answered, At, Holds, Succeeded

LEMMA AnsweredDeliver ==
  ASSUME PairingAssumption, TypeInv, cfg.atomic, Honest, Current, Answered,
         NEW e \in Ends, NEW f \in Ends, Delivers(e, f)
  PROVE  Answered'
<1>1. Coord \in Ends /\ Coord \notin Devices
  BY DEF Ends, PairingAssumption
<1>2. /\ UNCHANGED <<cfg, adopted>>
      /\ \A g \in Ends : /\ end'[g].stage = end[g].stage /\ end'[g].part = end[g].part
                         /\ end'[g].starts = end[g].starts /\ end'[g].address = end[g].address
                         /\ end'[g].event = end[g].event
  BY DeliveredMessage
<1>3. /\ Given' <=> Given
      /\ Paired' <=> Paired
      /\ Succeeded(Coord)' <=> Succeeded(Coord)
  BY <1>1, <1>2 DEF Given, At, Paired, InThisPairing, Succeeded
<1>4. CASE e = Coord /\ f \in Devices
  <2>1. /\ end'[Coord] = end[Coord] /\ \A g \in Devices \ {f} : end'[g] = end[g]
        /\ end'[f].payload = Message(Coord)
    BY <1>1, <1>4, DeliveredMessage DEF Ends
  <2>2. Assigned' <=> Assigned
    BY <2>1 DEF Assigned, Given, At, Holds, Succeeded
  <2>3. \A g \in Devices \ {f} : Behind(g)' <=> Behind(g)
    BY <1>1, <1>2, <2>1 DEF Behind, At, Holds, InThisPairing
  <2>4. Behind(f)' => Behind(f)
    <3>1. end'[f].payload.pairing = end[Coord].starts
      BY <1>1, <2>1, MessageFields
    <3> QED
      BY <1>1, <1>2, <3>1 DEF Behind, At, InThisPairing
  <2> QED
    BY <1>2, <1>3, <2>1, <2>2, <2>3, <2>4 DEF Answered, At, Holds
<1>5. CASE e \in Devices /\ f = Coord
  <2>1. /\ \A g \in Devices : end'[g] = end[g]
        /\ Running(e) /\ Running(Coord) /\ end[e].part = "ack"
        /\ end'[Coord].command.stage = end[e].stage
        /\ end'[Coord].command.asks = Asks(e, end[e].stage)
    BY <1>1, <1>5, DeliveredMessage DEF Ends
  <2>2. \A g \in Devices : Behind(g)' <=> Behind(g)
    BY <1>1, <1>2, <2>1 DEF Behind, At, Holds, InThisPairing
  <2>3. ASSUME Holds(Coord, "identification", TRUE)', NEW g \in Devices
        PROVE  ~Behind(g)
    <3>1. end[e].stage = "identification" /\ end[e].part = "ack"
      BY <2>1, <2>3 DEF Holds
    <3>2. CASE g = e
      BY <3>1, <3>2 DEF Behind, At
    <3>3. CASE g # e
      <4>1. end[g].stage = "enter"
        BY <1>5, <2>1, <3>3 DEF TypeInv, OneDevice, Control, ControlOf, Running, Ends
      <4> QED
        BY <4>1 DEF Behind, At
    <3> QED
      BY <3>2, <3>3
  <2>4. ASSUME Holds(Coord, "addressing", FALSE)', Assigned
        PROVE  Paired /\ ~Early
    <3>1. At(e, "addressing", {"send", "ack"})
      BY <2>1, <2>4 DEF Holds, At
    <3>2. InThisPairing(e)
      BY <1>5, <2>4, <3>1 DEF Answered, Behind
    <3>3. end[Coord].starts # 0
      BY <1>1, <2>1 DEF TypeInv, TypeOK, EndType, Control, ControlOf, Running
    <3>4. ~Early /\ adopted[e].address = end[Coord].address
      BY <1>5, <3>2, <3>3 DEF Current, CurrentDevice, InThisPairing
    <3>5. e \in cfg.compatible
      BY <1>5, <3>1 DEF Honest, HonestDevice, At
    <3> QED
      BY <3>2, <3>4, <3>5 DEF Paired
  <2>5. Given => Early
    BY <2>1 DEF Given, Early, At
  <2>6. Given \/ end[Coord].stage = "addressing" \/ Succeeded(Coord) => Assigned
    BY DEF Assigned
  <2>7. Assigned' => Assigned \/ Holds(Coord, "identification", TRUE)'
    BY <1>1, <1>2 DEF Assigned, Given, At, Succeeded
  <2> QED
    BY <1>1, <1>2, <1>3, <2>2, <2>3, <2>4, <2>5, <2>6, <2>7 DEF Answered, At
<1> QED
  BY <1>4, <1>5, DeliveredMessage

LEMMA AnsweredAcknowledge ==
  ASSUME PairingAssumption, TypeInv, cfg.atomic, Answered, NEW e \in Ends, NEW f \in Ends,
         Acknowledges(e, f)
  PROVE  Answered'
<1>1. Coord \in Ends /\ Coord \notin Devices /\ Devices \subseteq Ends
  BY DEF Ends, PairingAssumption
<1>2. /\ UNCHANGED <<cfg, adopted>> /\ end[e].part = "ack" /\ end'[e].part = AfterAck(e, end[e].stage)
      /\ \A g \in Ends \ {e} : end'[g] = end[g]
      /\ \A g \in Ends : /\ end'[g].stage = end[g].stage
                         /\ end'[g].starts = end[g].starts /\ end'[g].address = end[g].address
                         /\ end'[g].event = end[g].event
                         /\ end'[g].command = end[g].command /\ end'[g].payload = end[g].payload
  BY AcknowledgedMessage
<1>3. Asks(Coord, "authentication") /\ ~Asks(Coord, "identification") /\ Asks(Coord, "addressing")
      /\ \A d \in Devices : Asks(d, "identification") /\ ~Asks(d, "addressing")
  BY WhoAsks
<1>4. \A g \in Devices : Behind(g)' => Behind(g)
  <2> TAKE g \in Devices
  <2>1. CASE g = e
    BY <1>1, <1>2, <1>3, <2>1 DEF Behind, At, AfterAck, Holds, InThisPairing
  <2>2. CASE g # e
    BY <1>1, <1>2, <2>2 DEF Behind, At, Holds, InThisPairing
  <2> QED
    BY <2>1, <2>2
<1>5. /\ Assigned' => Assigned
      /\ Given' => Given
      /\ At(Coord, "addressing", {"action"})' => At(Coord, "addressing", {"action"})
      /\ Succeeded(Coord)' => Succeeded(Coord)
  <2>1. CASE e = Coord
    BY <1>1, <1>2, <1>3, <2>1 DEF Assigned, Given, At, AfterAck, Holds, Succeeded
  <2>2. CASE e # Coord
    BY <1>1, <1>2, <2>2 DEF Assigned, Given, At, Holds, Succeeded
  <2> QED
    BY <2>1, <2>2
<1>6. (Paired' <=> Paired) /\ (Holds(Coord, "addressing", FALSE)' <=> Holds(Coord, "addressing", FALSE))
  BY <1>1, <1>2 DEF Paired, InThisPairing, Holds
<1> QED
  BY <1>1, <1>2, <1>4, <1>5, <1>6 DEF Answered

LEMMA AnsweredNext ==
  ASSUME PairingAssumption, TypeInv, cfg.atomic, Honest, Current, Answered, [Next]_vars
  PROVE  Answered'
<1>1. CASE Next
  <2>1. ASSUME NEW e \in Ends, Step(e) PROVE Answered'
    BY <2>1, AnsweredCoord, AnsweredDevice DEF Ends
  <2> QED
    BY <1>1, <2>1, StepCases, AnsweredDeliver, AnsweredAcknowledge
<1>2. CASE UNCHANGED vars
  BY <1>2 DEF vars, Answered, Assigned, Given, Behind, Paired, At, Holds, InThisPairing, Succeeded
<1> QED
  BY <1>1, <1>2

\* Every end is off, and holds nothing.
LEMMA AllOff ==
  ASSUME PairingAssumption, Init
  PROVE  /\ \A e \in Ends : /\ end[e].pc = "off" /\ end[e].stage = "enter" /\ end[e].part = "none"
                            /\ end[e].command = None /\ end[e].event = "none" /\ end[e].starts = 0
                            /\ out[e] = None
         /\ \A d \in Devices : adopted[d].pairing = 0
         /\ \A role \in 0 .. ListSize - 1 : list[role] = 0
<1> DEFINE zero == [pc |-> "off", stage |-> "enter", part |-> "none", command |-> None, payload |-> None,
                    action |-> NoAction, event |-> "none", address |-> 0, starts |-> 0]
<1>1. zero.pc = "off" /\ zero.stage = "enter" /\ zero.part = "none" /\ zero.command = None
      /\ zero.event = "none" /\ zero.starts = 0
  OBVIOUS
<1>2. end = [e \in Ends |-> zero] /\ out = [e \in Ends |-> None]
      /\ list = [role \in 0 .. ListSize - 1 |-> 0] /\ \A d \in Devices : adopted[d].pairing = 0
  BY DEF Init
<1> HIDE DEF zero
<1> QED
  BY <1>1, <1>2

LEMMA AnsweredInit ==
  ASSUME PairingAssumption, Init
  PROVE  Current /\ Answered
<1>1. Coord \in Ends /\ Devices \subseteq Ends
  BY DEF Ends
<1>2. Current
  BY <1>1, AllOff DEF Current, CurrentDevice, Holds
<1>3. Answered
  BY <1>1, AllOff DEF Answered, Assigned, Given, At, Succeeded
<1> QED
  BY <1>2, <1>3

(* While no callback comes in the middle of a state function, the coordinator  *)
(* reports success only when a device with its application code has taken the  *)
(* address it assigned, in that very pairing: for every number of devices and  *)
(* of pairings, when ends are stopped and start again at any time with what    *)
(* the last pairing left in their static variables, and when the link repeats  *)
(* or loses messages.                                                          *)
THEOREM PairingCoordinatorSuccess == Spec => [](cfg.atomic => CoordinatorSuccess)
<1> DEFINE Inv == TypeInv /\ (cfg.atomic => Honest /\ Current /\ Answered)
<1>1. Init => Inv
  BY PairingAssumption, TypeInvInit, HonestInit, AnsweredInit
<1>2. Inv /\ [Next]_vars => Inv'
  BY PairingAssumption, TypeInvNext, HonestNext, CurrentNext, AnsweredNext, SettingStays
<1>3. Inv => (cfg.atomic => CoordinatorSuccess)
  BY DEF Answered, Paired, CoordinatorSuccess
<1> QED
  BY <1>1, <1>2, <1>3, PTL DEF Spec

-----------------------------------------------------------------------------
(* What an end has before it starts, and before it leaves *)

\* A device that has not started has nothing, one that starts for the first
\* time has no message, and one that answers an address has taken it.
FreshDevice(d) ==
  /\ end[d].starts = 0 =>
       /\ end[d].command = None /\ end[d].event = "none" /\ end[d].pc = "off"
       /\ adopted[d].pairing = 0
  /\ end[d].starts <= 1 /\ Running(d) /\ end[d].stage = "enter" => end[d].command = None
  /\ Succeeded(d) \/ At(d, "addressing", {"send", "ack", "action"}) => adopted[d].pairing # 0

\* The coordinator does not fail to identify, and leaves with an event.
Decided ==
  /\ Given => end[Coord].action = Success
  /\ end[Coord].stage = "exit" => end[Coord].event # "none"

Fresh == Decided /\ \A d \in Devices : FreshDevice(d)

LEMMA FreshDeviceStep ==
  ASSUME PairingAssumption, TypeInv, cfg.atomic, Current, NEW d \in Devices, Step(d), FreshDevice(d)
  PROVE  FreshDevice(d)'
<1>1. d \in Ends /\ d # Coord
  BY DEF Ends, PairingAssumption
<1>2. AtomicStep(d) /\ ControlOf(d) /\ end[d].starts \in Nat
  BY <1>1, AtomicCases, StartsGrow
<1>3. ~Asks(d, "authentication") /\ Asks(d, "identification") /\ ~Asks(d, "addressing")
  BY WhoAsks
<1>4. CASE ~Starts(d)
  <2>1. end'[d].starts = end[d].starts /\ Running(d) /\ end[d].starts # 0
    <3>1. Running(d)
      BY <1>2, <1>4
      DEF AtomicStep, Entered, Queued, ReadNow, Acts, Idles, Aborts, Leaves, Running, ControlOf
    <3> QED
      BY <1>1, <1>2, <1>4, <3>1, StartsGrow DEF ControlOf, Running
  <2>2. ~(Running(d)' /\ end'[d].stage = "enter" /\ end'[d].command # None /\ end[d].starts <= 1)
    <3>1. CASE end[d].stage = "enter"
      BY <1>2, <1>4, <2>1, <3>1
      DEF AtomicStep, Entered, Queued, ReadNow, Reads, Acts, Idles, Aborts, Leaves, FreshDevice, Goes,
          Mail, ControlOf, Stages, Running
    <3>2. CASE end[d].stage # "enter"
      BY <1>2, <1>4, <3>2
      DEF AtomicStep, Entered, Queued, ReadNow, Reads, Acts, Advances, Succeeds, Refuses, GivesUp,
          Hesitates, Idles, Aborts, Leaves, Goes, Running, NextStage
    <3> QED
      BY <3>1, <3>2
  <2>3. Succeeded(d)' \/ At(d, "addressing", {"send", "ack", "action"})' => adopted'[d].pairing # 0
    <3>1. CASE ReadNow(d)
      <4>1. end[d].part = "wait" /\ Goes(d, end[d].stage, AfterMessage(d, end[d].stage))
            /\ end[d].stage \in Stages /\ Loops(d, end[d].event) /\ end[d].pc = "execute"
        BY <1>2, <3>1 DEF ReadNow, Reads, ControlOf
      <4>2. CASE end[d].stage = "addressing"
        <5>1. Holds(d, "addressing", TRUE)
          BY <1>1, <3>1, <4>2, ReadsExpected DEF ReadNow
        <5>2. end[d].payload.pairing \in 1 .. end[Coord].starts
          BY <5>1 DEF Current, CurrentDevice
        <5>3. ReadsAddressing(d)
          BY <1>3, <3>1, <4>2
          DEF ReadNow, ReadsAnswer, ReadsAuthentication, ReadsIdentification
        <5>4. adopted'[d].pairing = end[d].payload.pairing
          BY <5>3 DEF ReadsAddressing, TypeInv, TypeOK
        <5>5. end[Coord].starts \in Nat
          BY DEF TypeInv, TypeOK, EndType, Ends
        <5> QED
          BY <5>2, <5>4, <5>5
      <4>3. CASE end[d].stage # "addressing"
        BY <1>2, <4>1, <4>3 DEF At, Goes, Succeeded, Loops, ControlOf
      <4> QED
        BY <4>2, <4>3
    <3>2. CASE ~ReadNow(d)
      <4>1. adopted'[d] = adopted[d]
        BY <3>2, DeviceReads
      <4>2. Succeeded(d)' \/ At(d, "addressing", {"send", "ack", "action"})' =>
              Succeeded(d) \/ At(d, "addressing", {"send", "ack", "action"})
        BY <1>2, <1>3, <1>4, <3>2
        DEF AtomicStep, Entered, Queued, Acts, Advances, Succeeds, Refuses, GivesUp, Hesitates, Idles,
            Aborts, Leaves, At, Succeeded, Goes, Loops, Same, NextStage, FirstPart, ControlOf, Stages
      <4> QED
        BY <4>1, <4>2 DEF FreshDevice
    <3> QED
      BY <3>1, <3>2
  <2> QED
    BY <2>1, <2>2, <2>3 DEF FreshDevice
<1>5. CASE Starts(d)
  <2>1. end'[d].event = "none" /\ end'[d].stage = "enter" /\ end'[d].command = end[d].command
        /\ end'[d].starts = end[d].starts + 1 /\ adopted' = adopted
    BY <1>2, <1>5 DEF Starts, Goes, Mail, ControlOf, Running
  <2> QED
    BY <1>2, <2>1 DEF FreshDevice, Succeeded, At
<1> QED
  BY <1>4, <1>5

LEMMA DecidedStep ==
  ASSUME PairingAssumption, TypeInv, cfg.atomic, Decided, Step(Coord)
  PROVE  Decided'
<1>1. Coord \in Ends
  BY DEF Ends
<1>2. AtomicStep(Coord) /\ ControlOf(Coord)
  BY <1>1, AtomicCases
<1>3. Asks(Coord, "authentication") /\ ~Asks(Coord, "identification") /\ Asks(Coord, "addressing")
  BY WhoAsks
<1>4. CASE Entered(Coord) \/ Queued(Coord)
  BY <1>2, <1>4 DEF Entered, Queued, Decided, Given, At, Goes, Data, Loops
<1>5. CASE ReadNow(Coord)
  <2>1. Goes(Coord, end[Coord].stage, AfterMessage(Coord, end[Coord].stage)) /\ end[Coord].stage \in Stages
    BY <1>2, <1>5 DEF ReadNow, Reads, ControlOf
  <2>2. end[Coord].stage = "identification" => end'[Coord].action = Success
    BY <1>3, <1>5
    DEF ReadNow, ReadsAnswer, ReadsAuthentication, ReadsIdentification, ReadsAddressing, Data
  <2> QED
    BY <2>1, <2>2 DEF Decided, Given, At, Goes, Stages
<1>6. CASE Acts(Coord) /\ Advances(Coord)
  BY <1>3, <1>6 DEF Acts, Advances, Decided, Given, At, Goes, NextStage, FirstPart
<1>7. CASE Acts(Coord) /\ (Succeeds(Coord) \/ Refuses(Coord))
  BY <1>7 DEF Acts, Succeeds, Refuses, Decided, Given, At, Goes, Loops
<1>8. CASE Acts(Coord) /\ (GivesUp(Coord) \/ Hesitates(Coord))
  BY <1>2, <1>8
  DEF Acts, GivesUp, Hesitates, Decided, Given, At, Goes, Loops, Success, Fail, ControlOf, Stages
<1>9. CASE Idles(Coord) \/ Aborts(Coord) \/ Leaves(Coord)
  BY <1>9 DEF Idles, Aborts, Leaves, Decided, Given, At, Goes, Data, Loops
<1>10. CASE Starts(Coord)
  BY <1>2, <1>10 DEF Starts, Running, ControlOf, Decided, Given, At, Goes
<1> QED
  BY <1>2, <1>4, <1>5, <1>6, <1>7, <1>8, <1>9, <1>10 DEF AtomicStep

LEMMA FreshStep ==
  ASSUME PairingAssumption, TypeInv, cfg.atomic, Current, Fresh, NEW e \in Ends, Step(e)
  PROVE  Fresh'
<1>1. ASSUME NEW d \in Devices PROVE FreshDevice(d)'
  <2>1. CASE d = e
    BY <2>1, FreshDeviceStep DEF Fresh
  <2>2. CASE d # e
    <3>1. end'[d] = end[d] /\ adopted'[d] = adopted[d]
      BY <2>2, StepLeaves DEF Ends
    <3> QED
      BY <3>1 DEF Fresh, FreshDevice, Running, Succeeded, At
  <2> QED
    BY <2>1, <2>2
<1>2. Decided'
  <2>1. CASE e = Coord
    BY <2>1, DecidedStep DEF Fresh
  <2>2. CASE e # Coord
    <3>1. end'[Coord] = end[Coord]
      BY <2>2, StepLeaves DEF Ends
    <3> QED
      BY <3>1 DEF Fresh, Decided, Given, At
  <2> QED
    BY <2>1, <2>2
<1> QED
  BY <1>1, <1>2 DEF Fresh

LEMMA FreshDeliver ==
  ASSUME PairingAssumption, TypeInv, cfg.atomic, Fresh, NEW e \in Ends, NEW f \in Ends, Delivers(e, f)
  PROVE  Fresh'
<1>1. \A g \in Ends : /\ end'[g].stage = end[g].stage /\ end'[g].part = end[g].part
                      /\ end'[g].starts = end[g].starts /\ end'[g].action = end[g].action
                      /\ end'[g].event = end[g].event /\ end'[g].pc = end[g].pc
  BY DeliveredMessage
<1>2. Decided'
  BY <1>1 DEF Fresh, Decided, Given, At, Ends
<1>3. ASSUME NEW d \in Devices PROVE FreshDevice(d)'
  <2>1. d \in Ends /\ adopted' = adopted
    BY DeliveredMessage DEF Ends
  <2>2. CASE d = f
    <3>1. Running(d) /\ end[d].stage # "enter"
      BY <2>2 DEF Delivers, Linked
    <3>2. end[d].pc # "off" /\ end[d].starts # 0
      BY <2>1, <3>1 DEF Running, Fresh, FreshDevice
    <3> QED
      BY <1>1, <2>1, <3>1, <3>2 DEF Fresh, FreshDevice, Running, Succeeded, At
  <2>3. CASE d # f
    <3>1. end'[d] = end[d]
      BY <2>1, <2>3, DeliveredMessage
    <3> QED
      BY <2>1, <3>1 DEF Fresh, FreshDevice, Running, Succeeded, At
  <2> QED
    BY <2>2, <2>3
<1> QED
  BY <1>2, <1>3 DEF Fresh

LEMMA FreshAcknowledge ==
  ASSUME PairingAssumption, TypeInv, cfg.atomic, Fresh, NEW e \in Ends, NEW f \in Ends,
         Acknowledges(e, f)
  PROVE  Fresh'
<1>1. /\ adopted' = adopted /\ end[e].part = "ack" /\ end'[e].part = AfterAck(e, end[e].stage)
      /\ \A g \in Ends \ {e} : end'[g] = end[g]
      /\ \A g \in Ends : /\ end'[g].stage = end[g].stage /\ end'[g].command = end[g].command
                         /\ end'[g].starts = end[g].starts /\ end'[g].action = end[g].action
                         /\ end'[g].event = end[g].event /\ end'[g].pc = end[g].pc
  BY AcknowledgedMessage
<1>2. Decided'
  <2>1. Given' => Given
    BY <1>1 DEF Given, At, Ends
  <2> QED
    BY <1>1, <2>1 DEF Fresh, Decided, Ends
<1>3. ASSUME NEW d \in Devices PROVE FreshDevice(d)'
  <2>1. d \in Ends
    BY DEF Ends
  <2>2. At(d, "addressing", {"send", "ack", "action"})' => At(d, "addressing", {"send", "ack", "action"})
    BY <1>1, <2>1 DEF At
  <2> QED
    BY <1>1, <2>1, <2>2 DEF Fresh, FreshDevice, Running, Succeeded
<1> QED
  BY <1>2, <1>3 DEF Fresh

LEMMA FreshNext ==
  ASSUME PairingAssumption, TypeInv, cfg.atomic, Current, Fresh, [Next]_vars
  PROVE  Fresh'
<1>1. CASE Next
  BY <1>1, StepCases, FreshStep, FreshDeliver, FreshAcknowledge
<1>2. CASE UNCHANGED vars
  BY <1>2 DEF vars, Fresh, FreshDevice, Decided, Given, At, Succeeded, Running
<1> QED
  BY <1>1, <1>2

LEMMA FreshInit ==
  ASSUME PairingAssumption, Init
  PROVE  Fresh
  BY AllOff DEF Fresh, FreshDevice, Decided, Given, At, Succeeded, Running, Ends

-----------------------------------------------------------------------------
(* While no device pairs a second time *)

Once == \A d \in Devices : end[d].starts <= 1

\* d has been asked in the pairing it is in.
Asked(d) ==
  \/ At(d, "authentication", {"wait"}) /\ Holds(d, "authentication", TRUE)
  \/ At(d, "authentication", {"send", "ack", "action"})
  \/ end[d].stage \in {"identification", "addressing"}

\* The coordinator has asked no other device since d took its address.
AloneDevice(d) ==
  InThisPairing(d) /\ adopted[d].pairing # 0 => \A f \in Devices \ {d} : ~Asked(f)

Alone == \A d \in Devices : AloneDevice(d)

LEMMA OnceBefore ==
  ASSUME PairingAssumption, TypeInv, cfg.atomic, NEW e \in Ends, Step(e), Once'
  PROVE  Once
<1> SUFFICES ASSUME NEW d \in Devices PROVE end[d].starts <= 1
  BY DEF Once
<1>1. d \in Ends /\ end'[d].starts <= 1
  BY DEF Once, Ends
<1>2. /\ end[d].starts \in Nat
      /\ end'[d].starts = end[d].starts \/ end'[d].starts = end[d].starts + 1
  BY <1>1, StartsGrow
<1> QED
  BY <1>1, <1>2

\* A device that goes on without having been asked stays so.
LEMMA AskedGrows ==
  ASSUME PairingAssumption, TypeInv, cfg.atomic, Fresh, NEW d \in Devices, Step(d), Asked(d)',
         end[d].starts <= 1
  PROVE  Asked(d)
<1>1. d \in Ends /\ d # Coord
  BY DEF Ends, PairingAssumption
<1>2. AtomicStep(d) /\ ControlOf(d) /\ FreshDevice(d)
  BY <1>1, AtomicCases DEF Fresh
<1>3. CASE Entered(d)
  <2>1. end'[d].command = None /\ end'[d].stage = "authentication" /\ end'[d].part = "wait"
    BY <1>1, <1>2, <1>3, WhoAsks DEF Entered, FreshDevice, Running, Goes, Mail, FirstPart
  <2> QED
    BY <2>1 DEF Asked, At, Holds
<1>4. CASE Queued(d)
  BY <1>2, <1>4 DEF Queued, Asked, At, Goes
<1>5. CASE ReadNow(d)
  <2>1. Goes(d, end[d].stage, AfterMessage(d, end[d].stage)) /\ end[d].part = "wait"
    BY <1>5 DEF ReadNow, Reads
  <2>2. end[d].stage = "authentication" => Holds(d, "authentication", TRUE)
    BY <1>1, <1>5, ReadsExpected DEF ReadNow
  <2> QED
    BY <2>1, <2>2 DEF Asked, At, Goes
<1>6. CASE Acts(d)
  BY <1>2, <1>6
  DEF Acts, Advances, Succeeds, Refuses, GivesUp, Hesitates, Asked, At, Goes, NextStage, ControlOf,
      AtomicStep, Stages
<1>7. CASE Idles(d) \/ Aborts(d)
  BY <1>7 DEF Idles, Aborts, Asked, At, Holds, Goes, Mail
<1>8. CASE Leaves(d)
  BY <1>8 DEF Leaves, Asked, At, Goes
<1>9. CASE Starts(d)
  BY <1>2, <1>9 DEF Starts, Running, ControlOf, Asked, At, Goes
<1> QED
  BY <1>2, <1>3, <1>4, <1>5, <1>6, <1>7, <1>8, <1>9 DEF AtomicStep

LEMMA AloneStep ==
  ASSUME PairingAssumption, TypeInv, cfg.atomic, Current, Fresh, Once, Alone, NEW e \in Ends, Step(e)
  PROVE  Alone'
<1> SUFFICES ASSUME NEW d \in Devices, InThisPairing(d)', adopted'[d].pairing # 0,
                    NEW f \in Devices \ {d}
             PROVE  ~Asked(f)'
  BY DEF Alone, AloneDevice
<1>1. Coord \in Ends /\ d \in Ends /\ f \in Ends /\ f # Coord /\ d # Coord
  BY DEF Ends, PairingAssumption
<1>2. end[Coord].starts \in Nat /\ adopted[d].pairing \in Nat /\ end[f].starts <= 1
      /\ AloneDevice(d) /\ CurrentDevice(d)
  BY <1>1 DEF TypeInv, TypeOK, EndType, Once, Alone, Current
<1>3. CASE e = Coord
  <2>1. end'[f] = end[f] /\ adopted'[d] = adopted[d]
    BY <1>1, <1>3, StepLeaves
  <2>2. end'[Coord].starts = end[Coord].starts
    <3>1. CASE Starts(Coord)
      <4>1. end'[Coord].starts = end[Coord].starts + 1
        BY <3>1 DEF Starts
      <4> QED
        BY <1>2, <2>1, <4>1 DEF CurrentDevice, InThisPairing
    <3> QED
      BY <1>3, <3>1, CoordKeepsAddress
  <2>3. InThisPairing(d) /\ adopted[d].pairing # 0
    BY <2>1, <2>2 DEF InThisPairing
  <2> QED
    BY <1>2, <2>1, <2>3 DEF AloneDevice, Asked, At, Holds
<1>4. CASE e \in Devices
  <2>1. end'[Coord] = end[Coord]
    BY <1>1, <1>4, StepLeaves DEF PairingAssumption
  <2>2. CASE adopted'[d] = adopted[d]
    <3>1. ~Asked(f)
      BY <1>2, <2>1, <2>2 DEF AloneDevice, InThisPairing
    <3>2. CASE e = f
      BY <1>2, <3>1, <3>2, AskedGrows
    <3>3. CASE e # f
      <4>1. end'[f] = end[f]
        BY <1>1, <3>3, StepLeaves
      <4> QED
        BY <3>1, <4>1 DEF Asked, At, Holds
    <3> QED
      BY <3>2, <3>3
  <2>3. CASE adopted'[d] # adopted[d]
    <3>1. e = d
      BY <1>1, <2>3, StepLeaves
    <3>2. Running(d)
      BY <1>4, <2>3, <3>1, DeviceReads DEF ReadNow, Running
    <3>3. end'[f] = end[f] /\ end[f].stage = "enter"
      BY <1>1, <3>1, <3>2, StepLeaves DEF TypeInv, OneDevice, Control, ControlOf, Running
    <3> QED
      BY <3>3 DEF Asked, At
  <2> QED
    BY <2>2, <2>3
<1> QED
  BY <1>3, <1>4 DEF Ends

LEMMA AloneDeliver ==
  ASSUME PairingAssumption, TypeInv, cfg.atomic, Current, Alone, NEW e \in Ends, NEW g \in Ends,
         Delivers(e, g)
  PROVE  Alone'
<1> SUFFICES ASSUME NEW d \in Devices, InThisPairing(d)', adopted'[d].pairing # 0,
                    NEW f \in Devices \ {d}
             PROVE  ~Asked(f)'
  BY DEF Alone, AloneDevice
<1>1. Coord \in Ends /\ d \in Ends /\ f \in Ends /\ f # Coord
  BY DEF Ends, PairingAssumption
<1>2. InThisPairing(d) /\ adopted[d].pairing # 0
  BY <1>1, DeliveredMessage DEF InThisPairing
<1>3. ~Asked(f) /\ ~Early
  BY <1>2 DEF Alone, AloneDevice, Current, CurrentDevice
<1>4. CASE f # g
  <2>1. end'[f] = end[f]
    BY <1>1, <1>4, DeliveredMessage
  <2> QED
    BY <1>3, <2>1 DEF Asked, At, Holds
<1>5. CASE f = g
  <2>1. e = Coord /\ Running(Coord) /\ end'[f].command.stage = end[Coord].stage
        /\ end'[f].stage = end[f].stage /\ end'[f].part = end[f].part
    BY <1>1, <1>5, DeliveredMessage
  <2>2. end[Coord].stage # "authentication"
    BY <1>3, <2>1 DEF Early
  <2> QED
    BY <1>3, <2>1, <2>2 DEF Asked, At, Holds
<1> QED
  BY <1>4, <1>5

LEMMA AloneAcknowledge ==
  ASSUME PairingAssumption, TypeInv, cfg.atomic, Alone, NEW e \in Ends, NEW g \in Ends,
         Acknowledges(e, g)
  PROVE  Alone'
<1> SUFFICES ASSUME NEW d \in Devices, InThisPairing(d)', adopted'[d].pairing # 0,
                    NEW f \in Devices \ {d}
             PROVE  ~Asked(f)'
  BY DEF Alone, AloneDevice
<1>1. Coord \in Ends /\ f \in Ends
  BY DEF Ends
<1>2. InThisPairing(d) /\ adopted[d].pairing # 0
  BY <1>1, AcknowledgedMessage DEF InThisPairing
<1>3. ~Asked(f)
  BY <1>2 DEF Alone, AloneDevice
<1>4. CASE f # e
  <2>1. end'[f] = end[f]
    BY <1>1, <1>4, AcknowledgedMessage
  <2> QED
    BY <1>3, <2>1 DEF Asked, At, Holds
<1>5. CASE f = e
  <2>1. end'[f].stage = end[f].stage /\ end[f].part = "ack" /\ end[f].stage \in Stages
    BY <1>5, AcknowledgedMessage
  <2> QED
    BY <1>3, <2>1 DEF Asked, At, Stages
<1> QED
  BY <1>4, <1>5

LEMMA AloneNext ==
  ASSUME PairingAssumption, TypeInv, cfg.atomic, Current, Fresh, Once, Alone, [Next]_vars
  PROVE  Alone'
<1>1. CASE Next
  BY <1>1, StepCases, AloneStep, AloneDeliver, AloneAcknowledge
<1>2. CASE UNCHANGED vars
  BY <1>2 DEF vars, Alone, AloneDevice, InThisPairing, Asked, At, Holds
<1> QED
  BY <1>1, <1>2

-----------------------------------------------------------------------------
(* The coordinator has the response *)

\* The response of d has been delivered.
Delivered(d) ==
  \/ At(d, "addressing", {"action"})
  \/ end[d].stage = "addressing" /\ out[d] # None /\ out[d].delivered
  \/ Succeeded(d)

\* The coordinator has the response, has acted on it, or was stopped.
HasResponse ==
  \/ end[Coord].event # "none"
  \/ end[Coord].command # None /\ end[Coord].command.stage = "addressing"
  \/ At(Coord, "addressing", {"action"})

RespondedDevice(d) == InThisPairing(d) /\ adopted[d].pairing # 0 /\ Delivered(d) => HasResponse

Responded == cfg.exact => \A d \in Devices : RespondedDevice(d)

\* No step of another end delivers the message of d.
LEMMA DeliveredBefore ==
  ASSUME PairingAssumption, TypeInv, cfg.atomic, NEW e \in Ends, Step(e), NEW d \in Ends \ {e},
         out'[d] # None, out'[d].delivered
  PROVE  out[d] # None /\ out[d].delivered
<1>1. AtomicStep(e)
  BY AtomicCases
<1>2. out \in [Ends -> [message : MessageType, delivered : BOOLEAN] \cup {None}]
  BY DEF TypeInv, TypeOK
<1>3. CASE Leaves(e)
  <2>1. out[d] # None /\ out'[d] = [out[d] EXCEPT !.delivered = FALSE]
    BY <1>3 DEF Leaves
  <2>2. out'[d].delivered = FALSE
    BY <1>2, <2>1
  <2> QED
    BY <2>2
<1>4. CASE Queued(e)
  BY <1>2, <1>4 DEF Queued
<1>5. CASE ~Leaves(e) /\ ~Queued(e)
  BY <1>1, <1>5 DEF AtomicStep, Entered, ReadNow, Reads, Acts, Idles, Aborts, Starts
<1> QED
  BY <1>3, <1>4, <1>5

\* A response is not lost while the coordinator stays in the pairing.
LEMMA ResponseStays ==
  ASSUME PairingAssumption, TypeInv, cfg.atomic, Step(Coord), ~Starts(Coord), HasResponse
  PROVE  HasResponse'
<1>1. Coord \in Ends
  BY DEF Ends
<1>2. AtomicStep(Coord) /\ ControlOf(Coord)
  BY <1>1, AtomicCases
<1>3. Asks(Coord, "authentication") /\ ~Asks(Coord, "identification") /\ Asks(Coord, "addressing")
  BY WhoAsks
<1>4. CASE Entered(Coord) \/ Queued(Coord) \/ Idles(Coord)
  BY <1>2, <1>4 DEF Entered, Queued, Idles, HasResponse, At, Goes, Mail, Loops, ControlOf
<1>5. CASE ReadNow(Coord)
  <2>1. /\ Goes(Coord, end[Coord].stage, AfterMessage(Coord, end[Coord].stage))
        /\ Loops(Coord, end[Coord].event) /\ end[Coord].part = "wait"
        /\ end[Coord].command.stage = end[Coord].stage
    BY <1>5 DEF ReadNow, Reads, Expected
  <2> QED
    BY <1>3, <2>1 DEF HasResponse, At, Goes, Loops, AfterMessage
<1>6. CASE Acts(Coord) /\ (Advances(Coord) \/ Hesitates(Coord))
  BY <1>2, <1>6 DEF Acts, Advances, Hesitates, HasResponse, At, Goes, Mail, Loops
<1>7. CASE Acts(Coord) /\ (Succeeds(Coord) \/ Refuses(Coord))
  BY <1>7 DEF Acts, Succeeds, Refuses, HasResponse, Loops
<1>8. CASE Acts(Coord) /\ GivesUp(Coord)
  BY <1>8 DEF Acts, GivesUp, HasResponse, At, Mail, Loops
<1>9. CASE Aborts(Coord)
  BY <1>9 DEF Aborts, HasResponse
<1>10. CASE Leaves(Coord)
  BY <1>2, <1>10 DEF Leaves, HasResponse, Same, ControlOf
<1> QED
  BY <1>2, <1>4, <1>5, <1>6, <1>7, <1>8, <1>9, <1>10 DEF AtomicStep

LEMMA RespondedCoord ==
  ASSUME PairingAssumption, TypeInv, cfg.atomic, cfg.exact, Current, NEW d \in Devices,
         RespondedDevice(d), Step(Coord)
  PROVE  RespondedDevice(d)'
<1>1. Coord \in Ends /\ d \in Ends /\ d # Coord
  BY DEF Ends, PairingAssumption
<1>2. end'[d] = end[d] /\ adopted'[d] = adopted[d]
  BY <1>1, StepLeaves
<1>3. CASE Starts(Coord)
  <2>1. end'[Coord].starts = end[Coord].starts + 1
    BY <1>3 DEF Starts
  <2>2. end[Coord].starts \in Nat /\ adopted[d].pairing \in Nat
    BY <1>1 DEF TypeInv, TypeOK, EndType
  <2>3. adopted[d].pairing <= end[Coord].starts
    BY DEF Current, CurrentDevice
  <2>4. ~InThisPairing(d)'
    BY <1>2, <2>1, <2>2, <2>3 DEF InThisPairing
  <2> QED
    BY <2>4 DEF RespondedDevice
<1>4. CASE ~Starts(Coord)
  <2>1. end'[Coord].starts = end[Coord].starts
    BY <1>4, CoordKeepsAddress
  <2>2. Delivered(d)' => Delivered(d)
    <3>1. out'[d] # None /\ out'[d].delivered => out[d] # None /\ out[d].delivered
      BY <1>1, DeliveredBefore
    <3> QED
      BY <1>2, <3>1 DEF Delivered, At, Succeeded
  <2> QED
    BY <1>2, <1>4, <2>1, <2>2, ResponseStays DEF RespondedDevice, InThisPairing
<1> QED
  BY <1>3, <1>4

\* A device that goes on has not yet responded, unless it had before.
LEMMA DeliveredGrows ==
  ASSUME PairingAssumption, TypeInv, cfg.atomic, NEW d \in Devices, Step(d), Delivered(d)'
  PROVE  Delivered(d)
<1>1. d \in Ends /\ d # Coord
  BY DEF Ends, PairingAssumption
<1>2. AtomicStep(d) /\ ControlOf(d) /\ PostedOf(d)
  BY <1>1, AtomicCases DEF TypeInv, Posted
<1>3. out \in [Ends -> [message : MessageType, delivered : BOOLEAN] \cup {None}]
  BY DEF TypeInv, TypeOK
<1>4. CASE Entered(d)
  BY <1>2, <1>4 DEF Entered, Delivered, At, Succeeded, Goes, Loops, ControlOf
<1>5. CASE Queued(d)
  <2>1. out'[d].delivered = FALSE
    BY <1>1, <1>3, <1>5 DEF Queued
  <2> QED
    BY <1>2, <1>5, <2>1 DEF Queued, Delivered, At, Succeeded, Goes, Loops, ControlOf
<1>6. CASE ReadNow(d)
  <2>1. /\ Goes(d, end[d].stage, AfterMessage(d, end[d].stage)) /\ end[d].part = "wait"
        /\ Loops(d, end[d].event) /\ end[d].pc = "execute" /\ out' = out
    BY <1>6 DEF ReadNow, Reads
  <2>2. out[d] = None
    BY <1>2, <2>1 DEF PostedOf
  <2> QED
    BY <1>1, <1>2, <2>1, <2>2, WhoAsks DEF Delivered, At, Succeeded, Goes, Loops, ControlOf, AfterMessage
<1>7. CASE Acts(d)
  <2>1. out[d] = None /\ out' = out
    BY <1>2, <1>7 DEF Acts, PostedOf
  <2>2. CASE Advances(d)
    BY <1>1, <1>2, <1>7, <2>1, <2>2, WhoAsks
    DEF Acts, Advances, Delivered, At, Succeeded, Goes, Loops, ControlOf, NextStage, FirstPart
  <2>3. CASE ~Advances(d)
    BY <1>2, <1>7, <2>1, <2>3
    DEF Acts, Succeeds, Refuses, GivesUp, Hesitates, Delivered, At, Succeeded, Goes, Loops, ControlOf,
        AtomicStep, Entered, Queued, ReadNow, Reads, Idles, Aborts, Leaves, Starts, Running
  <2> QED
    BY <2>2, <2>3
<1>8. CASE Idles(d) \/ Aborts(d)
  BY <1>2, <1>8 DEF Idles, Aborts, Delivered, At, Succeeded, Goes, Loops, ControlOf
<1>9. CASE Leaves(d)
  BY <1>9 DEF Leaves, Delivered, At, Succeeded, Goes, Same
<1>10. CASE Starts(d)
  BY <1>2, <1>10 DEF Starts, Running, ControlOf, Delivered, At, Succeeded, Goes
<1> QED
  BY <1>2, <1>4, <1>5, <1>6, <1>7, <1>8, <1>9, <1>10 DEF AtomicStep

LEMMA RespondedOther ==
  ASSUME PairingAssumption, TypeInv, cfg.atomic, cfg.exact, NEW d \in Devices,
         RespondedDevice(d), NEW e \in Devices, Step(e)
  PROVE  RespondedDevice(d)'
<1>1. Coord \in Ends /\ d \in Ends /\ e \in Ends /\ e # Coord
  BY DEF Ends, PairingAssumption
<1>2. end'[Coord] = end[Coord]
  BY <1>1, StepLeaves
<1>3. HasResponse' <=> HasResponse
  BY <1>2 DEF HasResponse, At
<1>4. CASE d = e
  <2>1. CASE adopted'[d] = adopted[d]
    BY <1>2, <1>3, <1>4, <2>1, DeliveredGrows DEF RespondedDevice, InThisPairing
  <2>2. CASE adopted'[d] # adopted[d]
    <3>1. ReadNow(d) /\ At(d, "addressing", {"wait"})
      BY <1>4, <2>2, DeviceReads
    <3>2. ~Delivered(d)
      <4>1. PostedOf(d) /\ ControlOf(d)
        BY <1>1 DEF TypeInv, Posted, Control
      <4> QED
        BY <3>1, <4>1 DEF ReadNow, At, Delivered, PostedOf, ControlOf
    <3>3. ~Delivered(d)'
      BY <1>4, <3>2, DeliveredGrows
    <3> QED
      BY <3>3 DEF RespondedDevice
  <2> QED
    BY <2>1, <2>2
<1>5. CASE d # e
  <2>1. end'[d] = end[d] /\ adopted'[d] = adopted[d]
    BY <1>1, <1>5, StepLeaves
  <2>2. Delivered(d)' => Delivered(d)
    <3>1. out'[d] # None /\ out'[d].delivered => out[d] # None /\ out[d].delivered
      BY <1>1, <1>5, DeliveredBefore
    <3> QED
      BY <2>1, <3>1 DEF Delivered, At, Succeeded
  <2> QED
    BY <1>2, <1>3, <2>1, <2>2 DEF RespondedDevice, InThisPairing
<1> QED
  BY <1>4, <1>5

LEMMA RespondedDeliver ==
  ASSUME PairingAssumption, TypeInv, cfg.atomic, cfg.exact, Alone, NEW d \in Devices,
         RespondedDevice(d), NEW e \in Ends, NEW f \in Ends, Delivers(e, f)
  PROVE  RespondedDevice(d)'
<1>1. Coord \in Ends /\ d \in Ends /\ d # Coord
  BY DEF Ends, PairingAssumption
<1>2. /\ UNCHANGED <<cfg, adopted>>
      /\ \A g \in Ends : /\ end'[g].stage = end[g].stage /\ end'[g].part = end[g].part
                         /\ end'[g].starts = end[g].starts /\ end'[g].event = end[g].event
  BY DeliveredMessage
<1>3. out' = [out EXCEPT ![e].delivered = cfg.exact]
      /\ out \in [Ends -> [message : MessageType, delivered : BOOLEAN] \cup {None}]
  BY DEF Delivers, TypeInv, TypeOK
<1>4. CASE e = Coord /\ f \in Devices
  <2>1. end'[Coord] = end[Coord] /\ out'[d] = out[d]
    BY <1>1, <1>3, <1>4, DeliveredMessage
  <2> QED
    BY <1>1, <1>2, <2>1 DEF RespondedDevice, InThisPairing, Delivered, HasResponse, At, Succeeded
<1>5. CASE e \in Devices /\ f = Coord
  <2>1. /\ end'[Coord].command # None /\ end'[Coord].command.stage = end[e].stage
        /\ end[e].part = "ack" /\ end[e].stage \in Stages /\ Running(e)
    BY <1>5, DeliveredMessage
  <2>2. CASE end[e].stage = "addressing"
    BY <2>1, <2>2 DEF RespondedDevice, HasResponse
  <2>3. CASE end[e].stage # "addressing"
    <3> SUFFICES ASSUME InThisPairing(d)', adopted'[d].pairing # 0, Delivered(d)'
                 PROVE  FALSE
      BY DEF RespondedDevice
    <3>1. InThisPairing(d) /\ adopted[d].pairing # 0
      BY <1>1, <1>2 DEF InThisPairing
    <3>2. Asked(e)
      BY <2>1 DEF Asked, At, Stages
    <3>3. e = d
      BY <1>5, <3>1, <3>2 DEF Alone, AloneDevice
    <3>4. Succeeded(d)
      BY <1>1, <1>2, <2>3, <3>3 DEF Delivered, At, Succeeded
    <3>5. end[d].stage \in {"enter", "exit"}
      BY <1>1, <3>4 DEF TypeInv, Control, ControlOf
    <3> QED
      BY <2>1, <3>3, <3>5 DEF Stages
  <2> QED
    BY <2>2, <2>3
<1> QED
  BY <1>4, <1>5, DeliveredMessage

LEMMA RespondedAcknowledge ==
  ASSUME PairingAssumption, TypeInv, cfg.atomic, cfg.exact, NEW d \in Devices,
         RespondedDevice(d), NEW e \in Ends, NEW f \in Ends, Acknowledges(e, f)
  PROVE  RespondedDevice(d)'
<1>1. Coord \in Ends /\ d \in Ends /\ d # Coord
  BY DEF Ends, PairingAssumption
<1>2. /\ UNCHANGED <<cfg, adopted>> /\ end[e].part = "ack" /\ end'[e].part = AfterAck(e, end[e].stage)
      /\ \A g \in Ends \ {e} : end'[g] = end[g]
      /\ \A g \in Ends : /\ end'[g].stage = end[g].stage
                         /\ end'[g].starts = end[g].starts /\ end'[g].event = end[g].event
                         /\ end'[g].command = end[g].command
  BY AcknowledgedMessage
<1>3. out' = [out EXCEPT ![e] = None] /\ out[e] # None /\ out[e].delivered
      /\ out \in [Ends -> [message : MessageType, delivered : BOOLEAN] \cup {None}]
  BY DEF Acknowledges, TypeInv, TypeOK
<1>4. HasResponse => HasResponse'
  <2>1. At(Coord, "addressing", {"action"}) => At(Coord, "addressing", {"action"})'
    BY <1>1, <1>2 DEF At
  <2> QED
    BY <1>1, <1>2, <2>1 DEF HasResponse
<1>5. Delivered(d)' => Delivered(d)
  <2>1. CASE d = e
    BY <1>1, <1>2, <1>3, <2>1 DEF Delivered, At, Succeeded
  <2>2. CASE d # e
    BY <1>1, <1>2, <1>3, <2>2 DEF Delivered, At, Succeeded
  <2> QED
    BY <2>1, <2>2
<1> QED
  BY <1>1, <1>2, <1>4, <1>5 DEF RespondedDevice, InThisPairing

LEMMA RespondedNext ==
  ASSUME PairingAssumption, TypeInv, cfg.atomic, Current, Alone, Responded, [Next]_vars
  PROVE  Responded'
<1> SUFFICES ASSUME cfg.exact, NEW d \in Devices PROVE RespondedDevice(d)'
  BY SettingStays DEF Responded
<1>1. RespondedDevice(d)
  BY DEF Responded
<1>2. CASE Next
  <2>1. ASSUME NEW e \in Ends, Step(e) PROVE RespondedDevice(d)'
    <3>1. CASE e = Coord
      BY <1>1, <2>1, <3>1, RespondedCoord
    <3>2. CASE e \in Devices
      BY <1>1, <2>1, <3>2, RespondedOther
    <3> QED
      BY <3>1, <3>2 DEF Ends
  <2> QED
    BY <1>1, <1>2, <2>1, StepCases, RespondedDeliver, RespondedAcknowledge
<1>3. CASE UNCHANGED vars
  BY <1>1, <1>3 DEF vars, RespondedDevice, InThisPairing, Delivered, HasResponse, At, Succeeded
<1> QED
  BY <1>2, <1>3

LEMMA OnceNext ==
  ASSUME PairingAssumption, TypeInv, cfg.atomic, [Next]_vars, Once'
  PROVE  Once
<1>1. CASE Next
  <2>1. ASSUME NEW e \in Ends, NEW f \in Ends, Delivers(e, f) \/ Acknowledges(e, f) PROVE Once
    BY <2>1, DeliveredMessage, AcknowledgedMessage DEF Once, Ends
  <2> QED
    BY <1>1, <2>1, StepCases, OnceBefore
<1>2. CASE UNCHANGED vars
  BY <1>2 DEF vars, Once
<1> QED
  BY <1>1, <1>2

(* Over a link that loses nothing, while no device pairs a second time and no  *)
(* callback comes in the middle of a state function, a device does not report  *)
(* success alone: the coordinator has its response, has acted on it, or was    *)
(* stopped.                                                                    *)
THEOREM PairingNodeNeverAlone == Spec => [](cfg.atomic => NodeNeverAlone)
<1> DEFINE Inv == /\ TypeInv
                  /\ cfg.atomic => Current /\ Fresh
                  /\ cfg.atomic /\ Once => Alone /\ Responded
<1>1. Init => Inv
  <2> SUFFICES ASSUME Init PROVE Inv
    OBVIOUS
  <2>1. Alone /\ Responded
    BY PairingAssumption, AllOff DEF Alone, AloneDevice, Responded, RespondedDevice
  <2> QED
    BY <2>1, PairingAssumption, TypeInvInit, AnsweredInit, FreshInit
<1>2. Inv /\ [Next]_vars => Inv'
  BY PairingAssumption, TypeInvNext, CurrentNext, FreshNext, OnceNext, AloneNext, RespondedNext, SettingStays
<1>3. Inv => (cfg.atomic => NodeNeverAlone)
  <2> SUFFICES ASSUME Inv, cfg.atomic, NEW d \in Devices, cfg.exact, Once, Succeeded(d), InThisPairing(d)
               PROVE  HasResponse
    BY DEF NodeNeverAlone, HasResponse, At, Once
  <2>1. adopted[d].pairing # 0
    BY DEF Fresh, FreshDevice
  <2> QED
    BY <2>1 DEF Responded, RespondedDevice, Delivered
<1> QED
  BY <1>1, <1>2, <1>3, PTL DEF Spec

-----------------------------------------------------------------------------
(* The discovery list *)

\* The coordinator has assigned an address in this pairing.
Post == Given \/ end[Coord].stage = "addressing"

\* No address is listed twice, and the coordinator's is its own.
ListSound ==
  /\ \A r1, r2 \in 0 .. ListSize - 1 : r1 # r2 /\ list[r1] # 0 => list[r1] # list[r2]
  /\ list[0] = Generated[Coord] \/ \A r \in 0 .. ListSize - 1 : list[r] = 0
  /\ Running(Coord) /\ end[Coord].stage # "enter" => list[0] = Generated[Coord]
  /\ Post => end[Coord].address # 0

\* What the coordinator reads when it identifies a device.
LEMMA Identifies ==
  ASSUME PairingAssumption, TypeInv, cfg.atomic, ReadNow(Coord), end[Coord].stage = "identification"
  PROVE  /\ ReadsIdentification(Coord) /\ Holds(Coord, "identification", TRUE)
         /\ end[Coord].payload.from \in Devices
         /\ end'[Coord].address \in Address /\ end'[Coord].address \notin Taken(list)
         /\ list' = AddToList(list, Role[end[Coord].payload.from], end'[Coord].address)
<1>1. Coord \in Ends
  BY DEF Ends
<1>2. ReadsIdentification(Coord)
  BY WhoAsks DEF ReadNow, ReadsAnswer, ReadsAuthentication, ReadsAddressing
<1>3. Holds(Coord, "identification", TRUE) /\ end[Coord].payload # None
  BY <1>1, ReadsExpected DEF ReadNow
<1>4. end[Coord].payload.from \in Devices
  BY <1>1, <1>3 DEF TypeInv, Posted, PostedOf, Peers
<1>5. Generated[end[Coord].payload.from] \in Address
  BY <1>4 DEF PairingAssumption, Ends
<1>6. list \in [0 .. ListSize - 1 -> 0 .. MaxAddress]
  BY DEF TypeInv, TypeOK
<1> DEFINE available == Available(list, Generated[end[Coord].payload.from])
<1>7. available \in Address /\ available \notin Taken(list)
  BY <1>5, <1>6, AvailableIsFree
<1>8. end'[Coord].address = available
      /\ list' = AddToList(list, Role[end[Coord].payload.from], available)
  BY <1>2 DEF ReadsIdentification, Data
<1> QED
  BY <1>2, <1>3, <1>4, <1>7, <1>8

\* The list changes when the coordinator enters or identifies a device.
LEMMA ListStays ==
  ASSUME PairingAssumption, TypeInv, cfg.atomic, NEW e \in Ends, Step(e)
  PROVE  \/ list' = list
         \/ e = Coord /\ Entered(Coord) /\ list' = AddToList(list, 0, Generated[Coord])
         \/ e = Coord /\ ReadNow(Coord) /\ end[Coord].stage = "identification"
<1>1. AtomicStep(e)
  BY AtomicCases
<1>2. CASE Entered(e)
  BY <1>2 DEF Entered
<1>3. CASE ReadNow(e)
  <2>1. CASE ReadsIdentification(e)
    BY <1>3, <2>1, WhoAsks DEF ReadsIdentification, Ends
  <2> QED
    BY <1>3, <2>1 DEF ReadNow, ReadsAnswer, ReadsAuthentication, ReadsAddressing
<1>4. CASE ~Entered(e) /\ ~ReadNow(e)
  BY <1>1, <1>4 DEF AtomicStep, Queued, Acts, Idles, Aborts, Leaves, Starts
<1> QED
  BY <1>2, <1>3, <1>4

\* The coordinator goes to a stage after the assignment from the one before.
LEMMA PostBefore ==
  ASSUME PairingAssumption, TypeInv, cfg.atomic, Step(Coord), Post'
  PROVE  \/ ReadNow(Coord) /\ end[Coord].stage = "identification" /\ end'[Coord].stage = "identification"
         \/ Post /\ end'[Coord].address = end[Coord].address
<1>1. Coord \in Ends
  BY DEF Ends
<1>2. AtomicStep(Coord) /\ ControlOf(Coord)
  BY <1>1, AtomicCases
<1>3. Asks(Coord, "authentication") /\ ~Asks(Coord, "identification") /\ Asks(Coord, "addressing")
  BY WhoAsks
<1>4. CASE Entered(Coord) \/ Queued(Coord) \/ Idles(Coord) \/ Aborts(Coord) \/ Leaves(Coord)
  BY <1>2, <1>4
  DEF Entered, Queued, Idles, Aborts, Leaves, Post, Given, At, Goes, Data, ControlOf, Stages
<1>5. CASE ReadNow(Coord)
  <2>1. Goes(Coord, end[Coord].stage, AfterMessage(Coord, end[Coord].stage))
    BY <1>5 DEF ReadNow, Reads
  <2>2. end[Coord].stage = "addressing" => end'[Coord].address = end[Coord].address
    BY <1>3, <1>5
    DEF ReadNow, ReadsAnswer, ReadsAuthentication, ReadsIdentification, ReadsAddressing, Data
  <2> QED
    BY <1>5, <2>1, <2>2 DEF Post, Given, At, Goes
<1>6. CASE Acts(Coord)
  BY <1>2, <1>3, <1>6
  DEF Acts, AtomicStep, Advances, Succeeds, Refuses, GivesUp, Hesitates, Entered, Queued, ReadNow,
      Reads, Idles, Aborts, Leaves, Starts, Running, Post, Given, At, Goes, Data, NextStage, FirstPart,
      ControlOf, Stages
<1>7. CASE Starts(Coord)
  BY <1>2, <1>7 DEF Starts, Running, ControlOf, Post, Given, At, Goes
<1> QED
  BY <1>2, <1>4, <1>5, <1>6, <1>7 DEF AtomicStep

LEMMA ListStep ==
  ASSUME PairingAssumption, TypeInv, cfg.atomic, ListSound, NEW e \in Ends, Step(e)
  PROVE  ListSound'
<1>1. list \in [0 .. ListSize - 1 -> 0 .. MaxAddress] /\ 0 \in 0 .. ListSize - 1 /\ Coord \in Ends
  BY DEF TypeInv, TypeOK, PairingAssumption, Ends
<1>2. Generated[Coord] \in Address
  BY <1>1 DEF PairingAssumption
<1>3. Post' => end'[Coord].address # 0
  <2>1. CASE e = Coord
    <3>1. ASSUME ReadNow(Coord), end[Coord].stage = "identification" PROVE end'[Coord].address # 0
      <4>1. end'[Coord].address \in Address
        BY <3>1, Identifies
      <4> QED
        BY <4>1 DEF Address, PairingAssumption
    <3> QED
      BY <2>1, <3>1, PostBefore DEF ListSound
  <2>2. CASE e # Coord
    <3>1. end'[Coord] = end[Coord]
      BY <1>1, <2>2, StepLeaves
    <3> QED
      BY <3>1 DEF ListSound, Post, Given, At
  <2> QED
    BY <2>1, <2>2
<1>4. Running(Coord)' /\ end'[Coord].stage # "enter" =>
        \/ Running(Coord) /\ end[Coord].stage # "enter"
        \/ e = Coord /\ Entered(Coord)
  <2>1. CASE e = Coord
    <3>1. AtomicStep(Coord) /\ ControlOf(Coord)
      BY <1>1, <2>1, AtomicCases
    <3> QED
      BY <2>1, <3>1
      DEF AtomicStep, Queued, ReadNow, Reads, Acts, Idles, Aborts, Leaves, Starts, Running, Goes, ControlOf,
          Stages
  <2>2. CASE e # Coord
    <3>1. end'[Coord] = end[Coord]
      BY <1>1, <2>2, StepLeaves
    <3> QED
      BY <3>1 DEF Running
  <2> QED
    BY <2>1, <2>2
<1>5. CASE list' = list /\ ~(e = Coord /\ Entered(Coord))
  BY <1>3, <1>5, <1>4 DEF ListSound
<1>6. CASE e = Coord /\ Entered(Coord) /\ list' = AddToList(list, 0, Generated[Coord])
  <2>1. list' = [list EXCEPT ![0] = Generated[Coord]]
    BY <1>6 DEF AddToList, PairingAssumption
  <2>2. list'[0] = Generated[Coord] /\ \A r \in 0 .. ListSize - 1 : r # 0 => list'[r] = list[r]
    BY <1>1, <2>1
  <2>3. list[0] = Generated[Coord] => list' = list
    BY <1>1, <2>1
  <2>4. CASE list[0] = Generated[Coord]
    BY <1>3, <2>3, <2>4 DEF ListSound
  <2>5. CASE \A r \in 0 .. ListSize - 1 : list[r] = 0
    <3>1. \A r1, r2 \in 0 .. ListSize - 1 : r1 # r2 /\ list'[r1] # 0 => list'[r1] # list'[r2]
      BY <2>2, <2>5
    <3> QED
      BY <1>3, <2>2, <3>1 DEF ListSound
  <2> QED
    BY <2>4, <2>5 DEF ListSound
<1>7. CASE e = Coord /\ ReadNow(Coord) /\ end[Coord].stage = "identification"
  <2> DEFINE role == Role[end[Coord].payload.from]
             address == end'[Coord].address
  <2>1. address \in Address /\ address \notin Taken(list) /\ list' = AddToList(list, role, address)
        /\ end[Coord].payload.from \in Devices
    BY <1>7, Identifies
  <2>2. role \in Nat \ {0}
    BY <2>1 DEF PairingAssumption
  <2>3. address # 0 /\ \A r \in 0 .. ListSize - 1 : list[r] # address
    <3>1. address \in Address /\ address \notin Taken(list)
      BY <2>1
    <3>2. DOMAIN list = 0 .. ListSize - 1
      BY <1>1
    <3> HIDE DEF address
    <3>3. address # 0
      BY <3>1 DEF Address, PairingAssumption
    <3> QED
      BY <3>1, <3>2, <3>3 DEF Taken
  <2> HIDE DEF role, address
  <2>4. list[0] = Generated[Coord]
    <3>1. Running(Coord) /\ end[Coord].stage # "enter"
      BY <1>7 DEF ReadNow, Running
    <3> QED
      BY <3>1 DEF ListSound
  <2>5. CASE role < ListSize
    <3>1. list' = [list EXCEPT ![role] = address]
      BY <2>1, <2>5 DEF AddToList
    <3>2. list'[role] = address /\ \A r \in 0 .. ListSize - 1 : r # role => list'[r] = list[r]
      BY <1>1, <2>2, <2>5, <3>1 DEF PairingAssumption
    <3>3. \A r1, r2 \in 0 .. ListSize - 1 : r1 # r2 /\ list'[r1] # 0 => list'[r1] # list'[r2]
      BY <2>3, <3>2 DEF ListSound
    <3> QED
      BY <1>1, <1>3, <2>2, <2>4, <3>2, <3>3 DEF ListSound
  <2>6. CASE ~(role < ListSize)
    <3>1. list' = list
      BY <2>1, <2>6 DEF AddToList
    <3> QED
      BY <1>3, <2>4, <3>1 DEF ListSound
  <2> QED
    BY <2>5, <2>6
<1> QED
  BY <1>5, <1>6, <1>7, ListStays DEF Entered

LEMMA ListDeliver ==
  ASSUME PairingAssumption, TypeInv, cfg.atomic, ListSound, NEW e \in Ends, NEW f \in Ends,
         Delivers(e, f)
  PROVE  ListSound'
<1>1. list' = list /\ Coord \in Ends
  BY DeliveredMessage DEF Ends
<1>2. end'[Coord].stage = end[Coord].stage /\ end'[Coord].part = end[Coord].part
      /\ end'[Coord].address = end[Coord].address /\ end'[Coord].pc = end[Coord].pc
  BY <1>1, DeliveredMessage
<1> QED
  BY <1>1, <1>2 DEF ListSound, Post, Given, At, Running

LEMMA ListAcknowledge ==
  ASSUME PairingAssumption, TypeInv, cfg.atomic, ListSound, NEW e \in Ends, NEW f \in Ends,
         Acknowledges(e, f)
  PROVE  ListSound'
<1>1. list' = list /\ Coord \in Ends
  BY AcknowledgedMessage DEF Ends
<1>2. end'[Coord].stage = end[Coord].stage
      /\ end'[Coord].address = end[Coord].address /\ end'[Coord].pc = end[Coord].pc
      /\ (end'[Coord].part = end[Coord].part \/ end[Coord].part = "ack")
  BY <1>1, AcknowledgedMessage
<1> QED
  BY <1>1, <1>2 DEF ListSound, Post, Given, At, Running

LEMMA ListNext ==
  ASSUME PairingAssumption, TypeInv, cfg.atomic, ListSound, [Next]_vars
  PROVE  ListSound'
<1>1. CASE Next
  BY <1>1, StepCases, ListStep, ListDeliver, ListAcknowledge
<1>2. CASE UNCHANGED vars
  BY <1>2 DEF vars, ListSound, Post, Given, At, Running
<1> QED
  BY <1>1, <1>2

-----------------------------------------------------------------------------
(* Who owns an address of the list *)

\* d has a place of its own in the list.
Listed(d) == Role[d] < ListSize /\ \A f \in Devices : Role[f] = Role[d] => f = d

IsAt(d, address) == address # 0 /\ list[Role[d]] = address

\* The coordinator is about to identify a device.
Identifying == At(Coord, "authentication", {"action"}) \/ At(Coord, "identification", {"wait"})

AskedBy(d) == Holds(Coord, "identification", TRUE) /\ end[Coord].payload.from = d

\* The coordinator has identified d.
Identified(d) ==
  \/ end[d].stage = "identification" /\ Holds(d, "identification", FALSE)
  \/ At(d, "identification", {"action"})
  \/ end[d].stage = "addressing"

\* d is past the authentication in which it was asked, in its only pairing.
Owned1(d) ==
  AskedBy(d) => /\ end[d].stage # "authentication" /\ end[d].starts = 1
                /\ end[d].stage = "enter" => end[d].pc = "off"

Owned2(d) ==
  /\ Asked(d) /\ Identifying /\ Holds(Coord, "identification", TRUE) => end[Coord].payload.from = d
  /\ Identified(d) => ~Identifying /\ ~Holds(Coord, "authentication", FALSE)
  /\ Succeeded(d) => ~(Identifying /\ AskedBy(d))
  /\ At(d, "authentication", {"send", "ack", "action"}) => ~Holds(d, "identification", FALSE)

\* The address assigned is that of the device that was asked.
Owned3(d) ==
  Asked(d) /\ Post =>
    /\ end[d].stage # "authentication" /\ ~Holds(Coord, "authentication", FALSE)
    /\ Listed(d) => IsAt(d, end[Coord].address)

\* The address a device is told, and takes, is the one listed for it.
Owned4(d) ==
  Listed(d) =>
    /\ (At(d, "identification", {"action"}) \/ At(d, "addressing", {"wait"}))
         /\ Holds(d, "addressing", TRUE) => IsAt(d, end[d].payload.address)
    /\ At(d, "addressing", {"send", "ack", "action"}) => IsAt(d, end[d].address)
    /\ Succeeded(d) => IsAt(d, end[d].address)

OwnedDevice(d) == Owned1(d) /\ Owned2(d) /\ Owned3(d) /\ Owned4(d)

Owned == \A d \in Devices : OwnedDevice(d)

\* How the coordinator comes to identify a device, and what it keeps.
CoordIdentifies ==
  /\ Identifying' =>
       \/ Identifying
       \/ Holds(Coord, "authentication", FALSE) /\ end'[Coord].command = None
  /\ \/ end'[Coord].command = end[Coord].command /\ end'[Coord].payload = end[Coord].payload
     \/ end'[Coord].command = None

LEMMA CoordIdentifying ==
  ASSUME PairingAssumption, TypeInv, cfg.atomic, Step(Coord)
  PROVE  CoordIdentifies
<1>1. Coord \in Ends
  BY DEF Ends
<1>2. AtomicStep(Coord) /\ ControlOf(Coord)
  BY <1>1, AtomicCases
<1>3. Asks(Coord, "authentication") /\ ~Asks(Coord, "identification") /\ Asks(Coord, "addressing")
  BY WhoAsks
<1>4. CASE Entered(Coord)
  BY <1>3, <1>4 DEF Entered, CoordIdentifies, Identifying, At, Goes, Mail, FirstPart
<1>5. CASE Queued(Coord) \/ Idles(Coord) \/ Aborts(Coord)
  BY <1>2, <1>5 DEF Queued, Idles, Aborts, CoordIdentifies, Identifying, At, Goes, Mail
<1>6. CASE ReadNow(Coord)
  <2>1. end'[Coord].command = None /\ Goes(Coord, end[Coord].stage, AfterMessage(Coord, end[Coord].stage))
    BY <1>6 DEF ReadNow, Reads, Mail
  <2>2. end[Coord].stage = "authentication" => Holds(Coord, "authentication", FALSE)
    BY <1>1, <1>6, ReadsExpected DEF ReadNow
  <2> QED
    BY <1>3, <2>1, <2>2 DEF CoordIdentifies, Identifying, At, Goes, AfterMessage
<1>7. CASE Acts(Coord) /\ (Advances(Coord) \/ Hesitates(Coord))
  BY <1>2, <1>3, <1>7
  DEF Acts, Advances, Hesitates, CoordIdentifies, Identifying, At, Goes, Mail, NextStage, FirstPart,
      ControlOf, Stages
<1>8. CASE Acts(Coord) /\ (Succeeds(Coord) \/ Refuses(Coord) \/ GivesUp(Coord))
  BY <1>8 DEF Acts, Succeeds, Refuses, GivesUp, CoordIdentifies, Identifying, At, Goes, Mail
<1>9. CASE Leaves(Coord)
  BY <1>9 DEF Leaves, CoordIdentifies, Identifying, At, Goes, Mail
<1>10. CASE Starts(Coord)
  BY <1>2, <1>10 DEF Starts, Running, ControlOf, CoordIdentifies, Identifying, At, Goes, Mail
<1> QED
  BY <1>2, <1>4, <1>5, <1>6, <1>7, <1>8, <1>9, <1>10 DEF AtomicStep

\* A place of the list changes when the coordinator identifies its device.
LEMMA PlaceStays ==
  ASSUME PairingAssumption, TypeInv, cfg.atomic, Step(Coord), NEW d \in Devices, Listed(d)
  PROVE  \/ list'[Role[d]] = list[Role[d]]
         \/ ReadNow(Coord) /\ end[Coord].stage = "identification" /\ AskedBy(d)
<1>1. list \in [0 .. ListSize - 1 -> 0 .. MaxAddress] /\ Role[d] \in Nat \ {0} /\ Coord \in Ends
  BY DEF TypeInv, TypeOK, PairingAssumption, Ends
<1>2. CASE list' = AddToList(list, 0, Generated[Coord])
  BY <1>1, <1>2 DEF AddToList
<1>3. CASE ReadNow(Coord) /\ end[Coord].stage = "identification" /\ ~AskedBy(d)
  <2> DEFINE from == end[Coord].payload.from
             address == end'[Coord].address
  <2>1. from \in Devices /\ list' = AddToList(list, Role[from], address) /\ from # d
    BY <1>3, Identifies DEF AskedBy
  <2> HIDE DEF from, address
  <2>2. Role[from] # Role[d]
    BY <2>1 DEF Listed
  <2> QED
    BY <1>1, <2>1, <2>2 DEF AddToList
<1> QED
  BY <1>1, <1>2, <1>3, ListStays

LEMMA OwnedCoord ==
  ASSUME PairingAssumption, TypeInv, cfg.atomic, ListSound, NEW d \in Devices, OwnedDevice(d), Step(Coord)
  PROVE  OwnedDevice(d)'
<1>1. Coord \in Ends /\ d \in Ends /\ d # Coord
  BY DEF Ends, PairingAssumption
<1>2. end'[d] = end[d]
  BY <1>1, StepLeaves
<1>3. CoordIdentifies
  BY CoordIdentifying
<1>4. (Asked(d)' <=> Asked(d)) /\ (Identified(d)' <=> Identified(d)) /\ (Succeeded(d)' <=> Succeeded(d))
  BY <1>2 DEF Asked, Identified, Succeeded, At, Holds
<1>5. AskedBy(d)' => AskedBy(d)
  BY <1>3 DEF CoordIdentifies, AskedBy, Holds
<1>6. Owned1(d)'
  BY <1>2, <1>5 DEF OwnedDevice, Owned1
<1>7. Holds(Coord, "identification", TRUE)' =>
        Holds(Coord, "identification", TRUE) /\ end'[Coord].payload = end[Coord].payload
  BY <1>3 DEF CoordIdentifies, Holds
<1>8. Holds(Coord, "authentication", FALSE)' => Holds(Coord, "authentication", FALSE)
  BY <1>3 DEF CoordIdentifies, Holds
<1>9. Identifying' => \/ Identifying
                      \/ Holds(Coord, "authentication", FALSE) /\ end'[Coord].command = None
  BY <1>3 DEF CoordIdentifies, Identifying, At
<1>10. Holds(Coord, "identification", TRUE)' => end'[Coord].command # None
  BY DEF Holds
<1>11. At(d, "authentication", {"send", "ack", "action"})' /\ Holds(d, "identification", FALSE)' =>
         At(d, "authentication", {"send", "ack", "action"}) /\ Holds(d, "identification", FALSE)
  BY <1>2 DEF At, Holds
<1>12. Owned2(d)'
  BY <1>4, <1>5, <1>7, <1>8, <1>9, <1>10, <1>11 DEF OwnedDevice, Owned2, AskedBy
<1>13. ReadNow(Coord) /\ end[Coord].stage = "identification" =>
         Identifying /\ Holds(Coord, "identification", TRUE) /\ end'[Coord].command = None
  BY Identifies DEF ReadNow, Reads, Mail, Identifying, At
<1>14. Owned3(d)'
  <2> SUFFICES ASSUME Asked(d), Post'
               PROVE  /\ end[d].stage # "authentication" /\ ~Holds(Coord, "authentication", FALSE)'
                      /\ Listed(d) => IsAt(d, end[Coord].address)'
    BY <1>2, <1>4 DEF Owned3
  <2>1. CASE ReadNow(Coord) /\ end[Coord].stage = "identification"
    <3>1. AskedBy(d)
      BY <1>13, <2>1 DEF OwnedDevice, Owned2, AskedBy
    <3>2. end[d].stage # "authentication"
      BY <3>1 DEF OwnedDevice, Owned1
    <3>3. ~Holds(Coord, "authentication", FALSE)'
      BY <1>13, <2>1 DEF Holds
    <3>4. ASSUME Listed(d) PROVE IsAt(d, end[Coord].address)'
      <4> DEFINE address == end'[Coord].address
      <4>1. list' = AddToList(list, Role[d], address) /\ address \in Address
        BY <2>1, <3>1, Identifies DEF AskedBy
      <4>2. list \in [0 .. ListSize - 1 -> 0 .. MaxAddress] /\ Role[d] \in Nat \ {0} /\ Role[d] < ListSize
        BY <3>4 DEF TypeInv, TypeOK, PairingAssumption, Listed
      <4> HIDE DEF address
      <4>3. list' = [list EXCEPT ![Role[d]] = address]
        BY <4>1, <4>2 DEF AddToList
      <4>4. list'[Role[d]] = address
        BY <4>2, <4>3 DEF PairingAssumption
      <4>5. address # 0
        BY <4>1 DEF Address, PairingAssumption
      <4> QED
        BY <4>4, <4>5 DEF IsAt, address
    <3> QED
      BY <3>2, <3>3, <3>4
  <2>2. CASE ~(ReadNow(Coord) /\ end[Coord].stage = "identification")
    <3>1. Post /\ end'[Coord].address = end[Coord].address
      BY <2>2, PostBefore
    <3>2. Listed(d) => list'[Role[d]] = list[Role[d]]
      BY <2>2, PlaceStays
    <3> QED
      BY <1>8, <3>1, <3>2 DEF OwnedDevice, Owned3, IsAt
  <2> QED
    BY <2>1, <2>2
<1>15. Owned4(d)'
  <2> SUFFICES ASSUME Listed(d) PROVE Owned4(d)'
    BY DEF Owned4, Listed
  <2>1. CASE list'[Role[d]] = list[Role[d]]
    BY <1>2, <1>4, <2>1 DEF OwnedDevice, Owned4, At, Holds, IsAt
  <2>2. CASE list'[Role[d]] # list[Role[d]]
    <3>1. Identifying /\ AskedBy(d)
      BY <1>13, <2>2, PlaceStays
    <3>2. ~Identified(d) /\ ~Succeeded(d)
      BY <3>1 DEF OwnedDevice, Owned2
    <3> QED
      BY <1>2, <1>4, <3>2 DEF Owned4, Identified, At
  <2> QED
    BY <2>1, <2>2
<1> QED
  BY <1>6, <1>12, <1>14, <1>15 DEF OwnedDevice

LEMMA OwnedSelf ==
  ASSUME PairingAssumption, TypeInv, cfg.atomic, Fresh, Once, Once', NEW d \in Devices, OwnedDevice(d),
         Step(d)
  PROVE  OwnedDevice(d)'
<1>1. Coord \in Ends /\ d \in Ends /\ d # Coord
  BY DEF Ends, PairingAssumption
<1>2. AtomicStep(d) /\ ControlOf(d) /\ end'[Coord] = end[Coord]
  BY <1>1, AtomicCases, StepLeaves
<1>3. list' = list
  BY <1>1, ListStays
<1>4. ~Asks(d, "authentication") /\ Asks(d, "identification") /\ ~Asks(d, "addressing")
  BY WhoAsks
<1>5. end[d].starts <= 1 /\ end'[d].starts <= 1
  BY DEF Once
<1>6. Asked(d)' => Asked(d)
  BY <1>5, AskedGrows
<1>7. /\ AskedBy(d)' <=> AskedBy(d)
      /\ Post' <=> Post
      /\ Identifying' <=> Identifying
      /\ Holds(Coord, "identification", TRUE)' <=> Holds(Coord, "identification", TRUE)
      /\ Holds(Coord, "authentication", FALSE)' <=> Holds(Coord, "authentication", FALSE)
  BY <1>2 DEF AskedBy, Post, Given, Identifying, At, Holds
<1>8. \/ end'[d].command = end[d].command /\ end'[d].payload = end[d].payload
      \/ ReadNow(d) /\ end'[d].command = None
  BY DeviceReads
<1>9. Owned1(d)'
  <2> SUFFICES ASSUME AskedBy(d)
               PROVE  /\ end'[d].stage # "authentication" /\ end'[d].starts = 1
                      /\ end'[d].stage = "enter" => end'[d].pc = "off"
    BY <1>7 DEF Owned1
  <2>1. /\ end[d].stage # "authentication" /\ end[d].starts = 1
        /\ end[d].stage = "enter" => end[d].pc = "off"
    BY DEF OwnedDevice, Owned1
  <2>2. ~Starts(d)
    BY <1>5, <2>1 DEF Starts
  <2>3. end'[d].starts = 1
    BY <1>1, <2>1, <2>2, StartsGrow
  <2> QED
    BY <1>2, <2>1, <2>2, <2>3
    DEF AtomicStep, Entered, Queued, ReadNow, Reads, Acts, Advances, Succeeds, Refuses, GivesUp, Hesitates,
        Idles, Aborts, Leaves, Running, Goes, NextStage, ControlOf, Stages
<1>10. Identified(d)' => Identified(d)
  <2>1. CASE ReadNow(d)
    <3>1. end'[d].command = None /\ Goes(d, end[d].stage, AfterMessage(d, end[d].stage))
      BY <2>1 DEF ReadNow, Reads, Mail
    <3>2. end[d].stage = "identification" => Holds(d, "identification", FALSE)
      BY <1>1, <2>1, ReadsExpected DEF ReadNow
    <3> QED
      BY <3>1, <3>2 DEF Identified, At, Goes
  <2>2. CASE Acts(d) /\ Advances(d)
    <3>1. end'[d].command = end[d].command /\ end[d].part = "action" /\ end[d].stage \in Stages
      BY <1>2, <2>2 DEF Acts, Mail, ControlOf
    <3>2. CASE end[d].stage = "authentication"
      <4>1. ~Holds(d, "identification", FALSE)
        BY <3>1, <3>2 DEF OwnedDevice, Owned2, At
      <4> QED
        BY <1>4, <2>2, <3>1, <3>2, <4>1 DEF Advances, Identified, At, Holds, Goes, NextStage, FirstPart
    <3>3. CASE end[d].stage # "authentication"
      BY <3>1, <3>3 DEF Identified, At, Stages, Advances
    <3> QED
      BY <3>2, <3>3
  <2>3. CASE Acts(d) /\ ~Advances(d)
    BY <1>2, <2>3
    DEF Acts, Succeeds, Refuses, GivesUp, Hesitates, AtomicStep, Entered, Queued, ReadNow, Reads, Idles,
        Aborts, Leaves, Starts, Running, Identified, At, Holds, Goes, Mail, ControlOf
  <2>4. CASE Entered(d) \/ Leaves(d)
    BY <2>4 DEF Entered, Leaves, Identified, At, Goes
  <2>5. CASE Queued(d) \/ Idles(d) \/ Aborts(d)
    BY <1>2, <2>5 DEF Queued, Idles, Aborts, Identified, At, Holds, Goes, Mail
  <2>6. CASE Starts(d)
    BY <1>2, <2>6 DEF Starts, Running, ControlOf, Identified, At, Goes
  <2> QED
    BY <1>2, <2>1, <2>2, <2>3, <2>4, <2>5, <2>6 DEF AtomicStep
<1>11. Succeeded(d)' => Succeeded(d) \/ Identified(d)
  BY <1>2
  DEF AtomicStep, Entered, Queued, ReadNow, Reads, Acts, Advances, Succeeds, Refuses, GivesUp, Hesitates,
      Idles, Aborts, Leaves, Starts, Succeeded, Identified, Loops, Same, ControlOf
<1>12. At(d, "authentication", {"send", "ack", "action"})' => ~Holds(d, "identification", FALSE)'
  <2>1. CASE ReadNow(d)
    BY <2>1 DEF ReadNow, Reads, Mail, Holds
  <2>2. CASE ~ReadNow(d)
    <3>1. end'[d].command = end[d].command
      BY <1>8, <2>2
    <3>2. At(d, "authentication", {"send", "ack", "action"})' => At(d, "authentication", {"send", "ack", "action"})
      BY <1>2, <1>4, <2>2
      DEF AtomicStep, Entered, Queued, Acts, Advances, Succeeds, Refuses, GivesUp, Hesitates,
          Idles, Aborts, Leaves, Starts, Running, At, Goes, NextStage, FirstPart, ControlOf, Stages
    <3> QED
      BY <3>1, <3>2 DEF OwnedDevice, Owned2, Holds
  <2> QED
    BY <2>1, <2>2
<1>13. Owned2(d)'
  BY <1>2, <1>6, <1>7, <1>10, <1>11, <1>12 DEF OwnedDevice, Owned2
<1>14. Owned3(d)'
  <2> SUFFICES ASSUME Asked(d)', Asked(d), Post
               PROVE  /\ end'[d].stage # "authentication" /\ ~Holds(Coord, "authentication", FALSE)
                      /\ Listed(d) => IsAt(d, end[Coord].address)
    BY <1>2, <1>3, <1>6, <1>7 DEF Owned3, IsAt
  <2>1. /\ end[d].stage \in {"identification", "addressing"} /\ ~Holds(Coord, "authentication", FALSE)
        /\ Listed(d) => IsAt(d, end[Coord].address)
    BY DEF OwnedDevice, Owned3, Asked, At
  <2>2. end'[d].stage # "authentication"
    BY <1>2, <2>1
    DEF AtomicStep, Entered, Queued, ReadNow, Reads, Acts, Advances, Succeeds, Refuses, GivesUp, Hesitates,
        Idles, Aborts, Leaves, Starts, Running, Goes, NextStage, ControlOf
  <2> QED
    BY <2>1, <2>2
<1>15. Owned4(d)'
  <2> SUFFICES ASSUME Listed(d) PROVE Owned4(d)'
    BY DEF Owned4, Listed
  <2>1. \A address : IsAt(d, address)' <=> IsAt(d, address)
    BY <1>3 DEF IsAt
  <2>2. CASE ReadNow(d)
    <3>1. /\ end'[d].command = None /\ Goes(d, end[d].stage, AfterMessage(d, end[d].stage))
          /\ end[d].part = "wait" /\ end[d].pc = "execute" /\ Loops(d, end[d].event)
      BY <2>2 DEF ReadNow, Reads, Mail
    <3>2. end[d].stage = "addressing" => Holds(d, "addressing", TRUE) /\ ReadsAddressing(d)
      BY <1>1, <1>4, <2>2, ReadsExpected
      DEF ReadNow, ReadsAnswer, ReadsAuthentication, ReadsIdentification
    <3>3. At(d, "addressing", {"send", "ack", "action"})' => IsAt(d, end'[d].address)
      BY <3>1, <3>2 DEF OwnedDevice, Owned4, At, Goes, ReadsAddressing, Data
    <3>4. ~Succeeded(d)'
      BY <1>2, <3>1 DEF Succeeded, Loops, ControlOf
    <3> QED
      BY <2>1, <3>1, <3>3, <3>4 DEF Owned4, Holds, IsAt
  <2>3. CASE ~ReadNow(d)
    <3>1. end'[d].command = end[d].command /\ end'[d].payload = end[d].payload
      BY <1>8, <2>3
    <3>2. At(d, "identification", {"action"})' \/ At(d, "addressing", {"wait"})' =>
            At(d, "identification", {"action"}) \/ At(d, "addressing", {"wait"})
      BY <1>2, <1>4, <2>3
      DEF AtomicStep, Entered, Queued, Acts, Advances, Succeeds, Refuses, GivesUp, Hesitates,
          Idles, Aborts, Leaves, Starts, Running, At, Goes, NextStage, FirstPart, ControlOf, Stages
    <3>3. At(d, "addressing", {"send", "ack", "action"})' =>
            At(d, "addressing", {"send", "ack", "action"}) /\ end'[d].address = end[d].address
      BY <1>2, <1>4, <2>3
      DEF AtomicStep, Entered, Queued, Acts, Advances, Succeeds, Refuses, GivesUp, Hesitates,
          Idles, Aborts, Leaves, Starts, Running, At, Goes, Data, NextStage, FirstPart, ControlOf, Stages
    <3>4. Succeeded(d)' =>
            /\ Succeeded(d) \/ At(d, "addressing", {"send", "ack", "action"})
            /\ end'[d].address = end[d].address
      BY <1>2, <2>3
      DEF AtomicStep, Entered, Queued, Acts, Advances, Succeeds, Refuses, GivesUp, Hesitates,
          Idles, Aborts, Leaves, Starts, Succeeded, At, Loops, Same, Data, ControlOf
    <3> QED
      BY <2>1, <3>1, <3>2, <3>3, <3>4 DEF OwnedDevice, Owned4, Holds, IsAt
  <2> QED
    BY <2>2, <2>3
<1> QED
  BY <1>9, <1>13, <1>14, <1>15 DEF OwnedDevice

LEMMA OwnedStep ==
  ASSUME PairingAssumption, TypeInv, cfg.atomic, Fresh, ListSound, Once, Once', Owned, NEW e \in Ends,
         Step(e)
  PROVE  Owned'
<1> SUFFICES ASSUME NEW d \in Devices PROVE OwnedDevice(d)'
  BY DEF Owned
<1>1. OwnedDevice(d) /\ Coord \in Ends /\ d \in Ends /\ d # Coord
  BY DEF Owned, Ends, PairingAssumption
<1>2. CASE e = Coord
  BY <1>1, <1>2, OwnedCoord
<1>3. CASE e = d
  BY <1>1, <1>3, OwnedSelf
<1>4. CASE e # Coord /\ e # d
  <2>1. end'[d] = end[d] /\ end'[Coord] = end[Coord] /\ list' = list
    BY <1>1, <1>4, StepLeaves, ListStays
  <2>2. /\ AskedBy(d)' <=> AskedBy(d)
        /\ Asked(d)' <=> Asked(d)
        /\ Identified(d)' <=> Identified(d)
        /\ Identifying' <=> Identifying
        /\ Post' <=> Post
        /\ Succeeded(d)' <=> Succeeded(d)
    BY <2>1 DEF AskedBy, Asked, Identified, Identifying, Post, Given, Succeeded, At, Holds
  <2> QED
    BY <1>1, <2>1, <2>2 DEF OwnedDevice, Owned1, Owned2, Owned3, Owned4, At, Holds, IsAt
<1> QED
  BY <1>2, <1>3, <1>4

\* Only the running device is asked.
LEMMA AskedRuns ==
  ASSUME PairingAssumption, TypeInv, NEW d \in Devices, Asked(d) \/ Identified(d)
  PROVE  Running(d)
<1>1. ControlOf(d)
  BY DEF TypeInv, Control, Ends
<1> QED
  BY <1>1 DEF Asked, Identified, At, Running, ControlOf

LEMMA OwnedToDevice ==
  ASSUME PairingAssumption, TypeInv, cfg.atomic, NEW d \in Devices, OwnedDevice(d), Delivers(Coord, d)
  PROVE  OwnedDevice(d)'
<1>1. Coord \in Ends /\ d \in Ends /\ d # Coord
  BY DEF Ends, PairingAssumption
<1>2. /\ end'[Coord] = end[Coord] /\ list' = list
      /\ end'[d].stage = end[d].stage /\ end'[d].part = end[d].part /\ end'[d].pc = end[d].pc
      /\ end'[d].starts = end[d].starts /\ end'[d].event = end[d].event
      /\ end'[d].address = end[d].address
  BY <1>1, DeliveredMessage
<1>3. /\ end[Coord].part = "ack" /\ end'[d].payload = Message(Coord)
      /\ end'[d].command.stage = end[Coord].stage
      /\ end'[d].command.asks = Asks(Coord, end[Coord].stage)
  BY <1>1, DeliveredMessage
<1>4. ~Identifying
  BY <1>3 DEF Identifying, At
<1>5. /\ AskedBy(d)' <=> AskedBy(d)
      /\ Identifying' <=> Identifying
      /\ Post' <=> Post
      /\ Holds(Coord, "authentication", FALSE)' <=> Holds(Coord, "authentication", FALSE)
      /\ Succeeded(d)' <=> Succeeded(d)
  BY <1>2 DEF AskedBy, Identifying, Post, Given, At, Holds, Succeeded
<1>6. Holds(d, "identification", FALSE)' \/ Holds(d, "addressing", TRUE)' => Post
  BY <1>3 DEF Holds, Post, Given, At
<1>7. Asked(d)' => Asked(d) \/ ~Post
  BY <1>2, <1>3 DEF Asked, At, Holds, Post, Given
<1>8. Post /\ Asked(d) => end[d].stage # "authentication" /\ ~Holds(Coord, "authentication", FALSE)
  BY DEF OwnedDevice, Owned3
<1>9. Identified(d)' => ~Holds(Coord, "authentication", FALSE)
  <2>1. Identified(d)' => Identified(d) \/ (Post /\ Asked(d))
    BY <1>2, <1>6 DEF Identified, Asked, At
  <2> QED
    BY <1>8, <2>1 DEF OwnedDevice, Owned2
<1>10. ~(At(d, "authentication", {"send", "ack", "action"})' /\ Holds(d, "identification", FALSE)')
  BY <1>2, <1>6, <1>8 DEF Asked, At
<1>11. Owned1(d)' /\ Owned2(d)' /\ Owned3(d)'
  <2>1. Owned1(d)'
    BY <1>2, <1>5 DEF OwnedDevice, Owned1
  <2>2. Owned2(d)'
    BY <1>4, <1>5, <1>9, <1>10 DEF Owned2
  <2>3. Owned3(d)'
    BY <1>2, <1>5, <1>7 DEF OwnedDevice, Owned3, IsAt
  <2> QED
    BY <2>1, <2>2, <2>3
<1>12. ASSUME Listed(d), At(d, "identification", {"action"})' \/ At(d, "addressing", {"wait"})',
              Holds(d, "addressing", TRUE)'
       PROVE  IsAt(d, end'[d].payload.address)
  <2>1. Post /\ Asked(d)
    BY <1>2, <1>6, <1>12 DEF Asked, At
  <2>2. end'[d].payload.address = end[Coord].address
    BY <1>1, <1>3, MessageFields
  <2> QED
    BY <1>12, <2>1, <2>2 DEF OwnedDevice, Owned3
<1>13. Owned4(d)'
  BY <1>2, <1>5, <1>12 DEF OwnedDevice, Owned4, Listed, At, IsAt
<1> QED
  BY <1>11, <1>13 DEF OwnedDevice

LEMMA OwnedToCoord ==
  ASSUME PairingAssumption, TypeInv, cfg.atomic, Once, NEW d \in Devices, OwnedDevice(d),
         NEW e \in Devices, Delivers(e, Coord)
  PROVE  OwnedDevice(d)'
<1>1. Coord \in Ends /\ d \in Ends /\ d # Coord /\ e \in Ends
  BY DEF Ends, PairingAssumption
<1>2. /\ end'[d] = end[d] /\ list' = list
      /\ end'[Coord].stage = end[Coord].stage /\ end'[Coord].part = end[Coord].part
      /\ end'[Coord].address = end[Coord].address
  BY <1>1, DeliveredMessage
<1>3. /\ end[e].part = "ack" /\ Running(e) /\ end'[Coord].payload = Message(e)
      /\ end'[Coord].command.stage = end[e].stage
      /\ end[e].stage \in Stages
  BY <1>1, DeliveredMessage
<1>4. end'[Coord].payload.from = e
  BY <1>1, <1>3, MessageFields
<1>5. /\ Asked(d)' <=> Asked(d)
      /\ Identified(d)' <=> Identified(d)
      /\ Identifying' <=> Identifying
      /\ Post' <=> Post
      /\ Succeeded(d)' <=> Succeeded(d)
  BY <1>2 DEF Asked, Identified, Identifying, Post, Given, Succeeded, At, Holds
<1>6. Asked(d) \/ Identified(d) => d = e
  BY <1>3, AskedRuns DEF TypeInv, OneDevice
<1>7. /\ Holds(Coord, "identification", TRUE)' => end[e].stage = "identification"
      /\ Holds(Coord, "authentication", FALSE)' => end[e].stage = "authentication"
  BY <1>3 DEF Holds
<1>8. Owned1(d)'
  <2> SUFFICES ASSUME AskedBy(d)'
               PROVE  end[d].stage = "identification" /\ end[d].starts = 1
    BY <1>2 DEF Owned1
  <2>1. d = e /\ end[d].stage = "identification"
    BY <1>4, <1>7 DEF AskedBy
  <2>2. end[d].starts >= 1 /\ end[d].starts <= 1 /\ end[d].starts \in Nat
    BY <1>1, <1>3, <2>1 DEF Once, TypeInv, TypeOK, EndType, Control, ControlOf, Running
  <2> QED
    BY <2>1, <2>2
<1>9. Succeeded(d) => d # e
  <2>1. ControlOf(d)
    BY <1>1 DEF TypeInv, Control
  <2> QED
    BY <1>3, <2>1 DEF ControlOf, Running, Stages
<1>10. Identified(d) => end[d].stage # "authentication"
  BY DEF Identified, At
<1>11. At(d, "authentication", {"send", "ack", "action"})' /\ Holds(d, "identification", FALSE)' =>
         At(d, "authentication", {"send", "ack", "action"}) /\ Holds(d, "identification", FALSE)
  BY <1>2 DEF At, Holds
<1>12. Owned2(d)'
  BY <1>4, <1>5, <1>6, <1>7, <1>9, <1>10, <1>11 DEF OwnedDevice, Owned2, AskedBy
<1>13. Owned3(d)'
  BY <1>2, <1>5, <1>6, <1>7 DEF OwnedDevice, Owned3, IsAt
<1>14. Owned4(d)'
  BY <1>2, <1>5 DEF OwnedDevice, Owned4, At, Holds, IsAt
<1> QED
  BY <1>8, <1>12, <1>13, <1>14 DEF OwnedDevice

LEMMA OwnedDeliver ==
  ASSUME PairingAssumption, TypeInv, cfg.atomic, Once, Owned, NEW e \in Ends, NEW f \in Ends,
         Delivers(e, f)
  PROVE  Owned'
<1> SUFFICES ASSUME NEW d \in Devices PROVE OwnedDevice(d)'
  BY DEF Owned
<1>1. OwnedDevice(d) /\ d \in Ends /\ Coord \in Ends /\ d # Coord
  BY DEF Owned, Ends, PairingAssumption
<1>2. CASE e \in Devices /\ f = Coord
  BY <1>1, <1>2, OwnedToCoord
<1>3. CASE e = Coord /\ f = d
  BY <1>1, <1>3, OwnedToDevice
<1>4. CASE e = Coord /\ f \in Devices \ {d}
  <2>1. end'[d] = end[d] /\ end'[Coord] = end[Coord] /\ list' = list
    BY <1>1, <1>4, DeliveredMessage
  <2>2. /\ AskedBy(d)' <=> AskedBy(d)
        /\ Asked(d)' <=> Asked(d)
        /\ Identified(d)' <=> Identified(d)
        /\ Identifying' <=> Identifying
        /\ Post' <=> Post
        /\ Succeeded(d)' <=> Succeeded(d)
    BY <2>1 DEF AskedBy, Asked, Identified, Identifying, Post, Given, Succeeded, At, Holds
  <2> QED
    BY <1>1, <2>1, <2>2 DEF OwnedDevice, Owned1, Owned2, Owned3, Owned4, At, Holds, IsAt
<1> QED
  BY <1>2, <1>3, <1>4, DeliveredMessage

LEMMA OwnedAcknowledge ==
  ASSUME PairingAssumption, TypeInv, cfg.atomic, Owned, NEW e \in Ends, NEW f \in Ends,
         Acknowledges(e, f)
  PROVE  Owned'
<1> SUFFICES ASSUME NEW d \in Devices PROVE OwnedDevice(d)'
  BY DEF Owned
<1>1. OwnedDevice(d) /\ d \in Ends /\ Coord \in Ends /\ d # Coord
  BY DEF Owned, Ends, PairingAssumption
<1>2. /\ list' = list /\ end[e].part = "ack" /\ end'[e].part = AfterAck(e, end[e].stage)
      /\ \A g \in Ends \ {e} : end'[g] = end[g]
      /\ \A g \in Ends : /\ end'[g].stage = end[g].stage /\ end'[g].pc = end[g].pc
                         /\ end'[g].starts = end[g].starts /\ end'[g].address = end[g].address
                         /\ end'[g].event = end[g].event
                         /\ end'[g].command = end[g].command /\ end'[g].payload = end[g].payload
  BY AcknowledgedMessage
<1>3. Asks(Coord, "authentication") /\ ~Asks(Coord, "identification") /\ Asks(Coord, "addressing")
      /\ ~Asks(d, "authentication") /\ Asks(d, "identification") /\ ~Asks(d, "addressing")
  BY WhoAsks
<1>4. /\ AskedBy(d)' <=> AskedBy(d)
      /\ Succeeded(d)' <=> Succeeded(d)
      /\ Holds(Coord, "identification", TRUE)' <=> Holds(Coord, "identification", TRUE)
      /\ Holds(Coord, "authentication", FALSE)' <=> Holds(Coord, "authentication", FALSE)
      /\ Holds(d, "identification", FALSE)' <=> Holds(d, "identification", FALSE)
      /\ Holds(d, "addressing", TRUE)' <=> Holds(d, "addressing", TRUE)
  BY <1>1, <1>2 DEF AskedBy, Succeeded, Holds
<1>5. (Identifying' => Identifying) /\ (Post' => Post)
  <2>1. CASE e = Coord
    BY <1>1, <1>2, <1>3, <2>1 DEF Identifying, Post, Given, At, AfterAck
  <2>2. CASE e # Coord
    BY <1>1, <1>2, <2>2 DEF Identifying, Post, Given, At
  <2> QED
    BY <2>1, <2>2
<1>6. /\ At(d, "authentication", {"send", "ack", "action"})' => At(d, "authentication", {"send", "ack", "action"})
      /\ At(d, "authentication", {"wait"})' =>
           At(d, "authentication", {"wait"}) \/ At(d, "authentication", {"send", "ack", "action"})
      /\ At(d, "identification", {"action"})' => At(d, "identification", {"action"})
      /\ At(d, "addressing", {"wait"})' => At(d, "addressing", {"wait"})
      /\ At(d, "addressing", {"send", "ack", "action"})' => At(d, "addressing", {"send", "ack", "action"})
  <2>1. CASE e = d
    BY <1>1, <1>2, <1>3, <2>1 DEF At, AfterAck
  <2>2. CASE e # d
    BY <1>1, <1>2, <2>2 DEF At
  <2> QED
    BY <2>1, <2>2
<1>7. Asked(d)' => Asked(d)
  <2>1. Holds(d, "authentication", TRUE)' <=> Holds(d, "authentication", TRUE)
    BY <1>1, <1>2 DEF Holds
  <2> QED
    BY <1>1, <1>2, <1>6, <2>1 DEF Asked
<1>8. Identified(d)' => Identified(d)
  BY <1>1, <1>2, <1>4, <1>6 DEF Identified
<1>9. Owned1(d)'
  BY <1>1, <1>2, <1>4 DEF OwnedDevice, Owned1
<1>10. Owned2(d)'
  BY <1>1, <1>2, <1>4, <1>5, <1>6, <1>7, <1>8 DEF OwnedDevice, Owned2
<1>11. Owned3(d)'
  BY <1>1, <1>2, <1>4, <1>5, <1>7 DEF OwnedDevice, Owned3, IsAt
<1>12. Owned4(d)'
  BY <1>1, <1>2, <1>4, <1>6 DEF OwnedDevice, Owned4, IsAt
<1> QED
  BY <1>9, <1>10, <1>11, <1>12 DEF OwnedDevice

LEMMA OwnedNext ==
  ASSUME PairingAssumption, TypeInv, cfg.atomic, Fresh, ListSound, Once, Once', Owned, [Next]_vars
  PROVE  Owned'
<1>1. CASE Next
  BY <1>1, StepCases, OwnedStep, OwnedDeliver, OwnedAcknowledge
<1>2. CASE UNCHANGED vars
  BY <1>2
  DEF vars, Owned, OwnedDevice, Owned1, Owned2, Owned3, Owned4, AskedBy, Asked, Identified, Identifying,
      Post, Given, Succeeded, At, Holds, IsAt
<1> QED
  BY <1>1, <1>2

LEMMA OwnedInit ==
  ASSUME PairingAssumption, Init
  PROVE  ListSound /\ Owned
<1>1. Coord \in Ends /\ Devices \subseteq Ends
  BY DEF Ends
<1>2. ListSound
  BY <1>1, AllOff DEF ListSound, Post, Given, At, Running
<1>3. Owned
  BY <1>1, AllOff
  DEF Owned, OwnedDevice, Owned1, Owned2, Owned3, Owned4, AskedBy, Asked, Identified, Succeeded, At, Holds
<1> QED
  BY <1>2, <1>3

(* While no device pairs a second time and no callback comes in the middle of  *)
(* a state function, the discovery list says the address of every device that  *)
(* paired with success and has a role of its own in it, and those addresses    *)
(* differ from each other and from the coordinator's: for every number of      *)
(* devices, every size of the list, whatever addresses the identifiers         *)
(* generate, and after any number of pairings that did not end.                *)
THEOREM PairingUniqueAddresses == Spec => [](cfg.atomic => UniqueAddresses)
<1> DEFINE Inv == /\ TypeInv
                  /\ cfg.atomic => Current /\ Fresh /\ ListSound
                  /\ cfg.atomic /\ Once => Owned
<1>1. Init => Inv
  BY PairingAssumption, TypeInvInit, AnsweredInit, FreshInit, OwnedInit
<1>2. Inv /\ [Next]_vars => Inv'
  BY PairingAssumption, TypeInvNext, CurrentNext, FreshNext, ListNext, OnceNext, OwnedNext, SettingStays
<1>3. Inv => (cfg.atomic => UniqueAddresses)
  <2> SUFFICES ASSUME Inv, cfg.atomic, Once
               PROVE  UniqueAddresses
    BY DEF UniqueAddresses, Once
  <2>1. ASSUME NEW d \in Devices, Succeeded(d), Listed(d)
        PROVE  /\ end[d].address # 0 /\ list[Role[d]] = end[d].address
               /\ Role[d] \in 0 .. ListSize - 1 /\ Role[d] # 0
    <3>1. end[d].address # 0 /\ list[Role[d]] = end[d].address
      BY <2>1 DEF Owned, OwnedDevice, Owned4, IsAt
    <3>2. Role[d] \in Nat \ {0} /\ Role[d] < ListSize
      BY <2>1, PairingAssumption DEF PairingAssumption, Listed
    <3> QED
      BY <3>1, <3>2, PairingAssumption DEF PairingAssumption
  <2>2. ASSUME NEW d \in Devices, Succeeded(d), Listed(d)
        PROVE  end[d].address # Generated[Coord]
    <3>1. 0 \in 0 .. ListSize - 1
      BY PairingAssumption DEF PairingAssumption
    <3>2. list[0] = Generated[Coord]
      BY <2>1, <2>2 DEF ListSound
    <3> QED
      BY <2>1, <2>2, <3>1, <3>2 DEF ListSound
  <2>3. ASSUME NEW d \in Devices, NEW f \in Devices, Succeeded(d), Listed(d), Succeeded(f), Listed(f), d # f
        PROVE  end[d].address # end[f].address
    <3>1. Role[d] # Role[f]
      BY <2>3 DEF Listed
    <3> QED
      BY <2>1, <2>3, <3>1 DEF ListSound
  <2> QED
    BY <2>1, <2>2, <2>3 DEF UniqueAddresses, Listed
<1> QED
  BY <1>1, <1>2, <1>3, PTL DEF Spec
=============================================================================
