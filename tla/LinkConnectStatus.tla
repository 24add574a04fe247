-------------------------- MODULE LinkConnectStatus --------------------------
(***************************************************************************)
(* Connection status with hysteresis (src/core/wireless/link/              *)
(* link_connect_status.c): so many good outcomes in a row connect, so long *)
(* a time without one disconnects.  Durations are counted in timeslots.    *)
(***************************************************************************)
EXTENDS Naturals

CONSTANTS
  ConnectCount,        \* connect_count: good outcomes that connect
  DisconnectDuration   \* disconnect_duration_us, in timeslots

ASSUME ConnectStatusAssumption ==
  /\ ConnectCount \in Nat \ {0}
  /\ DisconnectDuration \in Nat \ {0}

GoodOutcomes == {"RECEIVED", "SENT_ACK"}
BadOutcomes == {"LOST", "REJECTED", "SENT_ACK_LOST", "SENT_ACK_REJECTED"}

ConnectStatuses ==
  [connected : BOOLEAN,
   received : 0 .. ConnectCount - 1,
   lost : 0 .. DisconnectDuration - 1]

ConnectStatusReset == [connected |-> FALSE, received |-> 0, lost |-> 0]
ConnectStatusUp == [connected |-> TRUE, received |-> 0, lost |-> 0]

\* link_update_connect_status for a synchronised, acknowledged connection;
\* an outcome outside the two sets (FRAME_WAIT) changes nothing.
UpdateConnectStatus(cs, outcome) ==
  IF cs.connected
  THEN CASE outcome \in GoodOutcomes -> [cs EXCEPT !.lost = 0]
         [] outcome \in BadOutcomes ->
              IF cs.lost + 1 >= DisconnectDuration
              THEN ConnectStatusReset
              ELSE [cs EXCEPT !.lost = @ + 1]
         [] OTHER -> cs
  ELSE CASE outcome \in GoodOutcomes ->
              IF cs.received + 1 >= ConnectCount
              THEN ConnectStatusUp
              ELSE [cs EXCEPT !.received = @ + 1]
         [] outcome \in BadOutcomes -> [cs EXCEPT !.received = 0]
         [] OTHER -> cs
=============================================================================
