------------------------- MODULE LinkCreditFlowCtrl -------------------------
(***************************************************************************)
(* Credit flow control of one connection (src/core/wireless/link/          *)
(* link_credit_flow_ctrl.h and the header fields of                        *)
(* protocol_stack/wps_mac_protocols.c): the receiver announces its free    *)
(* queue slots in the header of the acknowledgement, the transmitter holds *)
(* data back while it has no credit, and sends a header-only frame to ask  *)
(* again once it has skipped more than a threshold of slots.               *)
(***************************************************************************)
EXTENDS Naturals

CONSTANTS
  SkippedFramesThreshold,  \* CREDIT_FLOW_CTRL_SKIPPED_FRAMES_THRESHOLD, 3 in the code
  SkippedModulus           \* range of the uint8_t skipped_frames_count, 256 in the code

ASSUME CreditAssumption ==
  /\ SkippedFramesThreshold \in Nat
  /\ SkippedModulus \in Nat
  /\ SkippedModulus > SkippedFramesThreshold + 1

WPS_MIN_QUEUE_SIZE == 2                 \* credits a connection starts with
CREDIT_FLOW_CONTROL_MAX_VALUE == 255

CreditAvailable(enabled, credits) == enabled => credits > 0

\* link_credit_flow_ctrl_is_available counts the slot it refuses, in a byte.
CountSkipped(enabled, credits, skipped) ==
  IF CreditAvailable(enabled, credits) THEN skipped ELSE (skipped + 1) % SkippedModulus

BugSkippedFramesExceed(enabled, skipped) == FALSE
SkippedFramesExceed(enabled, skipped) == enabled /\ skipped > SkippedFramesThreshold

BugCreditToSend(freeSlots) ==
  IF freeSlots > CREDIT_FLOW_CONTROL_MAX_VALUE THEN CREDIT_FLOW_CONTROL_MAX_VALUE
  ELSE freeSlots

\* The announced credit keeps one slot back for the frame that may be on air
\* while the acknowledgement is already prepared.
CreditToSend(freeSlots) ==
  IF freeSlots > CREDIT_FLOW_CONTROL_MAX_VALUE THEN CREDIT_FLOW_CONTROL_MAX_VALUE
  ELSE IF freeSlots > 0 THEN freeSlots - 1
  ELSE 0

\* link_credit_flow_ctrl_frame_ack_received
SpendCredit(credits) == IF credits > 0 THEN credits - 1 ELSE 0
=============================================================================
