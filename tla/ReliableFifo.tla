----------------------------- MODULE ReliableFifo -----------------------------
(***************************************************************************)
(* What a connection promises its two applications, whatever the protocol  *)
(* below does.  Frames are numbered in the order they were accepted; they  *)
(* reach the receiver one at a time and in that order, and a reliable      *)
(* connection lets go of a frame only once the receiver has it.  The       *)
(* sending application may throw away everything not yet confirmed.        *)
(***************************************************************************)
EXTENDS Naturals

VARIABLES
  reliable,   \* no deadline, no flush requests, no header-only frames
  accepted,   \* frames accepted from the sending application
  received,   \* the last frame that reached the receiver
  confirmed   \* frames the sender no longer holds

vars == <<reliable, accepted, received, confirmed>>

Init ==
  /\ reliable \in BOOLEAN
  /\ accepted = 0 /\ received = 0 /\ confirmed = 0

Accept ==
  /\ accepted' = accepted + 1
  /\ UNCHANGED <<reliable, received, confirmed>>

\* The oldest frame the sender holds reaches the receiver.
Receive ==
  /\ received <= confirmed /\ confirmed < accepted
  /\ received' = confirmed + 1
  /\ UNCHANGED <<reliable, accepted, confirmed>>

Confirm ==
  /\ received = confirmed + 1
  /\ confirmed' = confirmed + 1
  /\ UNCHANGED <<reliable, accepted, received>>

\* An unreliable connection lets frames go, received or not.
LetGo ==
  /\ ~reliable
  /\ confirmed' \in confirmed + 1 .. accepted
  /\ UNCHANGED <<reliable, accepted, received>>

Discard ==
  /\ confirmed' = accepted
  /\ UNCHANGED <<reliable, accepted, received>>

Next == Accept \/ Receive \/ Confirm \/ LetGo \/ Discard

Spec == Init /\ [][Next]_vars
=============================================================================
