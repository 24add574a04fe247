----------------------------- MODULE MCWpsMemory -----------------------------
(* WpsMemory on small instances: the settings its runs choose from. *)
EXTENDS WpsMemory

Sequential == [ackFrames |-> TRUE, flush |-> FALSE, preempt |-> FALSE]

\* Flushes and interrupts anywhere: what is promised of the nodes still holds.
AnyUse == {Sequential, [Sequential EXCEPT !.flush = TRUE, !.preempt = TRUE]}

\* No auto-reply connection and no credits: the radio's own acknowledgement.
NoAckFrames == {[Sequential EXCEPT !.ackFrames = FALSE]}

SequentialOnly == {Sequential}
=============================================================================
