------------------------------ MODULE MCWpsFrag ------------------------------
(* WpsFrag on small instances: the settings its runs choose from. *)
EXTENDS WpsFrag

\* Payloads of 10 bytes are the longest of the runs.
Reliable ==
  [lossy |-> FALSE, prompt |-> FALSE, preempt |-> FALSE, other |-> FALSE, buffer |-> 10,
   payloads |-> 3]

\* Another connection sends in a callback that comes inside wps_frag_send.  Two
\* payloads: one whose number moves, and one for it to be mixed with.
OtherInside == {[Reliable EXCEPT !.preempt = TRUE, !.other = TRUE, !.payloads = 2]}

ReliableAndLossy ==
  OtherInside \cup
  {Reliable,
   [Reliable EXCEPT !.preempt = TRUE],
   [Reliable EXCEPT !.other = TRUE],
   [Reliable EXCEPT !.lossy = TRUE, !.prompt = TRUE, !.buffer = 8]}

LossyPrompt == {[Reliable EXCEPT !.lossy = TRUE, !.prompt = TRUE]}
=============================================================================
