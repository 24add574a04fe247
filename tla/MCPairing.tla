------------------------------ MODULE MCPairing ------------------------------
(* Pairing with two devices, one of which may have another application code.  *)
EXTENDS Pairing

CONSTANTS coord, d1, d2

MCDevices == {d1, d2}
MCRole == [d \in MCDevices |-> IF d = d1 THEN 1 ELSE 2]

\* The coordinator and both devices generate the same address.
MCGenerated == [e \in {coord, d1, d2} |-> 4]

\* An end that can be stopped pairs again.
MCMaxStarts == [e \in {coord, d1, d2} |-> IF e = d2 THEN 1 ELSE 2]

\* The undisturbed case; the coordinator, the devices, or a device and the
\* coordinator stopped at any time, over a link that also repeats and loses
\* messages; a device with another application code; a callback in the middle of a state function.
MCSettings ==
  LET Setting(compatible, exact, atomic, stops) ==
        [exact |-> exact, prompt |-> FALSE, atomic |-> atomic, compatible |-> compatible,
         stops |-> stops]
      Both == MCDevices
  IN {[Setting(Both, TRUE, TRUE, {}) EXCEPT !.prompt = TRUE],
      Setting(Both, FALSE, TRUE, {coord}),
      Setting(Both, FALSE, TRUE, Both),
      Setting(Both, TRUE, TRUE, {coord, d1}),
      Setting({d1}, FALSE, TRUE, {d2}),
      Setting(Both, FALSE, FALSE, {}),
      Setting(Both, TRUE, FALSE, {})}
=============================================================================
