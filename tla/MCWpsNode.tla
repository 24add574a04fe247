------------------------------ MODULE MCWpsNode ------------------------------
(* Nodes with one or two timeslots, each used in one way.                     *)
EXTENDS WpsNode

Send(auto) == [tx |-> TRUE, auto |-> auto, sync |-> FALSE]
Receive(auto) == [tx |-> FALSE, auto |-> auto, sync |-> TRUE]

Plain ==
  [schedule |-> <<Receive("reply")>>, user |-> FALSE, phase |-> FALSE, node |-> FALSE,
   fastSync |-> FALSE, exact |-> TRUE, atomic |-> TRUE, prompt |-> TRUE, slow |-> FALSE, patient |-> TRUE,
   calls |-> {}, ratios |-> {}]

MCSettings ==
  {[Plain EXCEPT !.slow = TRUE],
   [Plain EXCEPT !.exact = FALSE, !.phase = TRUE],
   [Plain EXCEPT !.schedule = <<Send("reply")>>, !.phase = TRUE, !.user = TRUE,
                 !.calls = {"write", "periodic"}],
   [Plain EXCEPT !.calls = {"read", "disconnect"}],
   [Plain EXCEPT !.schedule = <<Send("none"), Receive("bare")>>, !.node = TRUE, !.calls = {"ratio"},
                 !.ratios = {<<1, 0>>, <<1, 50>>}],
   [Plain EXCEPT !.schedule = <<Receive("bare")>>, !.node = TRUE, !.atomic = FALSE],
   [Plain EXCEPT !.schedule = <<Receive("bare")>>, !.atomic = FALSE, !.prompt = FALSE],
   [Plain EXCEPT !.schedule = <<Receive("bare")>>, !.node = TRUE, !.fastSync = TRUE,
                 !.patient = FALSE, !.calls = {"disconnect"}]}
=============================================================================
