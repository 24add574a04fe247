---------------------------- MODULE MCSacPipeline ----------------------------
(* The pipelines of the audio applications, on small queues. *)
EXTENDS SacPipeline

\* Radio to codec, with the queue extended for the drift compensation.
Playback ==
  [producerDelayed |-> FALSE, consumerDelayed |-> TRUE, queueSize |-> 1, extra |-> 1,
   buffering |-> FALSE, started |-> TRUE, prompt |-> TRUE]

\* Codec to radio.
Recording ==
  [producerDelayed |-> TRUE, consumerDelayed |-> FALSE, queueSize |-> 3, extra |-> 0,
   buffering |-> TRUE, started |-> TRUE, prompt |-> TRUE]

MCSettings ==
  {Playback,
   [Playback EXCEPT !.started = FALSE],
   [Playback EXCEPT !.queueSize = 3, !.extra = 0, !.buffering = TRUE],
   [Playback EXCEPT !.extra = 0, !.prompt = FALSE],
   Recording,
   [Recording EXCEPT !.producerDelayed = FALSE, !.queueSize = 2]}
=============================================================================
