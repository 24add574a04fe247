------------------------------ MODULE MCWpsLink ------------------------------
(* WpsLink on small instances: the settings its runs choose from. *)
EXTENDS WpsLink

Plain == [saw |-> TRUE, ttlRetries |-> 0, ttlTick |-> 0, autoSync |-> FALSE,
          syncFrame |-> FALSE, credit |-> FALSE, flush |-> FALSE]

Credit == [Plain EXCEPT !.credit = TRUE]

\* No deadline: a frame is retried until it is acknowledged.
Guaranteed == {Plain, Credit}

\* Frames may be dropped, or header-only frames mixed in.
Lossy ==
  {[Plain EXCEPT !.ttlRetries = 2, !.flush = TRUE],
   [Plain EXCEPT !.ttlTick = 1, !.autoSync = TRUE],
   [Plain EXCEPT !.syncFrame = TRUE, !.credit = TRUE],
   Credit,
   [Plain EXCEPT !.saw = FALSE]}

PlainOnly == {Plain}
WithCredit == {Credit}
=============================================================================
