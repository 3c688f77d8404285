-------------------------- MODULE MCReviewPipeline --------------------------
(***************************************************************************)
(* Small instances of ReviewPipeline.  The requests are those the gateway  *)
(* sends: a normal end with speech, an end of a silent session, and the    *)
(* learner walking away.  Ticks: job timeouts of 60 s and 90 s, 10 s to    *)
(* close the job, a lease of 120 s, a retry delay of 2 s.                  *)
(***************************************************************************)
EXTENDS ReviewPipeline, TLC

Spoken(said, metered) == [reason |-> "user_ended", said |-> said, metered |-> metered]

MCRequests == {Spoken({"u1"}, TRUE), Spoken({}, FALSE),
               [reason |-> "abandoned", said |-> {"u1", "u2"}, metered |-> TRUE]}

MCSpokenOnly == {Spoken({"u1"}, TRUE)}

Twins == Permutations(Calls) \cup Permutations(Workers)

MCJobTimeout == [t \in JobTypes |-> IF t = "session.finished" THEN 1 ELSE 2]

MCShortTimeout == [t \in JobTypes |-> 1]
=============================================================================
