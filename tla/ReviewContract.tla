--------------------------- MODULE ReviewContract ---------------------------
(***************************************************************************)
(* What the session service promises a learner about one practice session, *)
(* with no store, no job queue and no worker in sight.  A session is       *)
(* opened, then closed once: either kept for review or dropped.  Closing   *)
(* fixes its transcript for good.  A kept session in which the learner     *)
(* spoke may get one review, which is never replaced; a dropped or silent  *)
(* session never gets one.                                                 *)
(***************************************************************************)
CONSTANTS Sessions, Utterances, ReviewSources

VARIABLES phase, text, review

contractVars == <<phase, text, review>>

Phases == {"absent", "open", "kept", "dropped", "published"}

ContractInit ==
    /\ phase = [s \in Sessions |-> "absent"]
    /\ text = [s \in Sessions |-> {}]
    /\ review = [s \in Sessions |-> "none"]

Open(s) ==
    /\ phase[s] = "absent"
    /\ phase' = [phase EXCEPT ![s] = "open"]
    /\ UNCHANGED <<text, review>>

Close(s, fate, said) ==
    /\ phase[s] = "open"
    /\ phase' = [phase EXCEPT ![s] = fate]
    /\ text' = [text EXCEPT ![s] = said]
    /\ UNCHANGED review

Publish(s, source) ==
    /\ phase[s] = "kept"
    /\ text[s] # {}
    /\ phase' = [phase EXCEPT ![s] = "published"]
    /\ review' = [review EXCEPT ![s] = source]
    /\ UNCHANGED text

ContractNext ==
    \E s \in Sessions :
        \/ Open(s)
        \/ \E fate \in {"kept", "dropped"}, said \in SUBSET Utterances : Close(s, fate, said)
        \/ \E source \in ReviewSources : Publish(s, source)

ContractSpec == ContractInit /\ [][ContractNext]_contractVars
=============================================================================
