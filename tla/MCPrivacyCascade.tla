-------------------------- MODULE MCPrivacyCascade --------------------------
(***************************************************************************)
(* Small instances of PrivacyCascade.  The corpus hides blocks, then the   *)
(* feedback on them, as the wiper of topics does with its three tables; the *)
(* wipers of sessions, costs and materials run one statement each and are  *)
(* alike, so one stands for all of them.                                   *)
(***************************************************************************)
EXTENDS PrivacyCascade, TLC

MCWipers == << <<"blocks", "feedback">>, <<"sessions">> >>
MCHard == <<"drills">>
Twins == Permutations(Calls)
=============================================================================
