--------------------------- MODULE MCRescueLadder ---------------------------
(***************************************************************************)
(* Small instances of RescueLadder.  A tick is one rung spacing: 3 s, 6 s  *)
(* and 9 s are the ticks 1, 2 and 3.                                       *)
(***************************************************************************)
EXTENDS RescueLadder, TLC

MCAfter == [l \in 1 .. 3 |-> l]

\* withDefaults allows equal rungs: every rung is due at the same moment.
MCEqual == [l \in 1 .. 3 |-> 1]

\* The log, what the client is owed and which name a turn has decide no step: the
\* invariants of the streams are checked up to them.
StreamView == <<turn, det, aiTurn = NoTurn, [speech EXCEPT !.turn = (@ = NoTurn)], inFlight,
                [s \in Slots |-> [rung[s] EXCEPT !.turn = NoTurn]], reader, collect, seq,
                wire.last, wire.stream, client.ended, client.rungs, client.up>>

Twins == Permutations(Slots)
=============================================================================
