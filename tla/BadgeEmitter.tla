---------------------------- MODULE BadgeEmitter ----------------------------
(***************************************************************************)
(* The badge of a phrase that the learner used while speaking: the turn's  *)
(* text is scored against the learner's blocks, the best one is shown once *)
(* per turn, and what was shown is reported to the app-server, each turn   *)
(* on a goroutine of its own.  What a report credits to the corpus is an   *)
(* action of PracticeDay.                                                  *)
(***************************************************************************)
EXTENDS DayClock, Sequences, FiniteSets, SequencesExt

CONSTANTS
    Emits,              \* goroutines under way at the same time
    Turns,
    Texts,              \* what may be said: sequences of tokens
    HitCandidateCap, DedupeTTL, DedupeCapacity

\* newDedupeLRU puts its defaults for what is not positive.
ASSUME BadgeAssumption == DedupeTTL \in Nat \ {0} /\ DedupeCapacity \in Nat \ {0}

VARIABLES
    emit,     \* the goroutines
    lru,      \* dedupeLRU, the front first
    asked,    \* ghost: what the LRU was asked since the gateway started
    shown,    \* the badges that reached the client
    uses      \* phrase_block_uses

badgeVars == <<emit, lru, asked, shown, uses>>

-----------------------------------------------------------------------------
(* HitDetector: a candidate is [id, expression, anchor, length], the first two texts as tokens. *)

\* The candidates in the order of the listing; above the cap the shortest, order kept among equals.
trimCandidates(cands) ==
    IF Len(cands) <= HitCandidateCap THEN cands
    ELSE LET before(i, j) == cands[i].length < cands[j].length
                             \/ (cands[i].length = cands[j].length /\ i < j)
             order == Ordered(DOMAIN cands, before) IN
         [k \in 1 .. HitCandidateCap |-> cands[order[k]]]

\* The score is Matched over Denominator: the distinct tokens that were said, over the shorter of
\* the two texts, each with its repetitions.
Combined(cand) == cand.expression \o cand.anchor
Matched(text, cand) == Cardinality(ToSet(Combined(cand)) \intersect ToSet(text))
Denominator(text, cand) ==
    IF Len(text) < Len(Combined(cand)) THEN Len(text) ELSE Len(Combined(cand))

\* hitMinScore is 0.65.
ReachesMinScore(text, cand) == 100 * Matched(text, cand) >= 65 * Denominator(text, cand)

Scores(text, a, b) == Matched(text, a) * Denominator(text, b)

\* pickBest: the highest score, then the shorter expression, then the order of the listing.
Beats(text, cands, i, j) ==
    LET a == cands[i] b == cands[j] mine == Scores(text, a, b) other == Scores(text, b, a) IN
    \/ mine > other
    \/ mine = other /\ a.length < b.length
    \/ mine = other /\ a.length = b.length /\ i <= j

\* Detect: the id of the hit, or None.
Detected(text, listed) ==
    LET cands == trimCandidates(listed)
        scored == {i \in DOMAIN cands : text # <<>> /\ Combined(cands[i]) # <<>> /\ Matched(text, cands[i]) > 0}
        best == {i \in scored : \A j \in scored : Beats(text, cands, i, j)} IN
    IF \E i \in best : ReachesMinScore(text, cands[i]) THEN cands[CHOOSE i \in best : TRUE].id ELSE None

-----------------------------------------------------------------------------
(* dedupeLRU *)

Unseen(key) == ~\E k \in DOMAIN lru : lru[k].key = key /\ now < lru[k].exp
Without(key) ==
    IF \E k \in DOMAIN lru : lru[k].key = key THEN RemoveAt(lru, CHOOSE k \in DOMAIN lru : lru[k].key = key) ELSE lru

\* Mutant: a badge that is let through is not remembered.
AllowForgets(key) ==
    IF Unseen(key) THEN Without(key)
    ELSE <<CHOOSE e \in ToSet(lru) : e.key = key>> \o Without(key)

\* A live key moves to the front; any other is put there anew, and the last ones fall off.
Allow(key) ==
    IF Unseen(key)
    THEN First(DedupeCapacity, <<[key |-> key, exp |-> now + DedupeTTL]>> \o Without(key))
    ELSE <<CHOOSE e \in ToSet(lru) : e.key = key>> \o Without(key)

-----------------------------------------------------------------------------
BadgeTypeOK ==
    /\ \A e \in Emits : emit[e] = None \/ emit[e].pc \in {"detect", "write", "record"}
    /\ Len(lru) <= DedupeCapacity /\ \A k \in DOMAIN lru : lru[k].key[1] \in Turns
    /\ \A r \in uses : r.turn \in Turns

BadgeInit ==
    /\ emit = [e \in Emits |-> None] /\ lru = <<>> /\ asked = <<>> /\ shown = {} /\ uses = {}

EmitEnds(e) == emit' = [emit EXCEPT ![e] = None]

\* A turn without a text starts nothing.
Emit(e, turn, text) ==
    /\ emit[e] = None /\ text # <<>> /\ Spend("badges")
    /\ emit' = [emit EXCEPT ![e] = [pc |-> "detect", turn |-> turn, text |-> text, block |-> None, at |-> now]]
    /\ UNCHANGED <<lru, asked, shown, uses>>

\* doEmit up to the write: the key is remembered before the badge is on the wire.
Detect(e, listed) ==
    LET r == emit[e] block == Detected(r.text, listed) key == <<r.turn, block>> IN
    /\ r # None /\ r.pc = "detect"
    /\ IF block = None THEN EmitEnds(e) /\ UNCHANGED <<lru, asked>>
       ELSE /\ lru' = Allow(key)
            /\ asked' = Append(asked, [key |-> key, at |-> now, fresh |-> Unseen(key)])
            /\ IF Unseen(key) THEN emit' = [emit EXCEPT ![e].pc = "write", ![e].block = block]
               ELSE EmitEnds(e)
    /\ UNCHANGED <<clockVars, shown, uses>>

\* The report carries the time at which it left.
WriteBadge(e) ==
    /\ emit[e] # None /\ emit[e].pc = "write"
    /\ shown' = shown \union {<<emit[e].turn, emit[e].block>>}
    /\ emit' = [emit EXCEPT ![e].pc = "record", ![e].at = now]
    /\ UNCHANGED <<clockVars, lru, asked, uses>>

\* The candidates do not come in time, the badge is not written, or the report is lost: nothing is
\* tried again.
EmitFails(e) ==
    /\ emit[e] # None /\ Fault /\ EmitEnds(e)
    /\ UNCHANGED <<lru, asked, shown, uses>>

\* A new gateway remembers nothing.
GatewayRestarts ==
    /\ Fault
    /\ emit' = [e \in Emits |-> None] /\ lru' = <<>> /\ asked' = <<>>
    /\ UNCHANGED <<shown, uses>>

-----------------------------------------------------------------------------
(* Properties *)

\* A use is in the ledger only if its badge reached the client: "the reverse must never happen".
RecordedWasShown == \A r \in uses : <<r.turn, r.block>> \in shown

\* A badge is let through a second time within its TTL only by a new gateway, or when at least as
\* many other badges as the LRU holds were asked for between the two.
BadgeNotRepeated ==
    \A i, j \in DOMAIN asked :
        (i < j /\ asked[i].key = asked[j].key /\ asked[i].fresh /\ asked[j].fresh
           /\ asked[j].at < asked[i].at + DedupeTTL)
        => Cardinality({asked[k].key : k \in i + 1 .. j - 1} \ {asked[i].key}) >= DedupeCapacity
=============================================================================
