----------------------------- MODULE PracticeDay ----------------------------
(***************************************************************************)
(* A learner's day between practice sessions: the corpus is edited, synced *)
(* and browsed; cards and a read are made from it; badges and check-ins    *)
(* credit its blocks.  The components share the corpus and the clock, and  *)
(* each reads the corpus as it is when it asks.                            *)
(***************************************************************************)
EXTENDS CorpusShelf, TopicCards, DailyReads, BadgeEmitter, SpeechSynthesis, SessionHistory

CONSTANTS
    TokensOf, AnchorOf, LengthOf,   \* of each word: its tokens, those of the anchor, its length
    SignalLimit, ReadLimit, SourceCandidateLimit

VARIABLE realUses   \* phrase_block_real_uses: the ref of each credit, a turn or a card's check-in

vendorVars == <<ledgerVars, speechVars>>
vars == <<clockVars, shelfVars, topicVars, readVars, badgeVars, vendorVars, historyVars, realUses>>

-----------------------------------------------------------------------------
\* The rows and requests of every part, and the credits between them, keep their types.
TypeOK ==
    /\ ClockTypeOK /\ ShelfTypeOK /\ TopicTypeOK /\ ReadTypeOK /\ BadgeTypeOK /\ LedgerTypeOK /\ SpeechTypeOK
    /\ HistoryTypeOK
    /\ realUses \subseteq ({"hit"} \X Turns \X Ids) \union ({"checkin"} \X (1 .. MaxCards) \X Ids)

Init ==
    /\ ClockInit /\ ShelfInit /\ TopicInit /\ ReadInit /\ BadgeInit /\ LedgerInit /\ SpeechInit
    /\ HistoryInit
    /\ realUses = {}

-----------------------------------------------------------------------------
(* What the components read of the corpus *)

\* PracticeSignals.Snapshot
Snapshot == BrowsePage(Me, None, SignalLimit)

\* CorpusBlockSource.ListRecentBlocks
ListRecentBlocks(user) == ToSet(BrowsePage(user, None, ReadLimit))

\* CandidatesForUser, by way of the app-server.
CandidatesForUser ==
    LET page == BrowsePage(Me, None, SourceCandidateLimit) IN
    [k \in DOMAIN page |->
        LET word == row[page[k]].expr[1] IN
        [id |-> page[k], expression |-> TokensOf[word], anchor |-> AnchorOf[word], length |-> LengthOf[word]]]

-----------------------------------------------------------------------------
(* What they write back to it *)

\* The id of a credit, two ids and a dash, is longer than MySQL's column: the transaction fails.
CreditTooLong(ids) == store = "mysql" /\ ids # {}

\* Mutant: whatever the learner names is credited.
OfferedAll(v) == visit[v].used

\* Only what the card offers may be credited.
Offered(v) == visit[v].used \intersect cards[visit[v].card].blocks

\* RecordRealUse of a check-in; its failure is logged, and the streak is counted all the same.
CreditCheckin(v) ==
    LET r == visit[v]
        fresh == {i \in Offered(v) : Writable(Me, i) /\ <<"checkin", r.card, i>> \notin realUses} IN
    /\ r # None /\ r.pc = "credit"
    /\ IF CreditTooLong(fresh) THEN NoWrite /\ UNCHANGED realUses
       ELSE /\ realUses' = realUses \union {<<"checkin", r.card, i>> : i \in fresh}
            /\ Write(Credited(fresh, now))
    /\ Proceed(v, "streak")
    /\ UNCHANGED <<clockVars, store, feedback, call, Clients, cards, checkins, streak, lastRun, gen>>
    /\ UNCHANGED <<readVars, badgeVars, vendorVars, historyVars>>

\* The ledger's key is (session, turn, block).
FirstReport(turn, i) == ~\E u \in uses : u.turn = turn /\ u.block = i

\* RecordHits, at the time the gateway stamped.
CreditHit(e) ==
    LET r == emit[e]
        fresh == {i \in {r.block} : FirstReport(r.turn, i) /\ Writable(Me, i)} IN
    /\ r # None /\ r.pc = "record"
    /\ IF CreditTooLong(fresh) THEN NoWrite /\ UNCHANGED <<uses, realUses>>
       ELSE /\ uses' = uses \union {[turn |-> r.turn, block |-> r.block]}
            /\ realUses' = realUses \union {<<"hit", r.turn, i>> : i \in fresh}
            /\ Write(Credited(fresh, r.at))
    /\ EmitEnds(e)
    /\ UNCHANGED <<clockVars, store, feedback, call, Clients, lru, asked, shown>>
    /\ UNCHANGED <<topicVars, readVars, vendorVars, historyVars>>

-----------------------------------------------------------------------------
TopicNext ==
    \/ \E p \in Processes : RunIfDue(p, Snapshot) \/ ProcessRestarts(p)
    \/ \E r \in Requests : ListToday(r, Snapshot)
    \/ \E g \in Generators :
         \/ \E n \in 1 .. CardsPerDay :
              \E titles \in [1 .. n -> Titles], quoted \in [1 .. n -> Quotes] :
                Answer(g, [k \in 1 .. n |-> [title |-> titles[k], quoted |-> quoted[k]]])
         \/ Abandon(g) \/ InsertCard(g) \/ InsertFails(g)
    \/ \E v \in Visits :
         \/ \E k \in DOMAIN cards, used \in Claims : MarkCheckedIn(v, k, used)
         \/ InsertCheckin(v) \/ GetStreak(v) \/ UpsertStreak(v) \/ CheckinFails(v)
    \/ \E k \in DOMAIN cards : Dismiss(k)
    \/ SoftDeleteTopics \/ RestoreTopics(store)

ReadNext ==
    \/ \E r \in Readers :
         \/ \E p \in ReadProcesses, user \in Learners : GetToday(r, p, user)
         \/ ensureTodayRead(r) \/ CreatePending(r) \/ MarkReady(r, store) \/ ReadBack(r) \/ ReadFails(r)
         \/ reader[r] # None /\ GenerateDailyRead(r, ListRecentBlocks(reader[r].user))
    \/ \E p \in ReadProcesses : ReadProcessDies(p)
    \/ ReassignReads(Guest, Me, store)

BadgeNext ==
    \/ \E e \in Emits :
         \/ \E turn \in Turns, text \in Texts : Emit(e, turn, text)
         \/ Detect(e, CandidatesForUser) \/ WriteBadge(e) \/ EmitFails(e)
    \/ GatewayRestarts

ModelNext ==
    \/ \E c \in Callers :
         \/ \E operation \in Operations, user \in {None, Payer} : Complete(c, operation, user)
         \/ CallerGivesUp(c) \/ CompletionFails(c) \/ WriteCost(c, store) \/ WriteCostFails(c)
         \/ \E usage \in Usages : ModelAnswers(c, usage)
    \/ AnonymizeUser(Payer) \/ RestoreUser(Payer)

SpeechNext ==
    \/ \E s \in Speakers :
         \/ \E text \in Sentences, id \in VoiceIds : PostSynthesize(s, text, id)
         \/ SynthesizeGivesUp(s) \/ PostOK(s) \/ PostRefused(s) \/ Post5xx(s)
         \/ StreamFallback(s) \/ OpenFails(s)
         \/ ReceivePiece(s) \/ ReceiveEnd(s) \/ StreamBreaks(s) \/ ReaderLeaves(s)
    \/ DuplexDies

Next ==
    \/ ShelfNext /\ UNCHANGED <<topicVars, readVars, badgeVars, vendorVars, historyVars, realUses>>
    \/ TopicNext /\ UNCHANGED <<shelfVars, readVars, badgeVars, vendorVars, historyVars, realUses>>
    \/ ReadNext /\ UNCHANGED <<shelfVars, topicVars, badgeVars, vendorVars, historyVars, realUses>>
    \/ BadgeNext /\ UNCHANGED <<shelfVars, topicVars, readVars, vendorVars, historyVars, realUses>>
    \/ ModelNext /\ UNCHANGED <<shelfVars, topicVars, readVars, badgeVars, speechVars, historyVars, realUses>>
    \/ SpeechNext /\ UNCHANGED <<shelfVars, topicVars, readVars, badgeVars, historyVars, realUses>>
    \/ HistoryNext /\ UNCHANGED <<shelfVars, topicVars, readVars, badgeVars, vendorVars, realUses>>
    \/ \E v \in Visits : CreditCheckin(v)
    \/ \E e \in Emits : CreditHit(e)
    \/ Tick /\ UNCHANGED <<shelfVars, topicVars, readVars, badgeVars, vendorVars, historyVars, realUses>>

Spec == Init /\ [][Next]_vars

-----------------------------------------------------------------------------
(* Properties *)

\* Whoever pages through the blocks or the sessions sees nothing twice, and everything that was there
\* from the first page to the last, while rows are written, moved, deleted, restored and merged.
PagesShowEach == BrowseShowsEach /\ HistoryShowsEach

\* Every use counted for a block is a turn of which the learner saw the badge, or the check-in of a
\* card that offered the block: reports that are repeated, late or lost, check-ins that are retried
\* or name other blocks, and blocks reworded, deleted or restored meanwhile cannot add one.
UsesAreEvidenced ==
    \A i \in Owned(Me) :
        row[i].used <= Cardinality({t \in Turns : <<t, i>> \in shown})
                       + Cardinality({k \in DOMAIN cards : cards[k].checked /\ i \in cards[k].blocks})
=============================================================================
