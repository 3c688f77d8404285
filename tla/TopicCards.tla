----------------------------- MODULE TopicCards -----------------------------
(***************************************************************************)
(* The daily topic cards of one learner: their generation, by the batch of *)
(* each process and on demand, and the check-ins that count the streak.    *)
(* Nothing locks a generation: it looks, waits for the language model, and *)
(* inserts card by card.  What a check-in credits to the corpus is an      *)
(* action of PracticeDay.                                                  *)
(***************************************************************************)
EXTENDS DayClock, Sequences, FiniteSets, SequencesExt

CONSTANTS
    Processes,     \* app-server and worker: each runs the batch
    Requests,      \* GET /topics/today requests that generate on demand
    Visits,        \* check-in requests under way at the same time
    Titles,
    Quotes,        \* sets of blocks a card may quote
    Claims,        \* sets of blocks a learner may claim to have used
    CardsPerDay, MinBlocks, MaxBlocksPerCard, LookbackDays, MaxCards

VARIABLES
    cards,      \* topic_cards, in the order of insertion
    checkins,   \* topic_checkins
    streak,     \* topic_streaks
    lastRun,    \* of each process's scheduler: the last day, plus one
    gen,        \* the generations under way
    visit       \* the check-ins under way

topicVars == <<cards, checkins, streak, lastRun, gen, visit>>

-----------------------------------------------------------------------------
Generators == Processes \union Requests
Today == utcDate(now)

NoStreak == [cur |-> 0, best |-> 0, last |-> 0, live |-> TRUE]   \* last: the day, plus one

TopicTypeOK ==
    /\ \A k \in DOMAIN cards :
         /\ cards[k].title \in Titles /\ cards[k].day \in Nat
         /\ {cards[k].checked, cards[k].dismissed, cards[k].live} \subseteq BOOLEAN
    /\ Len(cards) <= MaxCards
    /\ \A r \in checkins : r.card \in DOMAIN cards /\ r.day \in Nat /\ r.live \in BOOLEAN
    /\ DOMAIN streak = DOMAIN NoStreak
    /\ lastRun \in [Processes -> Nat]
    /\ DOMAIN gen = Generators /\ DOMAIN visit = Visits

TopicInit ==
    /\ cards = <<>> /\ checkins = {} /\ streak = NoStreak
    /\ lastRun = [p \in Processes |-> 0]
    /\ gen = [g \in Generators |-> None]
    /\ visit = [v \in Visits |-> None]

CardsFor(day) == {k \in DOMAIN cards : cards[k].day = day}
ListTodayCards(day) == {k \in CardsFor(day) : cards[k].live}

-----------------------------------------------------------------------------
(* Generation *)

recentTitles(day) ==
    {cards[k].title : k \in UNION {ListTodayCards(d) : d \in {e \in 0 .. day : e < day /\ e + LookbackDays >= day}}}

\* GenerateForUser up to the call of the model: cards of the day, deleted ones too, end it; so does
\* a corpus below the threshold.  blocks is the snapshot of the corpus.
GenerateForUser(g, day, blocks) ==
    gen' = IF CardsFor(day) = {} /\ Len(blocks) >= MinBlocks
           THEN [gen EXCEPT ![g] = [pc |-> "ask", day |-> day, titles |-> recentTitles(day),
                                    blocks |-> blocks, todo |-> <<>>]]
           ELSE gen

\* RunIfDue: the day is marked before the batch runs, in the memory of this process.
RunIfDue(p, blocks) ==
    /\ gen[p] = None /\ lastRun[p] # Today + 1 /\ Spend("topics")
    /\ lastRun' = [lastRun EXCEPT ![p] = Today + 1]
    /\ GenerateForUser(p, Today, blocks)
    /\ UNCHANGED <<cards, checkins, streak, visit>>

ListToday(r, blocks) ==
    /\ gen[r] = None /\ ListTodayCards(Today) = {} /\ Spend("topics")
    /\ GenerateForUser(r, Today, blocks)
    /\ UNCHANGED <<cards, checkins, streak, lastRun, visit>>

\* The quoted blocks of the snapshot, in its order; none of them, or the title of one of the last
\* days, and the card is dropped.
groundCard(proposal, snapshot, titles) ==
    LET matched == SelectSeq(snapshot, LAMBDA i : i \in proposal.quoted)
        most == IF Len(matched) < MaxBlocksPerCard THEN Len(matched) ELSE MaxBlocksPerCard IN
    IF matched = <<>> \/ proposal.title \in titles THEN None
    ELSE [title |-> proposal.title, blocks |-> ToSet(SubSeq(matched, 1, most))]

\* The model answers with as many proposals as asked; an error on every attempt, or an answer that
\* does not parse, is Abandon.
Answer(g, proposals) ==
    LET r == gen[g]
        grounded == [k \in DOMAIN proposals |-> groundCard(proposals[k], r.blocks, r.titles)]
        kept == SelectSeq(grounded, LAMBDA c : c # None) IN
    /\ r # None /\ r.pc = "ask"
    /\ gen' = [gen EXCEPT ![g] = IF kept = <<>> THEN None ELSE [r EXCEPT !.pc = "insert", !.todo = kept]]
    /\ UNCHANGED <<clockVars, cards, checkins, streak, lastRun, visit>>

Abandon(g) ==
    /\ gen[g] # None /\ gen[g].pc = "ask" /\ gen' = [gen EXCEPT ![g] = None]
    /\ UNCHANGED <<clockVars, cards, checkins, streak, lastRun, visit>>

\* One INSERT per card, and no transaction.
InsertCard(g) ==
    LET r == gen[g] card == Head(r.todo) IN
    /\ r # None /\ r.pc = "insert" /\ Len(cards) < MaxCards
    /\ cards' = Append(cards, [day |-> r.day, title |-> card.title, blocks |-> card.blocks,
                               checked |-> FALSE, dismissed |-> FALSE, live |-> TRUE])
    /\ gen' = [gen EXCEPT ![g] = IF Len(r.todo) = 1 THEN None ELSE [r EXCEPT !.todo = Tail(@)]]
    /\ UNCHANGED <<clockVars, checkins, streak, lastRun, visit>>

InsertFails(g) ==
    /\ gen[g] # None /\ gen[g].pc = "insert" /\ Fault /\ gen' = [gen EXCEPT ![g] = None]
    /\ UNCHANGED <<cards, checkins, streak, lastRun, visit>>

\* A process that is restarted has not run the batch of the day.
ProcessRestarts(p) ==
    /\ Fault
    /\ gen' = [gen EXCEPT ![p] = None]
    /\ lastRun' = [lastRun EXCEPT ![p] = 0]
    /\ UNCHANGED <<cards, checkins, streak, visit>>

-----------------------------------------------------------------------------
(* Check-in and dismissal *)

Leave(v) == visit' = [visit EXCEPT ![v] = None]
Proceed(v, pc) == visit' = [visit EXCEPT ![v].pc = pc]

\* The two stamps a card takes in the store, each written once.
StampCheckedIn(k) == cards' = [cards EXCEPT ![k].checked = TRUE]
MarkDismissed(k) == cards' = [cards EXCEPT ![k].dismissed = TRUE]

\* GetCard and MarkCheckedIn in one step: MySQL's WHERE repeats what was read.  The memory store looks
\* at the stamp alone, and a card deleted between the two calls is stamped there: this is left out.  The
\* second check-in of a card is a conflict.  used are the blocks the learner says were used, offered or not.
MarkCheckedIn(v, k, used) ==
    /\ visit[v] = None /\ cards[k].live /\ ~cards[k].checked /\ Spend("checkin")
    /\ StampCheckedIn(k)
    /\ visit' = [visit EXCEPT ![v] = [pc |-> "insert", card |-> k, at |-> now, used |-> used, st |-> NoStreak]]
    /\ UNCHANGED <<checkins, streak, lastRun, gen>>

InsertCheckin(v) ==
    LET r == visit[v] IN
    /\ r # None /\ r.pc = "insert"
    /\ checkins' = checkins \union {[card |-> r.card, day |-> utcDate(r.at), live |-> TRUE]}
    /\ Proceed(v, "credit")
    /\ UNCHANGED <<clockVars, cards, streak, lastRun, gen>>

GetStreak(v) ==
    /\ visit[v] # None /\ visit[v].pc = "streak"
    /\ visit' = [visit EXCEPT ![v].pc = "upsert", ![v].st = streak]
    /\ UNCHANGED <<clockVars, cards, checkins, streak, lastRun, gen>>

\* A second check-in on the day changes nothing; one on the day after adds to the run; any other
\* starts a run of one.
UpdateOnCheckin(st, day) ==
    IF st.last = day + 1 THEN [st EXCEPT !.live = TRUE]
    ELSE LET cur == IF st.last = day /\ st.last # 0 THEN st.cur + 1 ELSE 1 IN
         [cur |-> cur, best |-> IF cur > st.best THEN cur ELSE st.best, last |-> day + 1, live |-> TRUE]

UpsertStreak(v) ==
    LET r == visit[v] IN
    /\ r # None /\ r.pc = "upsert"
    /\ streak' = UpdateOnCheckin(r.st, utcDate(r.at))
    /\ Leave(v)
    /\ UNCHANGED <<clockVars, cards, checkins, lastRun, gen>>

\* Mutant: a check-in that is not stored counts for the streak.
CheckinFailsOnward(v) ==
    /\ visit[v] # None /\ visit[v].pc = "insert" /\ Fault /\ Proceed(v, "streak")
    /\ UNCHANGED <<cards, checkins, streak, lastRun, gen>>

\* The request ends with an error and leaves what it has done.
CheckinFails(v) ==
    /\ visit[v] # None /\ visit[v].pc # "credit" /\ Fault /\ Leave(v)
    /\ UNCHANGED <<cards, checkins, streak, lastRun, gen>>

Dismiss(k) ==
    /\ cards[k].live /\ ~cards[k].dismissed /\ Spend("dismiss")
    /\ MarkDismissed(k)
    /\ UNCHANGED <<checkins, streak, lastRun, gen, visit>>

-----------------------------------------------------------------------------
(* Deletion of the account's data, and its compensation *)

SetLive(live, checkinsToo) ==
    /\ cards' = [k \in DOMAIN cards |-> [cards[k] EXCEPT !.live = live]]
    /\ checkins' = IF checkinsToo THEN {[r EXCEPT !.live = live] : r \in checkins} ELSE checkins
    /\ streak' = [streak EXCEPT !.live = live]
    /\ UNCHANGED <<lastRun, gen, visit>>

SoftDeleteTopics == Spend("wipe") /\ SetLive(FALSE, TRUE)
\* The memory store leaves the check-ins deleted.
RestoreTopics(store) == Spend("restore") /\ SetLive(TRUE, store = "mysql")

-----------------------------------------------------------------------------
(* Properties *)

\* A streak is never longer than the unbroken run of days, back from its last day, on which a
\* check-in was stored, and never longer than the longest: a check-in that is retried, that fails
\* half-way, or that races another across midnight cannot lengthen it.
StreakHasItsDays ==
    /\ streak.cur <= streak.best
    /\ \A k \in 1 .. streak.cur : \E r \in checkins : r.day + k = streak.last
=============================================================================
