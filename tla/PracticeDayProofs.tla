-------------------------- MODULE PracticeDayProofs -------------------------
(***************************************************************************)
(* The practice day for any number of learners, requests, sessions, cards, *)
(* reads, turns, sentences and days.  Each part has an inductive invariant *)
(* of its own, and most steps of the composition leave most parts alone:   *)
(* history (HistoryInv), streak (ClockInv, StreakInv), daily read          *)
(* (ReadInv), uses and their evidence on shelf, cards and badges           *)
(* (ShelfInv, CardInv, BadgeInv), speech (SpeechInv), the client's pages   *)
(* (SyncInv, BrowseInv, StampsInv, ListingInv), the memory of the badges   *)
(* (MemoryInv), the ledger of calls (LedgerInv).                           *)
(***************************************************************************)
EXTENDS PracticeDay, FiniteSetTheorems, SequenceTheorems, WellFoundedInduction, TLAPS

-----------------------------------------------------------------------------
(* The history of sessions *)

SessionFields == {"user", "at", "status", "used", "said", "ladders", "jobs", "evals", "live"}

IsSession(s) == DOMAIN s = SessionFields

SpokeIn(s) == \E i \in DOMAIN s.said : s.said[i].speaker = "user"

\* Only a session that ended, and in which the learner spoke, has jobs.
JobsInOrder(s) ==
    /\ \E J : s.jobs \in Seq(J)
    /\ s.jobs # <<>> => s.status \in {"ended", "reviewed"} /\ SpokeIn(s)

HistoryInv ==
    /\ \E S : sess \in Seq(S)
    /\ \A k \in DOMAIN sess : IsSession(sess[k]) /\ JobsInOrder(sess[k])

\* One session changes.
LEMMA SessionStep ==
    ASSUME HistoryInv, NEW k \in DOMAIN sess, NEW s, sess' = [sess EXCEPT ![k] = s],
           IsSession(s), JobsInOrder(s)
    PROVE  HistoryInv'
<1>1. PICK S : sess \in Seq(S)
  BY DEF HistoryInv
<1>2. sess' \in Seq(S \union {s})
  BY <1>1
<1>3. DOMAIN sess' = DOMAIN sess /\ \A i \in DOMAIN sess : sess'[i] = IF i = k THEN s ELSE sess[i]
  BY <1>1
<1>4. \A i \in DOMAIN sess' : IsSession(sess'[i]) /\ JobsInOrder(sess'[i])
  BY <1>3 DEF HistoryInv
<1>. QED
  BY <1>2, <1>4 DEF HistoryInv

\* Every session changes in a field that jobs do not depend on.
LEMMA SessionsStep ==
    ASSUME HistoryInv, DOMAIN sess' = DOMAIN sess, sess' = [k \in DOMAIN sess |-> sess'[k]],
           \A k \in DOMAIN sess : /\ DOMAIN sess'[k] = DOMAIN sess[k]
                                  /\ sess'[k].jobs = sess[k].jobs /\ sess'[k].status = sess[k].status
                                  /\ sess'[k].said = sess[k].said
    PROVE  HistoryInv'
<1>1. PICK S : sess \in Seq(S)
  BY DEF HistoryInv
<1>2. sess' \in Seq({sess'[k] : k \in DOMAIN sess})
  BY <1>1
<1>3. \A k \in DOMAIN sess' : IsSession(sess'[k]) /\ JobsInOrder(sess'[k])
  BY DEF HistoryInv, IsSession, JobsInOrder, SpokeIn
<1>. QED
  BY <1>2, <1>3 DEF HistoryInv

LEMMA SessionStays == ASSUME HistoryInv, UNCHANGED sess PROVE HistoryInv'
BY DEF HistoryInv, JobsInOrder, SpokeIn

\* The worker moves one job, which has not failed, and may mark the session reviewed.
LEMMA JobStep ==
    ASSUME HistoryInv, NEW k \in DOMAIN sess, NEW j \in DOMAIN sess[k].jobs,
           ClaimNextJob(k, j) \/ CompleteJob(k, j) \/ FailJob(k, j)
    PROVE  \E job, st :
             /\ sess' = [sess EXCEPT ![k] = [sess[k] EXCEPT !.jobs = [sess[k].jobs EXCEPT ![j] = job], !.status = st]]
             /\ sess[k].jobs[j].status # "failed"
             /\ st \in {"ended", "reviewed"} /\ (sess[k].status = "reviewed" => st = "reviewed")
<1>1. DOMAIN sess[k] = SessionFields /\ sess[k].status \in {"ended", "reviewed"}
  BY DEF HistoryInv, IsSession, JobsInOrder
<1>2. ASSUME NEW jobs PROVE [sess[k] EXCEPT !.jobs = jobs] = [sess[k] EXCEPT !.jobs = jobs, !.status = sess[k].status]
  BY <1>1 DEF SessionFields
<1>3. CASE ClaimNextJob(k, j)
  <2>1. PICK job : sess' = [sess EXCEPT ![k] = [sess[k] EXCEPT !.jobs = [sess[k].jobs EXCEPT ![j] = job]]]
    BY <1>3, Zenon DEF ClaimNextJob
  <2>2. sess' = [sess EXCEPT ![k] = [sess[k] EXCEPT !.jobs = [sess[k].jobs EXCEPT ![j] = job], !.status = sess[k].status]]
    BY <1>2, <2>1
  <2>3. sess[k].jobs[j].status # "failed"
    BY <1>3 DEF ClaimNextJob, Oldest
  <2>. QED
    BY <1>1, <2>2, <2>3
<1>4. CASE FailJob(k, j)
  <2>1. PICK job : sess' = [sess EXCEPT ![k] = [sess[k] EXCEPT !.jobs = [sess[k].jobs EXCEPT ![j] = job]]]
    BY <1>4, Zenon DEF FailJob
  <2>2. sess' = [sess EXCEPT ![k] = [sess[k] EXCEPT !.jobs = [sess[k].jobs EXCEPT ![j] = job], !.status = sess[k].status]]
    BY <1>2, <2>1
  <2>3. sess[k].jobs[j].status # "failed"
    BY <1>4 DEF FailJob
  <2>. QED
    BY <1>1, <2>2, <2>3
<1>5. CASE CompleteJob(k, j)
  <2>1. PICK job : sess' = [sess EXCEPT ![k] = MarkSessionReviewed([sess[k] EXCEPT !.jobs = [sess[k].jobs EXCEPT ![j] = job]])]
    BY <1>5, Zenon DEF CompleteJob
  <2>2. PICK jobs : jobs = [sess[k].jobs EXCEPT ![j] = job]
    OBVIOUS
  <2>3. MarkSessionReviewed([sess[k] EXCEPT !.jobs = jobs]) = [sess[k] EXCEPT !.jobs = jobs, !.status = "reviewed"]
    <3>1. PICK s : s = [sess[k] EXCEPT !.jobs = jobs]
      OBVIOUS
    <3>2. s.status = sess[k].status /\ DOMAIN s = SessionFields
      BY <1>1, <3>1 DEF SessionFields
    <3>3. MarkSessionReviewed(s) = [s EXCEPT !.status = "reviewed"]
      BY <1>1, <3>2 DEF MarkSessionReviewed
    <3>. QED
      BY <3>1, <3>3
  <2>. QED
    BY <1>5, <2>1, <2>2, <2>3 DEF CompleteJob
<1>. QED
  BY <1>3, <1>4, <1>5

LEMMA HistoryStep == ASSUME HistoryInv, SessionNext PROVE HistoryInv'
<1>0. \A k \in DOMAIN sess : IsSession(sess[k]) /\ JobsInOrder(sess[k])
  BY DEF HistoryInv
<1>1. ASSUME NEW user \in Students, CreateSession(user) PROVE HistoryInv'
  <2>1. PICK S : sess \in Seq(S)
    BY DEF HistoryInv
  <2>2. IsSession(NewSession(user)) /\ JobsInOrder(NewSession(user))
    BY DEF NewSession, IsSession, SessionFields, JobsInOrder
  <2>3. PICK s : s = NewSession(user)
    OBVIOUS
  <2>4. sess' = Append(sess, s)
    BY <1>1, <2>3 DEF CreateSession
  <2>5. sess' \in Seq(S \union {s})
    BY <2>1, <2>4
  <2>6. \A k \in DOMAIN sess' : sess'[k] = s \/ (k \in DOMAIN sess /\ sess'[k] = sess[k])
    BY <2>1, <2>4
  <2>7. \A k \in DOMAIN sess' : IsSession(sess'[k]) /\ JobsInOrder(sess'[k])
    BY <1>0, <2>2, <2>3, <2>6
  <2>. QED
    BY <2>5, <2>7 DEF HistoryInv
<1>2. ASSUME NEW k \in DOMAIN sess, Activate(k) PROVE HistoryInv'
  <2>1. PICK st : /\ st = IF sess[k].status = "created" THEN "active" ELSE sess[k].status
                  /\ sess' = [sess EXCEPT ![k] = [sess[k] EXCEPT !.used = TRUE, !.status = st]]
    BY <1>2 DEF Activate
  <2>2. PICK s : s = [sess[k] EXCEPT !.used = TRUE, !.status = st]
    OBVIOUS
  <2>3. IsSession(s) /\ s.jobs = sess[k].jobs /\ s.said = sess[k].said /\ s.status = st
    BY <1>0, <2>2 DEF IsSession, SessionFields
  <2>4. JobsInOrder(s)
    BY <1>0, <2>1, <2>3 DEF JobsInOrder, SpokeIn
  <2>. QED
    BY <2>1, <2>2, <2>3, <2>4, SessionStep
<1>3. ASSUME NEW k \in DOMAIN sess, SaveUtteranceEval(k) PROVE HistoryInv'
  <2>1. PICK s : s = [sess[k] EXCEPT !.evals = "complete"]
    OBVIOUS
  <2>2. IsSession(s) /\ s.jobs = sess[k].jobs /\ s.said = sess[k].said /\ s.status = sess[k].status
    BY <1>0, <2>1 DEF IsSession, SessionFields
  <2>3. JobsInOrder(s)
    BY <1>0, <2>2 DEF JobsInOrder, SpokeIn
  <2>. QED
    BY <1>3, <2>1, <2>2, <2>3, SessionStep DEF SaveUtteranceEval
\* Queueing a review keeps the rest of the session.
<1>4. ASSUME NEW s, IsSession(s), s.status \in {"ended", "reviewed"}, SpokeIn(s), \E J : s.jobs \in Seq(J)
      PROVE  IsSession(Enqueued(s)) /\ JobsInOrder(Enqueued(s))
  <2>1. PICK jobs : jobs = Append(s.jobs, NewJob)
    OBVIOUS
  <2>2. PICK t : t = [s EXCEPT !.jobs = jobs]
    OBVIOUS
  <2>3. IsSession(t) /\ t.status = s.status /\ t.said = s.said /\ t.jobs = jobs
    BY <1>4, <2>2 DEF IsSession, SessionFields
  <2>6. \E J : jobs \in Seq(J)
    <3>1. PICK J, job : s.jobs \in Seq(J) /\ job = NewJob
      BY <1>4
    <3>2. jobs \in Seq(J \union {job})
      BY <2>1, <3>1
    <3>. QED
      BY <3>2
  <2>4. JobsInOrder(t) /\ JobsInOrder(s)
    BY <1>4, <2>3, <2>6 DEF JobsInOrder, SpokeIn
  <2>5. Enqueued(s) = s \/ Enqueued(s) = t
    BY <2>1, <2>2 DEF Enqueued
  <2>. QED
    BY <1>4, <2>3, <2>4, <2>5
<1>5. ASSUME NEW k \in DOMAIN sess, NEW report \in Reports, NEW reason \in {"user_ended", "abandoned"},
             EndSession(k, report, reason)
      PROVE  HistoryInv'
  <2> DEFINE said == normalizeEndUtterances(report.said)
             status == IF reason = "abandoned" THEN "abandoned" ELSE "ended"
             ladders == normalizeEndRescueEvents(report.ladders, sess[k].user)
             ended == [sess[k] EXCEPT !.status = status, !.said = said, !.ladders = ladders]
             speaks == reason # "abandoned" /\ \E i \in DOMAIN said : said[i].speaker = "user"
  <2>1. \/ /\ sess[k].status \in {"created", "active"}
           /\ sess' = [sess EXCEPT ![k] = IF speaks THEN Enqueued(ended) ELSE ended]
        \/ /\ sess[k].status \in {"ended", "reviewed"} /\ Spoke(k)
           /\ sess' = [sess EXCEPT ![k] = Enqueued(@)]
        \/ UNCHANGED sess
    BY <1>5, Zenon DEF EndSession
  <2>2. CASE /\ sess[k].status \in {"created", "active"}
             /\ sess' = [sess EXCEPT ![k] = IF speaks THEN Enqueued(ended) ELSE ended]
    <3>1. PICK sa, st, la : sa = said /\ st = status /\ la = ladders
      OBVIOUS
    <3>2. PICK s : s = [sess[k] EXCEPT !.status = st, !.said = sa, !.ladders = la]
      OBVIOUS
    <3>3. IsSession(s) /\ s.jobs = sess[k].jobs /\ s.said = sa /\ s.status = st
      BY <1>0, <3>2 DEF IsSession, SessionFields
    <3>4. s.jobs = <<>> /\ \E J : s.jobs \in Seq(J)
      BY <1>0, <2>2, <3>3 DEF JobsInOrder
    <3>5. JobsInOrder(s)
      BY <3>4 DEF JobsInOrder
    <3>6. ended = s
      BY <3>1, <3>2, Zenon
    <3>7. CASE speaks
      <4>1. SpokeIn(s) /\ s.status = "ended"
        BY <3>1, <3>3, <3>7 DEF SpokeIn
      <4>2. sess' = [sess EXCEPT ![k] = Enqueued(s)]
        BY <2>2, <3>6, <3>7, Zenon
      <4>. QED
        BY <1>4, <3>3, <3>4, <4>1, <4>2, SessionStep
    <3>8. CASE ~speaks
      <4>1. sess' = [sess EXCEPT ![k] = s]
        BY <2>2, <3>6, <3>8, Zenon
      <4>. QED
        BY <3>3, <3>5, <4>1, SessionStep
    <3>. QED
      BY <3>7, <3>8
  <2>3. CASE /\ sess[k].status \in {"ended", "reviewed"} /\ Spoke(k)
             /\ sess' = [sess EXCEPT ![k] = Enqueued(@)]
    <3>1. SpokeIn(sess[k])
      BY <2>3 DEF Spoke, SpokeIn
    <3>2. IsSession(Enqueued(sess[k])) /\ JobsInOrder(Enqueued(sess[k]))
      BY <1>0, <1>4, <2>3, <3>1 DEF JobsInOrder
    <3>. QED
      BY <2>3, <3>2, SessionStep
  <2>. QED
    BY <2>1, <2>2, <2>3, SessionStays
<1>6. ASSUME NEW k \in DOMAIN sess, NEW j \in DOMAIN sess[k].jobs,
             ClaimNextJob(k, j) \/ CompleteJob(k, j) \/ FailJob(k, j)
      PROVE  HistoryInv'
  <2>1. SpokeIn(sess[k]) /\ DOMAIN sess[k] = SessionFields /\ \E J : sess[k].jobs \in Seq(J)
    BY <1>0 DEF JobsInOrder, IsSession
  <2>2. PICK job, st :
          /\ sess' = [sess EXCEPT ![k] = [sess[k] EXCEPT !.jobs = [sess[k].jobs EXCEPT ![j] = job], !.status = st]]
          /\ st \in {"ended", "reviewed"}
    BY <1>6, JobStep
  <2>3. PICK jobs : jobs = [sess[k].jobs EXCEPT ![j] = job]
    OBVIOUS
  <2>4. \E J : jobs \in Seq(J)
    <3>1. PICK J : sess[k].jobs \in Seq(J)
      BY <2>1
    <3>2. jobs \in Seq(J \union {job})
      BY <2>3, <3>1
    <3>. QED
      BY <3>2
  <2>5. PICK s : s = [sess[k] EXCEPT !.jobs = jobs, !.status = st]
    OBVIOUS
  <2>6. IsSession(s) /\ s.jobs = jobs /\ s.status = st /\ s.said = sess[k].said
    BY <2>1, <2>5 DEF IsSession, SessionFields
  <2>7. JobsInOrder(s)
    BY <2>1, <2>2, <2>4, <2>6 DEF JobsInOrder, SpokeIn
  <2>. QED
    BY <2>2, <2>3, <2>5, <2>6, <2>7, SessionStep
<1>7. CASE SoftDeleteSessions(Student) \/ RestoreSessions(Student) \/ ReassignSessions(Visitor, Student)
  <2>1. CASE SoftDeleteSessions(Student)
    BY <1>0, <2>1, SessionsStep DEF SoftDeleteSessions, IsSession, SessionFields
  <2>2. CASE RestoreSessions(Student)
    BY <1>0, <2>2, SessionsStep DEF RestoreSessions, IsSession, SessionFields
  <2>3. CASE ReassignSessions(Visitor, Student)
    BY <1>0, <2>3, SessionsStep DEF ReassignSessions, IsSession, SessionFields
  <2>. QED
    BY <1>7, <2>1, <2>2, <2>3
<1>8. CASE \E l \in Lists : ListBegins(l, Student) \/ List(l)
  BY <1>8, SessionStays DEF ListBegins, List
<1>. QED
  BY <1>1, <1>2, <1>3, <1>5, <1>6, <1>7, <1>8 DEF SessionNext

LEMMA HistoryInvInit == Init => HistoryInv
<1> SUFFICES ASSUME Init PROVE HistoryInv
  OBVIOUS
<1>1. sess = <<>>
  BY DEF Init, HistoryInit
<1>2. sess \in Seq({})
  BY <1>1
<1>. QED
  BY <1>1, <1>2 DEF HistoryInv

\* No other part touches the sessions.
LEMMA HistoryFrame == ASSUME [Next]_vars PROVE HistoryNext \/ UNCHANGED historyVars
BY DEF Next, vars, CreditCheckin, CreditHit

LEMMA HistoryInvNext == HistoryInv /\ [Next]_vars => HistoryInv'
<1> SUFFICES ASSUME HistoryInv, [Next]_vars PROVE HistoryInv'
  OBVIOUS
<1>1. CASE UNCHANGED historyVars
  BY <1>1, SessionStays DEF historyVars
<1>. QED
  BY <1>1, HistoryFrame, HistoryStep, SessionStays DEF HistoryNext

-----------------------------------------------------------------------------
(* The clock *)

ClockInv == now \in Nat

LEMMA ClockInvInit == Init => ClockInv
BY DEF Init, ClockInit, ClockInv

LEMMA ShelfClock == ASSUME ShelfNext PROVE UNCHANGED <<now, mix>>
<1>1. ASSUME NEW c \in Calls, NEW kind, NEW request, Begin(c, kind, request) PROVE UNCHANGED <<now, mix>>
  BY <1>1 DEF Begin, Spend
<1>2. ASSUME NEW c \in Calls, NEW i \in Ids,
             \/ \E fav, pinned \in BOOLEAN : SetFavorite(c, i, fav, pinned)
             \/ \E pinned \in BOOLEAN : UpdatePin(c, i, pinned)
             \/ \E fav \in BOOLEAN : UpdateFavorite(c, i, fav)
             \/ DeleteBlock(c, i)
             \/ \E expr \in Expressions : UpdateBlock(c, i, expr)
      PROVE  UNCHANGED <<now, mix>>
  BY <1>1, <1>2, Zenon DEF SetFavorite, UpdatePin, UpdateFavorite, DeleteBlock, UpdateBlock
<1>3. ASSUME NEW c \in Calls,
             \/ \E session \in Sessions, batch \in Batches, scene \in Scenes :
                  BatchAccept(c, session, batch, scene)
             \/ ProvisionStarterCorpus(c)
             \/ \E batch \in Batches, scene \in Scenes : StarterAccept(c, batch, scene)
      PROVE  UNCHANGED <<now, mix>>
  BY <1>1, <1>3, Zenon DEF BatchAccept, ProvisionStarterCorpus, StarterAccept, clockVars
<1>4. ASSUME NEW c \in Calls,
             \/ StoreFavorite(c) \/ SoftDeleteBlock(c) \/ StoreEdit(c) \/ EditReadBack(c) \/ ResetSchedule(c)
             \/ SaveAcceptedBlocks(c) \/ CallFails(c)
      PROVE  UNCHANGED <<now, mix>>
  BY <1>4, Zenon DEF StoreFavorite, SoftDeleteBlock, StoreEdit, EditReadBack, ResetSchedule,
                     SaveAcceptedBlocks, CallFails, Fault, clockVars
<1>5. ASSUME \/ \E i \in Ids, reason \in Reasons : RecordFeedback(i, reason)
             \/ \E at \in 0 .. MaxNow : SoftDeleteAllForUser(at)
             \/ RestoreDeletedForUser
             \/ \E i \in Ids, expr \in Expressions, session \in Sessions, scene \in Scenes :
                  GuestAccepts(i, expr, session, scene)
             \/ ReassignUser
             \/ SyncBegin \/ SyncNext \/ BrowseBegin \/ BrowseNext
      PROVE  UNCHANGED <<now, mix>>
  BY <1>5, Zenon DEF RecordFeedback, SoftDeleteAllForUser, RestoreDeletedForUser, GuestAccepts, ReassignUser,
                     SyncBegin, SyncNext, BrowseBegin, BrowseNext, Spend, clockVars
<1>. QED
  BY <1>2, <1>3, <1>4, <1>5, Zenon DEF ShelfNext

LEMMA TopicClock == ASSUME TopicNext PROVE UNCHANGED <<now, mix>>
BY DEF TopicNext, RunIfDue, ProcessRestarts, ListToday, Answer, Abandon, InsertCard, InsertFails,
       MarkCheckedIn, InsertCheckin, GetStreak, UpsertStreak, CheckinFails, Dismiss, SoftDeleteTopics,
       RestoreTopics, Spend, Fault, clockVars

LEMMA ReadClock == ASSUME ReadNext PROVE UNCHANGED <<now, mix>>
BY DEF ReadNext, GetToday, ensureTodayRead, CreatePending, MarkReady, ReadBack, ReadFails, GenerateDailyRead,
       ReadProcessDies, ReassignReads, Spend, Fault, clockVars

LEMMA BadgeClock == ASSUME BadgeNext PROVE UNCHANGED <<now, mix>>
BY DEF BadgeNext, Emit, Detect, WriteBadge, EmitFails, GatewayRestarts, Spend, Fault, clockVars

LEMMA ModelClock == ASSUME ModelNext PROVE UNCHANGED <<now, mix>>
BY DEF ModelNext, Complete, CallerGivesUp, CompletionFails, WriteCost, WriteCostFails, ModelAnswers,
       AnonymizeUser, RestoreUser, Spend, Fault, clockVars

LEMMA SpeechClock == ASSUME SpeechNext PROVE UNCHANGED <<now, mix>>
BY DEF SpeechNext, PostSynthesize, SynthesizeGivesUp, PostOK, PostRefused, Post5xx, StreamFallback,
       Prompt, OpenFails, ReceivePiece, ReceiveEnd, StreamBreaks, ReaderLeaves, DuplexDies, Spend, Fault,
       clockVars

LEMMA HistoryClock == ASSUME HistoryNext PROVE UNCHANGED <<now, mix>>
BY DEF HistoryNext, SessionNext, DetailNext, GetDetail, ListUtterances, detailReview, EvalSummary, DetailFails,
       CreateSession, Activate, SaveUtteranceEval, EndSession, ClaimNextJob, CompleteJob,
       FailJob, SoftDeleteSessions, RestoreSessions, ReassignSessions, ListBegins, List, Spend, Fault,
       clockVars

\* Only a tick moves the clock.
LEMMA ClockMoves == ASSUME [Next]_vars PROVE UNCHANGED <<now, mix>> \/ Tick
BY ShelfClock, TopicClock, ReadClock, BadgeClock, ModelClock, SpeechClock, HistoryClock
   DEF Next, vars, CreditCheckin, CreditHit, clockVars

LEMMA ClockInvNext == ClockInv /\ [Next]_vars => ClockInv'
BY ClockMoves DEF ClockInv, Tick

\* The clock runs to the end of the instance.
ClockBounded == mix \in Mixes /\ now \in 0 .. mix.until

LEMMA ClockBoundedInit == Init => ClockBounded
BY DayAssumption DEF Init, ClockInit, ClockBounded

LEMMA ClockBoundedNext == ClockBounded /\ [Next]_vars => ClockBounded'
BY ClockMoves, DayAssumption DEF ClockBounded, Tick

-----------------------------------------------------------------------------
(* The streak of check-ins *)

CheckinDays == {r.day : r \in checkins}

\* The run of days that a streak claims has a check-in on each of them.
Run(st, days) ==
    /\ DOMAIN st = DOMAIN NoStreak
    /\ st.cur \in Nat /\ st.best \in Nat /\ st.last \in Nat /\ st.cur <= st.best
    /\ \A k \in 1 .. st.cur : \E d \in days : d + k = st.last

VisitFields == {"pc", "card", "at", "used", "st"}

\* A check-in that was stored stays, so a streak read before others were written is still a run.
VisitInOrder(r, days) ==
    r # None =>
        /\ DOMAIN r = VisitFields /\ r.at \in Nat
        /\ r.pc \in {"credit", "streak", "upsert"} => utcDate(r.at) \in days
        /\ r.pc = "upsert" => Run(r.st, days)

StreakInv ==
    /\ \A r \in checkins : DOMAIN r = {"card", "day", "live"} /\ r.day \in Nat
    /\ Run(streak, CheckinDays)
    /\ DOMAIN visit = Visits /\ \A v \in Visits : VisitInOrder(visit[v], CheckinDays)

LEMMA RunGrows ==
    ASSUME NEW st, NEW days, NEW more, days \subseteq more, Run(st, days) PROVE Run(st, more)
BY DEF Run

LEMMA VisitGrows ==
    ASSUME NEW r, NEW days, NEW more, days \subseteq more, VisitInOrder(r, days) PROVE VisitInOrder(r, more)
BY RunGrows DEF VisitInOrder

\* A check-in on the day after the last adds to the run, any other begins one.
LEMMA RunGoesOn ==
    ASSUME NEW days, days \subseteq Nat, NEW day \in days, NEW st, Run(st, days)
    PROVE  Run(UpdateOnCheckin(st, day), days)
<1>1. day \in Nat
  OBVIOUS
<1>2. CASE st.last = day + 1
  <2>1. PICK new : new = [st EXCEPT !.live = TRUE]
    OBVIOUS
  <2>2. /\ DOMAIN new = DOMAIN st /\ new.cur = st.cur /\ new.best = st.best /\ new.last = st.last
    BY <2>1 DEF Run, NoStreak
  <2>3. UpdateOnCheckin(st, day) = new
    BY <1>2, <2>1 DEF UpdateOnCheckin
  <2>. QED
    BY <2>2, <2>3 DEF Run
<1>3. CASE st.last # day + 1
  <2>1. PICK cur \in Nat : cur = IF st.last = day /\ st.last # 0 THEN st.cur + 1 ELSE 1
    BY DEF Run
  <2>2. PICK best \in Nat : best = IF cur > st.best THEN cur ELSE st.best
    BY <2>1 DEF Run
  <2>3. UpdateOnCheckin(st, day) = [cur |-> cur, best |-> best, last |-> day + 1, live |-> TRUE]
    BY <1>3, <2>1, <2>2 DEF UpdateOnCheckin
  <2>4. ASSUME NEW k \in 1 .. cur PROVE \E d \in days : d + k = day + 1
    <3>1. CASE k = 1
      BY <3>1
    <3>2. CASE k # 1
      <4>1. k - 1 \in 1 .. st.cur /\ st.last = day
        BY <2>1, <3>2 DEF Run
      <4>2. PICK d \in days : d + (k - 1) = day
        BY <4>1 DEF Run
      <4>. QED
        BY <4>2
    <3>. QED
      BY <3>1, <3>2
  <2>5. cur <= best /\ day + 1 \in Nat
    BY <1>1, <2>1, <2>2 DEF Run
  <2>. QED
    BY <2>3, <2>4, <2>5 DEF Run, NoStreak
<1>. QED
  BY <1>2, <1>3

LEMMA DayIsNat == ASSUME NEW t \in Nat PROVE utcDate(t) \in Nat
BY DayAssumption DEF utcDate

\* One check-in request moves on, and stored check-ins stay.
LEMMA VisitStep ==
    ASSUME StreakInv, NEW v \in Visits, NEW r, visit' = [visit EXCEPT ![v] = r],
           VisitInOrder(r, CheckinDays'), CheckinDays \subseteq CheckinDays'
    PROVE  DOMAIN visit' = Visits /\ \A x \in Visits : VisitInOrder(visit'[x], CheckinDays')
<1>1. DOMAIN visit' = Visits /\ visit'[v] = r /\ \A x \in Visits : x # v => visit'[x] = visit[x]
  BY DEF StreakInv
<1>2. ASSUME NEW x \in Visits, x # v PROVE VisitInOrder(visit'[x], CheckinDays')
  <2>1. VisitInOrder(visit[x], CheckinDays) /\ visit'[x] = visit[x]
    BY <1>1, <1>2 DEF StreakInv
  <2>. QED
    BY <2>1, VisitGrows
<1>. QED
  BY <1>1, <1>2

LEMMA StreakStays ==
    ASSUME StreakInv, UNCHANGED <<checkins, streak, visit>> PROVE StreakInv'
<1>1. CheckinDays' = CheckinDays
  BY DEF CheckinDays
<1>. QED
  BY <1>1 DEF StreakInv

\* A request goes on to its next step, which needs no more than it has.
LEMMA ProceedStep ==
    ASSUME StreakInv, NEW v \in Visits, visit[v] # None, NEW pc \in {"credit", "streak"},
           Proceed(v, pc), visit[v].pc \in {"insert", "credit"},
           CheckinDays \subseteq CheckinDays', utcDate(visit[v].at) \in CheckinDays'
    PROVE  DOMAIN visit' = Visits /\ \A x \in Visits : VisitInOrder(visit'[x], CheckinDays')
<1>1. PICK r : r = [visit[v] EXCEPT !.pc = pc]
  OBVIOUS
<1>2. DOMAIN visit[v] = VisitFields /\ visit[v].at \in Nat
  BY DEF StreakInv, VisitInOrder
<1>3. DOMAIN r = VisitFields /\ r.at = visit[v].at /\ r.pc = pc
  BY <1>1, <1>2 DEF VisitFields
<1>4. visit' = [visit EXCEPT ![v] = r]
  BY <1>1 DEF Proceed
<1>5. VisitInOrder(r, CheckinDays')
  BY <1>2, <1>3 DEF VisitInOrder
<1>. QED
  BY <1>4, <1>5, VisitStep

LEMMA LeaveStep ==
    ASSUME StreakInv, NEW v \in Visits, Leave(v), CheckinDays \subseteq CheckinDays'
    PROVE  DOMAIN visit' = Visits /\ \A x \in Visits : VisitInOrder(visit'[x], CheckinDays')
<1>1. VisitInOrder(None, CheckinDays')
  BY DEF VisitInOrder
<1>. QED
  BY <1>1, VisitStep DEF Leave

\* Deletion and restoration keep the days.
LEMMA SetLiveStep ==
    ASSUME StreakInv, NEW live \in BOOLEAN, NEW too \in BOOLEAN, SetLive(live, too)
    PROVE  StreakInv'
<1>1. \A r \in checkins : DOMAIN r = {"card", "day", "live"} /\ r.day \in Nat
  BY DEF StreakInv
<1>2. ASSUME NEW r \in checkins
      PROVE  DOMAIN [r EXCEPT !.live = live] = DOMAIN r /\ [r EXCEPT !.live = live].day = r.day
  BY <1>1
<1>3. \/ checkins' = checkins
      \/ checkins' = {[r EXCEPT !.live = live] : r \in checkins}
  BY DEF SetLive
<1>4. CheckinDays' = CheckinDays /\ \A r \in checkins' : DOMAIN r = {"card", "day", "live"} /\ r.day \in Nat
  <2>1. CASE checkins' = checkins
    BY <1>1, <2>1 DEF CheckinDays
  <2>2. CASE checkins' = {[r EXCEPT !.live = live] : r \in checkins}
    <3>1. \A q \in checkins' : \E r \in checkins : q.day = r.day /\ DOMAIN q = DOMAIN r
      BY <1>2, <2>2
    <3>2. \A r \in checkins : \E q \in checkins' : q.day = r.day
      BY <1>2, <2>2
    <3>3. CheckinDays' = CheckinDays
      BY <3>1, <3>2 DEF CheckinDays
    <3>. QED
      BY <1>1, <3>1, <3>3
  <2>. QED
    BY <1>3, <2>1, <2>2
<1>5. Run(streak, CheckinDays)'
  <2>1. PICK st : st = [streak EXCEPT !.live = live]
    OBVIOUS
  <2>2. /\ DOMAIN st = DOMAIN streak /\ st.cur = streak.cur /\ st.best = streak.best
        /\ st.last = streak.last
    BY <2>1 DEF StreakInv, Run, NoStreak
  <2>3. Run(streak, CheckinDays) /\ streak' = st
    BY <2>1 DEF StreakInv, SetLive
  <2>4. Run(st, CheckinDays)
    BY <2>2, <2>3 DEF Run
  <2>. QED
    BY <1>4, <2>3, <2>4
<1>. QED
  BY <1>4, <1>5 DEF StreakInv, SetLive

LEMMA StreakStep ==
    ASSUME StreakInv, ClockInv, TopicNext \/ \E v \in Visits : CreditCheckin(v)
    PROVE  StreakInv'
<1>1. ASSUME NEW v \in Visits, NEW k \in DOMAIN cards, NEW used \in Claims, MarkCheckedIn(v, k, used)
      PROVE  StreakInv'
  <2>1. PICK r : r = [pc |-> "insert", card |-> k, at |-> now, used |-> used, st |-> NoStreak]
    OBVIOUS
  <2>2. VisitInOrder(r, CheckinDays')
    BY <2>1 DEF VisitInOrder, VisitFields, ClockInv
  <2>3. UNCHANGED <<checkins, streak>> /\ visit' = [visit EXCEPT ![v] = r]
    BY <1>1, <2>1 DEF MarkCheckedIn
  <2>4. CheckinDays' = CheckinDays
    BY <2>3 DEF CheckinDays
  <2>. QED
    BY <2>2, <2>3, <2>4, VisitStep DEF StreakInv
<1>2. ASSUME NEW v \in Visits, InsertCheckin(v) PROVE StreakInv'
  <2>1. /\ visit[v] # None /\ visit[v].pc = "insert" /\ UNCHANGED streak /\ Proceed(v, "credit")
        /\ checkins' = checkins \union {[card |-> visit[v].card, day |-> utcDate(visit[v].at), live |-> TRUE]}
    BY <1>2 DEF InsertCheckin
  <2>2. utcDate(visit[v].at) \in Nat
    BY <2>1, DayIsNat DEF StreakInv, VisitInOrder
  <2>3. PICK r : r = [card |-> visit[v].card, day |-> utcDate(visit[v].at), live |-> TRUE]
    OBVIOUS
  <2>4. r.day = utcDate(visit[v].at) /\ DOMAIN r = {"card", "day", "live"}
    BY <2>3
  <2>5. CheckinDays \subseteq CheckinDays' /\ utcDate(visit[v].at) \in CheckinDays'
    BY <2>1, <2>3, <2>4 DEF CheckinDays
  <2>6. \A q \in checkins' : DOMAIN q = {"card", "day", "live"} /\ q.day \in Nat
    BY <2>1, <2>2, <2>3, <2>4 DEF StreakInv
  <2>7. Run(streak, CheckinDays)'
    BY <2>1, <2>5, RunGrows DEF StreakInv
  <2>8. DOMAIN visit' = Visits /\ \A x \in Visits : VisitInOrder(visit'[x], CheckinDays')
    BY <2>1, <2>5, ProceedStep
  <2>. QED
    BY <2>6, <2>7, <2>8 DEF StreakInv
<1>3. ASSUME NEW v \in Visits, GetStreak(v) PROVE StreakInv'
  <2>1. PICK r : r = [visit[v] EXCEPT !.pc = "upsert", !.st = streak]
    OBVIOUS
  <2>2. /\ visit[v] # None /\ visit[v].pc = "streak" /\ UNCHANGED <<checkins, streak>>
        /\ visit' = [visit EXCEPT ![v] = r]
    BY <1>3, <2>1 DEF GetStreak
  <2>3. /\ DOMAIN visit[v] = VisitFields /\ visit[v].at \in Nat
        /\ utcDate(visit[v].at) \in CheckinDays
    BY <2>2 DEF StreakInv, VisitInOrder
  <2>4. DOMAIN r = VisitFields /\ r.at = visit[v].at /\ r.pc = "upsert" /\ r.st = streak
    BY <2>1, <2>3 DEF VisitFields
  <2>5. CheckinDays' = CheckinDays
    BY <2>2 DEF CheckinDays
  <2>6. VisitInOrder(r, CheckinDays')
    BY <2>3, <2>4, <2>5 DEF VisitInOrder, StreakInv
  <2>. QED
    BY <2>2, <2>5, <2>6, VisitStep DEF StreakInv
<1>4. ASSUME NEW v \in Visits, UpsertStreak(v) PROVE StreakInv'
  <2>1. /\ visit[v] # None /\ visit[v].pc = "upsert" /\ UNCHANGED checkins /\ Leave(v)
        /\ streak' = UpdateOnCheckin(visit[v].st, utcDate(visit[v].at))
    BY <1>4 DEF UpsertStreak
  <2>2. Run(visit[v].st, CheckinDays) /\ utcDate(visit[v].at) \in CheckinDays
    BY <2>1 DEF StreakInv, VisitInOrder
  <2>3. CheckinDays \subseteq Nat /\ CheckinDays' = CheckinDays
    BY <2>1 DEF StreakInv, CheckinDays
  <2>4. Run(streak, CheckinDays)'
    BY <2>1, <2>2, <2>3, RunGoesOn
  <2>. QED
    BY <2>1, <2>3, <2>4, LeaveStep DEF StreakInv
<1>5. ASSUME NEW v \in Visits, CheckinFails(v) PROVE StreakInv'
  <2>1. UNCHANGED <<checkins, streak>> /\ Leave(v)
    BY <1>5 DEF CheckinFails
  <2>2. CheckinDays' = CheckinDays
    BY <2>1 DEF CheckinDays
  <2>. QED
    BY <2>1, <2>2, LeaveStep DEF StreakInv
<1>6. ASSUME NEW v \in Visits, CreditCheckin(v) PROVE StreakInv'
  <2>1. /\ visit[v] # None /\ visit[v].pc = "credit" /\ Proceed(v, "streak")
        /\ UNCHANGED <<checkins, streak>>
    BY <1>6 DEF CreditCheckin
  <2>2. CheckinDays' = CheckinDays /\ utcDate(visit[v].at) \in CheckinDays
    BY <2>1 DEF CheckinDays, StreakInv, VisitInOrder
  <2>. QED
    BY <2>1, <2>2, ProceedStep DEF StreakInv
<1>7. CASE SoftDeleteTopics \/ RestoreTopics(store)
  BY <1>7, SetLiveStep DEF SoftDeleteTopics, RestoreTopics
<1>8. ASSUME \/ \E p \in Processes : RunIfDue(p, Snapshot) \/ ProcessRestarts(p)
             \/ \E r \in Requests : ListToday(r, Snapshot)
             \/ \E g \in Generators : Abandon(g) \/ InsertCard(g) \/ InsertFails(g)
             \/ \E g \in Generators : \E proposals : Answer(g, proposals)
             \/ \E k \in DOMAIN cards : Dismiss(k)
      PROVE  StreakInv'
  <2>1. UNCHANGED <<checkins, streak, visit>>
    BY <1>8, Zenon DEF RunIfDue, ProcessRestarts, ListToday, Answer, Abandon, InsertCard, InsertFails, Dismiss
  <2>. QED
    BY <2>1, StreakStays
<1>. QED
  BY <1>1, <1>2, <1>3, <1>4, <1>5, <1>6, <1>7, <1>8 DEF TopicNext

LEMMA StreakInvInit == Init => StreakInv
<1> SUFFICES ASSUME Init PROVE StreakInv
  OBVIOUS
<1>1. checkins = {} /\ streak = NoStreak /\ visit = [v \in Visits |-> None]
  BY DEF Init, TopicInit
<1>2. Run(NoStreak, CheckinDays)
  BY DEF Run, NoStreak
<1>. QED
  BY <1>1, <1>2 DEF StreakInv, VisitInOrder

LEMMA StreakInvNext == StreakInv /\ ClockInv /\ [Next]_vars => StreakInv'
<1> SUFFICES ASSUME StreakInv, ClockInv, [Next]_vars PROVE StreakInv'
  OBVIOUS
<1>1. TopicNext \/ (\E v \in Visits : CreditCheckin(v)) \/ UNCHANGED topicVars
  BY DEF Next, vars, CreditHit
<1>. QED
  BY <1>1, StreakStep, StreakStays DEF topicVars

\* A streak is never longer than the run of days with a stored check-in behind it, nor than the
\* longest, for any number of check-ins under way, across any number of midnights, failing at any
\* step (topic.Service.Checkin, UpdateOnCheckin).
THEOREM StreaksHaveTheirDays == Spec => []StreakHasItsDays
<1>1. StreakInv => StreakHasItsDays
  BY DEF StreakInv, Run, CheckinDays, StreakHasItsDays
<1>. QED
  BY <1>1, StreakInvInit, StreakInvNext, ClockInvInit, ClockInvNext, PTL DEF Spec

-----------------------------------------------------------------------------
(* The daily read *)

ReadFields == {"id", "user", "day", "status", "blocks"}
ReaderFields == {"pc", "proc", "user", "day", "id", "blocks"}

\* The reads are numbered, and a number is never used again.
ReadsInOrder ==
    /\ IsFiniteSet(reads) /\ Cardinality(reads) <= MaxReads
    /\ \A r \in reads : DOMAIN r = ReadFields /\ r.id \in 1 .. Cardinality(reads)
    /\ \A r, s \in reads : r.id = s.id => r = s

\* A request at work on a read holds the lock of its day, and nobody else of its process has made it
\* ready.
Made == {"back", "again", "last"}
AtWork == {"list", "mark", "fallback"} \union Made
ReaderInOrder(r) ==
    r # None =>
        /\ DOMAIN r = ReaderFields /\ r.proc \in ReadProcesses /\ r.user \in Learners
        /\ r.pc \in {"lock", "create"} \union AtWork
        /\ r.pc \in AtWork => /\ r.id \in ReadIds
                              /\ \E read \in reads : read.id = r.id /\ read.day = r.day
                              /\ marked[<<r.proc, r.user, r.id>>] = IF r.pc \in Made THEN 1 ELSE 0

ReadersInOrder == DOMAIN reader = Readers /\ \A r \in Readers : ReaderInOrder(reader[r])

LocksExclude == \A r, q \in Holding : LockOf(r) = LockOf(q) => r = q

\* What was made ready is ready.
MarksInOrder ==
    /\ marked \in [ReadProcesses \X Learners \X ReadIds -> {0, 1}]
    /\ \A k \in DOMAIN marked : marked[k] = 1 => \E read \in reads : read.id = k[3] /\ read.status = "ready"

ReadInv == ReadsInOrder /\ ReadersInOrder /\ LocksExclude /\ MarksInOrder

\* Rows that are rewritten under their numbers are as many as before.
LEMMA ReadsRewritten ==
    ASSUME ReadsInOrder, NEW f, DOMAIN f = reads, f = [r \in reads |-> f[r]],
           \A r \in reads : DOMAIN f[r] = ReadFields /\ f[r].id = r.id,
           reads' = {f[r] : r \in reads}
    PROVE  ReadsInOrder'
<1>1. f \in Surjection(reads, reads')
  BY DEF Surjection
<1>2. f \in Injection(reads, reads')
  BY DEF Injection, IsInjective, ReadsInOrder
<1>3. IsFiniteSet(reads') /\ Cardinality(reads') = Cardinality(reads)
  BY <1>1, <1>2, FS_Surjection DEF ReadsInOrder
<1>4. \A r \in reads' : \E s \in reads : r = f[s]
  OBVIOUS
<1>. QED
  BY <1>3, <1>4 DEF ReadsInOrder

\* A request that moves on from r to q, the rows and the marks staying.
LEMMA ReaderStep ==
    ASSUME ReadersInOrder, LocksExclude, NEW r \in Readers, NEW q, reader' = [reader EXCEPT ![r] = q],
           UNCHANGED <<reads, marked>>, ReaderInOrder(q),
           q # None /\ q.pc # "lock" =>
             /\ reader[r] # None /\ q.proc = reader[r].proc /\ q.user = reader[r].user /\ q.day = reader[r].day
             /\ r \in Holding \/ Free(r)
    PROVE  ReadersInOrder' /\ LocksExclude'
<1>1. DOMAIN reader' = Readers /\ \A x \in Readers : reader'[x] = IF x = r THEN q ELSE reader[x]
  BY DEF ReadersInOrder
<1>2. ReadersInOrder'
  BY <1>1 DEF ReadersInOrder, ReaderInOrder
<1>3. ASSUME NEW x \in Holding', x # r PROVE x \in Holding /\ LockOf(x)' = LockOf(x)
  BY <1>1, <1>3 DEF Holding, LockOf
<1>4. ASSUME r \in Holding' PROVE LockOf(r)' = LockOf(r) /\ (r \in Holding \/ Free(r))
  BY <1>1, <1>4 DEF Holding, LockOf
<1>5. ASSUME NEW x \in Holding', r \in Holding', LockOf(x)' = LockOf(r)' PROVE x = r
  <2> SUFFICES ASSUME x # r PROVE FALSE
    OBVIOUS
  <2>1. x \in Holding /\ LockOf(x) = LockOf(r)
    BY <1>3, <1>4, <1>5
  <2>. QED
    BY <1>4, <1>5, <2>1 DEF LocksExclude, Free
<1>6. LocksExclude'
  <2> SUFFICES ASSUME NEW x \in Holding', NEW y \in Holding', LockOf(x)' = LockOf(y)' PROVE x = y
    BY DEF LocksExclude
  <2>1. CASE x # r /\ y # r
    BY <1>3, <2>1 DEF LocksExclude
  <2>. QED
    BY <1>5, <2>1
<1>. QED
  BY <1>2, <1>6

\* The fields of a request after a step.
LEMMA StepFields ==
    ASSUME ReadersInOrder, NEW r \in Readers, reader[r] # None, NEW pc, Step(r, [pc |-> pc])
    PROVE  \E q : /\ reader' = [reader EXCEPT ![r] = q] /\ DOMAIN q = ReaderFields
                  /\ q.pc = pc /\ q.id = reader[r].id /\ q.proc = reader[r].proc
                  /\ q.user = reader[r].user /\ q.day = reader[r].day
<1>1. DOMAIN reader[r] = ReaderFields
  BY DEF ReadersInOrder, ReaderInOrder
<1>2. PICK fields : fields = [pc |-> pc]
  OBVIOUS
<1>3. PICK q : q = [f \in DOMAIN reader[r] |-> IF f \in DOMAIN fields THEN fields[f] ELSE reader[r][f]]
  OBVIOUS
<1>4. reader' = [reader EXCEPT ![r] = q]
  BY <1>2, <1>3 DEF Step
<1>5. /\ DOMAIN q = ReaderFields /\ q.pc = pc /\ q.id = reader[r].id /\ q.proc = reader[r].proc
      /\ q.user = reader[r].user /\ q.day = reader[r].day
  BY <1>1, <1>2, <1>3 DEF ReaderFields
<1>. QED
  BY <1>4, <1>5

LEMMA StepToRead ==
    ASSUME ReadersInOrder, NEW r \in Readers, reader[r] # None, NEW pc, NEW id, Step(r, [pc |-> pc, id |-> id])
    PROVE  \E q : /\ reader' = [reader EXCEPT ![r] = q] /\ DOMAIN q = ReaderFields
                  /\ q.pc = pc /\ q.id = id /\ q.proc = reader[r].proc
                  /\ q.user = reader[r].user /\ q.day = reader[r].day
<1>1. DOMAIN reader[r] = ReaderFields
  BY DEF ReadersInOrder, ReaderInOrder
<1>2. PICK fields : fields = [pc |-> pc, id |-> id]
  OBVIOUS
<1>3. PICK q : q = [f \in DOMAIN reader[r] |-> IF f \in DOMAIN fields THEN fields[f] ELSE reader[r][f]]
  OBVIOUS
<1>4. reader' = [reader EXCEPT ![r] = q]
  BY <1>2, <1>3 DEF Step
<1>5. /\ DOMAIN q = ReaderFields /\ q.pc = pc /\ q.id = id /\ q.proc = reader[r].proc
      /\ q.user = reader[r].user /\ q.day = reader[r].day
  BY <1>1, <1>2, <1>3 DEF ReaderFields
<1>. QED
  BY <1>4, <1>5

LEMMA StepWithBlocks ==
    ASSUME ReadersInOrder, NEW r \in Readers, reader[r] # None, NEW pc, NEW blocks, Step(r, [pc |-> pc, blocks |-> blocks])
    PROVE  \E q : /\ reader' = [reader EXCEPT ![r] = q] /\ DOMAIN q = ReaderFields
                  /\ q.pc = pc /\ q.id = reader[r].id /\ q.proc = reader[r].proc
                  /\ q.user = reader[r].user /\ q.day = reader[r].day
<1>1. DOMAIN reader[r] = ReaderFields
  BY DEF ReadersInOrder, ReaderInOrder
<1>2. PICK fields : fields = [pc |-> pc, blocks |-> blocks]
  OBVIOUS
<1>3. PICK q : q = [f \in DOMAIN reader[r] |-> IF f \in DOMAIN fields THEN fields[f] ELSE reader[r][f]]
  OBVIOUS
<1>4. reader' = [reader EXCEPT ![r] = q]
  BY <1>2, <1>3 DEF Step
<1>5. /\ DOMAIN q = ReaderFields /\ q.pc = pc /\ q.id = reader[r].id /\ q.proc = reader[r].proc
      /\ q.user = reader[r].user /\ q.day = reader[r].day
  BY <1>1, <1>2, <1>3 DEF ReaderFields
<1>. QED
  BY <1>4, <1>5

\* A read that is found is the answer, or is taken over from a request that died.
LEMMA FoundStep ==
    ASSUME ReadInv, NEW r \in Readers, reader[r] # None, r \in Holding \/ Free(r),
           reader[r].pc \notin AtWork, NEW read \in reads, read.day = reader[r].day, Found(r, read),
           UNCHANGED <<reads, marked>>
    PROVE  ReadersInOrder' /\ LocksExclude'
<1>1. CASE read.status = "ready"
  <2>1. reader' = [reader EXCEPT ![r] = None] /\ ReaderInOrder(None)
    BY <1>1 DEF Found, Answered, ReaderInOrder
  <2>. QED
    BY <2>1, ReaderStep DEF ReadInv
<1>2. CASE read.status # "ready"
  <2>1. PICK q : /\ reader' = [reader EXCEPT ![r] = q] /\ DOMAIN q = ReaderFields
                 /\ q.pc = "list" /\ q.id = read.id /\ q.proc = reader[r].proc
                 /\ q.user = reader[r].user /\ q.day = reader[r].day
    <3>1. Step(r, [pc |-> "list", id |-> read.id])
      BY <1>2 DEF Found
    <3>. QED
      BY <3>1, StepToRead DEF ReadInv
  <2>2. reader[r].proc \in ReadProcesses /\ reader[r].user \in Learners
    BY DEF ReadInv, ReadersInOrder, ReaderInOrder
  <2>3. read.id \in ReadIds
    BY ReadAssumption, FS_CardinalityType DEF ReadInv, ReadsInOrder, ReadIds
  <2>4. \A other \in reads : other.id = read.id => other.status # "ready"
    BY <1>2 DEF ReadInv, ReadsInOrder
  <2>5. PICK k : k = <<reader[r].proc, reader[r].user, read.id>>
    OBVIOUS
  <2>6. k \in ReadProcesses \X Learners \X ReadIds /\ k[3] = read.id
    BY <2>2, <2>3, <2>5
  <2>7. marked[k] = 0
    BY <2>4, <2>6 DEF ReadInv, MarksInOrder
  <2>8. ReaderInOrder(q)
    BY <2>1, <2>2, <2>3, <2>5, <2>7 DEF ReaderInOrder, AtWork, Made
  <2>. QED
    BY <2>1, <2>8, ReaderStep DEF ReadInv
<1>. QED
  BY <1>1, <1>2

\* The rows and the marks stay, and so do what is said of them alone.
LEMMA RowsAndMarksStay ==
    ASSUME ReadInv, UNCHANGED <<reads, marked>> PROVE ReadsInOrder' /\ MarksInOrder'
BY DEF ReadInv, ReadsInOrder, MarksInOrder

LEMMA AnsweredStep ==
    ASSUME ReadInv, NEW r \in Readers, Answered(r), UNCHANGED <<reads, marked>> PROVE ReadInv'
<1>1. reader' = [reader EXCEPT ![r] = None] /\ ReaderInOrder(None)
  BY DEF Answered, ReaderInOrder
<1>. QED
  BY <1>1, ReaderStep, RowsAndMarksStay DEF ReadInv

\* A request at work stays at work on its read.
LEMMA WorkStep ==
    ASSUME ReadInv, NEW r \in Readers, reader[r] # None, reader[r].pc \in AtWork, NEW pc \in AtWork,
           pc \in Made <=> reader[r].pc \in Made, NEW blocks, Step(r, [pc |-> pc, blocks |-> blocks]), UNCHANGED <<reads, marked>>
    PROVE  ReadInv'
<1>1. PICK q : /\ reader' = [reader EXCEPT ![r] = q] /\ DOMAIN q = ReaderFields
               /\ q.pc = pc /\ q.id = reader[r].id /\ q.proc = reader[r].proc
               /\ q.user = reader[r].user /\ q.day = reader[r].day
  BY StepWithBlocks DEF ReadInv
<1>2. ReaderInOrder(q)
  BY <1>1 DEF ReadInv, ReadersInOrder, ReaderInOrder
<1>3. r \in Holding
  BY DEF Holding, AtWork, Made
<1>. QED
  BY <1>1, <1>2, <1>3, ReaderStep, RowsAndMarksStay DEF ReadInv

LEMMA GetTodayStep ==
    ASSUME ReadInv, NEW r \in Readers, NEW p \in ReadProcesses, NEW user \in Learners, GetToday(r, p, user)
    PROVE  ReadInv'
<1>1. PICK q : q = [pc |-> "lock", proc |-> p, user |-> user, day |-> utcDate(now), id |-> 0, blocks |-> {}]
  OBVIOUS
<1>2. reader' = [reader EXCEPT ![r] = q] /\ UNCHANGED <<reads, marked>>
  BY <1>1 DEF GetToday
<1>3. q.pc = "lock" /\ q.proc = p /\ q.user = user /\ DOMAIN q = ReaderFields
  BY <1>1 DEF ReaderFields
<1>4. ReaderInOrder(q)
  BY <1>3 DEF ReaderInOrder, AtWork, Made
<1>. QED
  BY <1>2, <1>3, <1>4, ReaderStep, RowsAndMarksStay DEF ReadInv

LEMMA EnsureStep == ASSUME ReadInv, NEW r \in Readers, ensureTodayRead(r) PROVE ReadInv'
<1>1. reader[r] # None /\ reader[r].pc = "lock" /\ Free(r) /\ UNCHANGED <<reads, marked>>
  BY DEF ensureTodayRead
<1>2. CASE Step(r, [pc |-> "create"])
  <2>1. PICK q : /\ reader' = [reader EXCEPT ![r] = q] /\ DOMAIN q = ReaderFields
                 /\ q.pc = "create" /\ q.id = reader[r].id /\ q.proc = reader[r].proc
                 /\ q.user = reader[r].user /\ q.day = reader[r].day
    BY <1>1, <1>2, StepFields DEF ReadInv
  <2>2. ReaderInOrder(q)
    BY <1>1, <2>1 DEF ReadInv, ReadersInOrder, ReaderInOrder, AtWork, Made
  <2>. QED
    BY <1>1, <2>1, <2>2, ReaderStep, RowsAndMarksStay DEF ReadInv
<1>3. CASE \E read \in reads : read.day = reader[r].day /\ Found(r, read)
  BY <1>1, <1>3, FoundStep, RowsAndMarksStay DEF ReadInv, AtWork, Made
<1>. QED
  BY <1>2, <1>3 DEF ensureTodayRead, GetByUserDate

\* A read that is created has a number that nobody has worked on.
LEMMA CreateStep == ASSUME ReadInv, NEW r \in Readers, CreatePending(r) PROVE ReadInv'
<1>1. reader[r] # None /\ reader[r].pc = "create" /\ r \in Holding /\ UNCHANGED marked
  BY DEF CreatePending, Holding
<1>2. CASE GetByUserDate(reader[r].user, reader[r].day) # {}
  <2>1. UNCHANGED reads /\ \E read \in reads : read.day = reader[r].day /\ Found(r, read)
    BY <1>2 DEF CreatePending, GetByUserDate
  <2>. QED
    BY <1>1, <2>1, FoundStep, RowsAndMarksStay DEF ReadInv, AtWork, Made
<1>3. CASE GetByUserDate(reader[r].user, reader[r].day) = {}
  <2>1. PICK id : id = Cardinality(reads) + 1
    OBVIOUS
  <2>2. PICK new : new = [id |-> id, user |-> reader[r].user, day |-> reader[r].day,
                          status |-> "pending", blocks |-> {}]
    OBVIOUS
  <2>3. id <= MaxReads /\ reads' = reads \union {new} /\ Step(r, [pc |-> "list", id |-> id])
    BY <1>3, <2>1, <2>2 DEF CreatePending
  <2>4. DOMAIN new = ReadFields /\ new.id = id /\ new.day = reader[r].day
    BY <2>2 DEF ReadFields
  <2>5. Cardinality(reads) \in Nat /\ id \in ReadIds /\ \A read \in reads : read.id # id
    BY <2>1, <2>3, ReadAssumption, FS_CardinalityType DEF ReadInv, ReadsInOrder, ReadIds
  <2>6. IsFiniteSet(reads') /\ Cardinality(reads') = id
    BY <2>1, <2>3, <2>4, <2>5, FS_AddElement DEF ReadInv, ReadsInOrder
  <2>7. ReadsInOrder'
    BY <2>1, <2>3, <2>4, <2>5, <2>6 DEF ReadInv, ReadsInOrder
  <2>8. MarksInOrder'
    BY <1>1, <2>3 DEF ReadInv, MarksInOrder
  <2>9. PICK q : /\ reader' = [reader EXCEPT ![r] = q] /\ DOMAIN q = ReaderFields
                 /\ q.pc = "list" /\ q.id = id /\ q.proc = reader[r].proc
                 /\ q.user = reader[r].user /\ q.day = reader[r].day
    BY <1>1, <2>3, StepToRead DEF ReadInv
  <2>10. reader[r].proc \in ReadProcesses /\ reader[r].user \in Learners
    BY <1>1 DEF ReadInv, ReadersInOrder, ReaderInOrder, AtWork
  <2>11. marked[<<reader[r].proc, reader[r].user, id>>] = 0
    <3>1. PICK k : k = <<reader[r].proc, reader[r].user, id>>
      OBVIOUS
    <3>2. k \in ReadProcesses \X Learners \X ReadIds /\ k[3] = id
      BY <2>5, <2>10, <3>1
    <3>. QED
      BY <2>5, <3>1, <3>2 DEF ReadInv, MarksInOrder
  <2>12. DOMAIN reader' = Readers /\ \A x \in Readers : reader'[x] = IF x = r THEN q ELSE reader[x]
    BY <2>9 DEF ReadInv, ReadersInOrder
  <2>13. ASSUME NEW x \in Readers PROVE ReaderInOrder(reader[x])' \/ x = r
    BY <1>1, <2>3, <2>12 DEF ReadInv, ReadersInOrder, ReaderInOrder
  <2>14. ReaderInOrder(reader[r])'
    BY <1>1, <2>3, <2>4, <2>5, <2>9, <2>10, <2>11, <2>12 DEF ReaderInOrder, AtWork, Made
  <2>15. ReadersInOrder'
    BY <2>12, <2>13, <2>14 DEF ReadersInOrder
  <2>16. \A x \in Holding' : x \in Holding /\ LockOf(x)' = LockOf(x)
    BY <1>1, <2>9, <2>12 DEF Holding, LockOf
  <2>17. LocksExclude'
    BY <2>16 DEF ReadInv, LocksExclude
  <2>. QED
    BY <2>7, <2>8, <2>15, <2>17 DEF ReadInv
<1>. QED
  BY <1>2, <1>3

\* Nobody else of the process is at work on the read of a request that is.
LEMMA AloneAtWork ==
    ASSUME ReadInv, NEW r \in Readers, NEW x \in Readers, x # r,
           reader[r] # None, reader[r].pc \in AtWork, reader[x] # None, reader[x].pc \in AtWork
    PROVE  ~(reader[x].proc = reader[r].proc /\ reader[x].user = reader[r].user /\ reader[x].id = reader[r].id)
<1> SUFFICES ASSUME reader[x].proc = reader[r].proc, reader[x].user = reader[r].user, reader[x].id = reader[r].id
             PROVE  FALSE
  OBVIOUS
<1>1. reader[x].day = reader[r].day
  <2>1. ReaderInOrder(reader[r]) /\ ReaderInOrder(reader[x])
    BY DEF ReadInv, ReadersInOrder
  <2>2. PICK a \in reads : a.id = reader[r].id /\ a.day = reader[r].day
    BY <2>1 DEF ReaderInOrder
  <2>3. PICK b \in reads : b.id = reader[x].id /\ b.day = reader[x].day
    BY <2>1 DEF ReaderInOrder
  <2>4. a = b
    BY <2>2, <2>3 DEF ReadInv, ReadsInOrder
  <2>. QED
    BY <2>2, <2>3, <2>4
<1>2. r \in Holding /\ x \in Holding
  BY DEF Holding, AtWork, Made
<1>. QED
  BY <1>1, <1>2 DEF ReadInv, LocksExclude, LockOf

\* A request that is refused goes on with the preset text, or is over.
LEMMA RefusedStep ==
    ASSUME ReadInv, NEW r \in Readers, reader[r] # None, Refused(r), UNCHANGED <<reads, marked>> PROVE ReadInv'
<1>1. CASE reader[r].pc \in {"list", "mark"}
  BY <1>1, WorkStep DEF Refused, AtWork, Made
<1>2. CASE reader[r].pc = "back"
  BY <1>2, WorkStep DEF Refused, AtWork, Made
<1>3. CASE reader[r].pc \notin {"list", "mark", "back"}
  BY <1>3, AnsweredStep DEF Refused
<1>. QED
  BY <1>1, <1>2, <1>3

LEMMA ReadBackStep == ASSUME ReadInv, NEW r \in Readers, ReadBack(r) PROVE ReadInv'
BY RefusedStep, AnsweredStep DEF ReadBack

\* The read is made ready, and its request is over, or reads it back.
LEMMA MarkReadyStep == ASSUME ReadInv, NEW r \in Readers, NEW s, MarkReady(r, s) PROVE ReadInv'
<1>1. reader[r] # None /\ reader[r].pc \in {"mark", "fallback", "again"} /\ reader[r].pc \in AtWork
  BY DEF MarkReady, AtWork, Made
<1>2. CASE Target(r, s) = {}
  BY <1>1, <1>2, RefusedStep DEF MarkReady
<1>3. CASE Target(r, s) # {}
  <2>1. PICK f : f = [read \in reads |-> IF read \in Target(r, s)
                                         THEN [read EXCEPT !.status = "ready", !.blocks = reader[r].blocks]
                                         ELSE read]
    OBVIOUS
  <2>2. DOMAIN f = reads /\ f = [read \in reads |-> f[read]] /\ reads' = {f[read] : read \in reads}
    BY <1>3, <2>1 DEF MarkReady
  <2>3. ASSUME NEW read \in reads
        PROVE  /\ DOMAIN f[read] = ReadFields /\ f[read].id = read.id /\ f[read].day = read.day
               /\ f[read].status = IF read \in Target(r, s) THEN "ready" ELSE read.status
    <3>1. DOMAIN read = ReadFields
      BY DEF ReadInv, ReadsInOrder
    <3>2. PICK made : made = [read EXCEPT !.status = "ready", !.blocks = reader[r].blocks]
      OBVIOUS
    <3>3. DOMAIN made = ReadFields /\ made.id = read.id /\ made.day = read.day /\ made.status = "ready"
      BY <3>1, <3>2 DEF ReadFields
    <3>. QED
      BY <2>1, <3>1, <3>2, <3>3
  <2>4. ReadsInOrder'
    BY <2>2, <2>3, ReadsRewritten DEF ReadInv
  <2>5. PICK key : key = <<reader[r].proc, reader[r].user, reader[r].id>>
    OBVIOUS
  <2>6. /\ reader[r].proc \in ReadProcesses /\ reader[r].user \in Learners /\ reader[r].id \in ReadIds
        /\ key \in DOMAIN marked /\ key[3] = reader[r].id
        /\ marked[key] = IF reader[r].pc = "again" THEN 1 ELSE 0
    BY <1>1, <2>5 DEF ReadInv, ReadersInOrder, ReaderInOrder, MarksInOrder, Made
  <2>7. marked' = [marked EXCEPT ![key] = 1]
    <3>1. marked' = [marked EXCEPT ![key] = IF reader[r].pc = "again" THEN marked[key] ELSE marked[key] + 1]
      BY <1>3, <2>5 DEF MarkReady
    <3>2. (IF reader[r].pc = "again" THEN marked[key] ELSE marked[key] + 1) = 1
      BY <2>6
    <3>. QED
      BY <3>1, <3>2
  <2>8. DOMAIN marked' = DOMAIN marked /\ marked'[key] = 1 /\ \A k \in DOMAIN marked : k # key => marked'[k] = marked[k]
    BY <2>6, <2>7 DEF ReadInv, MarksInOrder
  <2>9. MarksInOrder'
    <3>1. marked' \in [ReadProcesses \X Learners \X ReadIds -> {0, 1}]
      BY <2>6, <2>7 DEF ReadInv, MarksInOrder
    <3>2. PICK read \in reads : read \in Target(r, s) /\ read.id = key[3]
      BY <1>3, <2>6 DEF Target
    <3>3. f[read] \in reads' /\ f[read].id = key[3] /\ f[read].status = "ready"
      BY <2>2, <2>3, <3>2
    <3>4. ASSUME NEW k \in DOMAIN marked', marked'[k] = 1
          PROVE  \E new \in reads' : new.id = k[3] /\ new.status = "ready"
      <4>1. CASE k = key
        BY <3>3, <4>1
      <4>2. CASE k # key
        <5>1. PICK old \in reads : old.id = k[3] /\ old.status = "ready"
          BY <2>8, <3>4, <4>2 DEF ReadInv, MarksInOrder
        <5>2. f[old] \in reads' /\ f[old].id = k[3] /\ f[old].status = "ready"
          BY <2>2, <2>3, <5>1
        <5>. QED
          BY <5>2
      <4>. QED
        BY <4>1, <4>2
    <3>. QED
      BY <3>1, <3>4 DEF MarksInOrder
  <2>10. PICK q : /\ reader' = [reader EXCEPT ![r] = q]
                  /\ q # None => /\ DOMAIN q = ReaderFields /\ q.pc \in {"back", "last"} /\ q.id = reader[r].id
                                 /\ q.proc = reader[r].proc /\ q.user = reader[r].user
                                 /\ q.day = reader[r].day
    <3>1. CASE s = "mysql"
      <4>1. PICK pc \in {"back", "last"} : Step(r, [pc |-> pc])
        BY <1>3, <3>1 DEF MarkReady
      <4>. QED
        BY <1>1, <4>1, StepFields DEF ReadInv
    <3>2. CASE s # "mysql"
      BY <1>3, <3>2 DEF MarkReady, Answered
    <3>. QED
      BY <3>1, <3>2
  <2>13. DOMAIN reader' = Readers /\ \A x \in Readers : reader'[x] = IF x = r THEN q ELSE reader[x]
    BY <2>10 DEF ReadInv, ReadersInOrder
  <2>11. ASSUME NEW x \in Readers PROVE ReaderInOrder(reader[x])'
    <3>0. CASE x # r /\ reader[x] = None
      BY <2>13, <3>0 DEF ReaderInOrder
    <3>1. CASE x = r
      <4>1. PICK old \in reads : old.id = reader[r].id /\ old.day = reader[r].day
        BY <1>1 DEF ReadInv, ReadersInOrder, ReaderInOrder
      <4>2. f[old] \in reads' /\ f[old].id = reader[r].id /\ f[old].day = reader[r].day
        BY <2>2, <2>3, <4>1
      <4>3. marked'[<<reader[r].proc, reader[r].user, reader[r].id>>] = 1
        BY <2>5, <2>8
      <4>. QED
        BY <2>6, <2>10, <2>13, <3>1, <4>2, <4>3 DEF ReaderInOrder, AtWork, Made
    <3>2. CASE x # r /\ reader[x] # None
      <4>1. ReaderInOrder(reader[x]) /\ reader'[x] = reader[x]
        BY <2>13, <3>2 DEF ReadInv, ReadersInOrder
      <4>2. ASSUME reader[x].pc \in AtWork
            PROVE  /\ \E read \in reads' : read.id = reader[x].id /\ read.day = reader[x].day
                   /\ marked'[<<reader[x].proc, reader[x].user, reader[x].id>>]
                        = marked[<<reader[x].proc, reader[x].user, reader[x].id>>]
        <5>1. PICK read \in reads : read.id = reader[x].id /\ read.day = reader[x].day
          BY <3>2, <4>1, <4>2 DEF ReaderInOrder
        <5>2. f[read] \in reads' /\ f[read].id = reader[x].id /\ f[read].day = reader[x].day
          BY <2>2, <2>3, <5>1
        <5>3. PICK k : k = <<reader[x].proc, reader[x].user, reader[x].id>>
          OBVIOUS
        <5>4. k \in DOMAIN marked
          BY <3>2, <4>1, <4>2, <5>3 DEF ReaderInOrder, ReadInv, MarksInOrder
        <5>5. k # key
          BY <1>1, <2>5, <3>2, <4>2, <5>3, AloneAtWork
        <5>. QED
          BY <2>8, <5>2, <5>3, <5>4, <5>5
      <4>. QED
        BY <3>2, <4>1, <4>2 DEF ReaderInOrder
    <3>. QED
      BY <3>0, <3>1, <3>2
  <2>12. \A x \in Holding' : x \in Holding /\ LockOf(x)' = LockOf(x)
    BY <1>1, <2>10, <2>13 DEF Holding, LockOf, AtWork
  <2>. QED
    BY <2>4, <2>9, <2>13, <2>11, <2>12 DEF ReadInv, ReadersInOrder, LocksExclude
<1>. QED
  BY <1>2, <1>3

LEMMA ReadFailsStep == ASSUME ReadInv, NEW r \in Readers, ReadFails(r) PROVE ReadInv'
BY RefusedStep DEF ReadFails

\* The locks of a process die with it.
LEMMA ReadDiesStep == ASSUME ReadInv, NEW p, ReadProcessDies(p) PROVE ReadInv'
<1>1. /\ DOMAIN reader' = Readers /\ \A x \in Readers : reader'[x] = None \/ reader'[x] = reader[x]
      /\ UNCHANGED <<reads, marked>>
  BY DEF ReadProcessDies
<1>2. ReadersInOrder'
  BY <1>1 DEF ReadInv, ReadersInOrder, ReaderInOrder
<1>3. \A x \in Holding' : x \in Holding /\ LockOf(x)' = LockOf(x)
  BY <1>1 DEF Holding, LockOf
<1>. QED
  BY <1>1, <1>2, <1>3, RowsAndMarksStay DEF ReadInv, LocksExclude

LEMMA ReadReaderStays == ASSUME UNCHANGED reader PROVE Holding' = Holding /\ \A r : LockOf(r)' = LockOf(r)
BY DEF Holding, LockOf

\* A merge moves rows to another learner, under their numbers and days.
LEMMA ReassignStep == ASSUME ReadInv, NEW from, NEW to, NEW s, ReassignReads(from, to, s) PROVE ReadInv'
<1>1. UNCHANGED <<reader, marked>>
  BY DEF ReassignReads
<1>2. LocksExclude'
  BY <1>1, ReadReaderStays DEF ReadInv, LocksExclude
<1>3. CASE UNCHANGED reads
  BY <1>1, <1>2, <1>3, RowsAndMarksStay DEF ReadInv, ReadersInOrder, ReaderInOrder
<1>4. CASE reads' = {IF r.user = from THEN [r EXCEPT !.user = to] ELSE r : r \in reads}
  <2>1. PICK f : f = [r \in reads |-> IF r.user = from THEN [r EXCEPT !.user = to] ELSE r]
    OBVIOUS
  <2>2. DOMAIN f = reads /\ f = [r \in reads |-> f[r]] /\ reads' = {f[r] : r \in reads}
    BY <1>4, <2>1
  <2>3. \A r \in reads : /\ DOMAIN f[r] = ReadFields /\ f[r].id = r.id /\ f[r].day = r.day
                         /\ f[r].status = r.status
    BY <2>1 DEF ReadInv, ReadsInOrder, ReadFields
  <2>4. ReadsInOrder'
    BY <2>2, <2>3, ReadsRewritten DEF ReadInv
  <2>5. \A r \in reads : \E new \in reads' : new.id = r.id /\ new.day = r.day /\ new.status = r.status
    BY <2>2, <2>3
  <2>6. MarksInOrder'
    BY <1>1, <2>5 DEF ReadInv, MarksInOrder
  <2>7. ReadersInOrder'
    <3>1. ASSUME NEW x \in Readers PROVE ReaderInOrder(reader[x])'
      <4>1. ReaderInOrder(reader[x]) /\ reader'[x] = reader[x]
        BY <1>1 DEF ReadInv, ReadersInOrder
      <4>. QED
        BY <1>1, <2>5, <4>1 DEF ReaderInOrder
    <3>. QED
      BY <1>1, <3>1 DEF ReadInv, ReadersInOrder
  <2>. QED
    BY <1>2, <2>4, <2>6, <2>7 DEF ReadInv
<1>. QED
  BY <1>3, <1>4 DEF ReassignReads

LEMMA ReadInvInit == Init => ReadInv
<1> SUFFICES ASSUME Init PROVE ReadInv
  OBVIOUS
<1>1. reads = {} /\ reader = [r \in Readers |-> None] /\ marked = [k \in ReadProcesses \X Learners \X ReadIds |-> 0]
  BY DEF Init, ReadInit
<1>2. ReadsInOrder
  BY <1>1, FS_EmptySet, ReadAssumption DEF ReadsInOrder
<1>3. ReadersInOrder /\ LocksExclude /\ MarksInOrder
  BY <1>1 DEF ReadersInOrder, ReaderInOrder, LocksExclude, Holding, MarksInOrder
<1>. QED
  BY <1>2, <1>3 DEF ReadInv

LEMMA ReadInvNext == ReadInv /\ [Next]_vars => ReadInv'
<1> SUFFICES ASSUME ReadInv, [Next]_vars PROVE ReadInv'
  OBVIOUS
<1>1. ReadNext \/ UNCHANGED readVars
  BY DEF Next, vars, CreditHit, CreditCheckin
<1>2. CASE UNCHANGED readVars
  BY <1>2, RowsAndMarksStay, ReadReaderStays
     DEF readVars, ReadInv, ReadersInOrder, ReaderInOrder, LocksExclude
<1>3. CASE ReadNext
  <2>1. ASSUME NEW r \in Readers, reader[r] # None, NEW blocks, GenerateDailyRead(r, blocks) PROVE ReadInv'
    BY <2>1, WorkStep DEF GenerateDailyRead, AtWork, Made
  <2>. QED
    BY <1>3, <2>1, GetTodayStep, EnsureStep, CreateStep, MarkReadyStep, ReadBackStep, ReadFailsStep,
       ReadDiesStep, ReassignStep
       DEF ReadNext
<1>. QED
  BY <1>1, <1>2, <1>3

\* One request of a process makes a learner's read of the day ready, for any number of requests,
\* processes, learners and days, whatever fails before or after the row was stored, dies or is merged
\* meanwhile (content.Service.ensureTodayRead, MySQLStore.MarkReady).
THEOREM ReadsGeneratedOnce == Spec => []ReadGeneratedOnce
<1>1. ReadInv => ReadGeneratedOnce
  BY DEF ReadInv, MarksInOrder, ReadGeneratedOnce
<1>. QED
  BY <1>1, ReadInvInit, ReadInvNext, PTL DEF Spec

-----------------------------------------------------------------------------
(* The uses of a block, and what they are counted from *)

RowFields == {"user", "session", "expr", "scene", "fav", "pin", "live", "used", "at"}
CallFields == {"pc", "user", "id", "at", "fav", "pin", "fresh", "old", "expr"}
CardFields == {"day", "title", "blocks", "checked", "dismissed", "live"}
EmitFields == {"pc", "turn", "text", "block", "at"}

Hits(i) == {t \in Turns : <<"hit", t, i>> \in realUses}
Checks(i) == {k \in Nat : <<"checkin", k, i>> \in realUses}
Credits(i) == Cardinality(Hits(i)) + Cardinality(Checks(i))

\* A block has no more uses than the ledger has credits of it, and its stamp is a time.
RowsBacked ==
    /\ DOMAIN row = Ids
    /\ \A i \in Ids : /\ IsFiniteSet(Hits(i)) /\ IsFiniteSet(Checks(i))
                      /\ row[i] # None => DOMAIN row[i] = RowFields /\ row[i].used \in 0 .. Credits(i) /\ row[i].at \in Nat

\* What a batch is about to add has not been used.
CallInOrder(r) ==
    r # None => /\ DOMAIN r = CallFields /\ r.at \in Nat
                /\ r.pc = "accept" => \A new \in r.fresh : DOMAIN new = RowFields /\ new.used = 0 /\ new.at \in Nat

CallsInOrder == DOMAIN call = Calls /\ \A c \in Calls : CallInOrder(call[c])

ShelfInv == RowsBacked /\ CallsInOrder

LEMMA CreditsAreNat == ASSUME RowsBacked, NEW i \in Ids PROVE Credits(i) \in Nat
BY FS_CardinalityType DEF RowsBacked, Credits

LEMMA CreditsStay ==
    ASSUME UNCHANGED realUses
    PROVE  \A i : Hits(i)' = Hits(i) /\ Checks(i)' = Checks(i) /\ Credits(i)' = Credits(i)
BY DEF Hits, Checks, Credits

\* A write that keeps the uses of a block, or of one that is new has none.
LEMMA WriteStep ==
    ASSUME RowsBacked, UNCHANGED realUses, DOMAIN row' = Ids,
           \A i \in Ids : \/ row'[i] = row[i]
                          \/ /\ DOMAIN row'[i] = RowFields /\ row'[i].at \in Nat
                             /\ row'[i].used = 0 \/ (row[i] # None /\ row'[i].used = row[i].used)
    PROVE  RowsBacked'
<1>1. \A i \in Ids : Credits(i) \in Nat
  BY CreditsAreNat
<1>2. ASSUME NEW i \in Ids
      PROVE  /\ (IsFiniteSet(Hits(i)) /\ IsFiniteSet(Checks(i)))'
             /\ (row[i] # None => DOMAIN row[i] = RowFields /\ row[i].used \in 0 .. Credits(i) /\ row[i].at \in Nat)'
  <2>1. Hits(i)' = Hits(i) /\ Checks(i)' = Checks(i) /\ Credits(i)' = Credits(i)
    BY CreditsStay
  <2>2. IsFiniteSet(Hits(i)) /\ IsFiniteSet(Checks(i))
    BY DEF RowsBacked
  <2>3. row'[i] # None => DOMAIN row'[i] = RowFields /\ row'[i].used \in 0 .. Credits(i) /\ row'[i].at \in Nat
    BY <1>1 DEF RowsBacked
  <2>. QED
    BY <2>1, <2>2, <2>3
<1>. QED
  BY <1>2 DEF RowsBacked

LEMMA CallStep ==
    ASSUME CallsInOrder, NEW c \in Calls, NEW r, call' = [call EXCEPT ![c] = r], CallInOrder(r)
    PROVE  CallsInOrder'
BY DEF CallsInOrder

LEMMA ReturnStep == ASSUME CallsInOrder, NEW c \in Calls, Return(c) PROVE CallsInOrder'
BY CallStep DEF Return, CallInOrder

\* What a request carries when it begins.
LEMMA NewCallFields ==
    ASSUME ClockInv, NEW pc PROVE DOMAIN NewCall(pc) = CallFields /\ NewCall(pc).pc = pc /\ NewCall(pc).at \in Nat
BY DEF NewCall, CallFields, ClockInv

\* A request that will not insert rows.
LEMMA BeginStep ==
    ASSUME CallsInOrder, NEW c \in Calls, NEW kind, NEW r, Begin(c, kind, r), DOMAIN r = CallFields,
           r.at \in Nat, r.pc # "accept"
    PROVE  CallsInOrder'
<1>1. CallInOrder(r)
  BY DEF CallInOrder
<1>. QED
  BY <1>1, CallStep DEF Begin

LEMMA ShelfBegins ==
    ASSUME ClockInv, ShelfInv, UNCHANGED realUses, NEW c \in Calls, NEW i \in Ids,
           \/ \E fav, pinned \in BOOLEAN : SetFavorite(c, i, fav, pinned)
           \/ \E pinned \in BOOLEAN : UpdatePin(c, i, pinned)
           \/ \E fav \in BOOLEAN : UpdateFavorite(c, i, fav)
           \/ DeleteBlock(c, i)
           \/ \E expr \in Expressions : UpdateBlock(c, i, expr)
    PROVE  ShelfInv'
<1>1. UNCHANGED row
  BY DEF SetFavorite, UpdatePin, UpdateFavorite, DeleteBlock, UpdateBlock, NoWrite
<1>2. RowsBacked'
  BY <1>1, WriteStep DEF ShelfInv, RowsBacked
<1>3. ASSUME NEW kind, NEW id, NEW fav, NEW pin,
             Begin(c, kind, [NewCall("favorite") EXCEPT !.id = id, !.fav = fav, !.pin = pin])
      PROVE  CallsInOrder'
  <2>1. PICK r : r = [NewCall("favorite") EXCEPT !.id = id, !.fav = fav, !.pin = pin]
    OBVIOUS
  <2>2. DOMAIN r = CallFields /\ r.pc = "favorite" /\ r.at \in Nat
    BY <2>1, NewCallFields DEF CallFields
  <2>. QED
    BY <1>3, <2>1, <2>2, BeginStep DEF ShelfInv
<1>4. ASSUME NEW id, Begin(c, "delete", [NewCall("delete") EXCEPT !.id = id]) PROVE CallsInOrder'
  <2>1. PICK r : r = [NewCall("delete") EXCEPT !.id = id]
    OBVIOUS
  <2>2. DOMAIN r = CallFields /\ r.pc = "delete" /\ r.at \in Nat
    BY <2>1, NewCallFields DEF CallFields
  <2>. QED
    BY <1>4, <2>1, <2>2, BeginStep DEF ShelfInv
<1>5. ASSUME NEW id, NEW old, NEW expr, Begin(c, "edit", [NewCall("edit") EXCEPT !.id = id, !.old = old, !.expr = expr])
      PROVE  CallsInOrder'
  <2>1. PICK r : r = [NewCall("edit") EXCEPT !.id = id, !.old = old, !.expr = expr]
    OBVIOUS
  <2>2. DOMAIN r = CallFields /\ r.pc = "edit" /\ r.at \in Nat
    BY <2>1, NewCallFields DEF CallFields
  <2>. QED
    BY <1>5, <2>1, <2>2, BeginStep DEF ShelfInv
<1>6. CallsInOrder'
  BY <1>3, <1>4, <1>5, Zenon DEF SetFavorite, UpdatePin, UpdateFavorite, DeleteBlock, UpdateBlock
<1>. QED
  BY <1>2, <1>6 DEF ShelfInv

\* A block that was never accepted before has not been used.
LEMMA FreshIsUnused ==
    ASSUME ClockInv, NEW session, NEW batch, NEW scene, NEW new \in Fresh(session, batch, scene)
    PROVE  DOMAIN new = RowFields /\ new.used = 0 /\ new.at \in Nat
BY DEF Fresh, newAcceptedBlock, RowFields, ClockInv

LEMMA ShelfAccepts ==
    ASSUME ClockInv, ShelfInv, UNCHANGED realUses, NEW c \in Calls,
           \/ \E session \in Sessions, batch \in Batches, scene \in Scenes : BatchAccept(c, session, batch, scene)
           \/ ProvisionStarterCorpus(c)
           \/ \E batch \in Batches, scene \in Scenes : StarterAccept(c, batch, scene)
    PROVE  ShelfInv'
<1>1. UNCHANGED row
  BY DEF BatchAccept, ProvisionStarterCorpus, StarterAccept, NoWrite
<1>2. RowsBacked'
  BY <1>1, WriteStep DEF ShelfInv, RowsBacked
<1>3. ASSUME NEW session, NEW batch, NEW scene, BatchAccept(c, session, batch, scene) PROVE CallsInOrder'
  <2>1. PICK fresh : fresh = Fresh(session, batch, scene)
    OBVIOUS
  <2>2. PICK r : r = [NewCall("accept") EXCEPT !.fresh = fresh]
    OBVIOUS
  <2>3. DOMAIN r = CallFields /\ r.fresh = fresh /\ r.at \in Nat
    BY <2>2, NewCallFields DEF CallFields
  <2>4. CallInOrder(r)
    BY <2>1, <2>3, FreshIsUnused DEF CallInOrder
  <2>5. call' = [call EXCEPT ![c] = r]
    BY <1>3, <2>1, <2>2 DEF BatchAccept, Begin
  <2>. QED
    BY <2>4, <2>5, CallStep DEF ShelfInv
<1>4. ASSUME ProvisionStarterCorpus(c) PROVE CallsInOrder'
  BY <1>4, BeginStep, NewCallFields DEF ShelfInv, ProvisionStarterCorpus
<1>5. ASSUME NEW batch, NEW scene, StarterAccept(c, batch, scene) PROVE CallsInOrder'
  <2>1. PICK fresh : fresh = Fresh(StarterSession, batch, scene)
    OBVIOUS
  <2>2. PICK r : r = [call[c] EXCEPT !.pc = "accept", !.at = now, !.fresh = fresh]
    OBVIOUS
  <2>3. call[c] # None /\ DOMAIN call[c] = CallFields
    BY <1>5 DEF StarterAccept, ShelfInv, CallsInOrder, CallInOrder
  <2>4. DOMAIN r = CallFields /\ r.fresh = fresh /\ r.at \in Nat
    BY <2>2, <2>3 DEF CallFields, ClockInv
  <2>5. CallInOrder(r)
    BY <2>1, <2>4, FreshIsUnused DEF CallInOrder
  <2>6. call' = [call EXCEPT ![c] = r]
    BY <1>5, <2>1, <2>2 DEF StarterAccept, ShelfInv, CallsInOrder
  <2>. QED
    BY <2>5, <2>6, CallStep DEF ShelfInv
<1>6. CallsInOrder'
  BY <1>3, <1>4, <1>5
<1>. QED
  BY <1>2, <1>6 DEF ShelfInv

\* One row is rewritten with its uses, or with none.
LEMMA RowStep ==
    ASSUME RowsBacked, UNCHANGED realUses, NEW i \in Ids, NEW r, row' = [row EXCEPT ![i] = r],
           DOMAIN r = RowFields, r.at \in Nat, r.used = 0 \/ (row[i] # None /\ r.used = row[i].used)
    PROVE  RowsBacked'
<1>1. DOMAIN row' = Ids /\ \A j \in Ids : row'[j] = IF j = i THEN r ELSE row[j]
  BY DEF RowsBacked
<1>. QED
  BY <1>1, WriteStep

LEMMA RowsStand == ASSUME RowsBacked, UNCHANGED <<row, realUses>> PROVE RowsBacked'
BY WriteStep DEF RowsBacked

LEMMA OwnRow ==
    ASSUME RowsBacked, NEW user, NEW i, Writable(user, i)
    PROVE  i \in Ids /\ row[i] # None /\ DOMAIN row[i] = RowFields /\ row[i].at \in Nat
BY DEF RowsBacked, Writable, Live, Owned

LEMMA StoreFavoriteStep == ASSUME ShelfInv, UNCHANGED realUses, NEW c \in Calls, StoreFavorite(c) PROVE ShelfInv'
<1>1. PICK q : q = call[c]
  OBVIOUS
<1>2. q.at \in Nat
  BY <1>1 DEF StoreFavorite, ShelfInv, CallsInOrder, CallInOrder
<1>3. CASE Writable(q.user, q.id)
  <2>1. q.id \in Ids /\ row[q.id] # None /\ DOMAIN row[q.id] = RowFields
    BY <1>3, OwnRow DEF ShelfInv
  <2>2. PICK r : r = [row[q.id] EXCEPT !.fav = q.fav, !.pin = q.pin, !.at = q.at]
    OBVIOUS
  <2>3. row' = [row EXCEPT ![q.id] = r]
    BY <1>1, <1>3, <2>1, <2>2 DEF StoreFavorite, Write, ShelfInv, RowsBacked
  <2>4. DOMAIN r = RowFields /\ r.used = row[q.id].used /\ r.at \in Nat
    BY <1>2, <2>1, <2>2 DEF RowFields
  <2>5. RowsBacked'
    BY <2>1, <2>3, <2>4, RowStep DEF ShelfInv
  <2>. QED
    BY <2>5, ReturnStep DEF StoreFavorite, ShelfInv
<1>4. CASE ~Writable(q.user, q.id)
  BY <1>1, <1>4, RowsStand, ReturnStep DEF StoreFavorite, NoWrite, ShelfInv
<1>. QED
  BY <1>3, <1>4

\* A block that is deleted keeps its uses.
LEMMA DeletedFields ==
    ASSUME NEW r, DOMAIN r = RowFields, NEW at
    PROVE  DOMAIN Deleted(r, at) = RowFields /\ Deleted(r, at).used = r.used /\ Deleted(r, at).at = at
<1>1. PICK a : a = [r EXCEPT !.live = FALSE, !.pin = Unpinned, !.fav = FALSE, !.at = at]
  OBVIOUS
<1>2. PICK b : b = [r EXCEPT !.live = FALSE, !.at = at]
  OBVIOUS
<1>3. /\ DOMAIN a = RowFields /\ a.used = r.used /\ a.at = at
      /\ DOMAIN b = RowFields /\ b.used = r.used /\ b.at = at
  BY <1>1, <1>2 DEF RowFields
<1>. QED
  BY <1>1, <1>2, <1>3 DEF Deleted

LEMMA SoftDeleteStep == ASSUME ShelfInv, UNCHANGED realUses, NEW c \in Calls, SoftDeleteBlock(c) PROVE ShelfInv'
<1>1. PICK q : q = call[c]
  OBVIOUS
<1>2. q.at \in Nat
  BY <1>1 DEF SoftDeleteBlock, ShelfInv, CallsInOrder, CallInOrder
<1>3. CASE Writable(q.user, q.id)
  <2>1. q.id \in Ids /\ row[q.id] # None /\ DOMAIN row[q.id] = RowFields
    BY <1>3, OwnRow DEF ShelfInv
  <2>2. PICK r : r = Deleted(row[q.id], q.at)
    OBVIOUS
  <2>3. row' = [row EXCEPT ![q.id] = r]
    BY <1>1, <1>3, <2>1, <2>2 DEF SoftDeleteBlock, Write, ShelfInv, RowsBacked
  <2>4. DOMAIN r = RowFields /\ r.used = row[q.id].used /\ r.at \in Nat
    BY <1>2, <2>1, <2>2, DeletedFields
  <2>5. RowsBacked'
    BY <2>1, <2>3, <2>4, RowStep DEF ShelfInv
  <2>. QED
    BY <2>5, ReturnStep DEF SoftDeleteBlock, ShelfInv
<1>4. CASE ~Writable(q.user, q.id)
  BY <1>1, <1>4, RowsStand, ReturnStep DEF SoftDeleteBlock, NoWrite, ShelfInv
<1>. QED
  BY <1>3, <1>4

\* An edit goes on with its next statement.
LEMMA EditGoesOn ==
    ASSUME CallsInOrder, NEW c \in Calls, call[c] # None, NEW pc \in {"back", "reset"},
           call' = [call EXCEPT ![c].pc = pc]
    PROVE  CallsInOrder'
<1>1. PICK next : next = [call[c] EXCEPT !.pc = pc]
  OBVIOUS
<1>2. DOMAIN call[c] = CallFields /\ call[c].at \in Nat
  BY DEF CallsInOrder, CallInOrder
<1>3. CallInOrder(next)
  BY <1>1, <1>2 DEF CallInOrder, CallFields
<1>4. call' = [call EXCEPT ![c] = next]
  BY <1>1 DEF CallsInOrder
<1>. QED
  BY <1>3, <1>4, CallStep

LEMMA SavedStep == ASSUME CallsInOrder, NEW c \in Calls, call[c] # None, NEW expr, Saved(c, expr) PROVE CallsInOrder'
BY EditGoesOn, ReturnStep DEF Saved

LEMMA StoreEditStep == ASSUME ShelfInv, UNCHANGED realUses, NEW c \in Calls, StoreEdit(c) PROVE ShelfInv'
<1>1. PICK q : q = call[c]
  OBVIOUS
<1>2. q # None /\ DOMAIN q = CallFields /\ q.at \in Nat
  BY <1>1 DEF StoreEdit, ShelfInv, CallsInOrder, CallInOrder
<1>3. CASE ~Writable(q.user, q.id) \/ Collides(q.id, q.expr)
  BY <1>1, <1>3, RowsStand, ReturnStep DEF StoreEdit, NoWrite, ShelfInv
<1>4. CASE Writable(q.user, q.id) /\ ~Collides(q.id, q.expr)
  <2>1. q.id \in Ids /\ row[q.id] # None /\ DOMAIN row[q.id] = RowFields
    BY <1>4, OwnRow DEF ShelfInv
  <2>2. PICK expr : expr = q.expr
    OBVIOUS
  <2>3. PICK r : r = [row[q.id] EXCEPT !.expr = expr, !.at = q.at]
    OBVIOUS
  <2>4. row' = [row EXCEPT ![q.id] = r]
    BY <1>1, <1>4, <2>1, <2>2, <2>3 DEF StoreEdit, Write, ShelfInv, RowsBacked
  <2>5. DOMAIN r = RowFields /\ r.used = row[q.id].used /\ r.at \in Nat
    BY <1>2, <2>1, <2>3 DEF RowFields
  <2>6. RowsBacked'
    BY <2>1, <2>4, <2>5, RowStep DEF ShelfInv
  <2>7. Saved(c, q.expr) \/ call' = [call EXCEPT ![c].pc = "back"]
    BY <1>1, <1>4 DEF StoreEdit
  <2>. QED
    BY <1>1, <1>2, <2>6, <2>7, EditGoesOn, SavedStep DEF ShelfInv
<1>. QED
  BY <1>3, <1>4

LEMMA EditReadBackStep == ASSUME ShelfInv, UNCHANGED realUses, NEW c \in Calls, EditReadBack(c) PROVE ShelfInv'
<1>1. call[c] # None /\ (Return(c) \/ \E expr : Saved(c, expr))
  BY DEF EditReadBack
<1>. QED
  BY <1>1, RowsStand, ReturnStep, SavedStep DEF EditReadBack, NoWrite, ShelfInv

LEMMA ResetScheduleStep == ASSUME ShelfInv, UNCHANGED realUses, NEW c \in Calls, ResetSchedule(c) PROVE ShelfInv'
<1>1. PICK q : q = call[c]
  OBVIOUS
<1>2. q.at \in Nat
  BY <1>1 DEF ResetSchedule, ShelfInv, CallsInOrder, CallInOrder
<1>3. CASE Writable(q.user, q.id)
  <2>1. q.id \in Ids /\ row[q.id] # None /\ DOMAIN row[q.id] = RowFields
    BY <1>3, OwnRow DEF ShelfInv
  <2>2. PICK r : r = [row[q.id] EXCEPT !.at = q.at]
    OBVIOUS
  <2>3. row' = [row EXCEPT ![q.id] = r]
    BY <1>1, <1>3, <2>1, <2>2 DEF ResetSchedule, Write, ShelfInv, RowsBacked
  <2>4. DOMAIN r = RowFields /\ r.used = row[q.id].used /\ r.at \in Nat
    BY <1>2, <2>1, <2>2 DEF RowFields
  <2>5. RowsBacked'
    BY <2>1, <2>3, <2>4, RowStep DEF ShelfInv
  <2>. QED
    BY <2>5, ReturnStep DEF ResetSchedule, ShelfInv
<1>4. CASE ~Writable(q.user, q.id)
  BY <1>1, <1>4, RowsStand, ReturnStep DEF ResetSchedule, NoWrite, ShelfInv
<1>. QED
  BY <1>3, <1>4

\* What is inserted has not been used, and what is revived keeps its uses.
LEMMA SaveAcceptedStep == ASSUME ShelfInv, UNCHANGED realUses, NEW c \in Calls, SaveAcceptedBlocks(c) PROVE ShelfInv'
<1>1. CallsInOrder'
  BY ReturnStep DEF SaveAcceptedBlocks, ShelfInv
<1> DEFINE fresh == call[c].fresh
<1>3. \A r \in fresh : DOMAIN r = RowFields /\ r.used = 0 /\ r.at \in Nat
  BY DEF SaveAcceptedBlocks, ShelfInv, CallsInOrder, CallInOrder
<1>5. ASSUME NEW place,
             row' = [i \in Ids |->
                       IF \E r \in fresh : place[r] = i
                       THEN LET r == CHOOSE s \in fresh : place[s] = i IN
                            IF row[i] = None THEN r
                            ELSE IF row[i].live THEN row[i]
                            ELSE [row[i] EXCEPT !.live = TRUE, !.scene = r.scene, !.at = r.at]
                       ELSE row[i]]
      PROVE  RowsBacked'
  <2>1. ASSUME NEW i \in Ids
        PROVE  \/ row'[i] = row[i]
               \/ /\ DOMAIN row'[i] = RowFields /\ row'[i].at \in Nat
                  /\ row'[i].used = 0 \/ (row[i] # None /\ row'[i].used = row[i].used)
    <3>1. CASE \E r \in fresh : place[r] = i
      <4>1. PICK r : r = CHOOSE s \in fresh : place[s] = i
        OBVIOUS
      <4>2. r \in fresh
        BY <3>1, <4>1
      <4>3. PICK old : old = [row[i] EXCEPT !.live = TRUE, !.scene = r.scene, !.at = r.at]
        OBVIOUS
      <4>4. row'[i] = IF row[i] = None THEN r ELSE IF row[i].live THEN row[i] ELSE old
        BY <1>5, <3>1, <4>1, <4>3
      <4>5. DOMAIN r = RowFields /\ r.used = 0 /\ r.at \in Nat
        BY <1>3, <4>2
      <4>6. row[i] # None => DOMAIN old = RowFields /\ old.used = row[i].used /\ old.at = r.at
        BY <4>3 DEF ShelfInv, RowsBacked, RowFields
      <4>. QED
        BY <4>4, <4>5, <4>6
    <3>2. CASE ~\E r \in fresh : place[r] = i
      BY <1>5, <3>2
    <3>. QED
      BY <3>1, <3>2
  <2>2. DOMAIN row' = Ids
    BY <1>5
  <2>. QED
    BY <2>1, <2>2, WriteStep DEF ShelfInv
<1>6. RowsBacked'
  <2>1. CASE NoWrite
    BY <2>1, RowsStand DEF NoWrite, ShelfInv
  <2>2. CASE ~NoWrite
    <3>1. PICK place \in [fresh -> Ids] :
            row' = [i \in Ids |->
                      IF \E r \in fresh : place[r] = i
                      THEN LET r == CHOOSE s \in fresh : place[s] = i IN
                           IF row[i] = None THEN r
                           ELSE IF row[i].live THEN row[i]
                           ELSE [row[i] EXCEPT !.live = TRUE, !.scene = r.scene, !.at = r.at]
                      ELSE row[i]]
      BY <2>2, Zenon DEF SaveAcceptedBlocks, Write
    <3>. QED
      BY <1>5, <3>1
  <2>. QED
    BY <2>1, <2>2
<1>. QED
  BY <1>1, <1>6 DEF ShelfInv

\* The writes that leave the requests alone.
LEMMA ShelfServes ==
    ASSUME ClockInv, ShelfInv, UNCHANGED realUses,
           \/ \E i \in Ids, reason \in Reasons : RecordFeedback(i, reason)
           \/ \E at \in 0 .. MaxNow : SoftDeleteAllForUser(at)
           \/ RestoreDeletedForUser
           \/ \E i \in Ids, expr \in Expressions, session \in Sessions, scene \in Scenes :
                GuestAccepts(i, expr, session, scene)
           \/ ReassignUser
           \/ SyncBegin \/ SyncNext \/ BrowseBegin \/ BrowseNext
    PROVE  ShelfInv'
<1>1. UNCHANGED call
  BY Zenon DEF RecordFeedback, SoftDeleteAllForUser, RestoreDeletedForUser, GuestAccepts, ReassignUser,
               SyncBegin, SyncNext, BrowseBegin, BrowseNext, SyncPage, Browse
<1>2. CallsInOrder'
  BY <1>1 DEF ShelfInv, CallsInOrder
<1>3. \A i \in Owned(Me) \union Live(Me) \union Owned(Guest) : 
        i \in Ids /\ row[i] # None /\ DOMAIN row[i] = RowFields /\ row[i].at \in Nat
  BY DEF Owned, Live, ShelfInv, RowsBacked
<1>4. ASSUME \/ \E i \in Ids, reason \in Reasons : RecordFeedback(i, reason)
             \/ SyncBegin \/ SyncNext \/ BrowseBegin \/ BrowseNext
      PROVE  RowsBacked'
  <2>1. UNCHANGED row
    BY <1>4, Zenon DEF RecordFeedback, SyncBegin, SyncNext, BrowseBegin, BrowseNext, SyncPage, Browse, NoWrite
  <2>. QED
    BY <2>1, RowsStand DEF ShelfInv
<1>5. ASSUME NEW at \in 0 .. MaxNow, SoftDeleteAllForUser(at) PROVE RowsBacked'
  <2>1. row' = [i \in Ids |-> IF i \in Live(Me) THEN Deleted(row[i], at) ELSE row[i]]
    BY <1>5 DEF SoftDeleteAllForUser, Write
  <2>2. \A i \in Ids : i \in Live(Me) => DOMAIN row'[i] = RowFields /\ row'[i].used = row[i].used /\ row'[i].at \in Nat
    BY <1>3, <2>1, DeletedFields
  <2>. QED
    BY <1>3, <2>1, <2>2, WriteStep DEF ShelfInv
<1>6. ASSUME RestoreDeletedForUser PROVE RowsBacked'
  <2>1. row' = [i \in Ids |-> IF i \in Owned(Me) THEN [row[i] EXCEPT !.live = TRUE] ELSE row[i]]
    BY <1>6 DEF RestoreDeletedForUser, Write
  <2>2. \A i \in Ids : i \in Owned(Me) => DOMAIN row'[i] = RowFields /\ row'[i].used = row[i].used /\ row'[i].at \in Nat
    BY <1>3, <2>1 DEF RowFields
  <2>. QED
    BY <1>3, <2>1, <2>2, WriteStep DEF ShelfInv
<1>7. ASSUME NEW i \in Ids, NEW expr, NEW session, NEW scene, GuestAccepts(i, expr, session, scene)
      PROVE  RowsBacked'
  <2>1. PICK r : r = newAcceptedBlock(Guest, session, expr, scene, now)
    OBVIOUS
  <2>2. DOMAIN r = RowFields /\ r.used = 0 /\ r.at \in Nat
    BY <2>1 DEF newAcceptedBlock, RowFields, ClockInv
  <2>3. row' = [row EXCEPT ![i] = r]
    BY <1>7, <2>1 DEF GuestAccepts, Write
  <2>. QED
    BY <2>2, <2>3, RowStep DEF ShelfInv
<1>8. ASSUME ReassignUser PROVE RowsBacked'
  <2>1. row' = [i \in Ids |-> IF i \in Owned(Guest) THEN [row[i] EXCEPT !.user = Me] ELSE row[i]]
    BY <1>8 DEF ReassignUser, Write
  <2>2. \A i \in Ids : i \in Owned(Guest) => DOMAIN row'[i] = RowFields /\ row'[i].used = row[i].used /\ row'[i].at \in Nat
    BY <1>3, <2>1 DEF RowFields
  <2>. QED
    BY <1>3, <2>1, <2>2, WriteStep DEF ShelfInv
<1>. QED
  BY <1>2, <1>4, <1>5, <1>6, <1>7, <1>8 DEF ShelfInv

LEMMA ShelfStep == ASSUME ClockInv, ShelfInv, UNCHANGED realUses, ShelfNext PROVE ShelfInv'
<1>1. ASSUME NEW c \in Calls, CallFails(c) PROVE ShelfInv'
  BY <1>1, RowsStand, ReturnStep DEF CallFails, NoWrite, ShelfInv
<1>. QED
  BY <1>1, ShelfBegins, ShelfAccepts, StoreFavoriteStep, SoftDeleteStep, StoreEditStep, EditReadBackStep, ResetScheduleStep,
     SaveAcceptedStep, ShelfServes, Zenon DEF ShelfNext

LEMMA ShelfStays == ASSUME ShelfInv, UNCHANGED <<row, call, realUses>> PROVE ShelfInv'
BY RowsStand DEF ShelfInv, CallsInOrder

\* A card that is checked in stays checked in, and offers what it offered.
CardsInOrder == (\E S : cards \in Seq(S)) /\ \A k \in DOMAIN cards : DOMAIN cards[k] = CardFields
VisitsAreChecked ==
    \A v \in Visits : visit[v] # None => visit[v].card \in DOMAIN cards /\ cards[visit[v].card].checked
ChecksAreBacked ==
    \A k, i : <<"checkin", k, i>> \in realUses => k \in DOMAIN cards /\ cards[k].checked /\ i \in cards[k].blocks

CardInv == CardsInOrder /\ VisitsAreChecked /\ ChecksAreBacked

LEMMA CardsKept ==
    ASSUME CardInv, UNCHANGED realUses, CardsInOrder', DOMAIN cards \subseteq DOMAIN cards',
           \A k \in DOMAIN cards : /\ cards'[k].blocks = cards[k].blocks
                                   /\ cards[k].checked => cards'[k].checked,
           \A v \in Visits : visit'[v] # None =>
              \/ visit[v] # None /\ visit'[v].card = visit[v].card
              \/ visit'[v].card \in DOMAIN cards' /\ cards'[visit'[v].card].checked
    PROVE  CardInv'
<1>1. VisitsAreChecked'
  <2> SUFFICES ASSUME NEW v \in Visits, visit'[v] # None
               PROVE  visit'[v].card \in DOMAIN cards' /\ cards'[visit'[v].card].checked
    BY DEF VisitsAreChecked
  <2>1. CASE visit[v] # None /\ visit'[v].card = visit[v].card
    BY <2>1 DEF CardInv, VisitsAreChecked
  <2>. QED
    BY <2>1
<1>2. ChecksAreBacked'
  BY DEF CardInv, ChecksAreBacked
<1>. QED
  BY <1>1, <1>2 DEF CardInv

LEMMA CardsStay ==
    ASSUME CardInv, UNCHANGED <<cards, visit, realUses>> PROVE CardInv'
<1>1. CardsInOrder'
  BY DEF CardInv, CardsInOrder
<1>. QED
  BY <1>1, CardsKept

\* A check-in under way goes on with its card.
LEMMA VisitKeepsCard ==
    ASSUME CardInv, StreakInv, UNCHANGED <<cards, realUses>>, NEW v \in Visits, visit[v] # None, NEW r,
           visit' = [visit EXCEPT ![v] = r], r = None \/ r.card = visit[v].card
    PROVE  CardInv'
<1>1. \A x \in Visits : visit'[x] = IF x = v THEN r ELSE visit[x]
  BY DEF StreakInv
<1>2. CardsInOrder'
  BY DEF CardInv, CardsInOrder
<1>. QED
  BY <1>1, <1>2, CardsKept

\* One card is stamped.
LEMMA CardStamped ==
    ASSUME CardInv, NEW k \in DOMAIN cards, NEW card, cards' = [cards EXCEPT ![k] = card],
           DOMAIN card = CardFields
    PROVE  /\ CardsInOrder' /\ DOMAIN cards' = DOMAIN cards
           /\ \A j \in DOMAIN cards : cards'[j] = IF j = k THEN card ELSE cards[j]
<1>1. PICK S : cards \in Seq(S)
  BY DEF CardInv, CardsInOrder
<1>2. cards' \in Seq(S \union {card}) /\ DOMAIN cards' = DOMAIN cards
  BY <1>1
<1>3. \A j \in DOMAIN cards : cards'[j] = IF j = k THEN card ELSE cards[j]
  BY <1>1
<1>4. CardsInOrder'
  BY <1>2, <1>3 DEF CardInv, CardsInOrder
<1>. QED
  BY <1>2, <1>3, <1>4

LEMMA CardStep == ASSUME CardInv, StreakInv, UNCHANGED realUses, TopicNext PROVE CardInv'
<1>0. \A k \in DOMAIN cards : DOMAIN cards[k] = CardFields
  BY DEF CardInv, CardsInOrder
<1>1. ASSUME NEW g, InsertCard(g) PROVE CardInv'
  <2>1. PICK S : cards \in Seq(S)
    BY DEF CardInv, CardsInOrder
  <2>2. PICK card : card = [day |-> gen[g].day, title |-> Head(gen[g].todo).title,
                            blocks |-> Head(gen[g].todo).blocks,
                            checked |-> FALSE, dismissed |-> FALSE, live |-> TRUE]
    OBVIOUS
  <2>3. DOMAIN card = CardFields
    BY <2>2 DEF CardFields
  <2>4. cards' = Append(cards, card) /\ UNCHANGED visit
    BY <1>1, <2>2 DEF InsertCard
  <2>5. /\ cards' \in Seq(S \union {card}) /\ DOMAIN cards' = DOMAIN cards \union {Len(cards) + 1}
        /\ cards'[Len(cards) + 1] = card /\ \A k \in DOMAIN cards : cards'[k] = cards[k]
    BY <2>1, <2>4
  <2>6. CardsInOrder'
    BY <1>0, <2>3, <2>5 DEF CardsInOrder
  <2>. QED
    BY <2>4, <2>5, <2>6, CardsKept
<1>2. ASSUME NEW v \in Visits, NEW k \in DOMAIN cards, NEW used, MarkCheckedIn(v, k, used) PROVE CardInv'
  <2>1. PICK card : card = [cards[k] EXCEPT !.checked = TRUE]
    OBVIOUS
  <2>2. DOMAIN card = CardFields /\ card.blocks = cards[k].blocks /\ card.checked
    BY <1>0, <2>1 DEF CardFields
  <2>3. PICK r : r = [pc |-> "insert", card |-> k, at |-> now, used |-> used, st |-> NoStreak]
    OBVIOUS
  <2>4. cards' = [cards EXCEPT ![k] = card] /\ visit' = [visit EXCEPT ![v] = r] /\ r.card = k
    BY <1>2, <2>1, <2>3 DEF MarkCheckedIn, StampCheckedIn
  <2>5. /\ CardsInOrder' /\ DOMAIN cards' = DOMAIN cards
        /\ \A j \in DOMAIN cards : cards'[j] = IF j = k THEN card ELSE cards[j]
    BY <2>2, <2>4, CardStamped
  <2>6. \A x \in Visits : visit'[x] = IF x = v THEN r ELSE visit[x]
    BY <2>4 DEF StreakInv
  <2>7. \A j \in DOMAIN cards : cards'[j].blocks = cards[j].blocks /\ (cards[j].checked => cards'[j].checked)
    BY <2>2, <2>5
  <2>8. ASSUME NEW x \in Visits, visit'[x] # None
        PROVE  \/ visit[x] # None /\ visit'[x].card = visit[x].card
               \/ visit'[x].card \in DOMAIN cards' /\ cards'[visit'[x].card].checked
    BY <2>2, <2>4, <2>5, <2>6, <2>8
  <2>. QED
    BY <2>5, <2>7, <2>8, CardsKept
<1>3. ASSUME NEW k \in DOMAIN cards, Dismiss(k) PROVE CardInv'
  <2>1. PICK card : card = [cards[k] EXCEPT !.dismissed = TRUE]
    OBVIOUS
  <2>2. DOMAIN card = CardFields /\ card.blocks = cards[k].blocks /\ card.checked = cards[k].checked
    BY <1>0, <2>1 DEF CardFields
  <2>3. cards' = [cards EXCEPT ![k] = card] /\ UNCHANGED visit
    BY <1>3, <2>1 DEF Dismiss, MarkDismissed
  <2>4. /\ CardsInOrder' /\ DOMAIN cards' = DOMAIN cards
        /\ \A j \in DOMAIN cards : cards'[j] = IF j = k THEN card ELSE cards[j]
    BY <2>2, <2>3, CardStamped
  <2>5. \A j \in DOMAIN cards : cards'[j].blocks = cards[j].blocks /\ (cards[j].checked => cards'[j].checked)
    BY <2>2, <2>4
  <2>. QED
    BY <2>3, <2>4, <2>5, CardsKept
<1>4. ASSUME NEW live, NEW too, SetLive(live, too) PROVE CardInv'
  <2>1. PICK S : cards \in Seq(S)
    BY DEF CardInv, CardsInOrder
  <2>2. PICK new : new = [k \in DOMAIN cards |-> [cards[k] EXCEPT !.live = live]]
    OBVIOUS
  <2>3. cards' = new /\ UNCHANGED visit
    BY <1>4, <2>2 DEF SetLive
  <2>4. \A k \in DOMAIN cards : /\ DOMAIN new[k] = CardFields /\ new[k].blocks = cards[k].blocks
                                /\ new[k].checked = cards[k].checked
    BY <1>0, <2>2 DEF CardFields
  <2>5. new \in Seq({new[k] : k \in DOMAIN cards}) /\ DOMAIN new = DOMAIN cards
    BY <2>1, <2>2
  <2>6. CardsInOrder'
    BY <2>3, <2>4, <2>5 DEF CardsInOrder
  <2>7. \A k \in DOMAIN cards : cards'[k].blocks = cards[k].blocks /\ (cards[k].checked => cards'[k].checked)
    BY <2>3, <2>4
  <2>. QED
    BY <2>3, <2>5, <2>6, <2>7, CardsKept
<1>5. ASSUME NEW v \in Visits, InsertCheckin(v) \/ GetStreak(v) \/ UpsertStreak(v) \/ CheckinFails(v)
      PROVE  CardInv'
  <2>1. UNCHANGED cards /\ visit[v] # None /\ DOMAIN visit[v] = VisitFields
    BY <1>5 DEF InsertCheckin, GetStreak, UpsertStreak, CheckinFails, StreakInv, VisitInOrder
  <2>2. PICK a : a = [visit[v] EXCEPT !.pc = "credit"]
    OBVIOUS
  <2>3. PICK b : b = [visit[v] EXCEPT !.pc = "upsert", !.st = streak]
    OBVIOUS
  <2>4. a.card = visit[v].card /\ b.card = visit[v].card
    BY <2>1, <2>2, <2>3 DEF VisitFields
  <2>5. \/ visit' = [visit EXCEPT ![v] = None]
        \/ visit' = [visit EXCEPT ![v] = a]
        \/ visit' = [visit EXCEPT ![v] = b]
    BY <1>5, <2>2, <2>3 DEF InsertCheckin, GetStreak, UpsertStreak, CheckinFails, Proceed, Leave, StreakInv
  <2>. QED
    BY <2>1, <2>4, <2>5, VisitKeepsCard
<1>6. ASSUME \/ \E p \in Processes : RunIfDue(p, Snapshot) \/ ProcessRestarts(p)
             \/ \E r \in Requests : ListToday(r, Snapshot)
             \/ \E g \in Generators : (\E proposals : Answer(g, proposals)) \/ Abandon(g) \/ InsertFails(g)
      PROVE  CardInv'
  <2>1. UNCHANGED <<cards, visit>>
    BY <1>6, Zenon DEF RunIfDue, ProcessRestarts, ListToday, Answer, Abandon, InsertFails
  <2>. QED
    BY <2>1, CardsStay
<1>. QED
  BY <1>1, <1>2, <1>3, <1>4, <1>5, <1>6, Zenon DEF TopicNext, SoftDeleteTopics, RestoreTopics

\* A report under way is of a badge that was shown.
EmitInOrder(r) ==
    r # None => /\ DOMAIN r = EmitFields /\ r.turn \in Turns /\ r.at \in Nat
                /\ r.pc = "record" => <<r.turn, r.block>> \in shown
EmitsInOrder == DOMAIN emit = Emits /\ \A e \in Emits : EmitInOrder(emit[e])

HitsAreBacked == \A t, i : <<"hit", t, i>> \in realUses => <<t, i>> \in shown /\ ~FirstReport(t, i)

Badges(i) == {t \in Turns : <<t, i>> \in shown}

BadgeInv == EmitsInOrder /\ HitsAreBacked /\ RecordedWasShown /\ \A i \in Ids : IsFiniteSet(Badges(i))

LEMMA EmitStep ==
    ASSUME BadgeInv, UNCHANGED <<uses, realUses>>, shown \subseteq shown', \A i \in Ids : IsFiniteSet(Badges(i)'),
           DOMAIN emit' = Emits, \A e \in Emits : emit'[e] = emit[e] \/ EmitInOrder(emit[e])'
    PROVE  BadgeInv'
<1>1. EmitsInOrder'
  BY DEF BadgeInv, EmitsInOrder, EmitInOrder
<1>2. HitsAreBacked' /\ RecordedWasShown'
  BY DEF BadgeInv, HitsAreBacked, RecordedWasShown, FirstReport
<1>. QED
  BY <1>1, <1>2 DEF BadgeInv

LEMMA BadgesStay == ASSUME UNCHANGED shown PROVE \A i : Badges(i)' = Badges(i)
BY DEF Badges

\* One goroutine moves on and the client sees no more than before.
LEMMA OneEmits ==
    ASSUME BadgeInv, UNCHANGED <<shown, uses, realUses>>, NEW e \in Emits, NEW r,
           emit' = [emit EXCEPT ![e] = r],
           r = None \/ (DOMAIN r = EmitFields /\ r.turn \in Turns /\ r.at \in Nat /\ r.pc # "record")
    PROVE  BadgeInv'
<1>1. DOMAIN emit' = Emits /\ \A x \in Emits : emit'[x] = IF x = e THEN r ELSE emit[x]
  BY DEF BadgeInv, EmitsInOrder
<1>2. EmitInOrder(r)'
  BY DEF EmitInOrder
<1>3. \A i \in Ids : IsFiniteSet(Badges(i)')
  BY BadgesStay DEF BadgeInv
<1>4. \A x \in Emits : emit'[x] = emit[x] \/ EmitInOrder(emit[x])'
  BY <1>1, <1>2 DEF EmitInOrder
<1>. QED
  BY <1>1, <1>3, <1>4, EmitStep

LEMMA BadgeStep == ASSUME ClockInv, BadgeInv, UNCHANGED realUses, BadgeNext PROVE BadgeInv'
<1>1. ASSUME NEW e \in Emits, NEW turn \in Turns, NEW text, Emit(e, turn, text) PROVE BadgeInv'
  <2>1. PICK r : r = [pc |-> "detect", turn |-> turn, text |-> text, block |-> None, at |-> now]
    OBVIOUS
  <2>2. DOMAIN r = EmitFields /\ r.turn \in Turns /\ r.pc = "detect" /\ r.at \in Nat
    BY <2>1 DEF EmitFields, ClockInv
  <2>3. emit' = [emit EXCEPT ![e] = r] /\ UNCHANGED <<shown, uses>>
    BY <1>1, <2>1 DEF Emit
  <2>. QED
    BY <2>2, <2>3, OneEmits
<1>2. ASSUME NEW e \in Emits, NEW listed, Detect(e, listed) PROVE BadgeInv'
  <2>1. PICK block : block = Detected(emit[e].text, listed)
    OBVIOUS
  <2>2. emit[e] # None /\ DOMAIN emit[e] = EmitFields /\ emit[e].turn \in Turns /\ emit[e].at \in Nat
    BY <1>2 DEF Detect, BadgeInv, EmitsInOrder, EmitInOrder
  <2>3. PICK r : r = [emit[e] EXCEPT !.pc = "write", !.block = block]
    OBVIOUS
  <2>4. DOMAIN r = EmitFields /\ r.turn = emit[e].turn /\ r.pc = "write" /\ r.at \in Nat
    BY <2>2, <2>3 DEF EmitFields
  <2>5. UNCHANGED <<shown, uses>> /\ (emit' = [emit EXCEPT ![e] = None] \/ emit' = [emit EXCEPT ![e] = r])
    BY <1>2, <2>1, <2>3 DEF Detect, EmitEnds, BadgeInv, EmitsInOrder
  <2>. QED
    BY <2>2, <2>4, <2>5, OneEmits
<1>3. ASSUME NEW e \in Emits, EmitFails(e) PROVE BadgeInv'
  BY <1>3, OneEmits DEF EmitFails, EmitEnds
<1>4. ASSUME GatewayRestarts PROVE BadgeInv'
  <2>1. DOMAIN emit' = Emits /\ (\A e \in Emits : emit'[e] = None) /\ UNCHANGED <<shown, uses>>
    BY <1>4 DEF GatewayRestarts
  <2>2. \A e \in Emits : EmitInOrder(emit[e])'
    BY <2>1 DEF EmitInOrder
  <2>. QED
    BY <2>1, <2>2, BadgesStay, EmitStep DEF BadgeInv
<1>5. ASSUME NEW e \in Emits, WriteBadge(e) PROVE BadgeInv'
  <2>1. emit[e] # None /\ DOMAIN emit[e] = EmitFields /\ emit[e].turn \in Turns
    BY <1>5 DEF WriteBadge, BadgeInv, EmitsInOrder, EmitInOrder
  <2>2. PICK t, b : t = emit[e].turn /\ b = emit[e].block
    OBVIOUS
  <2>3. PICK r : r = [emit[e] EXCEPT !.pc = "record", !.at = now]
    OBVIOUS
  <2>4. DOMAIN r = EmitFields /\ r.turn = t /\ r.block = b /\ r.at \in Nat
    BY <2>1, <2>2, <2>3 DEF EmitFields, ClockInv
  <2>5. shown' = shown \union {<<t, b>>} /\ UNCHANGED uses /\ emit' = [emit EXCEPT ![e] = r]
    BY <1>5, <2>2, <2>3 DEF WriteBadge, BadgeInv, EmitsInOrder
  <2>6. DOMAIN emit' = Emits /\ \A x \in Emits : emit'[x] = IF x = e THEN r ELSE emit[x]
    BY <2>5 DEF BadgeInv, EmitsInOrder
  <2>7. EmitInOrder(r)'
    BY <2>1, <2>2, <2>4, <2>5 DEF EmitInOrder
  <2>8. ASSUME NEW i \in Ids PROVE IsFiniteSet(Badges(i)')
    <3>1. IsFiniteSet(Badges(i) \union {t})
      BY FS_AddElement DEF BadgeInv
    <3>2. Badges(i)' \subseteq Badges(i) \union {t}
      BY <2>5 DEF Badges
    <3>. QED
      BY <3>1, <3>2, FS_Subset
  <2>9. \A x \in Emits : emit'[x] = emit[x] \/ EmitInOrder(emit[x])'
    BY <2>6, <2>7 DEF EmitInOrder
  <2>. QED
    BY <2>5, <2>6, <2>8, <2>9, EmitStep
<1>. QED
  BY <1>1, <1>2, <1>3, <1>4, <1>5 DEF BadgeNext

LEMMA BadgeStays == ASSUME BadgeInv, UNCHANGED <<emit, shown, uses, realUses>> PROVE BadgeInv'
BY BadgesStay, EmitStep DEF BadgeInv, EmitsInOrder

\* One use more for a block that has one credit more.
LEMMA CreditStep ==
    ASSUME RowsBacked, NEW fresh, NEW at \in Nat, row' = Credited(fresh, at), \A i \in fresh : Writable(Me, i),
           \A i \in Ids : /\ IsFiniteSet(Hits(i)') /\ IsFiniteSet(Checks(i)')
                          /\ Credits(i)' = IF i \in fresh THEN Credits(i) + 1 ELSE Credits(i)
    PROVE  RowsBacked'
<1>1. DOMAIN row' = Ids
  BY DEF Credited
<1>2. ASSUME NEW i \in Ids
      PROVE  row'[i] # None =>
                DOMAIN row'[i] = RowFields /\ row'[i].used \in 0 .. Credits(i)' /\ row'[i].at \in Nat
  <2>1. CASE i \in fresh
    <3>1. row[i] # None /\ DOMAIN row[i] = RowFields /\ row[i].used \in 0 .. Credits(i) /\ Writable(Me, i)
      BY <2>1, OwnRow DEF RowsBacked
    <3>2. PICK r : r = [row[i] EXCEPT !.used = row[i].used + 1, !.at = at]
      OBVIOUS
    <3>3. row'[i] = r
      BY <2>1, <3>1, <3>2 DEF Credited
    <3>4. DOMAIN r = RowFields /\ r.used = row[i].used + 1 /\ r.at \in Nat
      BY <3>1, <3>2 DEF RowFields
    <3>5. Credits(i) \in Nat /\ Credits(i)' = Credits(i) + 1
      BY <2>1, CreditsAreNat
    <3>. QED
      BY <3>1, <3>3, <3>4, <3>5
  <2>2. CASE i \notin fresh
    <3>1. row'[i] = row[i] /\ Credits(i)' = Credits(i)
      BY <2>2 DEF Credited
    <3>. QED
      BY <3>1 DEF RowsBacked
  <2>. QED
    BY <2>1, <2>2
<1>3. ASSUME NEW i \in Ids
      PROVE  /\ (IsFiniteSet(Hits(i)) /\ IsFiniteSet(Checks(i)))'
             /\ (row[i] # None => DOMAIN row[i] = RowFields /\ row[i].used \in 0 .. Credits(i) /\ row[i].at \in Nat)'
  BY <1>2
<1>. QED
  BY <1>1, <1>3 DEF RowsBacked

LEMMA CallsStay == ASSUME CallsInOrder, UNCHANGED call PROVE CallsInOrder'
BY DEF CallsInOrder

\* The credit of a check-in.
LEMMA CheckinCreditStep ==
    ASSUME ClockInv, ShelfInv, CardInv, BadgeInv, StreakInv, NEW v \in Visits, CreditCheckin(v)
    PROVE  ShelfInv' /\ CardInv' /\ BadgeInv'
<1>1. PICK q : q = visit[v]
  OBVIOUS
<1>2. /\ q # None /\ q.pc = "credit" /\ DOMAIN q = VisitFields
      /\ UNCHANGED <<call, cards, emit, shown, uses>> /\ Proceed(v, "streak")
  BY <1>1 DEF CreditCheckin, badgeVars, StreakInv, VisitInOrder
<1>3. PICK k : k = q.card
  OBVIOUS
<1>4. k \in DOMAIN cards /\ cards[k].checked /\ k \in Nat
  <2>1. k \in DOMAIN cards /\ cards[k].checked
    BY <1>1, <1>2, <1>3 DEF CardInv, VisitsAreChecked
  <2>2. PICK S : cards \in Seq(S)
    BY DEF CardInv, CardsInOrder
  <2>. QED
    BY <2>1, <2>2
<1>5. PICK fresh : fresh = {i \in Offered(v) : Writable(Me, i) /\ <<"checkin", k, i>> \notin realUses}
  OBVIOUS
<1>6. \A i \in fresh : /\ i \in Ids /\ Writable(Me, i) /\ i \in cards[k].blocks
                       /\ <<"checkin", k, i>> \notin realUses
  BY <1>1, <1>3, <1>5, OwnRow DEF Offered, ShelfInv
<1>7. PICK r : r = [q EXCEPT !.pc = "streak"]
  OBVIOUS
<1>8. visit' = [visit EXCEPT ![v] = r] /\ r.card = k
  BY <1>1, <1>2, <1>3, <1>7 DEF Proceed, StreakInv, VisitFields
<1>9. CASE CreditTooLong(fresh)
  <2>1. UNCHANGED <<row, realUses>>
    BY <1>1, <1>3, <1>5, <1>9 DEF CreditCheckin, NoWrite
  <2>2. ShelfInv'
    BY <1>2, <2>1, ShelfStays
  <2>3. CardInv'
    BY <1>1, <1>2, <1>3, <1>8, <2>1, VisitKeepsCard
  <2>. QED
    BY <1>2, <2>1, <2>2, <2>3, BadgeStays
<1>10. CASE ~CreditTooLong(fresh)
  <2>1. realUses' = realUses \union {<<"checkin", k, i>> : i \in fresh} /\ row' = Credited(fresh, now)
    BY <1>1, <1>3, <1>5, <1>10 DEF CreditCheckin, Write
  <2>2. \A n, i : <<"checkin", n, i>> \in realUses' <=> <<"checkin", n, i>> \in realUses \/ (n = k /\ i \in fresh)
    BY <2>1
  <2>3. \A t, i : <<"hit", t, i>> \in realUses' <=> <<"hit", t, i>> \in realUses
    BY <2>1
  <2>4. ASSUME NEW i \in Ids
        PROVE  /\ IsFiniteSet(Hits(i)') /\ IsFiniteSet(Checks(i)')
               /\ Credits(i)' = IF i \in fresh THEN Credits(i) + 1 ELSE Credits(i)
    <3>1. Hits(i)' = Hits(i)
      BY <2>3 DEF Hits
    <3>2. IsFiniteSet(Hits(i)) /\ IsFiniteSet(Checks(i)) /\ Cardinality(Hits(i)) \in Nat /\ Cardinality(Checks(i)) \in Nat
      BY FS_CardinalityType DEF ShelfInv, RowsBacked
    <3>3. CASE i \in fresh
      <4>1. Checks(i)' = Checks(i) \union {k} /\ k \notin Checks(i)
        BY <1>4, <1>6, <2>2, <3>3 DEF Checks
      <4>2. IsFiniteSet(Checks(i)') /\ Cardinality(Checks(i)') = Cardinality(Checks(i)) + 1
        BY <3>2, <4>1, FS_AddElement
      <4>. QED
        BY <3>1, <3>2, <3>3, <4>2 DEF Credits
    <3>4. CASE i \notin fresh
      <4>1. Checks(i)' = Checks(i)
        BY <2>2, <3>4 DEF Checks
      <4>. QED
        BY <3>1, <3>2, <3>4, <4>1 DEF Credits
    <3>. QED
      BY <3>3, <3>4
  <2>5. RowsBacked'
    BY <1>6, <2>1, <2>4, CreditStep DEF ShelfInv, ClockInv
  <2>6. ShelfInv'
    BY <1>2, <2>5, CallsStay DEF ShelfInv
  <2>7. ChecksAreBacked'
    BY <1>2, <1>4, <1>6, <2>2 DEF ChecksAreBacked, CardInv
  <2>8. \A x \in Visits : visit'[x] = IF x = v THEN r ELSE visit[x]
    BY <1>8 DEF StreakInv
  <2>9. VisitsAreChecked'
    BY <1>2, <1>4, <1>8, <2>8 DEF VisitsAreChecked, CardInv
  <2>10. CardInv'
    BY <1>2, <2>7, <2>9 DEF CardInv, CardsInOrder
  <2>11. EmitsInOrder' /\ RecordedWasShown' /\ HitsAreBacked'
    BY <1>2, <2>3 DEF BadgeInv, EmitsInOrder, EmitInOrder, RecordedWasShown, HitsAreBacked, FirstReport
  <2>12. \A i \in Ids : IsFiniteSet(Badges(i)')
    BY <1>2, BadgesStay DEF BadgeInv
  <2>. QED
    BY <2>6, <2>10, <2>11, <2>12 DEF BadgeInv
<1>. QED
  BY <1>9, <1>10

\* The credit of a report.
LEMMA HitCreditStep ==
    ASSUME ShelfInv, CardInv, BadgeInv, NEW e \in Emits, CreditHit(e)
    PROVE  ShelfInv' /\ CardInv' /\ BadgeInv'
<1>1. PICK t, b : t = emit[e].turn /\ b = emit[e].block
  OBVIOUS
<1>2. /\ emit[e] # None /\ emit[e].pc = "record" /\ t \in Turns /\ emit[e].at \in Nat /\ <<t, b>> \in shown
      /\ UNCHANGED <<call, cards, visit, shown>> /\ emit' = [emit EXCEPT ![e] = None]
  BY <1>1 DEF CreditHit, EmitEnds, topicVars, BadgeInv, EmitsInOrder, EmitInOrder
<1>3. PICK fresh : fresh = {i \in {b} : FirstReport(t, i) /\ Writable(Me, i)}
  OBVIOUS
<1>4. \A i \in fresh : i = b /\ i \in Ids /\ Writable(Me, i) /\ FirstReport(t, i)
  BY <1>3, OwnRow DEF ShelfInv
<1>5. CASE CreditTooLong(fresh)
  <2>1. UNCHANGED <<row, uses, realUses>>
    BY <1>1, <1>3, <1>5 DEF CreditHit, NoWrite
  <2>. QED
    BY <1>2, <2>1, ShelfStays, CardsStay, OneEmits
<1>6. CASE ~CreditTooLong(fresh)
  <2>1. /\ uses' = uses \union {[turn |-> t, block |-> b]} /\ row' = Credited(fresh, emit[e].at)
        /\ realUses' = realUses \union {<<"hit", t, i>> : i \in fresh}
    BY <1>1, <1>3, <1>6 DEF CreditHit, Write
  <2>2. \A s, i : <<"hit", s, i>> \in realUses' <=> <<"hit", s, i>> \in realUses \/ (s = t /\ i \in fresh)
    BY <2>1
  <2>3. \A k, i : <<"checkin", k, i>> \in realUses' <=> <<"checkin", k, i>> \in realUses
    BY <2>1
  <2>4. ASSUME NEW i \in Ids
        PROVE  /\ IsFiniteSet(Hits(i)') /\ IsFiniteSet(Checks(i)')
               /\ Credits(i)' = IF i \in fresh THEN Credits(i) + 1 ELSE Credits(i)
    <3>1. Checks(i)' = Checks(i)
      BY <2>3 DEF Checks
    <3>2. IsFiniteSet(Hits(i)) /\ IsFiniteSet(Checks(i)) /\ Cardinality(Hits(i)) \in Nat /\ Cardinality(Checks(i)) \in Nat
      BY FS_CardinalityType DEF ShelfInv, RowsBacked
    <3>3. CASE i \in fresh
      <4>1. Hits(i)' = Hits(i) \union {t} /\ t \notin Hits(i)
        BY <1>2, <1>4, <2>2, <3>3 DEF Hits, BadgeInv, HitsAreBacked
      <4>2. IsFiniteSet(Hits(i)') /\ Cardinality(Hits(i)') = Cardinality(Hits(i)) + 1
        BY <3>2, <4>1, FS_AddElement
      <4>. QED
        BY <3>1, <3>2, <3>3, <4>2 DEF Credits
    <3>4. CASE i \notin fresh
      <4>1. Hits(i)' = Hits(i)
        BY <2>2, <3>4 DEF Hits
      <4>. QED
        BY <3>1, <3>2, <3>4, <4>1 DEF Credits
    <3>. QED
      BY <3>3, <3>4
  <2>5. RowsBacked'
    BY <1>2, <1>4, <2>1, <2>4, CreditStep DEF ShelfInv
  <2>6. ShelfInv'
    BY <1>2, <2>5, CallsStay DEF ShelfInv
  <2>7. ChecksAreBacked'
    BY <1>2, <2>3 DEF ChecksAreBacked, CardInv
  <2>8. CardInv'
    BY <1>2, <2>7 DEF CardInv, CardsInOrder, VisitsAreChecked
  <2>9. PICK new : new = [turn |-> t, block |-> b]
    OBVIOUS
  <2>10. new.turn = t /\ new.block = b /\ uses' = uses \union {new}
    BY <2>1, <2>9
  <2>11. RecordedWasShown'
    BY <1>2, <2>10 DEF BadgeInv, RecordedWasShown
  <2>12. HitsAreBacked'
    <3> SUFFICES ASSUME NEW s, NEW i, <<"hit", s, i>> \in realUses'
                 PROVE  <<s, i>> \in shown' /\ \E u \in uses' : u.turn = s /\ u.block = i
      BY DEF HitsAreBacked, FirstReport
    <3>1. CASE <<"hit", s, i>> \in realUses
      BY <1>2, <2>10, <3>1 DEF BadgeInv, HitsAreBacked, FirstReport
    <3>2. CASE s = t /\ i \in fresh
      BY <1>2, <1>4, <2>10, <3>2
    <3>. QED
      BY <2>2, <3>1, <3>2
  <2>13. EmitsInOrder'
    BY <1>2 DEF BadgeInv, EmitsInOrder, EmitInOrder
  <2>14. \A i \in Ids : IsFiniteSet(Badges(i)')
    BY <1>2, BadgesStay DEF BadgeInv
  <2>. QED
    BY <2>6, <2>8, <2>11, <2>12, <2>13, <2>14 DEF BadgeInv
<1>. QED
  BY <1>5, <1>6

EvidenceInv == ShelfInv /\ CardInv /\ BadgeInv

LEMMA EvidenceInvInit == Init => EvidenceInv
<1> SUFFICES ASSUME Init PROVE EvidenceInv
  OBVIOUS
<1>1. realUses = {} /\ cards = <<>> /\ visit = [v \in Visits |-> None] /\ shown = {} /\ uses = {}
  BY DEF Init, TopicInit, BadgeInit
<1>2. ASSUME NEW i PROVE Hits(i) = {} /\ Checks(i) = {} /\ Badges(i) = {} /\ Credits(i) = 0
  <2>1. Hits(i) = {} /\ Checks(i) = {} /\ Badges(i) = {}
    BY <1>1 DEF Hits, Checks, Badges
  <2>. QED
    BY <2>1, FS_EmptySet DEF Credits
<1>3. DOMAIN row = Ids /\ \A i \in Ids : row[i] # None => DOMAIN row[i] = RowFields /\ row[i].used = 0 /\ row[i].at = 0
  <2>1. PICK scene \in Scenes, spelling \in Spellings, session \in Sessions :
          row = [i \in Ids |-> IF i \in FirstBlocks
                               THEN newAcceptedBlock(Me, session, <<FirstWords[i], spelling>>, scene, 0)
                               ELSE None]
    BY DEF Init, ShelfInit
  <2>. QED
    BY <2>1 DEF newAcceptedBlock, RowFields
<1>4. RowsBacked
  BY <1>2, <1>3, FS_EmptySet DEF RowsBacked
<1>5. CallsInOrder
  BY DEF Init, ShelfInit, CallsInOrder, CallInOrder
<1>6. CardInv
  <2>1. cards \in Seq({})
    BY <1>1
  <2>. QED
    BY <1>1, <2>1 DEF CardInv, CardsInOrder, VisitsAreChecked, ChecksAreBacked
<1>7. EmitsInOrder
  BY DEF Init, BadgeInit, EmitsInOrder, EmitInOrder
<1>8. HitsAreBacked /\ RecordedWasShown
  BY <1>1 DEF HitsAreBacked, RecordedWasShown
<1>. QED
  BY <1>2, <1>4, <1>5, <1>6, <1>7, <1>8, FS_EmptySet DEF EvidenceInv, ShelfInv, BadgeInv

LEMMA EvidenceInvNext == EvidenceInv /\ StreakInv /\ ClockInv /\ [Next]_vars => EvidenceInv'
<1> SUFFICES ASSUME EvidenceInv, StreakInv, ClockInv, [Next]_vars PROVE EvidenceInv'
  OBVIOUS
<1>1. \/ ShelfNext /\ UNCHANGED <<topicVars, badgeVars, realUses>>
      \/ TopicNext /\ UNCHANGED <<shelfVars, badgeVars, realUses>>
      \/ BadgeNext /\ UNCHANGED <<shelfVars, topicVars, realUses>>
      \/ \E v \in Visits : CreditCheckin(v)
      \/ \E e \in Emits : CreditHit(e)
      \/ UNCHANGED <<shelfVars, topicVars, badgeVars, realUses>>
  BY Zenon DEF Next, vars
<1>2. CASE ShelfNext /\ UNCHANGED <<topicVars, badgeVars, realUses>>
  BY <1>2, ShelfStep, CardsStay, BadgeStays DEF EvidenceInv, topicVars, badgeVars
<1>3. CASE TopicNext /\ UNCHANGED <<shelfVars, badgeVars, realUses>>
  BY <1>3, CardStep, ShelfStays, BadgeStays DEF EvidenceInv, shelfVars, badgeVars
<1>4. CASE BadgeNext /\ UNCHANGED <<shelfVars, topicVars, realUses>>
  BY <1>4, BadgeStep, ShelfStays, CardsStay DEF EvidenceInv, shelfVars, topicVars
<1>5. CASE UNCHANGED <<shelfVars, topicVars, badgeVars, realUses>>
  BY <1>5, ShelfStays, CardsStay, BadgeStays DEF EvidenceInv, shelfVars, topicVars, badgeVars
<1>. QED
  BY <1>1, <1>2, <1>3, <1>4, <1>5, CheckinCreditStep, HitCreditStep DEF EvidenceInv

\* What the ledger credits was shown or checked in.
LEMMA CreditsAreEvidence == EvidenceInv => UsesAreEvidenced
<1> SUFFICES ASSUME EvidenceInv, NEW i \in Owned(Me)
             PROVE  row[i].used <= Cardinality({t \in Turns : <<t, i>> \in shown})
                                   + Cardinality({k \in DOMAIN cards : cards[k].checked /\ i \in cards[k].blocks})
  BY DEF UsesAreEvidenced
<1> DEFINE offers == {k \in DOMAIN cards : cards[k].checked /\ i \in cards[k].blocks}
<1>1. /\ i \in Ids /\ row[i].used \in 0 .. Credits(i) /\ IsFiniteSet(Hits(i)) /\ IsFiniteSet(Checks(i))
      /\ IsFiniteSet(Badges(i))
  BY DEF Owned, EvidenceInv, ShelfInv, RowsBacked, BadgeInv
<1>2. Hits(i) \subseteq Badges(i) /\ Checks(i) \subseteq offers
  BY DEF EvidenceInv, BadgeInv, HitsAreBacked, CardInv, ChecksAreBacked, Hits, Badges, Checks
<1>3. IsFiniteSet(offers)
  <2>1. PICK S : cards \in Seq(S)
    BY DEF EvidenceInv, CardInv, CardsInOrder
  <2>2. DOMAIN cards = 1 .. Len(cards) /\ Len(cards) \in Nat
    BY <2>1
  <2>3. IsFiniteSet(DOMAIN cards)
    BY <2>2, FS_Interval
  <2>. QED
    BY <2>3, FS_Subset
<1>4. Cardinality(Hits(i)) <= Cardinality(Badges(i)) /\ Cardinality(Checks(i)) <= Cardinality(offers)
  BY <1>1, <1>2, <1>3, FS_Subset
<1> HIDE DEF offers
<1>5. row[i].used <= Cardinality(Badges(i)) + Cardinality(offers)
  BY <1>1, <1>3, <1>4, FS_CardinalityType DEF Credits
<1>. QED
  BY <1>5 DEF Badges, offers

\* Every use counted for a block is a turn of which the learner saw the badge, or the check-in of a
\* card that offered the block, for any number of turns, cards, requests and reports, whatever is
\* repeated, late, lost, reworded, deleted, restored or merged meanwhile (RecordHits and
\* RecordRealUses, of either store).
THEOREM UsesHaveEvidence == Spec => []UsesAreEvidenced
BY EvidenceInvInit, EvidenceInvNext, StreakInvInit, StreakInvNext, ClockInvInit, ClockInvNext,
   CreditsAreEvidence, PTL DEF Spec

\* No use is in the ledger whose badge did not reach the client first: the badge is written before the
\* report leaves (badge_emitter.go, doEmit).
THEOREM RecordedAfterShown == Spec => []RecordedWasShown
<1>1. EvidenceInv => RecordedWasShown
  BY DEF EvidenceInv, BadgeInv
<1>. QED
  BY <1>1, EvidenceInvInit, EvidenceInvNext, StreakInvInit, StreakInvNext, ClockInvInit, ClockInvNext,
     PTL DEF Spec

-----------------------------------------------------------------------------
(* The audio of the synthesiser *)

SayFields == {"pc", "text", "voice", "attempt", "body", "chunks", "pending", "gone"}

\* What a vendor sends: pieces of sentences, and the marks that end a reply.
Events == {e \in Sentences \X Nat : e[2] \in 1 .. PiecesOf[e[1]]} \union {<<"audio.done", 0>>, <<"done", 0>>}

\* Between two marks there are pieces of one sentence, each the next of the one before it.
Piecewise(q) ==
    /\ q \in Seq(Events)
    /\ \A i \in 1 .. Len(q) - 1 : IsAudio(q[i]) /\ IsAudio(q[i + 1]) => q[i + 1] = <<q[i][1], q[i][2] + 1>>

Ended(q) == q # <<>> => ~IsAudio(q[Len(q)])

\* An unbroken stretch of one sentence.
Stretch(h) ==
    /\ h \in Seq(Events)
    /\ h # <<>> => \E t \in Sentences : \E i \in 0 .. PiecesOf[t] :
                      i + Len(h) <= PiecesOf[t] /\ \A k \in 1 .. Len(h) : h[k] = <<t, i + k>>

Continues(h, q) ==
    h # <<>> /\ q # <<>> /\ IsAudio(q[1]) => q[1] = <<h[Len(h)][1], h[Len(h)][2] + 1>>

Held(r) == r.chunks \o r.pending

LinkInOrder(link) ==
    DOMAIN link = {"up", "events"} /\ Piecewise(link.events) /\ (link.up => Ended(link.events))

DuplexInOrder == duplex # None => LinkInOrder(duplex)

\* A request that reads has an unbroken stretch in hand that its source continues; the duplex
\* connection is read by the request that holds its lock.
SayInOrder(s, r, holder, link) ==
    r # None =>
        /\ DOMAIN r = SayFields /\ r.text \in Sentences /\ r.pc \in {"post", "lock", "stream", "read"}
        /\ r.chunks \in Seq(Events) /\ r.pending \in Seq(Events)
        /\ r.pc \in {"post", "lock"} => r.chunks = <<>> /\ r.pending = <<>>
        /\ Stretch(Held(r))
        /\ r.pc = "stream" => Piecewise(r.body) /\ Continues(Held(r), r.body)
        /\ r.pc = "read" => holder = s /\ LinkInOrder(link) /\ Continues(Held(r), link.events)

SpeechInv ==
    /\ DuplexInOrder
    /\ DOMAIN say = Speakers /\ \A s \in Speakers : SayInOrder(s, say[s], mu, duplex)
    /\ OneSentencePerAnswer

LEMMA EventParts ==
    /\ \A e \in Events : e[2] \in Nat
    /\ \A e \in Events : IsAudio(e) => e[1] \in Sentences /\ e = <<e[1], e[2]>> /\ e[2] \in 1 .. PiecesOf[e[1]]
    /\ \A t \in Sentences : PiecesOf[t] \in Nat /\ \A k \in 1 .. PiecesOf[t] : <<t, k>> \in Events /\ IsAudio(<<t, k>>)
    /\ {<<"audio.done", 0>>, <<"done", 0>>} \subseteq Events
    /\ ~IsAudio(<<"audio.done", 0>>) /\ ~IsAudio(<<"done", 0>>)
<1>1. \A t \in Sentences : PiecesOf[t] \in Nat
  BY SpeechAssumption
<1>2. \A t \in Sentences : \A k \in 1 .. PiecesOf[t] : <<t, k>> \in Events /\ IsAudio(<<t, k>>)
  BY <1>1 DEF Events, IsAudio
<1>. QED
  BY <1>1, <1>2 DEF Events, IsAudio

LEMMA PiecewiseTail ==
    ASSUME NEW q, Piecewise(q), q # <<>>
    PROVE  /\ Head(q) \in Events /\ Head(q) = q[1] /\ Tail(q) \in Seq(Events) /\ Piecewise(Tail(q))
           /\ Ended(q) => Ended(Tail(q))
<1>1. q \in Seq(Events) /\ Len(q) \in Nat /\ Len(q) >= 1
  BY DEF Piecewise
<1>2. Head(q) \in Events /\ Head(q) = q[1] /\ Tail(q) \in Seq(Events)
  BY <1>1
<1>3. Len(Tail(q)) = Len(q) - 1 /\ \A i \in 1 .. Len(q) - 1 : Tail(q)[i] = q[i + 1]
  BY <1>1
<1>4. Piecewise(Tail(q))
  BY <1>1, <1>2, <1>3 DEF Piecewise
<1>5. Ended(q) => Ended(Tail(q))
  <2> SUFFICES ASSUME Ended(q), Tail(q) # <<>> PROVE ~IsAudio(Tail(q)[Len(Tail(q))])
    BY DEF Ended
  <2>1. Len(q) - 1 \in 1 .. Len(q) - 1
    BY <1>1, <1>2, <1>3
  <2>2. Tail(q)[Len(Tail(q))] = q[Len(q)]
    BY <1>1, <1>3, <2>1
  <2>. QED
    BY <2>2 DEF Ended
<1>. QED
  BY <1>2, <1>4, <1>5

LEMMA PieceTaken ==
    ASSUME NEW h, NEW q, Stretch(h), Piecewise(q), q # <<>>, IsAudio(q[1]), Continues(h, q)
    PROVE  Stretch(h \o <<q[1]>>) /\ Continues(h \o <<q[1]>>, Tail(q))
<1> DEFINE e == q[1]
           g == h \o <<e>>
<1>1. h \in Seq(Events) /\ Len(h) \in Nat /\ q \in Seq(Events) /\ Len(q) \in Nat /\ Len(q) >= 1 /\ e \in Events
  BY DEF Stretch, Piecewise
<1>2. e[1] \in Sentences /\ e = <<e[1], e[2]>> /\ e[2] \in 1 .. PiecesOf[e[1]] /\ PiecesOf[e[1]] \in Nat
  BY <1>1, EventParts
<1>3. /\ g \in Seq(Events) /\ Len(g) = Len(h) + 1 /\ g[Len(g)] = e
      /\ \A k \in 1 .. Len(h) : g[k] = h[k]
  <2> HIDE DEF e
  <2>. QED
    BY <1>1
<1>4. Stretch(g)
  <2>1. CASE h = <<>>
    <3>1. Len(g) = 1 /\ g[1] = <<e[1], (e[2] - 1) + 1>> /\ e[2] - 1 \in 0 .. PiecesOf[e[1]]
      BY <1>2, <1>3, <2>1
    <3>2. (e[2] - 1) + Len(g) <= PiecesOf[e[1]] /\ \A k \in 1 .. Len(g) : g[k] = <<e[1], (e[2] - 1) + k>>
      <4> HIDE DEF e, g
      <4>. QED
        BY <1>2, <3>1
    <3>. QED
      BY <1>2, <1>3, <3>1, <3>2 DEF Stretch
  <2>2. CASE h # <<>>
    <3>1. PICK t \in Sentences : \E j \in 0 .. PiecesOf[t] :
             j + Len(h) <= PiecesOf[t] /\ \A k \in 1 .. Len(h) : h[k] = <<t, j + k>>
      BY <2>2 DEF Stretch
    <3>2. PICK i \in 0 .. PiecesOf[t] : i + Len(h) <= PiecesOf[t] /\ \A k \in 1 .. Len(h) : h[k] = <<t, i + k>>
      BY <3>1
    <3>3. Len(h) \in 1 .. Len(h) /\ i \in Nat /\ PiecesOf[t] \in Nat
      BY <1>1, <2>2, EventParts
    <3>4. h[Len(h)] = <<t, i + Len(h)>>
      BY <3>2, <3>3
    <3>5. e = <<h[Len(h)][1], h[Len(h)][2] + 1>>
      BY <2>2 DEF Continues
    <3>6. e = <<t, i + Len(h) + 1>> /\ e[1] = t /\ e[2] = i + Len(h) + 1
      BY <3>4, <3>5
    <3>7. i + Len(g) <= PiecesOf[t]
      BY <1>1, <1>2, <1>3, <3>3, <3>6
    <3>8. \A k \in 1 .. Len(g) : g[k] = <<t, i + k>>
      <4> SUFFICES ASSUME NEW k \in 1 .. Len(g) PROVE g[k] = <<t, i + k>>
        OBVIOUS
      <4>1. CASE k \in 1 .. Len(h)
        BY <1>3, <3>2, <4>1
      <4>2. CASE k = Len(g)
        BY <1>1, <1>3, <3>3, <3>6, <4>2
      <4>. QED
        BY <1>1, <1>3, <4>1, <4>2
    <3>. QED
      BY <1>3, <3>2, <3>7, <3>8 DEF Stretch
  <2>. QED
    BY <2>1, <2>2
<1>5. Continues(g, Tail(q))
  <2> SUFFICES ASSUME Tail(q) # <<>>, IsAudio(Tail(q)[1]) PROVE Tail(q)[1] = <<g[Len(g)][1], g[Len(g)][2] + 1>>
    BY DEF Continues
  <2>1. Len(q) >= 2 /\ Tail(q)[1] = q[2]
    BY <1>1
  <2>2. 1 \in 1 .. Len(q) - 1 /\ 1 + 1 = 2
    BY <1>1, <2>1
  <2>3. q[2] = <<q[1][1], q[1][2] + 1>>
    BY <2>1, <2>2 DEF Piecewise
  <2>. QED
    BY <1>3, <2>1, <2>3
<1>. QED
  BY <1>4, <1>5

LEMMA PiecesAreInOrder ==
    ASSUME NEW t \in Sentences
    PROVE  /\ Pieces(t) \in Seq(Events) /\ Len(Pieces(t)) = PiecesOf[t] /\ PiecesOf[t] \in Nat
           /\ \A k \in 1 .. PiecesOf[t] : Pieces(t)[k] = <<t, k>>
<1>1. PiecesOf[t] \in Nat /\ \A k \in 1 .. PiecesOf[t] : <<t, k>> \in Events
  BY EventParts
<1>. QED
  BY <1>1 DEF Pieces

\* A sequence that ends with a mark may be followed by any other.
LEMMA PiecewiseConcat ==
    ASSUME NEW p, NEW q, Piecewise(p), Piecewise(q), Ended(p) \/ (q # <<>> => ~IsAudio(q[1]))
    PROVE  Piecewise(p \o q) /\ (q # <<>> /\ Ended(q) => Ended(p \o q))
<1> DEFINE s == p \o q
<1>1. p \in Seq(Events) /\ q \in Seq(Events) /\ Len(p) \in Nat /\ Len(q) \in Nat
  BY DEF Piecewise
<1>2. /\ s \in Seq(Events) /\ Len(s) = Len(p) + Len(q)
      /\ \A i \in 1 .. Len(p) : s[i] = p[i]
      /\ \A i \in 1 .. Len(q) : s[Len(p) + i] = q[i]
  BY <1>1
<1> HIDE DEF s
<1>3. ASSUME NEW i \in 1 .. Len(s) - 1, IsAudio(s[i]), IsAudio(s[i + 1])
      PROVE  s[i + 1] = <<s[i][1], s[i][2] + 1>>
  <2>1. CASE i + 1 <= Len(p)
    <3>1. i \in 1 .. Len(p) - 1 /\ s[i] = p[i] /\ s[i + 1] = p[i + 1]
      BY <1>1, <1>2, <2>1
    <3>. QED
      BY <1>3, <3>1 DEF Piecewise
  <2>2. CASE i > Len(p)
    <3>1. PICK j \in Int : i = Len(p) + j
      <4>1. i - Len(p) \in Int /\ i = Len(p) + (i - Len(p))
        BY <1>1
      <4>. QED
        BY <4>1
    <3>2. j \in 1 .. Len(q) - 1 /\ j \in 1 .. Len(q) /\ j + 1 \in 1 .. Len(q) /\ i + 1 = Len(p) + (j + 1)
      BY <1>1, <1>2, <2>2, <3>1
    <3>3. s[i] = q[j] /\ s[i + 1] = q[j + 1]
      BY <1>2, <3>1, <3>2
    <3>. QED
      BY <1>3, <3>2, <3>3 DEF Piecewise
  <2>3. CASE i = Len(p)
    <3>1. s[i] = p[Len(p)] /\ s[i + 1] = q[1] /\ p # <<>> /\ q # <<>>
      <4>1. i \in 1 .. Len(p) /\ 1 \in 1 .. Len(q)
        BY <1>1, <1>2, <2>3
      <4>2. s[i] = p[i] /\ s[Len(p) + 1] = q[1]
        BY <1>2, <4>1
      <4>. QED
        BY <1>1, <2>3, <4>1, <4>2
    <3>. QED
      BY <1>3, <3>1 DEF Ended
  <2>. QED
    BY <1>1, <1>2, <2>1, <2>2, <2>3
<1>4. Piecewise(s)
  BY <1>2, <1>3 DEF Piecewise
<1>5. ASSUME q # <<>>, Ended(q) PROVE Ended(s)
  <2>1. Len(q) \in 1 .. Len(q)
    BY <1>1, <1>5
  <2>2. s[Len(s)] = q[Len(q)]
    BY <1>2, <2>1
  <2>. QED
    BY <1>5, <2>2 DEF Ended
<1>. QED
  BY <1>4, <1>5 DEF s

LEMMA RepliesInOrder ==
    ASSUME NEW t \in Sentences
    PROVE  /\ Piecewise(Append(Pieces(t), <<"done", 0>>))
           /\ Piecewise(Reply(t)) /\ Ended(Reply(t)) /\ Reply(t) # <<>>
<1>1. Piecewise(Pieces(t))
  <2>1. \A i \in 1 .. PiecesOf[t] - 1 : Pieces(t)[i + 1] = <<t, i + 1>> /\ Pieces(t)[i] = <<t, i>>
    BY PiecesAreInOrder
  <2>. QED
    BY <2>1, PiecesAreInOrder DEF Piecewise
<1>2. Piecewise(<<<<"done", 0>>>>)
  <2>1. <<<<"done", 0>>>> \in Seq(Events)
    BY EventParts
  <2>. QED
    BY <2>1 DEF Piecewise
<1>3. Append(Pieces(t), <<"done", 0>>) = Pieces(t) \o <<<<"done", 0>>>>
  BY PiecesAreInOrder, EventParts
<1>4. PICK m : m = <<<<"audio.done", 0>>, <<"done", 0>>>>
  OBVIOUS
<1>5. m \in Seq(Events) /\ Len(m) = 2 /\ m[1] = <<"audio.done", 0>> /\ m[2] = <<"done", 0>> /\ m # <<>>
  BY <1>4, EventParts
<1>6. Piecewise(m) /\ Ended(m) /\ ~IsAudio(m[1])
  BY <1>5, EventParts DEF Piecewise, Ended
<1>7. Piecewise(Pieces(t) \o <<<<"done", 0>>>>)
  BY <1>1, <1>2, EventParts, PiecewiseConcat
<1>8. Piecewise(Pieces(t) \o m) /\ Ended(Pieces(t) \o m)
  BY <1>1, <1>5, <1>6, PiecewiseConcat
<1>9. Pieces(t) \o m # <<>>
  BY <1>5, PiecesAreInOrder
<1>. QED
  BY <1>3, <1>4, <1>7, <1>8, <1>9 DEF Reply

LEMMA PiecewisePrefix ==
    ASSUME NEW q, Piecewise(q), NEW n \in 0 .. Len(q)
    PROVE  Piecewise(SubSeq(q, 1, n)) /\ \A h : Continues(h, q) => Continues(h, SubSeq(q, 1, n))
<1> DEFINE p == SubSeq(q, 1, n)
<1>1. q \in Seq(Events) /\ Len(q) \in Nat /\ n \in Nat
  BY DEF Piecewise
<1>2. p \in Seq(Events) /\ Len(p) = n /\ \A i \in 1 .. n : p[i] = q[i]
  BY <1>1
<1> HIDE DEF p
<1>3. Piecewise(p)
  BY <1>1, <1>2 DEF Piecewise
<1>4. p # <<>> => p[1] = q[1] /\ q # <<>>
  <2> SUFFICES ASSUME p # <<>> PROVE p[1] = q[1] /\ q # <<>>
    OBVIOUS
  <2>1. n >= 1 /\ 1 \in 1 .. n
    BY <1>1, <1>2
  <2>. QED
    BY <1>1, <1>2, <2>1
<1>. QED
  BY <1>3, <1>4 DEF Continues, p

LEMMA StretchPrefix ==
    ASSUME NEW a \in Seq(Events), NEW b \in Seq(Events), Stretch(a \o b)
    PROVE  Stretch(a)
<1>1. /\ Len(a) \in Nat /\ Len(b) \in Nat /\ Len(a \o b) = Len(a) + Len(b)
      /\ \A k \in 1 .. Len(a) : (a \o b)[k] = a[k]
  OBVIOUS
<1>2. CASE a = <<>>
  BY <1>2 DEF Stretch
<1>3. CASE a # <<>>
  <2>1. a \o b # <<>>
    BY <1>1, <1>3
  <2>2. PICK t \in Sentences : \E i \in 0 .. PiecesOf[t] :
           i + Len(a \o b) <= PiecesOf[t] /\ \A k \in 1 .. Len(a \o b) : (a \o b)[k] = <<t, i + k>>
    BY <2>1 DEF Stretch
  <2>3. PICK i \in 0 .. PiecesOf[t] :
           i + Len(a \o b) <= PiecesOf[t] /\ \A k \in 1 .. Len(a \o b) : (a \o b)[k] = <<t, i + k>>
    BY <2>2
  <2>4. i + Len(a) <= PiecesOf[t] /\ \A k \in 1 .. Len(a) : a[k] = <<t, i + k>>
    BY <1>1, <2>3, EventParts
  <2>. QED
    BY <2>4 DEF Stretch
<1>. QED
  BY <1>2, <1>3

\* A stretch that is played is of one sentence.
LEMMA StretchPlays ==
    ASSUME NEW h, Stretch(h), h # <<>>
    PROVE  \E text \in Sentences : StretchOf(h, text)
<1>1. h \in Seq(Events) /\ Len(h) \in Nat
  BY DEF Stretch
<1>2. PICK t \in Sentences : \E i \in 0 .. PiecesOf[t] :
         i + Len(h) <= PiecesOf[t] /\ \A k \in 1 .. Len(h) : h[k] = <<t, i + k>>
  BY DEF Stretch
<1>3. PICK i \in 0 .. PiecesOf[t] : i + Len(h) <= PiecesOf[t] /\ \A k \in 1 .. Len(h) : h[k] = <<t, i + k>>
  BY <1>2
<1>4. PICK q : q = Pieces(t)
  OBVIOUS
<1>5. q \in Seq(Events) /\ Len(q) = PiecesOf[t] /\ PiecesOf[t] \in Nat /\ \A k \in 1 .. PiecesOf[t] : q[k] = <<t, k>>
  BY <1>4, PiecesAreInOrder
<1>6. PICK j \in 0 .. Len(q) : j = i + Len(h)
  BY <1>1, <1>3, <1>5
<1>7. /\ SubSeq(q, i + 1, j) \in Seq(Events) /\ Len(SubSeq(q, i + 1, j)) = Len(h)
      /\ \A k \in 1 .. Len(h) : SubSeq(q, i + 1, j)[k] = q[i + k]
  <2>1. i \in Nat /\ i + 1 \in 1 .. Len(q) + 1 /\ j \in 0 .. Len(q)
    BY <1>5
  <2>2. SubSeq(q, i + 1, j) = [k \in 1 .. (1 + j - (i + 1)) |-> q[k + (i + 1) - 1]]
    BY <1>5, <2>1
  <2>3. 1 + j - (i + 1) = Len(h)
    BY <1>1, <1>6, <2>1
  <2>4. \A k \in 1 .. Len(h) : q[k + (i + 1) - 1] = q[i + k] /\ i + k \in 1 .. Len(q)
    BY <1>1, <1>6, <2>1
  <2>5. \A k \in 1 .. Len(h) : q[i + k] \in Events
    BY <1>5, <2>4
  <2>6. PICK c, g : c = Len(h) /\ g = [k \in 1 .. c |-> q[i + k]]
    OBVIOUS
  <2>7. SubSeq(q, i + 1, j) = g
    BY <2>2, <2>3, <2>4, <2>6
  <2>8. c \in Nat /\ g \in Seq(Events) /\ Len(g) = c
    BY <1>1, <2>5, <2>6
  <2>. QED
    BY <2>6, <2>7, <2>8
<1>8. \A k \in 1 .. Len(h) : q[i + k] = h[k]
  <2> SUFFICES ASSUME NEW k \in 1 .. Len(h) PROVE q[i + k] = h[k]
    OBVIOUS
  <2>1. i + k \in 1 .. PiecesOf[t]
    BY <1>1, <1>3, <1>5
  <2>. QED
    BY <1>3, <1>5, <2>1
<1>9. SubSeq(q, i + 1, j) = h
  <2>1. PICK g : g = SubSeq(q, i + 1, j)
    OBVIOUS
  <2>2. g \in Seq(Events) /\ Len(g) = Len(h) /\ \A k \in 1 .. Len(h) : g[k] = h[k]
    BY <1>7, <1>8, <2>1
  <2>3. g = h
    BY <1>1, <2>2, SeqEqual
  <2>. QED
    BY <2>1, <2>3
<1>10. i \in 0 .. PiecesOf[t] /\ j \in 0 .. PiecesOf[t]
  BY <1>5
<1>. QED
  BY <1>4, <1>9, <1>10 DEF StretchOf

\* While a request moves, the others keep what they have in hand.
LEMMA OthersKeep ==
    ASSUME SpeechInv, NEW s \in Speakers,
           (UNCHANGED <<mu, duplex>>) \/ mu = None \/ mu = s
    PROVE  \A o \in Speakers \ {s} : SayInOrder(o, say[o], mu', duplex')
<1> SUFFICES ASSUME NEW o \in Speakers \ {s} PROVE SayInOrder(o, say[o], mu', duplex')
  OBVIOUS
<1>1. SayInOrder(o, say[o], mu, duplex)
  BY DEF SpeechInv
<1>2. CASE UNCHANGED <<mu, duplex>>
  BY <1>1, <1>2
<1>3. CASE mu = None \/ mu = s
  BY <1>1, <1>3, SpeechAssumption DEF SayInOrder
<1>. QED
  BY <1>2, <1>3

LEMMA SpeakerMoves ==
    ASSUME SpeechInv, NEW s \in Speakers, NEW r, say' = [say EXCEPT ![s] = r],
           SayInOrder(s, r, mu', duplex'), DuplexInOrder', OneSentencePerAnswer',
           (UNCHANGED <<mu, duplex>>) \/ mu = None \/ mu = s
    PROVE  SpeechInv'
<1>1. \A o \in Speakers \ {s} : SayInOrder(o, say[o], mu', duplex')
  BY OthersKeep
<1>2. DOMAIN say' = Speakers /\ say'[s] = r /\ \A o \in Speakers \ {s} : say'[o] = say[o]
  BY DEF SpeechInv
<1>3. \A o \in Speakers : SayInOrder(o, say'[o], mu', duplex')
  BY <1>1, <1>2
<1>. QED
  BY <1>2, <1>3 DEF SpeechInv

\* The end of a request: no audio, or a stretch.
LEMMA SpeakerEnds ==
    ASSUME SpeechInv, NEW s \in Speakers, NEW h, say[s] # None,
           SpeechFails(s) \/ (AnswerWith(s, h) /\ Stretch(h)),
           DuplexInOrder', (UNCHANGED <<mu, duplex>>) \/ mu = None \/ mu = s
    PROVE  SpeechInv'
<1>1. say' = [say EXCEPT ![s] = None]
  BY DEF SpeechFails, AnswerWith
<1>2. SayInOrder(s, None, mu', duplex')
  BY DEF SayInOrder
<1>3. CASE played' = played
  <2>1. OneSentencePerAnswer'
    BY <1>3 DEF SpeechInv, OneSentencePerAnswer
  <2>. QED
    BY <1>1, <1>2, <2>1, SpeakerMoves
<1>4. CASE h # <<>> /\ Stretch(h) /\ played' = played \union {<<say[s].text, h>>}
  <2>1. \E text \in Sentences : StretchOf(h, text)
    BY <1>4, StretchPlays
  <2>2. OneSentencePerAnswer'
    BY <1>4, <2>1 DEF SpeechInv, OneSentencePerAnswer
  <2>. QED
    BY <1>1, <1>2, <2>2, SpeakerMoves
<1>. QED
  BY <1>3, <1>4 DEF SpeechFails, AnswerWith

LEMMA NothingHeld ==
    ASSUME NEW q, q.chunks = <<>>, q.pending = <<>>
    PROVE  /\ q.chunks \in Seq(Events) /\ q.pending \in Seq(Events) /\ Held(q) = <<>> /\ Stretch(Held(q))
           /\ \A p : Continues(Held(q), p)
<1>1. <<>> \in Seq(Events) /\ <<>> \o <<>> = <<>>
  OBVIOUS
<1>. QED
  BY <1>1 DEF Held, Stretch, Continues

LEMMA LinkConsumed ==
    ASSUME NEW d, LinkInOrder(d), d.events # <<>>
    PROVE  LinkInOrder([d EXCEPT !.events = Tail(@)]) /\ [d EXCEPT !.events = Tail(@)].events = Tail(d.events)
<1> DEFINE e == [d EXCEPT !.events = Tail(@)]
<1>1. DOMAIN e = {"up", "events"} /\ e.events = Tail(d.events) /\ (e.up => d.up)
  BY DEF LinkInOrder
<1>2. Piecewise(Tail(d.events)) /\ (Ended(d.events) => Ended(Tail(d.events)))
  BY PiecewiseTail DEF LinkInOrder
<1>. QED
  BY <1>1, <1>2 DEF LinkInOrder

\* Requests that start, or go on without having read anything.
LEMMA PostSteps ==
    ASSUME SpeechInv, NEW s \in Speakers,
           \/ \E text \in Sentences, id \in VoiceIds : PostSynthesize(s, text, id)
           \/ SynthesizeGivesUp(s) \/ PostOK(s)
    PROVE  SpeechInv'
<1>1. UNCHANGED <<mu, duplex, played>>
  BY DEF PostSynthesize, SynthesizeGivesUp, PostOK
<1>2. DuplexInOrder' /\ OneSentencePerAnswer' /\ SayInOrder(s, say[s], mu, duplex)
  BY <1>1 DEF SpeechInv, DuplexInOrder, OneSentencePerAnswer
<1>3. ASSUME NEW text \in Sentences, NEW id \in VoiceIds, PostSynthesize(s, text, id) PROVE SpeechInv'
  <2>1. PICK q : q = [pc |-> IF fallbackOn THEN "lock" ELSE "post", text |-> text,
                      voice |-> LookupVoice[id], attempt |-> 1, body |-> <<>>,
                      chunks |-> <<>>, pending |-> <<>>, gone |-> FALSE]
    OBVIOUS
  <2>2. say' = [say EXCEPT ![s] = q]
    BY <1>3, <2>1 DEF PostSynthesize
  <2>3. /\ DOMAIN q = SayFields /\ q.text \in Sentences /\ q.chunks = <<>> /\ q.pending = <<>>
        /\ q.pc \in {"post", "lock"}
    BY <2>1 DEF SayFields
  <2>4. SayInOrder(s, q, mu', duplex')
    BY <2>3, NothingHeld DEF SayInOrder
  <2>. QED
    BY <1>1, <1>2, <2>2, <2>4, SpeakerMoves
<1>4. CASE SynthesizeGivesUp(s)
  <2>1. PICK q : q = [say[s] EXCEPT !.gone = TRUE]
    OBVIOUS
  <2>2. say[s] # None /\ say' = [say EXCEPT ![s] = q]
    BY <1>4, <2>1 DEF SynthesizeGivesUp
  <2>3. DOMAIN say[s] = SayFields
    BY <1>2, <2>2 DEF SayInOrder
  <2>4. /\ DOMAIN q = SayFields /\ q.text = say[s].text /\ q.pc = say[s].pc /\ q.chunks = say[s].chunks
        /\ q.pending = say[s].pending /\ q.body = say[s].body
    BY <2>1, <2>3 DEF SayFields
  <2>5. SayInOrder(s, q, mu', duplex')
    BY <1>1, <1>2, <2>2, <2>4 DEF SayInOrder, Held
  <2>. QED
    BY <1>1, <1>2, <2>2, <2>5, SpeakerMoves
<1>5. CASE PostOK(s)
  <2>1. PICK body : body = Append(Pieces(say[s].text), <<"done", 0>>)
    OBVIOUS
  <2>2. PICK q : q = [say[s] EXCEPT !.pc = "stream", !.body = body]
    OBVIOUS
  <2>3. say[s] # None /\ say[s].pc = "post" /\ say' = [say EXCEPT ![s] = q]
    BY <1>5, <2>1, <2>2 DEF PostOK, Posting
  <2>4. DOMAIN say[s] = SayFields /\ say[s].text \in Sentences /\ say[s].chunks = <<>> /\ say[s].pending = <<>>
    BY <1>2, <2>3 DEF SayInOrder
  <2>5. /\ DOMAIN q = SayFields /\ q.text = say[s].text /\ q.pc = "stream" /\ q.chunks = <<>> /\ q.pending = <<>>
        /\ q.body = body
    BY <2>2, <2>4 DEF SayFields
  <2>6. Piecewise(body)
    BY <2>1, <2>4, RepliesInOrder
  <2>7. SayInOrder(s, q, mu', duplex')
    BY <2>4, <2>5, <2>6, NothingHeld DEF SayInOrder
  <2>. QED
    BY <1>1, <1>2, <2>3, <2>7, SpeakerMoves
<1>. QED
  BY <1>3, <1>4, <1>5

LEMMA FailSteps ==
    ASSUME SpeechInv, NEW s \in Speakers, PostRefused(s) \/ Post5xx(s) \/ OpenFails(s)
    PROVE  SpeechInv'
<1>1. UNCHANGED <<mu, duplex>> /\ say[s] # None
  BY DEF PostRefused, Post5xx, OpenFails, Posting
<1>2. DuplexInOrder' /\ SayInOrder(s, say[s], mu, duplex)
  BY <1>1 DEF SpeechInv, DuplexInOrder
<1>3. CASE SpeechFails(s)
  BY <1>1, <1>2, <1>3, SpeakerEnds
<1>4. CASE ~SpeechFails(s)
  <2>1. /\ Post5xx(s) /\ UNCHANGED played /\ say[s].pc = "post"
        /\ \/ say' = [say EXCEPT ![s].attempt = @ + 1]
           \/ say' = [say EXCEPT ![s].pc = "lock"]
    BY <1>4 DEF PostRefused, Post5xx, OpenFails, Posting
  <2>2. /\ DOMAIN say[s] = SayFields /\ say[s].text \in Sentences /\ say[s].chunks = <<>>
        /\ say[s].pending = <<>>
    BY <1>1, <1>2, <2>1 DEF SayInOrder
  <2>3. PICK q : q \in {[say[s] EXCEPT !.attempt = @ + 1], [say[s] EXCEPT !.pc = "lock"]}
                 /\ say' = [say EXCEPT ![s] = q]
    BY <2>1
  <2>4. /\ DOMAIN q = SayFields /\ q.text \in Sentences /\ q.chunks = <<>> /\ q.pending = <<>>
        /\ q.pc \in {"post", "lock"}
    BY <2>1, <2>2, <2>3 DEF SayFields
  <2>5. SayInOrder(s, q, mu', duplex')
    BY <2>4, NothingHeld DEF SayInOrder
  <2>6. OneSentencePerAnswer'
    BY <2>1 DEF SpeechInv, OneSentencePerAnswer
  <2>. QED
    BY <1>1, <1>2, <2>3, <2>5, <2>6, SpeakerMoves
<1>. QED
  BY <1>3, <1>4

LEMMA PromptStep ==
    ASSUME SpeechInv, NEW s \in Speakers, StreamFallback(s)
    PROVE  SpeechInv'
<1>1. say[s] # None /\ say[s].pc = "lock" /\ mu = None
  BY DEF StreamFallback, Prompt
<1>2. SayInOrder(s, say[s], mu, duplex)
  BY DEF SpeechInv
<1>3. CASE SpeechFails(s) /\ UNCHANGED <<mu, duplex>>
  <2>1. DuplexInOrder'
    BY <1>3 DEF SpeechInv, DuplexInOrder
  <2>. QED
    BY <1>1, <1>3, <2>1, SpeakerEnds
<1>4. CASE ~(SpeechFails(s) /\ UNCHANGED <<mu, duplex>>)
  <2>1. PICK old : old = (IF duplex = None THEN <<>> ELSE duplex.events)
    OBVIOUS
  <2>2. PICK q : q = [say[s] EXCEPT !.pc = "read"]
    OBVIOUS
  <2>3. /\ ~(duplex # None /\ ~duplex.up) /\ mu' = s /\ played' = played
        /\ duplex' = [up |-> TRUE, events |-> old \o Reply(say[s].text)]
        /\ say' = [say EXCEPT ![s] = q]
    BY <1>4, <2>1, <2>2 DEF StreamFallback, Prompt
  <2>4. DOMAIN say[s] = SayFields /\ say[s].text \in Sentences /\ say[s].chunks = <<>> /\ say[s].pending = <<>>
    BY <1>1, <1>2 DEF SayInOrder
  <2>5. /\ DOMAIN q = SayFields /\ q.text \in Sentences /\ q.pc = "read" /\ q.chunks = <<>> /\ q.pending = <<>>
    BY <2>2, <2>4 DEF SayFields
  <2>6. Piecewise(old) /\ Ended(old)
    <3>1. CASE duplex = None
      BY <2>1, <3>1 DEF Piecewise, Ended
    <3>2. CASE duplex # None
      BY <2>1, <2>3, <3>2 DEF SpeechInv, DuplexInOrder, LinkInOrder
    <3>. QED
      BY <3>1, <3>2
  <2>7. Piecewise(old \o Reply(say[s].text)) /\ Ended(old \o Reply(say[s].text))
    BY <2>4, <2>6, RepliesInOrder, PiecewiseConcat
  <2>8. LinkInOrder(duplex')
    BY <2>3, <2>7 DEF LinkInOrder
  <2>9. SayInOrder(s, q, mu', duplex')
    BY <2>3, <2>5, <2>8, NothingHeld DEF SayInOrder
  <2>10. DuplexInOrder' /\ OneSentencePerAnswer'
    BY <2>3, <2>8 DEF SpeechInv, DuplexInOrder, OneSentencePerAnswer
  <2>. QED
    BY <1>1, <2>3, <2>9, <2>10, SpeakerMoves
<1>. QED
  BY <1>3, <1>4

\* Where a reading request gets its events from.
LEMMA SourceInOrder ==
    ASSUME SpeechInv, NEW s \in Speakers, Reading(s)
    PROVE  /\ say[s] # None /\ SayInOrder(s, say[s], mu, duplex)
           /\ say[s].pc \in {"stream", "read"} /\ (say[s].pc = "read" => mu = s /\ LinkInOrder(duplex))
           /\ Piecewise(Source(s)) /\ Continues(Held(say[s]), Source(s))
           /\ say[s].chunks \in Seq(Events) /\ say[s].pending \in Seq(Events)
           /\ Stretch(Held(say[s])) /\ Stretch(say[s].chunks)
<1>1. say[s] # None /\ say[s].pc \in {"stream", "read"} /\ SayInOrder(s, say[s], mu, duplex)
  BY DEF Reading, SpeechInv
<1>2. /\ say[s].chunks \in Seq(Events) /\ say[s].pending \in Seq(Events) /\ Stretch(Held(say[s]))
      /\ say[s].pc = "stream" => Piecewise(say[s].body) /\ Continues(Held(say[s]), say[s].body)
      /\ say[s].pc = "read" => mu = s /\ LinkInOrder(duplex) /\ Continues(Held(say[s]), duplex.events)
  BY <1>1 DEF SayInOrder
<1>3. Stretch(say[s].chunks)
  BY <1>2, StretchPrefix DEF Held
<1>. QED
  BY <1>1, <1>2, <1>3 DEF Source, LinkInOrder

LEMMA ConsumedStays ==
    ASSUME SpeechInv, NEW s \in Speakers, Reading(s), UNCHANGED duplex \/ (Consumed(s) /\ Source(s) # <<>>)
    PROVE  DuplexInOrder' /\ (UNCHANGED duplex \/ mu = s)
<1>1. CASE UNCHANGED duplex
  BY <1>1 DEF SpeechInv, DuplexInOrder
<1>2. CASE ~UNCHANGED duplex
  <2>1. say[s].pc = "read" /\ duplex' = [duplex EXCEPT !.events = Tail(@)] /\ duplex.events # <<>>
    BY <1>2 DEF Consumed, Source
  <2>2. mu = s /\ LinkInOrder(duplex)
    BY <2>1, SourceInOrder
  <2>3. LinkInOrder(duplex')
    BY <2>1, <2>2, LinkConsumed
  <2>. QED
    BY <2>2, <2>3 DEF DuplexInOrder
<1>. QED
  BY <1>1, <1>2

LEMMA ReadEnds ==
    ASSUME SpeechInv, NEW s \in Speakers, ReceiveEnd(s) \/ StreamBreaks(s) \/ ReaderLeaves(s)
    PROVE  SpeechInv'
<1>1. Reading(s) /\ Unlock(s)
  BY DEF ReceiveEnd, StreamBreaks, ReaderLeaves
<1>2. Stretch(say[s].chunks) /\ Stretch(say[s].chunks \o say[s].pending) /\ say[s] # None
  BY <1>1, SourceInOrder DEF Held
<1>3. UNCHANGED duplex \/ (Consumed(s) /\ Source(s) # <<>>)
  BY DEF ReceiveEnd, StreamBreaks, ReaderLeaves
<1>4. DuplexInOrder' /\ (UNCHANGED duplex \/ mu = s)
  BY <1>1, <1>3, ConsumedStays
<1>5. (UNCHANGED <<mu, duplex>>) \/ mu = s
  BY <1>1, <1>4 DEF Unlock
<1>6. \/ SpeechFails(s) \/ AnswerWith(s, say[s].chunks) \/ AnswerWith(s, say[s].chunks \o say[s].pending)
  BY DEF ReceiveEnd, StreamBreaks, ReaderLeaves
<1>. QED
  BY <1>2, <1>4, <1>5, <1>6, SpeakerEnds

LEMMA ReceiveStep ==
    ASSUME SpeechInv, NEW s \in Speakers, ReceivePiece(s)
    PROVE  SpeechInv'
<1> DEFINE r == say[s]
           src == Source(s)
           q == [r EXCEPT !.body = IF r.pc = "stream" THEN Tail(r.body) ELSE r.body,
                          !.chunks = r.chunks \o r.pending, !.pending = <<src[1]>>]
<1>1. Reading(s) /\ src # <<>> /\ IsAudio(Head(src)) /\ Take(s) /\ UNCHANGED <<mu, played>>
  BY DEF ReceivePiece
<1>2. /\ r # None /\ SayInOrder(s, r, mu, duplex) /\ r.pc \in {"stream", "read"}
      /\ (r.pc = "read" => mu = s /\ LinkInOrder(duplex))
      /\ Piecewise(src) /\ Continues(Held(r), src)
      /\ r.chunks \in Seq(Events) /\ r.pending \in Seq(Events) /\ Stretch(Held(r))
  BY <1>1, SourceInOrder
<1>3. Head(src) \in Events /\ Head(src) = src[1] /\ Piecewise(Tail(src))
  BY <1>1, <1>2, PiecewiseTail
<1>4. Stretch(Held(r) \o <<src[1]>>) /\ Continues(Held(r) \o <<src[1]>>, Tail(src))
  BY <1>1, <1>2, <1>3, PieceTaken
<1>5. DOMAIN r = SayFields /\ r.text \in Sentences
  BY <1>2 DEF SayInOrder
<1> HIDE DEF src
<1>6. /\ DOMAIN q = SayFields /\ q.text = r.text /\ q.pc = r.pc
      /\ q.chunks = r.chunks \o r.pending /\ q.pending = <<src[1]>>
      /\ q.body = IF r.pc = "stream" THEN Tail(r.body) ELSE r.body
  <2> HIDE DEF r
  <2>. QED
    BY <1>5 DEF SayFields
<1>7. Held(q) = Held(r) \o <<src[1]>>
  BY <1>6 DEF Held
<1>8. q.chunks \in Seq(Events) /\ q.pending \in Seq(Events)
  BY <1>2, <1>3, <1>6
<1>9. OneSentencePerAnswer'
  BY <1>1 DEF SpeechInv, OneSentencePerAnswer
<1>10. CASE r.pc = "stream"
  <2>1. src = r.body
    BY <1>10 DEF src, Source
  <2>2. say' = [say EXCEPT ![s].body = Tail(@), ![s].chunks = @ \o say[s].pending, ![s].pending = <<Head(Source(s))>>]
        /\ UNCHANGED duplex
    BY <1>1, <1>10 DEF Take
  <2>3. say' = [say EXCEPT ![s] = q]
    <3>1. Head(Source(s)) = src[1] /\ s \in DOMAIN say
      BY <1>3 DEF src, SpeechInv
    <3>2. q = [r EXCEPT !.body = Tail(r.body), !.chunks = r.chunks \o r.pending, !.pending = <<src[1]>>]
      BY <1>10
    <3>. QED
      BY <2>2, <3>1, <3>2
  <2> HIDE DEF q
  <2>4. SayInOrder(s, q, mu', duplex')
    BY <1>3, <1>4, <1>5, <1>6, <1>7, <1>8, <1>10, <2>1 DEF SayInOrder
  <2>5. DuplexInOrder' /\ UNCHANGED <<mu, duplex>>
    BY <1>1, <2>2 DEF SpeechInv, DuplexInOrder
  <2>. QED
    BY <1>9, <2>3, <2>4, <2>5, SpeakerMoves
<1>11. CASE r.pc = "read"
  <2>1. src = duplex.events /\ r.pc # "stream"
    BY <1>11 DEF src, Source
  <2>2. say' = [say EXCEPT ![s].chunks = @ \o say[s].pending, ![s].pending = <<Head(Source(s))>>]
        /\ duplex' = [duplex EXCEPT !.events = Tail(@)]
    BY <1>1, <1>11 DEF Take
  <2>3. PICK p : p = [r EXCEPT !.chunks = r.chunks \o r.pending, !.pending = <<src[1]>>]
    OBVIOUS
  <2>4. say' = [say EXCEPT ![s] = p]
    <3>1. Head(Source(s)) = src[1] /\ s \in DOMAIN say
      BY <1>3 DEF src, SpeechInv
    <3>. QED
      BY <2>2, <2>3, <3>1
  <2>5. /\ DOMAIN p = SayFields /\ p.text = r.text /\ p.pc = r.pc
        /\ p.chunks = r.chunks \o r.pending /\ p.pending = <<src[1]>>
    <3> HIDE DEF r
    <3>. QED
      BY <1>5, <2>3 DEF SayFields
  <2>6. Held(p) = Held(r) \o <<src[1]>> /\ p.chunks \in Seq(Events) /\ p.pending \in Seq(Events)
    BY <1>2, <1>3, <2>5 DEF Held
  <2>7. LinkInOrder(duplex') /\ duplex'.events = Tail(src)
    BY <1>1, <1>2, <1>11, <2>1, <2>2, LinkConsumed
  <2>8. SayInOrder(s, p, mu', duplex')
    BY <1>1, <1>2, <1>4, <1>5, <1>11, <2>5, <2>6, <2>7 DEF SayInOrder
  <2>9. DuplexInOrder' /\ mu = s
    BY <1>2, <1>11, <2>7 DEF DuplexInOrder
  <2>. QED
    BY <1>9, <2>4, <2>8, <2>9, SpeakerMoves
<1>. QED
  BY <1>2, <1>10, <1>11

LEMMA DuplexDiesStep == ASSUME SpeechInv, DuplexDies PROVE SpeechInv'
<1>1. PICK n \in 0 .. Len(duplex.events) : duplex' = [up |-> FALSE, events |-> SubSeq(duplex.events, 1, n)]
  BY DEF DuplexDies
<1>2. UNCHANGED <<mu, say, played>> /\ LinkInOrder(duplex)
  BY DEF DuplexDies, SpeechInv, DuplexInOrder
<1>3. /\ Piecewise(duplex'.events)
      /\ \A h : Continues(h, duplex.events) => Continues(h, duplex'.events)
  BY <1>1, <1>2, PiecewisePrefix DEF LinkInOrder
<1>4. LinkInOrder(duplex')
  BY <1>1, <1>3 DEF LinkInOrder
<1>5. \A s \in Speakers : SayInOrder(s, say'[s], mu', duplex')
  <2> SUFFICES ASSUME NEW s \in Speakers PROVE SayInOrder(s, say'[s], mu', duplex')
    OBVIOUS
  <2>1. SayInOrder(s, say[s], mu, duplex)
    BY DEF SpeechInv
  <2>. QED
    BY <1>2, <1>3, <1>4, <2>1 DEF SayInOrder
<1>. QED
  BY <1>2, <1>4, <1>5 DEF SpeechInv, DuplexInOrder, OneSentencePerAnswer

LEMMA SpeechInvInit == Init => SpeechInv
  BY DEF Init, SpeechInit, SpeechInv, DuplexInOrder, SayInOrder, OneSentencePerAnswer

LEMMA SpeechInvNext == SpeechInv /\ [Next]_vars => SpeechInv'
<1> SUFFICES ASSUME SpeechInv, [Next]_vars PROVE SpeechInv'
  OBVIOUS
<1>1. SpeechNext \/ UNCHANGED speechVars
  BY DEF Next, vars, vendorVars, CreditHit, CreditCheckin
<1>2. CASE UNCHANGED speechVars
  BY <1>2 DEF speechVars, SpeechInv, DuplexInOrder, OneSentencePerAnswer
<1>3. CASE SpeechNext
  BY <1>3, PostSteps, FailSteps, PromptStep, ReadEnds, ReceiveStep, DuplexDiesStep DEF SpeechNext
<1>. QED
  BY <1>1, <1>2, <1>3

\* Whatever a caller plays is an unbroken stretch of one sentence, for any number of requests,
\* sentences and pieces, however the shared connection dies and its requests give up
\* (tts.Manager, VolcDuplexFallback.Stream).
THEOREM AnswersAreStretches == Spec => []OneSentencePerAnswer
<1>1. SpeechInv => OneSentencePerAnswer
  BY DEF SpeechInv
<1>. QED
  BY <1>1, SpeechInvInit, SpeechInvNext, PTL DEF Spec

-----------------------------------------------------------------------------
(* Pages *)

\* R puts the members of S in one order.
TotalOn(S, R) ==
    /\ \A x, y \in S : x # y => <<x, y>> \in R \/ <<y, x>> \in R
    /\ \A x \in S : <<x, x>> \notin R
    /\ \A x, y, z \in S : <<x, y>> \in R /\ <<y, z>> \in R => <<x, z>> \in R

Ahead(S, R, i) == {j \in S : <<j, i>> \in R}

LEMMA AheadIsFinite ==
    ASSUME NEW S, IsFiniteSet(S), NEW R, NEW i
    PROVE  IsFiniteSet(Ahead(S, R, i)) /\ Cardinality(Ahead(S, R, i)) \in Nat /\ Ahead(S, R, i) \in SUBSET S
<1>1. Ahead(S, R, i) \in SUBSET S
  BY DEF Ahead
<1>. QED
  BY <1>1, FS_Subset, FS_CardinalityType

LEMMA AheadGrows ==
    ASSUME NEW S, IsFiniteSet(S), NEW R, TotalOn(S, R), NEW x \in S, NEW y \in S, <<x, y>> \in R
    PROVE  Cardinality(Ahead(S, R, x)) < Cardinality(Ahead(S, R, y))
<1>1. IsFiniteSet(Ahead(S, R, y)) /\ Cardinality(Ahead(S, R, y)) \in Nat /\ Cardinality(Ahead(S, R, x)) \in Nat
  BY AheadIsFinite
<1>2. Ahead(S, R, x) \in SUBSET Ahead(S, R, y)
  BY DEF Ahead, TotalOn
<1>3. Ahead(S, R, x) # Ahead(S, R, y)
  BY DEF Ahead, TotalOn
<1>4. /\ Cardinality(Ahead(S, R, x)) <= Cardinality(Ahead(S, R, y))
      /\ Cardinality(Ahead(S, R, y)) = Cardinality(Ahead(S, R, x)) => Ahead(S, R, y) = Ahead(S, R, x)
  BY <1>1, <1>2, FS_Subset
<1>. QED
  BY <1>1, <1>3, <1>4

\* Each place of a finite order is taken, because no two members have as many ahead of them.
LEMMA PlacesFilled ==
    ASSUME NEW S, IsFiniteSet(S), NEW R, TotalOn(S, R), NEW k \in 1 .. Cardinality(S)
    PROVE  \E i \in S : Cardinality(Ahead(S, R, i)) = k - 1
<1> DEFINE n == Cardinality(S)
           f == [i \in S |-> Cardinality(Ahead(S, R, i)) + 1]
<1>1. n \in Nat
  BY FS_CardinalityType
<1>2. ASSUME NEW i \in S PROVE f[i] \in 1 .. n
  <2>1. IsFiniteSet(S \ {i}) /\ Cardinality(S \ {i}) = n - 1
    BY FS_RemoveElement
  <2>2. Ahead(S, R, i) \in SUBSET (S \ {i})
    BY DEF Ahead, TotalOn
  <2>3. Cardinality(Ahead(S, R, i)) <= n - 1
    BY <2>1, <2>2, FS_Subset
  <2>4. Cardinality(Ahead(S, R, i)) \in Nat
    BY AheadIsFinite
  <2>. QED
    BY <1>1, <2>3, <2>4
<1>3. ASSUME NEW x \in S, NEW y \in S, f[x] = f[y] PROVE x = y
  <2>1. Cardinality(Ahead(S, R, x)) \in Nat /\ Cardinality(Ahead(S, R, y)) \in Nat
    BY AheadIsFinite
  <2>2. <<x, y>> \notin R /\ <<y, x>> \notin R
    BY <1>3, <2>1, AheadGrows
  <2>. QED
    BY <2>2 DEF TotalOn
<1>4. f \in Injection(S, 1 .. n)
  BY <1>2, <1>3 DEF Injection, IsInjective
<1>5. IsFiniteSet(1 .. n) /\ Cardinality(1 .. n) = n
  BY <1>1, FS_Interval
<1>6. f \in Surjection(S, 1 .. n)
  BY <1>4, <1>5, FS_Injection
<1>7. PICK i \in S : f[i] = k
  BY <1>6 DEF Surjection
<1>8. Cardinality(Ahead(S, R, i)) \in Nat
  BY AheadIsFinite
<1>. QED
  BY <1>7, <1>8

\* The members of S, each at its place.
Enumerates(q, S, R) ==
    /\ q \in [1 .. Cardinality(S) -> S]
    /\ \A k \in 1 .. Cardinality(S) : Cardinality(Ahead(S, R, q[k])) = k - 1

LEMMA EnumerationSorted ==
    ASSUME NEW S, IsFiniteSet(S), NEW R, TotalOn(S, R), NEW q, Enumerates(q, S, R)
    PROVE  /\ q \in Seq(S) /\ Len(q) = Cardinality(S) /\ DOMAIN q = 1 .. Len(q)
           /\ \A k, l \in DOMAIN q : k < l <=> <<q[k], q[l]>> \in R
           /\ \A i \in S : \E k \in DOMAIN q : q[k] = i
<1> DEFINE n == Cardinality(S)
<1>1. n \in Nat
  BY FS_CardinalityType
<1>2. q \in Seq(S) /\ Len(q) = n /\ DOMAIN q = 1 .. n
  BY <1>1 DEF Enumerates
<1>3. ASSUME NEW k \in 1 .. n, NEW l \in 1 .. n, <<q[k], q[l]>> \in R PROVE k < l
  <2>1. q[k] \in S /\ q[l] \in S
    BY DEF Enumerates
  <2>2. Cardinality(Ahead(S, R, q[k])) < Cardinality(Ahead(S, R, q[l]))
    BY <1>3, <2>1, AheadGrows
  <2>. QED
    BY <1>1, <2>2 DEF Enumerates
<1>4. ASSUME NEW k \in 1 .. n, NEW l \in 1 .. n, k < l PROVE <<q[k], q[l]>> \in R
  <2>1. q[k] \in S /\ q[l] \in S
    BY DEF Enumerates
  <2>2. q[k] # q[l]
    BY <1>1, <1>4 DEF Enumerates
  <2>3. <<q[l], q[k]>> \notin R
    BY <1>1, <1>3, <1>4
  <2>. QED
    BY <2>1, <2>2, <2>3 DEF TotalOn
<1>5. ASSUME NEW i \in S PROVE \E k \in 1 .. n : q[k] = i
  <2>1. IsFiniteSet(S \ {i}) /\ Cardinality(S \ {i}) = n - 1
    BY FS_RemoveElement
  <2>2. Ahead(S, R, i) \in SUBSET (S \ {i})
    BY DEF Ahead, TotalOn
  <2>3. Cardinality(Ahead(S, R, i)) <= n - 1
    BY <2>1, <2>2, FS_Subset
  <2>4. Cardinality(Ahead(S, R, i)) \in Nat
    BY AheadIsFinite
  <2>5. PICK k \in 1 .. n : k = Cardinality(Ahead(S, R, i)) + 1
    BY <1>1, <2>3, <2>4
  <2>6. q[k] \in S /\ Cardinality(Ahead(S, R, q[k])) = Cardinality(Ahead(S, R, i))
    BY <2>4, <2>5 DEF Enumerates
  <2>7. <<q[k], i>> \notin R /\ <<i, q[k]>> \notin R
    BY <2>4, <2>6, AheadGrows
  <2>. QED
    BY <2>6, <2>7 DEF TotalOn
<1>. QED
  BY <1>2, <1>3, <1>4, <1>5

\* Nothing is in q twice, except perhaps the members of W.
Once(q, W) == \A k, l \in DOMAIN q : q[k] = q[l] /\ q[k] \notin W => k = l

\* The first n of them: none twice, and all up to the last one.
IsPage(page, S, R, n) ==
    /\ page \in Seq(S)
    /\ Once(page, {})
    /\ Len(page) <= n
    /\ Len(page) < n => S \subseteq ToSet(page)
    /\ page # <<>> => /\ Last(page) \in S /\ Last(page) \in ToSet(page)
                      /\ \A i \in S : i \in ToSet(page) <=> <<Last(page), i>> \notin R

LEMMA FirstIsPage ==
    ASSUME NEW S, IsFiniteSet(S), NEW R, TotalOn(S, R), NEW q, Enumerates(q, S, R), NEW n \in Nat
    PROVE  IsPage(First(n, q), S, R, n)
<1>1. /\ q \in Seq(S) /\ Len(q) = Cardinality(S) /\ DOMAIN q = 1 .. Len(q)
      /\ \A k, l \in DOMAIN q : k < l <=> <<q[k], q[l]>> \in R
      /\ \A i \in S : \E k \in DOMAIN q : q[k] = i
  BY EnumerationSorted
<1>2. PICK c : c = Len(q)
  OBVIOUS
<1>3. c \in Nat
  BY <1>1, <1>2, FS_CardinalityType
<1>4. /\ q \in Seq(S) /\ c = Len(q) /\ \A k \in 1 .. c : q[k] \in S
      /\ \A k, l \in 1 .. c : k < l <=> <<q[k], q[l]>> \in R
      /\ \A i \in S : \E k \in 1 .. c : q[k] = i
  BY <1>1, <1>2, <1>3 DEF Enumerates
<1>5. PICK m \in 0 .. c : m <= n /\ (m < n => m = c) /\ m = (IF c < n THEN c ELSE n)
  BY <1>3
<1>6. PICK page : page = SubSeq(q, 1, m)
  OBVIOUS
<1>7. page = First(n, q)
  BY <1>4, <1>5, <1>6 DEF First
<1>8. page \in Seq(S) /\ Len(page) = m /\ DOMAIN page = 1 .. m /\ \A k \in 1 .. m : page[k] = q[k]
  <2>1. \A k \in 1 .. m : q[k] \in S
    BY <1>4, <1>5
  <2>2. /\ page \in Seq(S) /\ Len(page) = IF 1 <= m THEN m - 1 + 1 ELSE 0
        /\ \A k \in 1 .. m - 1 + 1 : page[k] = q[1 + k - 1]
    BY <1>6, <2>1, SubSeqProperties
  <2>3. m - 1 + 1 = m /\ Len(page) = m /\ \A k \in 1 .. m : 1 + k - 1 = k
    BY <2>2
  <2>. QED
    BY <2>2, <2>3
<1>9. \A i \in S : i \in ToSet(page) <=> \E k \in 1 .. m : q[k] = i
  BY <1>8 DEF ToSet
<1>10. ASSUME NEW k \in 1 .. c, NEW l \in 1 .. c, q[k] = q[l] PROVE k = l
  <2>1. <<q[k], q[l]>> \notin R /\ <<q[l], q[k]>> \notin R
    BY <1>4, <1>10 DEF TotalOn
  <2>. QED
    BY <1>4, <2>1
<1>11. Once(page, {})
  BY <1>5, <1>8, <1>10 DEF Once
<1>12. m <= n /\ (m < n => S \subseteq ToSet(page))
  BY <1>4, <1>5, <1>9
<1>13. ASSUME page # <<>>
      PROVE  /\ Last(page) \in S /\ Last(page) \in ToSet(page)
             /\ \A i \in S : i \in ToSet(page) <=> <<Last(page), i>> \notin R
  <2>1. m # 0
    BY <1>8, <1>13
  <2>2. Last(page) = q[m] /\ q[m] \in S
    BY <1>4, <1>5, <1>8, <2>1 DEF Last
  <2>3. Last(page) \in ToSet(page)
    BY <1>9, <2>1, <2>2
  <2>4. ASSUME NEW i \in S PROVE i \in ToSet(page) <=> <<q[m], i>> \notin R
    <3>1. PICK k \in 1 .. c : q[k] = i
      BY <1>4
    <3>2. i \in ToSet(page) <=> k <= m
      <4>1. ASSUME NEW l \in 1 .. m, q[l] = i PROVE l = k
        BY <1>5, <1>10, <3>1, <4>1
      <4>. QED
        BY <1>9, <3>1, <4>1
    <3>3. <<q[m], i>> \in R <=> m < k
      BY <1>4, <1>5, <2>1, <3>1
    <3>. QED
      BY <3>2, <3>3
  <2>. QED
    BY <2>2, <2>3, <2>4
<1>. QED
  BY <1>7, <1>8, <1>11, <1>12, <1>13 DEF IsPage

LEMMA Concatenated ==
    ASSUME NEW T, NEW s \in Seq(T), NEW t \in Seq(T), NEW all, all = s \o t
    PROVE  /\ all \in Seq(T) /\ DOMAIN all \subseteq Nat
           /\ \A k \in DOMAIN all : (k \in DOMAIN s /\ all[k] = s[k]) \/ (k - Len(s) \in DOMAIN t /\ all[k] = t[k - Len(s)])
           /\ \A k \in DOMAIN s : k \in DOMAIN all /\ all[k] = s[k]
           /\ \A k \in DOMAIN t : k + Len(s) \in DOMAIN all /\ all[k + Len(s)] = t[k]
<1>1. PICK m, n : m = Len(s) /\ n = Len(t)
  OBVIOUS
<1>2. all \in Seq(T) /\ Len(all) = m + n /\ m \in Nat /\ n \in Nat
  BY <1>1
<1>3. DOMAIN all = 1 .. m + n /\ DOMAIN s = 1 .. m /\ DOMAIN t = 1 .. n
  BY <1>1, <1>2
<1>4. \A k \in 1 .. m + n : all[k] = IF k <= m THEN s[k] ELSE t[k - m]
  BY <1>1
<1>5. ASSUME NEW k \in DOMAIN all
      PROVE  (k \in DOMAIN s /\ all[k] = s[k]) \/ (k - m \in DOMAIN t /\ all[k] = t[k - m])
  <2>1. CASE k <= m
    <3>1. k \in 1 .. m + n /\ k \in 1 .. m
      BY <1>2, <1>3, <2>1
    <3>. QED
      BY <1>3, <1>4, <2>1, <3>1
  <2>2. CASE ~(k <= m)
    <3>1. k \in 1 .. m + n /\ k - m \in 1 .. n
      BY <1>2, <1>3, <2>2
    <3>. QED
      BY <1>3, <1>4, <2>2, <3>1
  <2>. QED
    BY <2>1, <2>2
<1>6. \A k \in DOMAIN s : k \in DOMAIN all /\ all[k] = s[k]
  BY <1>2, <1>3, <1>4
<1>7. ASSUME NEW k \in DOMAIN t PROVE k + m \in DOMAIN all /\ all[k + m] = t[k]
  <2>1. k + m \in 1 .. m + n /\ ~(k + m <= m) /\ (k + m) - m = k
    BY <1>2, <1>3
  <2>. QED
    BY <1>3, <1>4, <2>1
<1>. QED
  BY <1>1, <1>2, <1>3, <1>5, <1>6, <1>7

Joinable(s, t) == \E T : s \in Seq(T) /\ t \in Seq(T)

LEMMA JoinedSet ==
    ASSUME NEW s, NEW t, Joinable(s, t), NEW all, all = s \o t
    PROVE  ToSet(all) = ToSet(s) \union ToSet(t)
<1> SUFFICES ASSUME NEW T, s \in Seq(T), t \in Seq(T) PROVE ToSet(all) = ToSet(s) \union ToSet(t)
  BY DEF Joinable
<1>1. \A k \in DOMAIN all : (k \in DOMAIN s /\ all[k] = s[k]) \/ (k - Len(s) \in DOMAIN t /\ all[k] = t[k - Len(s)])
  BY Concatenated
<1>2. /\ \A k \in DOMAIN s : k \in DOMAIN all /\ all[k] = s[k]
      /\ \A k \in DOMAIN t : k + Len(s) \in DOMAIN all /\ all[k + Len(s)] = t[k]
  BY Concatenated
<1>3. ToSet(all) \subseteq ToSet(s) \union ToSet(t)
  BY <1>1 DEF ToSet
<1>4. ToSet(s) \subseteq ToSet(all) /\ ToSet(t) \subseteq ToSet(all)
  <2>1. ASSUME NEW x \in ToSet(s) PROVE x \in ToSet(all)
    BY <1>2, Zenon DEF ToSet
  <2>2. ASSUME NEW x \in ToSet(t) PROVE x \in ToSet(all)
    BY <1>2, Zenon DEF ToSet
  <2>. QED
    BY <2>1, <2>2
<1>. QED
  BY <1>3, <1>4

\* Pages that have nothing in common add up to a list without repetition.
LEMMA OnceMore ==
    ASSUME NEW T, NEW s \in Seq(T), NEW t \in Seq(T), NEW W, Once(s, W), Once(t, W),
           \A x \in ToSet(s) : x \in ToSet(t) => x \in W
    PROVE  Once(s \o t, W)
<1>1. PICK all : all = s \o t
  OBVIOUS
<1>2. /\ DOMAIN all \subseteq Nat
      /\ \A k \in DOMAIN all : (k \in DOMAIN s /\ all[k] = s[k]) \/ (k - Len(s) \in DOMAIN t /\ all[k] = t[k - Len(s)])
  BY <1>1, Concatenated
<1>3. SUFFICES ASSUME NEW k \in DOMAIN all, NEW l \in DOMAIN all, all[k] = all[l], all[k] \notin W PROVE k = l
  BY <1>1 DEF Once
<1>4. k \in Nat /\ l \in Nat /\ Len(s) \in Nat
  BY <1>2
<1>5. CASE k \in DOMAIN s /\ all[k] = s[k] /\ l \in DOMAIN s /\ all[l] = s[l]
  BY <1>3, <1>5 DEF Once
<1>6. CASE k - Len(s) \in DOMAIN t /\ all[k] = t[k - Len(s)] /\ l - Len(s) \in DOMAIN t /\ all[l] = t[l - Len(s)]
  <2>1. k - Len(s) = l - Len(s)
    BY <1>3, <1>6 DEF Once
  <2>. QED
    BY <1>4, <2>1
<1>7. ASSUME NEW a \in DOMAIN s, NEW b \in DOMAIN t, s[a] = t[b] PROVE s[a] \in W
  BY <1>7 DEF ToSet
<1>. QED
  BY <1>2, <1>3, <1>5, <1>6, <1>7

-----------------------------------------------------------------------------
(* The sync of the client's copy *)

ClientStep == SyncBegin \/ SyncNext \/ BrowseBegin \/ BrowseNext

Changed == {i \in Ids : row'[i] # row[i]}
StoredRows ==
    /\ late' = (late \ Changed) \union {i \in Changed : Passed(i, row'[i].at)}
    /\ moved' = moved \union Changed
    /\ UNCHANGED <<sync, copy, browse>>

LEMMA WriteStores == ASSUME NEW rows, Write(rows), UNCHANGED <<sync, copy, browse>> PROVE StoredRows
BY DEF Write, StoredRows, Changed

LEMMA NoWriteStores == ASSUME NoWrite, UNCHANGED <<sync, copy, browse>> PROVE StoredRows
<1>1. Changed = {}
  BY DEF NoWrite, Changed
<1>. QED
  BY <1>1 DEF NoWrite, StoredRows

\* What is not a page of a client is a write of rows, which files each of them as late or not.
LEMMA ShelfStores == ASSUME ShelfNext PROVE ClientStep \/ StoredRows
<1>1. ASSUME NEW c \in Calls, NEW i \in Ids,
             \/ \E fav, pinned \in BOOLEAN : SetFavorite(c, i, fav, pinned)
             \/ \E pinned \in BOOLEAN : UpdatePin(c, i, pinned)
             \/ \E fav \in BOOLEAN : UpdateFavorite(c, i, fav)
             \/ DeleteBlock(c, i)
             \/ \E expr \in Expressions : UpdateBlock(c, i, expr)
      PROVE  StoredRows
  BY <1>1, NoWriteStores, Zenon DEF SetFavorite, UpdatePin, UpdateFavorite, DeleteBlock, UpdateBlock, Clients
<1>2. ASSUME NEW c \in Calls,
             \/ \E session \in Sessions, batch \in Batches, scene \in Scenes : BatchAccept(c, session, batch, scene)
             \/ ProvisionStarterCorpus(c)
             \/ \E batch \in Batches, scene \in Scenes : StarterAccept(c, batch, scene)
             \/ CallFails(c)
      PROVE  StoredRows
  BY <1>2, NoWriteStores, Zenon DEF BatchAccept, ProvisionStarterCorpus, StarterAccept, CallFails, Clients
<1>3. ASSUME NEW c \in Calls, StoreFavorite(c) \/ SoftDeleteBlock(c) \/ ResetSchedule(c) PROVE StoredRows
  BY <1>3, NoWriteStores, WriteStores, Zenon DEF StoreFavorite, SoftDeleteBlock, ResetSchedule, Clients
<1>4. ASSUME NEW c \in Calls, StoreEdit(c) \/ EditReadBack(c) \/ SaveAcceptedBlocks(c) PROVE StoredRows
  BY <1>4, NoWriteStores, WriteStores, Zenon DEF StoreEdit, EditReadBack, SaveAcceptedBlocks, Clients
<1>5. ASSUME \/ \E i \in Ids, reason \in Reasons : RecordFeedback(i, reason)
             \/ \E at \in 0 .. MaxNow : SoftDeleteAllForUser(at)
             \/ RestoreDeletedForUser
             \/ \E i \in Ids, expr \in Expressions, session \in Sessions, scene \in Scenes :
                  GuestAccepts(i, expr, session, scene)
             \/ ReassignUser
      PROVE  StoredRows
  BY <1>5, NoWriteStores, WriteStores, Zenon
     DEF RecordFeedback, SoftDeleteAllForUser, RestoreDeletedForUser, GuestAccepts, ReassignUser, Clients
<1>. QED
  BY <1>1, <1>2, <1>3, <1>4, <1>5, Zenon DEF ShelfNext, ClientStep

LEMMA DayStores == ASSUME [Next]_vars PROVE ClientStep \/ StoredRows
<1>1. ASSUME UNCHANGED shelfVars PROVE StoredRows
  BY <1>1, NoWriteStores DEF shelfVars, NoWrite
<1>2. ASSUME NEW v \in Visits, CreditCheckin(v) PROVE StoredRows
  BY <1>2, NoWriteStores, WriteStores, Zenon DEF CreditCheckin, Clients
<1>3. ASSUME NEW e \in Emits, CreditHit(e) PROVE StoredRows
  BY <1>3, NoWriteStores, WriteStores, Zenon DEF CreditHit, Clients
<1>. QED
  BY <1>1, <1>2, <1>3, ShelfStores, Zenon DEF Next, vars

Unsynced(mark, cursor) == {i \in Owned(Me) : row[i].at > mark /\ AfterDelta(i, cursor)}
DeltaPairs == {p \in Ids \X Ids : DeltaOrder(p[1], p[2])}

LEMMA OwnedRows ==
    ASSUME RowsBacked, NEW user, NEW i \in Owned(user)
    PROVE  i \in Ids /\ i \in Nat /\ row[i] # None /\ row[i].at \in Nat
BY ShelfAssumption DEF RowsBacked, Owned

LEMMA DeltaPageIsPage ==
    ASSUME RowsBacked, NEW mark, NEW cursor
    PROVE  /\ \A i, j \in Owned(Me) : <<i, j>> \in DeltaPairs <=> DeltaOrder(i, j)
           /\ IsPage(DeltaPage(Me, mark, cursor), Unsynced(mark, cursor), DeltaPairs, PageSize)
<1> DEFINE S == Unsynced(mark, cursor)
           q == Ordered(S, DeltaOrder)
<1>1. \A i, j \in Owned(Me) : <<i, j>> \in DeltaPairs <=> DeltaOrder(i, j)
  BY OwnedRows DEF DeltaPairs
<1>2. S \subseteq Owned(Me) /\ S \subseteq Ids
  BY DEF Unsynced, Owned
<1>3. IsFiniteSet(S) /\ Cardinality(S) \in Nat
  BY <1>2, ShelfAssumption, FS_Subset, FS_CardinalityType
<1>4. TotalOn(S, DeltaPairs)
  <2>1. \A i \in S : i \in Nat /\ row[i].at \in Nat
    BY <1>2, OwnedRows
  <2>2. \A x, y \in S : <<x, y>> \in DeltaPairs <=> row[x].at < row[y].at \/ (row[x].at = row[y].at /\ x < y)
    BY <1>1, <1>2 DEF DeltaOrder
  <2>. QED
    BY <2>1, <2>2 DEF TotalOn
<1>5. \A i \in S : {j \in S : DeltaOrder(j, i)} = Ahead(S, DeltaPairs, i)
  BY <1>1, <1>2 DEF Ahead
<1> DEFINE place(k) == CHOOSE i \in S : Cardinality({j \in S : DeltaOrder(j, i)}) = k - 1
<1>6. q = [k \in 1 .. Cardinality(S) |-> place(k)]
  BY DEF Ordered
<1> HIDE DEF S, q
<1>7. ASSUME NEW k \in 1 .. Cardinality(S)
      PROVE  place(k) \in S /\ Cardinality(Ahead(S, DeltaPairs, place(k))) = k - 1
  <2>1. PICK i \in S : Cardinality(Ahead(S, DeltaPairs, i)) = k - 1
    BY <1>3, <1>4, PlacesFilled
  <2>2. \E x \in S : Cardinality({j \in S : DeltaOrder(j, x)}) = k - 1
    BY <1>5, <2>1
  <2>3. place(k) \in S /\ Cardinality({j \in S : DeltaOrder(j, place(k))}) = k - 1
    BY <2>2
  <2>. QED
    BY <1>5, <2>3
<1> HIDE DEF place
<1>8. Enumerates(q, S, DeltaPairs)
  BY <1>6, <1>7 DEF Enumerates
<1>9. IsPage(First(PageSize, q), S, DeltaPairs, PageSize)
  BY <1>3, <1>4, <1>8, FirstIsPage, ShelfAssumption
<1>. QED
  BY <1>1, <1>9 DEF S, q, DeltaPage, Unsynced

\* Where the sync stands, and that what it has passed is in the copy or was stored behind it.
SyncInv ==
    /\ DOMAIN sync = {"on", "mark", "cursor"} /\ sync.on \in BOOLEAN /\ sync.mark \in Nat
    /\ sync.on => sync.cursor \in [at : Nat, id : Ids] /\ sync.cursor.at > sync.mark
    /\ ~sync.on => sync.cursor = None
    /\ \A i \in Owned(Me) : copy[i] = row[i] \/ i \in late \/ ~Passed(i, row[i].at)

LEMMA SyncInvInit == Init => SyncInv
<1> SUFFICES ASSUME Init PROVE SyncInv
  OBVIOUS
<1>1. sync = [on |-> FALSE, mark |-> 0, cursor |-> None] /\ copy = row
  BY DEF Init, ShelfInit
<1>. QED
  BY <1>1 DEF SyncInv

LEMMA StoredSync == ASSUME SyncInv, StoredRows PROVE SyncInv'
<1>1. UNCHANGED <<sync, copy>>
  BY DEF StoredRows
<1>2. \A i, at : Passed(i, at)' <=> Passed(i, at)
  BY <1>1 DEF Passed
<1>3. ASSUME NEW i \in Owned(Me)' PROVE (copy[i] = row[i])' \/ i \in late' \/ ~Passed(i, row'[i].at)
  <2>1. i \in Ids /\ row'[i] # None /\ row'[i].user = Me
    BY DEF Owned
  <2>2. CASE row'[i] = row[i]
    <3>1. i \in Owned(Me) /\ i \notin Changed
      BY <2>1, <2>2 DEF Owned, Changed
    <3>. QED
      BY <1>1, <2>2, <3>1 DEF SyncInv, StoredRows
  <2>3. CASE row'[i] # row[i]
    BY <2>1, <2>3 DEF StoredRows, Changed
  <2>. QED
    BY <2>2, <2>3
<1>4. \A i \in Owned(Me)' : (copy[i] = row[i] \/ i \in late \/ ~Passed(i, row[i].at))'
  BY <1>2, <1>3
<1>. QED
  BY <1>1, <1>4 DEF SyncInv

\* What has not been passed is among what a page is taken from.
LEMMA NotPassedIsUnsynced ==
    ASSUME RowsBacked, SyncInv, NEW i \in Owned(Me), ~Passed(i, row[i].at)
    PROVE  i \in Unsynced(sync.mark, sync.cursor)
<1>1. i \in Nat /\ row[i].at \in Nat
  BY OwnedRows
<1>2. CASE sync.on
  <2>1. sync.cursor # None /\ sync.cursor.at \in Nat /\ sync.cursor.id \in Nat
    BY <1>2, ShelfAssumption DEF SyncInv
  <2>. QED
    BY <1>1, <1>2, <2>1 DEF SyncInv, Passed, Unsynced, AfterDelta
<1>3. CASE ~sync.on
  BY <1>1, <1>3 DEF SyncInv, Passed, Unsynced, AfterDelta
<1>. QED
  BY <1>2, <1>3 DEF SyncInv

LEMMA SyncPageStep ==
    ASSUME RowsBacked, SyncInv, SyncPage(DeltaPage(Me, sync.mark, sync.cursor)) PROVE SyncInv'
<1> DEFINE S == Unsynced(sync.mark, sync.cursor)
<1>1. PICK page : page = DeltaPage(Me, sync.mark, sync.cursor)
  OBVIOUS
<1>2. IsPage(page, S, DeltaPairs, PageSize) /\ \A i, j \in Owned(Me) : <<i, j>> \in DeltaPairs <=> DeltaOrder(i, j)
  BY <1>1, DeltaPageIsPage
<1>3. UNCHANGED <<row, late>> /\ copy' = [i \in Ids |-> IF i \in ToSet(page) THEN row[i] ELSE copy[i]]
  BY <1>1 DEF SyncPage, NoWrite, Merge
<1>4. Owned(Me)' = Owned(Me)
  BY <1>3 DEF Owned
<1>5. ASSUME NEW i \in Owned(Me), i \notin late', copy'[i] # row'[i]
      PROVE  i \in S /\ i \notin ToSet(page)
  <2>1. i \in Ids
    BY OwnedRows
  <2>2. i \notin ToSet(page) /\ copy[i] # row[i] /\ i \notin late
    BY <1>3, <1>5, <2>1
  <2>. QED
    BY <2>2, NotPassedIsUnsynced DEF SyncInv
<1>6. \A i \in S : i \in Owned(Me) /\ i \in Ids /\ i \in Nat /\ row[i].at \in Nat /\ row[i].at > sync.mark
  BY OwnedRows DEF Unsynced
<1>7. Len(page) \in Nat /\ (page = <<>> <=> Len(page) = 0)
  BY <1>2 DEF IsPage
<1>8. CASE Len(page) = PageSize
  <2>1. page # <<>>
    BY <1>7, <1>8, ShelfAssumption
  <2>2. PICK last : last = Last(page)
    OBVIOUS
  <2>3. last \in S /\ \A i \in S : i \in ToSet(page) <=> <<last, i>> \notin DeltaPairs
    BY <1>2, <2>1, <2>2 DEF IsPage
  <2>4. PICK cursor : cursor = [at |-> row[last].at, id |-> last]
    OBVIOUS
  <2>5. cursor \in [at : Nat, id : Ids] /\ cursor.at = row[last].at /\ cursor.id = last /\ cursor # None
    BY <1>6, <2>3, <2>4, ShelfAssumption
  <2>6. sync' = [sync EXCEPT !.on = TRUE, !.cursor = cursor]
    BY <1>1, <1>8, <2>2, <2>4 DEF SyncPage
  <2>7. DOMAIN sync' = {"on", "mark", "cursor"} /\ sync'.on = TRUE /\ sync'.cursor = cursor /\ sync'.mark = sync.mark
    BY <2>6 DEF SyncInv
  <2>8. ASSUME NEW i \in Owned(Me), i \notin late', copy'[i] # row'[i] PROVE ~Passed(i, row[i].at)'
    <3>1. i \in S /\ <<last, i>> \in DeltaPairs
      BY <1>5, <2>3, <2>8
    <3>2. row[last].at < row[i].at \/ (row[last].at = row[i].at /\ last < i)
      BY <1>2, <1>6, <2>3, <3>1 DEF DeltaOrder
    <3>3. /\ row[i].at \in Nat /\ row[last].at \in Nat /\ i \in Nat /\ last \in Nat
          /\ sync'.cursor # None /\ sync'.cursor.at = row[last].at /\ sync'.cursor.id = last /\ row' = row
      BY <1>3, <1>6, <2>3, <2>5, <2>7, <3>1
    <3>. QED
      BY <3>2, <3>3 DEF Passed
  <2>9. \A i \in Owned(Me)' : (copy[i] = row[i] \/ i \in late \/ ~Passed(i, row[i].at))'
    BY <1>3, <1>4, <2>8
  <2>. QED
    BY <1>6, <2>3, <2>5, <2>7, <2>9 DEF SyncInv
<1>9. CASE Len(page) # PageSize
  <2>1. S \subseteq ToSet(page)
    BY <1>2, <1>7, <1>9, ShelfAssumption DEF IsPage
  <2>2. PICK mark : mark = (IF page # <<>> THEN row[Last(page)].at
                            ELSE IF sync.cursor # None THEN sync.cursor.at ELSE sync.mark)
    OBVIOUS
  <2>3. mark \in Nat
    <3>1. page # <<>> => Last(page) \in S
      BY <1>2 DEF IsPage
    <3>2. sync.cursor # None => sync.cursor.at \in Nat
      BY DEF SyncInv
    <3>. QED
      BY <1>6, <2>2, <3>1, <3>2 DEF SyncInv
  <2>4. sync' = [on |-> FALSE, cursor |-> None, mark |-> mark]
    BY <1>1, <1>9, <2>2 DEF SyncPage
  <2>5. \A i \in Owned(Me)' : (copy[i] = row[i] \/ i \in late \/ ~Passed(i, row[i].at))'
    BY <1>4, <1>5, <2>1
  <2>. QED
    BY <2>3, <2>4, <2>5 DEF SyncInv
<1>. QED
  BY <1>8, <1>9

LEMMA SyncStays == ASSUME SyncInv, UNCHANGED <<row, late, sync, copy>> PROVE SyncInv'
<1>1. Owned(Me)' = Owned(Me) /\ \A i, at : Passed(i, at)' <=> Passed(i, at)
  BY DEF Owned, Passed
<1>. QED
  BY <1>1 DEF SyncInv

LEMMA SyncInvNext == SyncInv /\ EvidenceInv /\ [Next]_vars => SyncInv'
<1> SUFFICES ASSUME SyncInv, EvidenceInv, [Next]_vars PROVE SyncInv'
  OBVIOUS
<1>1. CASE SyncBegin \/ SyncNext
  <2>1. SyncPage(DeltaPage(Me, sync.mark, sync.cursor))
    BY <1>1 DEF SyncBegin, SyncNext, SyncInv
  <2>. QED
    BY <2>1, SyncPageStep DEF EvidenceInv, ShelfInv
<1>2. CASE BrowseBegin \/ BrowseNext
  BY <1>2, SyncStays DEF BrowseBegin, BrowseNext, Browse
<1>. QED
  BY <1>1, <1>2, DayStores, StoredSync DEF ClientStep

\* When an incremental sync is over, the client's copy of a block is the stored row, or the row was
\* stamped after the mark or stored behind the sync's position: for any number of blocks, pages of any
\* size and any interleaving of writes, paging by (updated_at, id) loses nothing else (ListBlocks).
THEOREM SyncLosesNothing == Spec => []DeltaSyncLosesNothing
<1>1. SyncInv /\ EvidenceInv => DeltaSyncLosesNothing
  <2> SUFFICES ASSUME SyncInv, EvidenceInv, ~sync.on, NEW i \in Owned(Me), ~Passed(i, row[i].at)
               PROVE  row[i].at > sync.mark
    BY DEF SyncInv, DeltaSyncLosesNothing
  <2>1. row[i].at \in Nat
    BY OwnedRows DEF EvidenceInv, ShelfInv
  <2>. QED
    BY <2>1 DEF SyncInv, Passed
<1>. QED
  BY <1>1, SyncInvInit, SyncInvNext, EvidenceInvInit, EvidenceInvNext, StreakInvInit, StreakInvNext, ClockInvInit,
     ClockInvNext, PTL DEF Spec

-----------------------------------------------------------------------------
(* The browse of the blocks *)

Unbrowsed(cursor) == {i \in Live(Me) : AfterBrowse(i, cursor)}
BrowsePairs == {p \in Ids \X Ids : BrowseOrder(p[1], p[2])}

LEMMA Ranks == ASSUME NEW i PROVE pinRank(i) \in 0 .. 1 /\ favRank(i) \in 0 .. 1
BY DEF pinRank, favRank

LEMMA LiveRows ==
    ASSUME RowsBacked, NEW i \in Live(Me)
    PROVE  i \in Ids /\ i \in Nat /\ row[i] # None /\ row[i].at \in Nat
BY OwnedRows DEF Live

LEMMA BrowsePageIsPage ==
    ASSUME RowsBacked, NEW cursor
    PROVE  /\ \A i, j \in Live(Me) : <<i, j>> \in BrowsePairs <=> BrowseOrder(i, j)
           /\ IsPage(BrowsePage(Me, cursor, PageSize), Unbrowsed(cursor), BrowsePairs, PageSize)
<1> DEFINE S == Unbrowsed(cursor)
           q == Ordered(S, BrowseOrder)
<1>1. \A i, j \in Live(Me) : <<i, j>> \in BrowsePairs <=> BrowseOrder(i, j)
  BY LiveRows DEF BrowsePairs
<1>2. S \subseteq Live(Me) /\ S \subseteq Ids
  BY DEF Unbrowsed, Live, Owned
<1>3. IsFiniteSet(S) /\ Cardinality(S) \in Nat
  BY <1>2, ShelfAssumption, FS_Subset, FS_CardinalityType
<1>4. TotalOn(S, BrowsePairs)
  <2>1. \A i \in S : i \in Nat /\ row[i].at \in Nat /\ pinRank(i) \in 0 .. 1 /\ favRank(i) \in 0 .. 1
    BY <1>2, LiveRows, Ranks
  <2>2. \A x, y \in S : <<x, y>> \in BrowsePairs <=>
          \/ pinRank(x) < pinRank(y)
          \/ pinRank(x) = pinRank(y) /\ favRank(x) < favRank(y)
          \/ pinRank(x) = pinRank(y) /\ favRank(x) = favRank(y) /\ row[x].at > row[y].at
          \/ pinRank(x) = pinRank(y) /\ favRank(x) = favRank(y) /\ row[x].at = row[y].at /\ x > y
    BY <1>1, <1>2 DEF BrowseOrder
  <2>3. \A x, y \in S : x # y => <<x, y>> \in BrowsePairs \/ <<y, x>> \in BrowsePairs
    BY <2>1, <2>2
  <2>4. \A x \in S : <<x, x>> \notin BrowsePairs
    BY <2>1, <2>2
  <2>5. \A x, y, z \in S : <<x, y>> \in BrowsePairs /\ <<y, z>> \in BrowsePairs => <<x, z>> \in BrowsePairs
    BY <2>1, <2>2
  <2>. QED
    BY <2>3, <2>4, <2>5 DEF TotalOn
<1>5. \A i \in S : {j \in S : BrowseOrder(j, i)} = Ahead(S, BrowsePairs, i)
  BY <1>1, <1>2 DEF Ahead
<1> DEFINE place(k) == CHOOSE i \in S : Cardinality({j \in S : BrowseOrder(j, i)}) = k - 1
<1>6. q = [k \in 1 .. Cardinality(S) |-> place(k)]
  BY DEF Ordered
<1> HIDE DEF S, q
<1>7. ASSUME NEW k \in 1 .. Cardinality(S)
      PROVE  place(k) \in S /\ Cardinality(Ahead(S, BrowsePairs, place(k))) = k - 1
  <2>1. PICK i \in S : Cardinality(Ahead(S, BrowsePairs, i)) = k - 1
    BY <1>3, <1>4, PlacesFilled
  <2>2. \E x \in S : Cardinality({j \in S : BrowseOrder(j, x)}) = k - 1
    BY <1>5, <2>1
  <2>3. place(k) \in S /\ Cardinality({j \in S : BrowseOrder(j, place(k))}) = k - 1
    BY <2>2
  <2>. QED
    BY <1>5, <2>3
<1> HIDE DEF place
<1>8. Enumerates(q, S, BrowsePairs)
  BY <1>6, <1>7 DEF Enumerates
<1>9. IsPage(First(PageSize, q), S, BrowsePairs, PageSize)
  BY <1>3, <1>4, <1>8, FirstIsPage, ShelfAssumption
<1>. QED
  BY <1>1, <1>9 DEF S, q, BrowsePage, Unbrowsed

\* Of the blocks that nobody has written: each was shown at most once, and is live if it was shown.
ShownOnce(seen, written) ==
    /\ seen \in Seq(Ids) /\ Once(seen, written)
    /\ ToSet(seen) \subseteq Live(Me) \union written

\* The browse stands between what it has shown and what it has not.
BrowseInv ==
    /\ browse.on \in BOOLEAN /\ ShownOnce(browse.seen, moved)
    /\ browse.on =>
         /\ browse.cursor \in [pin : 0 .. 1, fav : 0 .. 1, at : Nat, id : Ids]
         /\ \A i \in Live(Me) \ moved : i \in ToSet(browse.seen) <=> ~AfterBrowse(i, browse.cursor)
    /\ ~browse.on /\ browse.seen # <<>> => Live(Me) \ moved \subseteq ToSet(browse.seen)

LEMMA BrowseInvInit == Init => BrowseInv
<1> SUFFICES ASSUME Init PROVE BrowseInv
  OBVIOUS
<1>1. browse = [on |-> FALSE, cursor |-> None, seen |-> <<>>]
  BY DEF Init, ShelfInit
<1>. QED
  BY <1>1 DEF BrowseInv, ShownOnce, Once, ToSet

\* A write moves the blocks it touches, and no other changes its place.
LEMMA StoredBrowse == ASSUME BrowseInv, StoredRows PROVE BrowseInv'
<1>1. UNCHANGED browse /\ moved' = moved \union Changed
  BY DEF StoredRows
<1>2. ASSUME NEW i \in Ids, i \notin moved'
      PROVE  /\ i \notin moved /\ (i \in Live(Me)' <=> i \in Live(Me))
             /\ \A cursor : AfterBrowse(i, cursor)' <=> AfterBrowse(i, cursor)
  <2>1. row'[i] = row[i] /\ i \notin moved
    BY <1>1, <1>2 DEF Changed
  <2>. QED
    BY <2>1 DEF Live, Owned, AfterBrowse, pinRank, favRank
<1>3. \A i : i \in Live(Me)' \/ i \in Live(Me) => i \in Ids
  BY DEF Live, Owned
<1>4. ShownOnce(browse.seen, moved)'
  <2>1. \A i \in ToSet(browse.seen) : i \in Ids
    BY DEF BrowseInv, ShownOnce, ToSet
  <2>2. ToSet(browse.seen) \subseteq Live(Me)' \union moved'
    BY <1>1, <1>2, <2>1 DEF BrowseInv, ShownOnce
  <2>. QED
    BY <1>1, <2>2 DEF BrowseInv, ShownOnce, Once
<1>5. ASSUME browse'.on, NEW i \in Live(Me)', i \notin moved'
      PROVE  i \in ToSet(browse'.seen) <=> ~AfterBrowse(i, browse.cursor)'
  BY <1>1, <1>2, <1>3, <1>5 DEF BrowseInv
<1>6. ~browse'.on /\ browse'.seen # <<>> => Live(Me)' \ moved' \subseteq ToSet(browse'.seen)
  BY <1>1, <1>2, <1>3 DEF BrowseInv
<1>. QED
  BY <1>1, <1>4, <1>5, <1>6 DEF BrowseInv

\* One page more: the blocks that follow the cursor, up to the page's last one.
LEMMA BrowsePageStep ==
    ASSUME RowsBacked, NEW seen, NEW cursor, Browse(BrowsePage(Me, cursor, PageSize), seen), ShownOnce(seen, moved'),
           \A i \in Live(Me) \ moved' : i \in ToSet(seen) <=> ~AfterBrowse(i, cursor),
           cursor # None => cursor \in [pin : 0 .. 1, fav : 0 .. 1, at : Nat, id : Ids]
    PROVE  BrowseInv'
<1> DEFINE S == Unbrowsed(cursor)
<1>1. PICK page : page = BrowsePage(Me, cursor, PageSize)
  OBVIOUS
<1>2. IsPage(page, S, BrowsePairs, PageSize) /\ \A i, j \in Live(Me) : <<i, j>> \in BrowsePairs <=> BrowseOrder(i, j)
  BY <1>1, BrowsePageIsPage
<1>3. UNCHANGED row
  BY DEF Browse
<1>4. Live(Me)' = Live(Me) /\ \A i, c : AfterBrowse(i, c)' <=> AfterBrowse(i, c)
  BY <1>3 DEF Live, Owned, AfterBrowse, pinRank, favRank
<1>5. PICK all : all = seen \o page
  OBVIOUS
<1>6. page \in Seq(Ids) /\ seen \in Seq(Ids) /\ S \subseteq Live(Me)
  BY <1>2, LiveRows DEF IsPage, ShownOnce, Unbrowsed
<1>7. all \in Seq(Ids) /\ ToSet(all) = ToSet(seen) \union ToSet(page)
  <2>1. all \in Seq(Ids)
    BY <1>5, <1>6
  <2>2. Joinable(seen, page)
    BY <1>6, Zenon DEF Joinable
  <2>. QED
    BY <1>5, <2>1, <2>2, JoinedSet
<1>8. ToSet(page) \subseteq S
  BY <1>2 DEF IsPage, ToSet
<1>9. Once(all, moved')
  <2>1. Once(page, moved')
    BY <1>2 DEF IsPage, Once
  <2>2. \A i \in ToSet(seen) : i \in ToSet(page) => i \in moved'
    BY <1>6, <1>8 DEF Unbrowsed
  <2>3. Once(seen, moved')
    BY DEF ShownOnce
  <2>. QED
    BY <1>5, <1>6, <2>1, <2>2, <2>3, OnceMore
<1>10. ShownOnce(all, moved)'
  BY <1>4, <1>6, <1>7, <1>8, <1>9 DEF ShownOnce, Once
<1>11. Len(page) \in Nat /\ (page = <<>> <=> Len(page) = 0)
  BY <1>2 DEF IsPage
<1>12. CASE Len(page) = PageSize
  <2>1. page # <<>>
    BY <1>11, <1>12, ShelfAssumption
  <2>2. PICK last : last = Last(page)
    OBVIOUS
  <2>3. last \in S /\ last \in Live(Me) /\ \A i \in S : i \in ToSet(page) <=> <<last, i>> \notin BrowsePairs
    BY <1>2, <1>6, <2>1, <2>2 DEF IsPage
  <2>4. PICK next : next = CursorOf(last)
    OBVIOUS
  <2>5. /\ next \in [pin : 0 .. 1, fav : 0 .. 1, at : Nat, id : Ids] /\ next # None
        /\ next.pin = pinRank(last) /\ next.fav = favRank(last) /\ next.at = row[last].at /\ next.id = last
    <3>1. pinRank(last) \in 0 .. 1 /\ favRank(last) \in 0 .. 1 /\ row[last].at \in Nat /\ last \in Ids
      BY <2>3, Ranks, LiveRows
    <3>. QED
      BY <2>4, <3>1, ShelfAssumption DEF CursorOf
  <2>6. browse' = [on |-> TRUE, seen |-> all, cursor |-> next]
    BY <1>1, <1>5, <1>12, <2>2, <2>4 DEF Browse
  <2>7. ASSUME NEW i \in Live(Me) PROVE AfterBrowse(i, next) <=> BrowseOrder(last, i)
    <3>1. /\ pinRank(i) \in 0 .. 1 /\ favRank(i) \in 0 .. 1 /\ row[i].at \in Nat /\ i \in Nat
          /\ pinRank(last) \in 0 .. 1 /\ favRank(last) \in 0 .. 1 /\ row[last].at \in Nat /\ last \in Nat
      BY <2>3, Ranks, LiveRows
    <3>. QED
      BY <2>5, <3>1 DEF AfterBrowse, BrowseOrder
  <2>8. ASSUME NEW i \in Live(Me), AfterBrowse(i, next) PROVE AfterBrowse(i, cursor)
    <3>1. CASE cursor = None
      BY <3>1 DEF AfterBrowse
    <3>2. CASE cursor # None
      <4>1. /\ pinRank(i) \in 0 .. 1 /\ favRank(i) \in 0 .. 1 /\ row[i].at \in Nat /\ i \in Nat
            /\ pinRank(last) \in 0 .. 1 /\ favRank(last) \in 0 .. 1 /\ row[last].at \in Nat /\ last \in Nat
        BY <2>3, Ranks, LiveRows
      <4>2. cursor.pin \in 0 .. 1 /\ cursor.fav \in 0 .. 1 /\ cursor.at \in Nat /\ cursor.id \in Nat
        BY <3>2, ShelfAssumption
      <4>3. AfterBrowse(last, cursor)
        BY <2>3 DEF Unbrowsed
      <4>4. BrowseOrder(last, i)
        BY <2>7, <2>8
      <4>. QED
        BY <3>2, <4>1, <4>2, <4>3, <4>4 DEF AfterBrowse, BrowseOrder
    <3>. QED
      BY <3>1, <3>2
  <2>9. ASSUME NEW i \in Live(Me) \ moved' PROVE i \in ToSet(all) <=> ~AfterBrowse(i, next)
    <3>1. i \in S <=> AfterBrowse(i, cursor)
      BY DEF Unbrowsed
    <3>2. i \in ToSet(page) => i \in S
      BY <1>8
    <3>3. i \in S => (i \in ToSet(page) <=> ~AfterBrowse(i, next))
      BY <1>2, <2>3, <2>7
    <3>. QED
      BY <1>7, <2>8, <3>1, <3>2, <3>3
  <2>. QED
    BY <1>4, <1>10, <2>5, <2>6, <2>9 DEF BrowseInv
<1>13. CASE Len(page) # PageSize
  <2>1. S \subseteq ToSet(page)
    BY <1>2, <1>11, <1>13, ShelfAssumption DEF IsPage
  <2>2. browse' = [on |-> FALSE, seen |-> all, cursor |-> None]
    BY <1>1, <1>5, <1>13 DEF Browse
  <2>3. Live(Me) \ moved' \subseteq ToSet(all)
    BY <1>7, <2>1 DEF Unbrowsed
  <2>. QED
    BY <1>4, <1>10, <2>2, <2>3 DEF BrowseInv
<1>. QED
  BY <1>12, <1>13

LEMMA BrowseInvNext == BrowseInv /\ EvidenceInv /\ [Next]_vars => BrowseInv'
<1> SUFFICES ASSUME BrowseInv, EvidenceInv, [Next]_vars PROVE BrowseInv'
  OBVIOUS
<1>1. RowsBacked
  BY DEF EvidenceInv, ShelfInv
<1>2. CASE SyncBegin \/ SyncNext
  <2>1. UNCHANGED <<row, moved, browse>>
    BY <1>2 DEF SyncBegin, SyncNext, SyncPage, NoWrite
  <2>2. Live(Me)' = Live(Me) /\ \A i, c : AfterBrowse(i, c)' <=> AfterBrowse(i, c)
    BY <2>1 DEF Live, Owned, AfterBrowse, pinRank, favRank
  <2>. QED
    BY <2>1, <2>2 DEF BrowseInv, ShownOnce
<1>3. CASE BrowseBegin
  <2>1. ShownOnce(<<>>, moved') /\ ToSet(<<>>) = {}
    BY DEF ShownOnce, Once, ToSet
  <2>2. \A i : AfterBrowse(i, None)
    BY DEF AfterBrowse
  <2>. QED
    BY <1>1, <1>3, <2>1, <2>2, BrowsePageStep DEF BrowseBegin
<1>4. CASE BrowseNext
  <2>1. UNCHANGED moved
    BY <1>4 DEF BrowseNext
  <2>. QED
    BY <1>1, <1>4, <2>1, BrowsePageStep DEF BrowseNext, BrowseInv
<1>. QED
  BY <1>2, <1>3, <1>4, DayStores, StoredBrowse DEF ClientStep

LEMMA BrowseInvShows == BrowseInv => BrowseShowsEach
<1> SUFFICES ASSUME BrowseInv PROVE BrowseShowsEach
  OBVIOUS
<1>1. ASSUME NEW i \in Ids \ moved PROVE Cardinality({k \in DOMAIN browse.seen : browse.seen[k] = i}) <= 1
  <2> DEFINE places == {k \in DOMAIN browse.seen : browse.seen[k] = i}
  <2>1. CASE places = {}
    BY <2>1, FS_EmptySet
  <2>2. CASE places # {}
    <3>1. PICK k \in places : TRUE
      BY <2>2
    <3>2. places = {k}
      BY <3>1 DEF BrowseInv, ShownOnce, Once
    <3>3. Cardinality({k}) = 1
      BY FS_Singleton, Zenon
    <3>. QED
      BY <3>2, <3>3
  <2>. QED
    BY <2>1, <2>2
<1>. QED
  BY <1>1 DEF BrowseShowsEach, BrowseInv

-----------------------------------------------------------------------------
(* The pages of the history *)

ListFields == {"user", "items", "cursor", "done", "owed"}

\* What was settled of a session stays settled: when it began, its review, its scores, a failed job.
Settled(s, t) ==
    /\ t.at = s.at
    /\ s.status = "reviewed" => t.status = "reviewed"
    /\ s.evals = "complete" => t.evals = "complete"
    /\ \A j \in DOMAIN s.jobs : s.jobs[j].status = "failed" => j \in DOMAIN t.jobs /\ t.jobs[j].status = "failed"

\* Sessions are added at the end, and one that is there stays settled.
SessionsKept ==
    /\ DOMAIN sess \subseteq DOMAIN sess'
    /\ \A k \in DOMAIN sess : Settled(sess[k], sess'[k])
    /\ \A k \in DOMAIN sess' : k \in DOMAIN sess \/ sess'[k].at = now

LEMMA OneKept ==
    ASSUME HistoryInv, NEW k \in DOMAIN sess, NEW s, sess' = [sess EXCEPT ![k] = s], Settled(sess[k], s)
    PROVE  SessionsKept
<1>1. DOMAIN sess' = DOMAIN sess /\ \A i \in DOMAIN sess : sess'[i] = IF i = k THEN s ELSE sess[i]
  OBVIOUS
<1>. QED
  BY <1>1 DEF SessionsKept, Settled

LEMMA EnqueuedKeeps == ASSUME NEW s, IsSession(s), JobsInOrder(s) PROVE Settled(s, Enqueued(s))
<1>1. PICK jobs : jobs = Append(s.jobs, NewJob)
  OBVIOUS
<1>2. PICK t : t = [s EXCEPT !.jobs = jobs]
  OBVIOUS
<1>3. t.at = s.at /\ t.status = s.status /\ t.evals = s.evals /\ t.jobs = jobs
  BY <1>2 DEF IsSession, SessionFields
<1>5. \A j \in DOMAIN s.jobs : j \in DOMAIN jobs /\ jobs[j] = s.jobs[j]
  <2>1. PICK J, job : s.jobs \in Seq(J) /\ job = NewJob
    BY DEF JobsInOrder
  <2>. QED
    BY <1>1, <2>1
<1>4. Enqueued(s) = s \/ Enqueued(s) = t
  BY <1>1, <1>2 DEF Enqueued
<1>. QED
  BY <1>3, <1>4, <1>5 DEF Settled

LEMMA HistoryKeeps == ASSUME HistoryInv, SessionNext PROVE SessionsKept
<1>0. \A k \in DOMAIN sess : IsSession(sess[k]) /\ JobsInOrder(sess[k])
  BY DEF HistoryInv
<1>1. ASSUME NEW user \in Students, CreateSession(user) PROVE SessionsKept
  <2>1. PICK S : sess \in Seq(S)
    BY DEF HistoryInv
  <2>2. PICK s : s = NewSession(user)
    OBVIOUS
  <2>3. sess' = Append(sess, s) /\ s.at = now
    BY <1>1, <2>2 DEF CreateSession, NewSession
  <2>4. DOMAIN sess \subseteq DOMAIN sess' /\ \A k \in DOMAIN sess : sess'[k] = sess[k]
    BY <2>1, <2>3
  <2>5. \A k \in DOMAIN sess' : k \in DOMAIN sess \/ sess'[k] = s
    BY <2>1, <2>3
  <2>. QED
    BY <2>3, <2>4, <2>5 DEF SessionsKept, Settled
<1>2. ASSUME NEW k \in DOMAIN sess, Activate(k) PROVE SessionsKept
  <2>1. PICK st : /\ sess' = [sess EXCEPT ![k] = [sess[k] EXCEPT !.used = TRUE, !.status = st]]
                  /\ sess[k].status = "reviewed" => st = "reviewed"
    BY <1>2 DEF Activate
  <2>2. PICK s : s = [sess[k] EXCEPT !.used = TRUE, !.status = st]
    OBVIOUS
  <2>3. s.at = sess[k].at /\ s.status = st /\ s.evals = sess[k].evals /\ s.jobs = sess[k].jobs
    BY <1>0, <2>2 DEF IsSession, SessionFields
  <2>. QED
    BY <2>1, <2>2, <2>3, OneKept DEF Settled
<1>3. ASSUME NEW k \in DOMAIN sess, SaveUtteranceEval(k) PROVE SessionsKept
  <2>1. PICK s : s = [sess[k] EXCEPT !.evals = "complete"]
    OBVIOUS
  <2>2. s.at = sess[k].at /\ s.status = sess[k].status /\ s.evals = "complete" /\ s.jobs = sess[k].jobs
    BY <1>0, <2>1 DEF IsSession, SessionFields
  <2>. QED
    BY <1>3, <2>1, <2>2, OneKept DEF SaveUtteranceEval, Settled
<1>4. ASSUME NEW k \in DOMAIN sess, NEW report \in Reports, NEW reason \in {"user_ended", "abandoned"},
             EndSession(k, report, reason)
      PROVE  SessionsKept
  <2> DEFINE said == normalizeEndUtterances(report.said)
             status == IF reason = "abandoned" THEN "abandoned" ELSE "ended"
             ladders == normalizeEndRescueEvents(report.ladders, sess[k].user)
             ended == [sess[k] EXCEPT !.status = status, !.said = said, !.ladders = ladders]
             speaks == reason # "abandoned" /\ \E i \in DOMAIN said : said[i].speaker = "user"
  <2>1. \/ /\ sess' = [sess EXCEPT ![k] = IF speaks THEN Enqueued(ended) ELSE ended]
           /\ sess[k].status \in {"created", "active"}
        \/ sess' = [sess EXCEPT ![k] = Enqueued(sess[k])]
        \/ UNCHANGED sess
    BY <1>4, Zenon DEF EndSession
  <2>2. PICK s : s = ended
    OBVIOUS
  <2>3. /\ s.at = sess[k].at /\ s.evals = sess[k].evals /\ s.jobs = sess[k].jobs
        /\ IsSession(s) /\ IsSession(sess[k])
    <3>1. PICK st, sa, la : s = [sess[k] EXCEPT !.status = st, !.said = sa, !.ladders = la]
      BY <2>2, Zenon
    <3>. QED
      BY <1>0, <3>1 DEF IsSession, SessionFields
  <2> HIDE DEF ended, speaks
  <2>4. \/ /\ sess' = [sess EXCEPT ![k] = Enqueued(s)] \/ sess' = [sess EXCEPT ![k] = s]
           /\ sess[k].status \in {"created", "active"}
        \/ sess' = [sess EXCEPT ![k] = Enqueued(sess[k])]
        \/ UNCHANGED sess
    BY <2>1, <2>2
  <2>5. Settled(sess[k], Enqueued(sess[k]))
    BY <1>0, EnqueuedKeeps
  <2>6. CASE UNCHANGED sess
    BY <2>6 DEF SessionsKept, Settled
  <2>7. ASSUME sess[k].status \in {"created", "active"}
        PROVE  Settled(sess[k], s) /\ Settled(sess[k], Enqueued(s))
    <3>1. JobsInOrder(s)
      BY <1>0, <2>3, <2>7 DEF JobsInOrder
    <3>2. Settled(s, Enqueued(s))
      BY <2>3, <3>1, EnqueuedKeeps
    <3>. QED
      BY <2>3, <2>7, <3>2 DEF Settled
  <2>. QED
    BY <2>4, <2>5, <2>6, <2>7, OneKept
<1>5. ASSUME NEW k \in DOMAIN sess, NEW j \in DOMAIN sess[k].jobs,
             ClaimNextJob(k, j) \/ CompleteJob(k, j) \/ FailJob(k, j)
      PROVE  SessionsKept
  <2>1. PICK job, st :
          /\ sess' = [sess EXCEPT ![k] = [sess[k] EXCEPT !.jobs = [sess[k].jobs EXCEPT ![j] = job], !.status = st]]
          /\ sess[k].jobs[j].status # "failed"
          /\ st \in {"ended", "reviewed"} /\ (sess[k].status = "reviewed" => st = "reviewed")
    BY <1>5, JobStep, Zenon
  <2>2. PICK jobs : jobs = [sess[k].jobs EXCEPT ![j] = job]
    OBVIOUS
  <2>3. PICK s : s = [sess[k] EXCEPT !.jobs = jobs, !.status = st]
    OBVIOUS
  <2>4. s.at = sess[k].at /\ s.evals = sess[k].evals /\ s.jobs = jobs /\ s.status = st
    BY <1>0, <2>3 DEF IsSession, SessionFields
  <2>5. \A i \in DOMAIN sess[k].jobs : i \in DOMAIN jobs /\ (i # j => jobs[i] = sess[k].jobs[i])
    BY <2>2
  <2>6. Settled(sess[k], s)
    BY <2>1, <2>4, <2>5 DEF Settled
  <2>. QED
    BY <2>1, <2>2, <2>3, <2>6, OneKept
<1>6. CASE SoftDeleteSessions(Student) \/ RestoreSessions(Student) \/ ReassignSessions(Visitor, Student)
  <2>1. CASE SoftDeleteSessions(Student)
    BY <1>0, <2>1 DEF SoftDeleteSessions, IsSession, SessionFields, SessionsKept, Settled
  <2>2. CASE RestoreSessions(Student)
    BY <1>0, <2>2 DEF RestoreSessions, IsSession, SessionFields, SessionsKept, Settled
  <2>3. CASE ReassignSessions(Visitor, Student)
    BY <1>0, <2>3 DEF ReassignSessions, IsSession, SessionFields, SessionsKept, Settled
  <2>. QED
    BY <1>6, <2>1, <2>2, <2>3
<1>7. CASE \E l \in Lists : ListBegins(l, Student) \/ List(l)
  BY <1>7 DEF ListBegins, List, SessionsKept, Settled
<1>. QED
  BY <1>1, <1>2, <1>3, <1>4, <1>5, <1>6, <1>7 DEF SessionNext

StampsInv == \A k \in DOMAIN sess : k \in Nat /\ sess[k].at \in Nat

LEMMA StampsInvInit == Init => StampsInv
BY DEF Init, HistoryInit, StampsInv

LEMMA DayKeeps == ASSUME HistoryInv, [Next]_vars PROVE SessionsKept
<1>1. CASE UNCHANGED historyVars
  BY <1>1 DEF historyVars, SessionsKept, Settled
<1>2. CASE UNCHANGED sess
  BY <1>2 DEF SessionsKept, Settled
<1>. QED
  BY <1>1, <1>2, HistoryFrame, HistoryKeeps DEF HistoryNext

LEMMA StampsInvNext == StampsInv /\ HistoryInv /\ ClockInv /\ [Next]_vars => StampsInv'
<1> SUFFICES ASSUME StampsInv, HistoryInv, ClockInv, [Next]_vars PROVE StampsInv'
  OBVIOUS
<1>1. HistoryInv'
  BY HistoryInvNext
<1>2. PICK S : sess' \in Seq(S)
  BY <1>1 DEF HistoryInv
<1>3. \A k \in DOMAIN sess' : k \in Nat
  BY <1>2
<1>4. \A k \in DOMAIN sess' : sess'[k].at \in Nat
  BY DayKeeps DEF SessionsKept, Settled, StampsInv, ClockInv
<1>. QED
  BY <1>3, <1>4 DEF StampsInv

Unlisted(user, cursor) == {k \in Shown(user) : After(k, cursor)}
NewerPairs == {p \in (DOMAIN sess) \X (DOMAIN sess) : Newer(p[1], p[2])}

LEMMA FirstOfFirst ==
    ASSUME NEW T, NEW q \in Seq(T), NEW n \in Nat
    PROVE  First(n, First(n + 1, q)) = First(n, q) /\ (Len(First(n + 1, q)) <= n => First(n, First(n + 1, q)) = First(n + 1, q))
<1>1. PICK c : c = Len(q)
  OBVIOUS
<1>2. c \in Nat
  BY <1>1
<1>3. PICK m \in 0 .. c : m = (IF c < n + 1 THEN c ELSE n + 1)
  BY <1>2
<1>4. PICK l \in 0 .. c : l = (IF c < n THEN c ELSE n)
  BY <1>2
<1>5. First(n + 1, q) = SubSeq(q, 1, m) /\ First(n, q) = SubSeq(q, 1, l)
  BY <1>1, <1>3, <1>4 DEF First
<1>6. PICK rows, page : rows = SubSeq(q, 1, m) /\ page = SubSeq(q, 1, l)
  OBVIOUS
<1>7. /\ rows \in Seq(T) /\ Len(rows) = m /\ \A k \in 1 .. m : rows[k] = q[k]
      /\ page \in Seq(T) /\ Len(page) = l /\ \A k \in 1 .. l : page[k] = q[k]
  BY <1>1, <1>2, <1>6
<1>8. l = (IF m < n THEN m ELSE n) /\ l \in 0 .. m
  BY <1>2, <1>3, <1>4
<1>9. First(n, rows) = SubSeq(rows, 1, l)
  BY <1>7, <1>8 DEF First
<1>10. PICK again : again = SubSeq(rows, 1, l)
  OBVIOUS
<1>11. again \in Seq(T) /\ Len(again) = l /\ \A k \in 1 .. l : again[k] = q[k]
  BY <1>7, <1>8, <1>10
<1>12. again = page
  BY <1>7, <1>11, SeqEqual
<1>13. ASSUME m <= n PROVE again = rows
  <2>1. l = m
    BY <1>2, <1>3, <1>4, <1>13
  <2>. QED
    BY <1>7, <1>11, <2>1, SeqEqual
<1>. QED
  BY <1>5, <1>6, <1>7, <1>9, <1>10, <1>12, <1>13

LEMMA ListIsPage ==
    ASSUME HistoryInv, StampsInv, NEW user, NEW cursor, NEW n \in Nat
    PROVE  /\ \A i, j \in DOMAIN sess : <<i, j>> \in NewerPairs <=> Newer(i, j)
           /\ IsPage(ListSessions(user, cursor, n), Unlisted(user, cursor), NewerPairs, n)
           /\ First(n, ListSessions(user, cursor, n + 1)) = ListSessions(user, cursor, n)
           /\ Len(ListSessions(user, cursor, n + 1)) <= n =>
                ListSessions(user, cursor, n) = ListSessions(user, cursor, n + 1)
<1> DEFINE S == Unlisted(user, cursor)
           q == Ordered(S, Newer)
<1>1. \A i, j \in DOMAIN sess : <<i, j>> \in NewerPairs <=> Newer(i, j)
  BY DEF NewerPairs
<1>2. S \subseteq DOMAIN sess
  BY DEF Unlisted, Shown
<1>3. IsFiniteSet(S) /\ Cardinality(S) \in Nat
  <2>1. PICK R : sess \in Seq(R)
    BY DEF HistoryInv
  <2>2. DOMAIN sess = 1 .. Len(sess) /\ Len(sess) \in Nat
    BY <2>1
  <2>3. IsFiniteSet(DOMAIN sess)
    BY <2>2, FS_Interval
  <2>. QED
    BY <1>2, <2>3, FS_Subset, FS_CardinalityType
<1>4. TotalOn(S, NewerPairs)
  <2>1. \A i \in S : i \in Nat /\ sess[i].at \in Nat
    BY <1>2 DEF StampsInv
  <2>2. \A x, y \in S : <<x, y>> \in NewerPairs <=> sess[x].at > sess[y].at \/ (sess[x].at = sess[y].at /\ x > y)
    BY <1>1, <1>2 DEF Newer
  <2>. QED
    BY <2>1, <2>2 DEF TotalOn
<1>5. \A i \in S : {j \in S : Newer(j, i)} = Ahead(S, NewerPairs, i)
  BY <1>1, <1>2 DEF Ahead
<1> DEFINE place(k) == CHOOSE i \in S : Cardinality({j \in S : Newer(j, i)}) = k - 1
<1>6. q = [k \in 1 .. Cardinality(S) |-> place(k)]
  BY DEF Ordered
<1>7. \A limit : ListSessions(user, cursor, limit) = First(limit, q)
  BY DEF ListSessions, Unlisted
<1> HIDE DEF S, q
<1>8. ASSUME NEW k \in 1 .. Cardinality(S)
      PROVE  place(k) \in S /\ Cardinality(Ahead(S, NewerPairs, place(k))) = k - 1
  <2>1. PICK i \in S : Cardinality(Ahead(S, NewerPairs, i)) = k - 1
    BY <1>3, <1>4, PlacesFilled
  <2>2. \E x \in S : Cardinality({j \in S : Newer(j, x)}) = k - 1
    BY <1>5, <2>1
  <2>3. place(k) \in S /\ Cardinality({j \in S : Newer(j, place(k))}) = k - 1
    BY <2>2
  <2>. QED
    BY <1>5, <2>3
<1> HIDE DEF place
<1>9. Enumerates(q, S, NewerPairs)
  BY <1>6, <1>8 DEF Enumerates
<1>10. IsPage(First(n, q), S, NewerPairs, n)
  BY <1>3, <1>4, <1>9, FirstIsPage
<1>11. q \in Seq(S)
  BY <1>3, <1>4, <1>9, EnumerationSorted
<1>12. First(n, First(n + 1, q)) = First(n, q) /\ (Len(First(n + 1, q)) <= n => First(n, q) = First(n + 1, q))
  BY <1>11, FirstOfFirst
<1>. QED
  BY <1>1, <1>7, <1>10, <1>12 DEF S

\* Until its last page, a list stands between what it has shown and what it still owes.
ListInOrder(r) ==
    r # None =>
      /\ DOMAIN r = ListFields /\ r.items \in Seq(DOMAIN sess) /\ Once(r.items, {})
      /\ r.done \in BOOLEAN /\ r.owed \subseteq DOMAIN sess
      /\ ~r.done => /\ r.cursor # None => r.cursor \in [at : Nat, id : Nat]
                    /\ \A k \in ToSet(r.items) : ~After(k, r.cursor)
                    /\ \A k \in r.owed : k \in ToSet(r.items) \/ After(k, r.cursor)
      /\ r.done => r.owed \subseteq ToSet(r.items)

ListingInv == DOMAIN listing = Lists /\ \A l \in Lists : ListInOrder(listing[l])

LEMMA ListingInvInit == Init => ListingInv
BY DEF Init, HistoryInit, ListingInv, ListInOrder

\* What happens to the sessions leaves a list in order.
LEMMA ListStays == ASSUME SessionsKept, NEW r, ListInOrder(r) PROVE ListInOrder(r)'
<1>1. \A k \in DOMAIN sess : \A c : After(k, c)' <=> After(k, c)
  BY DEF SessionsKept, Settled, After
<1>2. r # None => ToSet(r.items) \subseteq DOMAIN sess
  BY DEF ListInOrder, ToSet
<1>3. DOMAIN sess \subseteq DOMAIN sess'
  BY DEF SessionsKept
<1>4. r # None => r.items \in Seq(DOMAIN sess')
  BY <1>3 DEF ListInOrder
<1>. QED
  BY <1>1, <1>2, <1>3, <1>4 DEF ListInOrder

LEMMA ListingMoves ==
    ASSUME ListingInv, SessionsKept, NEW l \in Lists, NEW r, listing' = [listing EXCEPT ![l] = r], ListInOrder(r)
    PROVE  ListingInv'
<1>1. DOMAIN listing' = Lists /\ \A x \in Lists : listing'[x] = IF x = l THEN r ELSE listing[x]
  BY DEF ListingInv
<1>3. ASSUME NEW x \in Lists PROVE ListInOrder(listing[x])'
  <2>1. PICK s : s = listing'[x]
    OBVIOUS
  <2>2. ListInOrder(s)
    BY <1>1, <2>1 DEF ListingInv
  <2>3. ListInOrder(s)'
    BY <2>2, ListStays
  <2>. QED
    BY <2>1, <2>3 DEF ListInOrder, After
<1>. QED
  BY <1>1, <1>3 DEF ListingInv

\* One page more: the sessions that follow the cursor, up to the page's last one.
LEMMA ListPageStep ==
    ASSUME HistoryInv, StampsInv, ListingInv, NEW l \in Lists, List(l) PROVE ListingInv'
<1>1. PICK r : r = listing[l]
  OBVIOUS
<1>2. r # None /\ ~r.done /\ UNCHANGED sess /\ ListInOrder(r)
  BY <1>1 DEF List, ListingInv
<1>3. SessionsKept
  BY <1>2 DEF SessionsKept, Settled
<1> DEFINE S == Unlisted(r.user, r.cursor)
<1>4. PICK rows, page : /\ rows = ListSessions(r.user, r.cursor, HistoryPage + 1)
                        /\ page = ListSessions(r.user, r.cursor, HistoryPage)
  OBVIOUS
<1>5. /\ IsPage(page, S, NewerPairs, HistoryPage) /\ First(HistoryPage, rows) = page
      /\ Len(rows) <= HistoryPage => page = rows
      /\ \A i, j \in DOMAIN sess : <<i, j>> \in NewerPairs <=> Newer(i, j)
  BY <1>4, ListIsPage, HistoryAssumption
<1>6. IsPage(rows, S, NewerPairs, HistoryPage + 1)
  BY <1>4, ListIsPage, HistoryAssumption
<1>7. PICK all, owed : all = r.items \o page /\ owed = r.owed \intersect Shown(r.user)
  OBVIOUS
<1>8. S \subseteq DOMAIN sess /\ page \in Seq(DOMAIN sess) /\ r.items \in Seq(DOMAIN sess)
  <2>1. S \subseteq DOMAIN sess
    BY DEF Unlisted, Shown
  <2>2. page \in Seq(S)
    BY <1>5 DEF IsPage
  <2>. QED
    BY <1>2, <2>1, <2>2 DEF ListInOrder
<1>9. all \in Seq(DOMAIN sess) /\ ToSet(all) = ToSet(r.items) \union ToSet(page)
  <2>1. all \in Seq(DOMAIN sess)
    BY <1>7, <1>8
  <2>2. Joinable(r.items, page)
    BY <1>8, Zenon DEF Joinable
  <2>. QED
    BY <1>7, <2>1, <2>2, JoinedSet
<1>10. ToSet(page) \subseteq S
  BY <1>5 DEF IsPage, ToSet
<1>11. Once(all, {})
  <2>1. \A k \in ToSet(r.items) : k \in ToSet(page) => k \in {}
    BY <1>2, <1>10 DEF ListInOrder, Unlisted
  <2>2. Once(page, {}) /\ Once(r.items, {})
    BY <1>2, <1>5 DEF IsPage, ListInOrder
  <2>. QED
    BY <1>7, <1>8, <2>1, <2>2, OnceMore
<1>12. owed \subseteq DOMAIN sess /\ \A k \in owed : k \in ToSet(r.items) \/ k \in S
  BY <1>2, <1>7 DEF ListInOrder, Unlisted
<1>13. CASE Len(rows) > HistoryPage
  <2>1. PICK last : last = Last(page)
    OBVIOUS
  <2>2. page # <<>>
    <3>1. Len(rows) = HistoryPage + 1 /\ rows \in Seq(S)
      BY <1>6, <1>13, HistoryAssumption DEF IsPage
    <3>2. First(HistoryPage, rows) = SubSeq(rows, 1, HistoryPage)
      BY <3>1, HistoryAssumption DEF First
    <3>3. Len(page) = HistoryPage
      BY <1>5, <3>1, <3>2, HistoryAssumption
    <3>. QED
      BY <3>3, HistoryAssumption
  <2>3. last \in S /\ last \in DOMAIN sess /\ \A i \in S : i \in ToSet(page) <=> <<last, i>> \notin NewerPairs
    BY <1>5, <1>8, <2>1, <2>2 DEF IsPage
  <2>4. PICK next : next = HistoryCursor(last)
    OBVIOUS
  <2>5. next \in [at : Nat, id : Nat] /\ next # None /\ next.at = sess[last].at /\ next.id = last
    <3>1. sess[last].at \in Nat /\ last \in Nat
      BY <2>3 DEF StampsInv
    <3>. QED
      BY <2>4, <3>1, HistoryAssumption DEF HistoryCursor
  <2>6. PICK s : s = [r EXCEPT !.items = all, !.cursor = next, !.owed = owed]
    OBVIOUS
  <2>7. listing' = [listing EXCEPT ![l] = s]
    BY <1>1, <1>4, <1>5, <1>7, <1>13, <2>1, <2>4, <2>6 DEF List
  <2>8. DOMAIN s = ListFields /\ s.items = all /\ s.cursor = next /\ s.owed = owed /\ s.done = r.done
    BY <1>2, <2>6 DEF ListInOrder, ListFields
  <2>9. ASSUME NEW k \in DOMAIN sess PROVE After(k, next) <=> Newer(last, k)
    <3>1. k \in Nat /\ sess[k].at \in Nat /\ last \in Nat /\ sess[last].at \in Nat
      BY <2>3 DEF StampsInv
    <3>. QED
      BY <2>5, <3>1 DEF After, Newer
  <2>10. ASSUME NEW k \in DOMAIN sess, After(k, next) PROVE After(k, r.cursor)
    <3>1. CASE r.cursor = None
      BY <3>1 DEF After
    <3>2. CASE r.cursor # None
      <4>1. k \in Nat /\ sess[k].at \in Nat /\ last \in Nat /\ sess[last].at \in Nat
        BY <2>3 DEF StampsInv
      <4>2. r.cursor.at \in Nat /\ r.cursor.id \in Nat
        BY <1>2, <3>2 DEF ListInOrder
      <4>3. After(last, r.cursor)
        BY <2>3 DEF Unlisted
      <4>4. Newer(last, k)
        BY <2>9, <2>10
      <4>. QED
        BY <3>2, <4>1, <4>2, <4>3, <4>4 DEF After, Newer
    <3>. QED
      BY <3>1, <3>2
  <2>11. ASSUME NEW k \in S PROVE k \in ToSet(page) <=> ~After(k, next)
    BY <1>5, <1>8, <2>3, <2>9
  <2>12. \A k \in ToSet(r.items) : k \in DOMAIN sess /\ ~After(k, r.cursor)
    BY <1>2, <1>8 DEF ListInOrder, ToSet
  <2>13. \A k \in ToSet(all) : ~After(k, next)
    BY <1>9, <1>10, <2>10, <2>11, <2>12
  <2>14. \A k \in owed : k \in ToSet(all) \/ After(k, next)
    BY <1>9, <1>12, <2>11
  <2>15. ListInOrder(s)
    BY <1>2, <1>9, <1>11, <1>12, <2>5, <2>8, <2>13, <2>14 DEF ListInOrder
  <2>. QED
    BY <1>3, <2>7, <2>15, ListingMoves
<1>14. CASE ~(Len(rows) > HistoryPage)
  <2>1. Len(rows) <= HistoryPage /\ Len(rows) < HistoryPage + 1
    BY <1>6, <1>14, HistoryAssumption DEF IsPage
  <2>2. S \subseteq ToSet(page)
    BY <1>5, <1>6, <2>1 DEF IsPage
  <2>3. PICK s : s = [r EXCEPT !.items = all, !.done = TRUE, !.owed = owed]
    OBVIOUS
  <2>4. listing' = [listing EXCEPT ![l] = s]
    BY <1>1, <1>4, <1>5, <1>7, <1>14, <2>3 DEF List
  <2>5. DOMAIN s = ListFields /\ s.items = all /\ s.owed = owed /\ s.done = TRUE
    BY <1>2, <2>3 DEF ListInOrder, ListFields
  <2>6. owed \subseteq ToSet(all)
    BY <1>9, <1>12, <2>2
  <2>7. ListInOrder(s)
    BY <1>9, <1>11, <1>12, <2>5, <2>6 DEF ListInOrder
  <2>. QED
    BY <1>3, <2>4, <2>7, ListingMoves
<1>. QED
  BY <1>13, <1>14

LEMMA ListingInvNext == ListingInv /\ StampsInv /\ HistoryInv /\ [Next]_vars => ListingInv'
<1> SUFFICES ASSUME ListingInv, StampsInv, HistoryInv, [Next]_vars PROVE ListingInv'
  OBVIOUS
<1>1. SessionsKept
  BY DayKeeps
<1>2. CASE UNCHANGED listing
  <2>1. ASSUME NEW l \in Lists PROVE ListInOrder(listing[l])'
    <3>1. PICK r : r = listing[l]
      OBVIOUS
    <3>2. ListInOrder(r)'
      BY <1>1, <3>1, ListStays DEF ListingInv
    <3>. QED
      BY <1>2, <3>1, <3>2 DEF ListInOrder, After
  <2>. QED
    BY <1>2, <2>1 DEF ListingInv
<1>3. ASSUME NEW l \in Lists, ListBegins(l, Student) PROVE ListingInv'
  <2>1. PICK r : r = [user |-> Student, items |-> <<>>, cursor |-> None, done |-> FALSE, owed |-> Shown(Student)]
    OBVIOUS
  <2>2. ToSet(<<>>) = {} /\ Once(<<>>, {}) /\ Shown(Student) \subseteq DOMAIN sess
    BY DEF ToSet, Once, Shown
  <2>3. \A k : After(k, None)
    BY DEF After
  <2>4. ListInOrder(r)
    BY <2>1, <2>2, <2>3 DEF ListInOrder, ListFields
  <2>. QED
    BY <1>1, <1>3, <2>1, <2>4, ListingMoves DEF ListBegins
<1>4. (\E l \in Lists : ListBegins(l, Student) \/ List(l)) \/ UNCHANGED listing
  <2>1. CASE UNCHANGED historyVars
    BY <2>1 DEF historyVars
  <2>2. CASE HistoryNext
    <3>1. ASSUME NEW user, CreateSession(user) PROVE UNCHANGED listing
      BY <3>1 DEF CreateSession
    <3>2. ASSUME NEW k, Activate(k) \/ SaveUtteranceEval(k) PROVE UNCHANGED listing
      BY <3>2 DEF Activate, SaveUtteranceEval
    <3>3. ASSUME NEW k, NEW report, NEW reason, EndSession(k, report, reason) PROVE UNCHANGED listing
      BY <3>3 DEF EndSession
    <3>4. ASSUME NEW k, NEW j, ClaimNextJob(k, j) \/ CompleteJob(k, j) \/ FailJob(k, j) PROVE UNCHANGED listing
      BY <3>4 DEF ClaimNextJob, CompleteJob, FailJob
    <3>5. ASSUME SoftDeleteSessions(Student) \/ RestoreSessions(Student) \/ ReassignSessions(Visitor, Student)
          PROVE  UNCHANGED listing
      BY <3>5 DEF SoftDeleteSessions, RestoreSessions, ReassignSessions
    <3>. QED
      BY <2>2, <3>1, <3>2, <3>3, <3>4, <3>5, Zenon DEF HistoryNext, SessionNext
  <2>. QED
    BY <2>1, <2>2, HistoryFrame
<1>. QED
  BY <1>2, <1>3, <1>4, ListPageStep

LEMMA ListingInvShows == ListingInv => HistoryShowsEach
<1> SUFFICES ASSUME ListingInv, NEW l \in Lists, listing[l] # None
             PROVE  /\ IsInjective(listing[l].items)
                    /\ listing[l].done => listing[l].owed \subseteq ToSet(listing[l].items)
  BY DEF HistoryShowsEach
<1>1. Once(listing[l].items, {}) /\ (listing[l].done => listing[l].owed \subseteq ToSet(listing[l].items))
  BY DEF ListingInv, ListInOrder
<1>. QED
  BY <1>1 DEF Once, IsInjective

\* Whoever pages through the blocks or the sessions sees none twice, and each that was there from the
\* first page to the last, for pages of any size, any number of rows and clients, and any writes
\* between two pages: a cursor keeps its place in the order (ListBlocks, ListSessions).
THEOREM PagesAreComplete == Spec => []PagesShowEach
<1>1. BrowseInv /\ ListingInv => PagesShowEach
  BY BrowseInvShows, ListingInvShows DEF PagesShowEach
<1>. QED
  BY <1>1, BrowseInvInit, BrowseInvNext, ListingInvInit, ListingInvNext, StampsInvInit, StampsInvNext, HistoryInvInit,
     HistoryInvNext, EvidenceInvInit, EvidenceInvNext, StreakInvInit, StreakInvNext, ClockInvInit, ClockInvNext, PTL
     DEF Spec

-----------------------------------------------------------------------------
(* The detail of a session *)

\* What a request has read of a session still holds of it; what it has read nothing of yet is at least
\* as far as when it began.
DetailInOrder(d) ==
    /\ d.id \in DOMAIN sess
    /\ d.began \in {"ready", "failed", None}
    /\ d.status = "reviewed" => sess[d.id].status = "reviewed"
    /\ d.began = "ready" => d.status = "reviewed" /\ sess[d.id].evals = "complete"
    /\ d.began = "failed" => HasSessionJob(d.id, {"failed"})
    /\ d.pc \in {"utterances", "job", "summary", "done"}
    /\ d.pc \in {"utterances", "job", "summary"} => d.review = None
    /\ d.pc = "summary" => d.began # "failed" /\ d.status = "reviewed"
    /\ d.review = "ready" => sess[d.id].status = "reviewed"
    /\ d.review = "failed" => HasSessionJob(d.id, {"failed"})
    /\ d.pc = "done" /\ d.review = None => d.began = None

DetailFields == {"id", "pc", "status", "review", "began"}

DetailInv ==
    /\ DOMAIN detail = Lists
    /\ \A l \in Lists : detail[l] # None => DOMAIN detail[l] = DetailFields /\ DetailInOrder(detail[l])

LEMMA DetailStays ==
    ASSUME SessionsKept, NEW d, DetailInOrder(d) PROVE DetailInOrder(d)'
<1>1. d.id \in DOMAIN sess /\ Settled(sess[d.id], sess'[d.id]) /\ d.id \in DOMAIN sess'
  BY DEF SessionsKept, DetailInOrder
<1>2. HasSessionJob(d.id, {"failed"}) => HasSessionJob(d.id, {"failed"})'
  BY <1>1 DEF HasSessionJob, Settled
<1>. QED
  BY <1>1, <1>2 DEF DetailInOrder, Settled

LEMMA DetailMoves ==
    ASSUME DetailInv, UNCHANGED sess, NEW l \in Lists, NEW d, detail' = [detail EXCEPT ![l] = d],
           d # None => DOMAIN d = DetailFields /\ DetailInOrder(d)
    PROVE  DetailInv'
<1>1. \A c : DetailInOrder(c) => DetailInOrder(c)'
  BY DEF DetailInOrder, HasSessionJob
<1>2. ASSUME NEW i \in Lists, detail'[i] # None PROVE DOMAIN detail'[i] = DetailFields /\ DetailInOrder(detail[i])'
  <2>1. PICK c : c = detail'[i] /\ (c = d \/ c = detail[i])
    BY DEF DetailInv
  <2>2. DOMAIN c = DetailFields /\ DetailInOrder(c)
    BY <1>2, <2>1 DEF DetailInv
  <2>3. DetailInOrder(c)'
    BY <1>1, <2>2
  <2>. QED
    BY <2>1, <2>2, <2>3 DEF DetailInOrder, HasSessionJob
<1>. QED
  BY <1>2 DEF DetailInv

LEMMA DetailStep == ASSUME DetailInv, DetailNext, UNCHANGED sess PROVE DetailInv'
<1>0. \A l \in Lists : detail[l] # None => DOMAIN detail[l] = DetailFields /\ DetailInOrder(detail[l])
  BY DEF DetailInv
<1>1. ASSUME NEW l \in Lists, NEW k \in DOMAIN sess, GetDetail(l, Student, k) PROVE DetailInv'
  <2>1. PICK b, st : b = ReviewNow(k) /\ st = sess[k].status
    OBVIOUS
  <2>2. PICK d : d = [id |-> k, pc |-> "utterances", status |-> st, review |-> None, began |-> b]
    OBVIOUS
  <2>3. /\ b \in {"ready", "failed", None}
        /\ b = "ready" => st = "reviewed" /\ sess[k].evals = "complete"
        /\ b = "failed" => HasSessionJob(k, {"failed"})
    BY <2>1, HistoryAssumption DEF ReviewNow
  <2>4. DOMAIN d = DetailFields /\ DetailInOrder(d)
    BY <2>1, <2>2, <2>3, HistoryAssumption DEF DetailFields, DetailInOrder
  <2>5. detail' = [detail EXCEPT ![l] = d]
    BY <1>1, <2>1, <2>2, Zenon DEF GetDetail
  <2>. QED
    BY <2>4, <2>5, DetailMoves
<1>2. ASSUME NEW l \in Lists, ListUtterances(l) PROVE DetailInv'
  <2>1. PICK d : d = [detail[l] EXCEPT !.pc = "job"]
    OBVIOUS
  <2>2. detail[l].pc = "utterances" /\ DOMAIN detail[l] = DetailFields /\ DetailInOrder(detail[l])
    BY <1>0, <1>2 DEF ListUtterances
  <2>3. DOMAIN d = DetailFields /\ DetailInOrder(d)
    BY <2>1, <2>2, HistoryAssumption DEF DetailFields, DetailInOrder
  <2>. QED
    BY <1>2, <2>1, <2>3, DetailMoves DEF ListUtterances
<1>3. ASSUME NEW l \in Lists, detailReview(l) PROVE DetailInv'
  <2>1. detail[l].pc = "job" /\ DOMAIN detail[l] = DetailFields /\ DetailInOrder(detail[l])
    BY <1>0, <1>3 DEF detailReview
  <2>2. CASE HasSessionJob(detail[l].id, {"failed"})
    <3>1. PICK d : d = [detail[l] EXCEPT !.pc = "done", !.review = "failed"]
      OBVIOUS
    <3>2. DOMAIN d = DetailFields /\ DetailInOrder(d)
      BY <2>1, <2>2, <3>1, HistoryAssumption DEF DetailFields, DetailInOrder
    <3>. QED
      BY <1>3, <2>2, <3>1, <3>2, DetailMoves DEF detailReview
  <2>3. CASE ~HasSessionJob(detail[l].id, {"failed"}) /\ detail[l].status # "reviewed"
    <3>1. PICK d : d = [detail[l] EXCEPT !.pc = "done"]
      OBVIOUS
    <3>2. DOMAIN d = DetailFields /\ DetailInOrder(d)
      BY <2>1, <2>3, <3>1, HistoryAssumption DEF DetailFields, DetailInOrder
    <3>. QED
      BY <1>3, <2>3, <3>1, <3>2, DetailMoves DEF detailReview
  <2>4. CASE ~HasSessionJob(detail[l].id, {"failed"}) /\ detail[l].status = "reviewed"
    <3>1. PICK d : d = [detail[l] EXCEPT !.pc = "summary"]
      OBVIOUS
    <3>2. DOMAIN d = DetailFields /\ DetailInOrder(d)
      BY <2>1, <2>4, <3>1, HistoryAssumption DEF DetailFields, DetailInOrder
    <3>. QED
      BY <1>3, <2>4, <3>1, <3>2, DetailMoves DEF detailReview
  <2>. QED
    BY <2>2, <2>3, <2>4
<1>4. ASSUME NEW l \in Lists, EvalSummary(l) PROVE DetailInv'
  <2>1. detail[l].pc = "summary" /\ DOMAIN detail[l] = DetailFields /\ DetailInOrder(detail[l])
    BY <1>0, <1>4 DEF EvalSummary
  <2>2. PICK v : v = IF sess[detail[l].id].evals = "complete" THEN "ready" ELSE None
    OBVIOUS
  <2>3. PICK d : d = [detail[l] EXCEPT !.pc = "done", !.review = v]
    OBVIOUS
  <2>4. DOMAIN d = DetailFields /\ DetailInOrder(d)
    BY <2>1, <2>2, <2>3, HistoryAssumption DEF DetailFields, DetailInOrder
  <2>5. detail' = [detail EXCEPT ![l] = d]
    BY <1>4, <2>2, <2>3, Zenon DEF EvalSummary
  <2>. QED
    BY <2>4, <2>5, DetailMoves
<1>5. ASSUME NEW l \in Lists, DetailFails(l) PROVE DetailInv'
  <2>1. DOMAIN detail[l] = DetailFields /\ DetailInOrder(detail[l])
    BY <1>0, <1>5 DEF DetailFails
  <2>2. CASE detail[l].pc = "utterances"
    BY <1>5, <2>2, DetailMoves DEF DetailFails
  <2>3. CASE detail[l].pc # "utterances"
    <3>1. PICK d : d = [detail[l] EXCEPT !.pc = "done", !.review = "unread"]
      OBVIOUS
    <3>2. DOMAIN d = DetailFields /\ DetailInOrder(d)
      BY <2>1, <3>1, HistoryAssumption DEF DetailFields, DetailInOrder
    <3>. QED
      BY <1>5, <2>3, <3>1, <3>2, DetailMoves DEF DetailFails
  <2>. QED
    BY <2>2, <2>3
<1>. QED
  BY <1>1, <1>2, <1>3, <1>4, <1>5 DEF DetailNext

LEMMA DetailInvInit == Init => DetailInv
BY DEF Init, HistoryInit, DetailInv

LEMMA DetailInvNext == DetailInv /\ HistoryInv /\ [Next]_vars => DetailInv'
<1> SUFFICES ASSUME DetailInv, HistoryInv, [Next]_vars PROVE DetailInv'
  OBVIOUS
<1>1. CASE UNCHANGED detail
  BY <1>1, DayKeeps, DetailStays DEF DetailInv
<1>2. UNCHANGED detail \/ (DetailNext /\ UNCHANGED sess)
  BY HistoryFrame DEF HistoryNext, historyVars
<1>. QED
  BY <1>1, <1>2, DetailStep

LEMMA DetailFollows == DetailInv /\ HistoryInv => DetailIsNotAhead
<1> SUFFICES ASSUME DetailInv, HistoryInv, NEW l \in Lists, detail[l] # None, detail[l].pc = "done"
             PROVE  /\ detail[l].review = "ready" => GetReview(detail[l].id) = "ready"
                    /\ detail[l].review = "failed" => GetReview(detail[l].id) \in {"failed", "ready"}
                    /\ detail[l].review = None => detail[l].began = None
  BY DEF DetailIsNotAhead
<1>1. DetailInOrder(detail[l])
  BY DEF DetailInv
<1>2. PICK k : k = detail[l].id
  OBVIOUS
<1>3. ASSUME sess[k].status = "reviewed" PROVE GetReview(k) = "ready"
  BY <1>3 DEF GetReview
<1>4. ASSUME HasSessionJob(k, {"failed"}) PROVE GetReview(k) \in {"failed", "ready"}
  <2>1. k \in DOMAIN sess /\ sess[k].jobs # <<>>
    BY <1>1, <1>2, <1>4 DEF DetailInOrder, HasSessionJob
  <2>2. sess[k].status \in {"ended", "reviewed"} /\ Spoke(k)
    BY <2>1 DEF HistoryInv, JobsInOrder, SpokeIn, Spoke
  <2>3. CASE sess[k].status = "ended"
    BY <1>4, <2>2, <2>3 DEF GetReview
  <2>. QED
    BY <1>3, <2>2, <2>3
<1>. QED
  BY <1>1, <1>2, <1>3, <1>4 DEF DetailInOrder

\* The reads of a detail add up, for any number of sessions, jobs, attempts and clients and whatever
\* the workers write between two of them: a review it shows the poll has for good, a failure it shows
\* is a job's, and one it leaves out was not there when the request began (GetDetail, detailReview and
\* session.Service.GetReview).
THEOREM DetailsAreNotAhead == Spec => []DetailIsNotAhead
BY HistoryInvInit, HistoryInvNext, DetailInvInit, DetailInvNext, DetailFollows, PTL DEF Spec

-----------------------------------------------------------------------------
(* The memory of the badges *)

Distinct(q) == \A k, l \in DOMAIN q : q[k].key = q[l].key => k = l

LEMMA Removed ==
    ASSUME NEW T, NEW q \in Seq(T), NEW p \in DOMAIN q, NEW w, w = RemoveAt(q, p)
    PROVE  /\ w \in Seq(T) /\ Len(w) = Len(q) - 1
           /\ \A k \in 1 .. Len(q) - 1 : w[k] = IF k < p THEN q[k] ELSE q[k + 1]
<1>1. PICK c : c = Len(q)
  OBVIOUS
<1>2. c \in Nat /\ p \in 1 .. c /\ \A k \in 1 .. c : q[k] \in T
  BY <1>1
<1>3. PICK a, b : a = SubSeq(q, 1, p - 1) /\ b = SubSeq(q, p + 1, c)
  OBVIOUS
<1>4. a \in Seq(T) /\ Len(a) = p - 1 /\ \A k \in 1 .. p - 1 : a[k] = q[k]
  BY <1>1, <1>2, <1>3
<1>5. b \in Seq(T) /\ Len(b) = c - p /\ \A k \in 1 .. c - p : b[k] = q[p + k]
  BY <1>1, <1>2, <1>3
<1>6. w = a \o b
  BY <1>1, <1>3 DEF RemoveAt
<1>7. w \in Seq(T) /\ Len(w) = c - 1
  <2>1. w \in Seq(T) /\ Len(w) = Len(a) + Len(b)
    BY <1>4, <1>5, <1>6, ConcatProperties
  <2>. QED
    BY <1>2, <1>4, <1>5, <2>1
<1>8. ASSUME NEW k \in 1 .. c - 1 PROVE w[k] = IF k < p THEN q[k] ELSE q[k + 1]
  <2>1. w[k] = IF k <= p - 1 THEN a[k] ELSE b[k - (p - 1)]
    <3>1. Len(a) + Len(b) = c - 1
      BY <1>2, <1>4, <1>5
    <3>2. \A i \in 1 .. Len(a) + Len(b) : (a \o b)[i] = IF i <= Len(a) THEN a[i] ELSE b[i - Len(a)]
      <4>1. a \in Seq(T) /\ b \in Seq(T)
        BY <1>4, <1>5
      <4>. QED
        BY <4>1, ConcatProperties, Zenon
    <3>3. k \in 1 .. Len(a) + Len(b) /\ Len(a) = p - 1
      BY <1>4, <3>1
    <3>. QED
      BY <1>6, <3>2, <3>3, Zenon
  <2>2. CASE k < p
    BY <1>2, <1>4, <2>1, <2>2
  <2>3. CASE ~(k < p)
    <3>1. k - (p - 1) \in 1 .. c - p /\ p + (k - (p - 1)) = k + 1 /\ ~(k <= p - 1)
      BY <1>2, <2>3
    <3>. QED
      BY <1>5, <2>1, <2>3, <3>1
  <2>. QED
    BY <2>2, <2>3
<1>. QED
  BY <1>1, <1>7, <1>8

\* The entry of a key is put, or moved, to the front: what was behind something stays behind it, and
\* comes to stand behind the key at most.
InFront(new, q, e) ==
    /\ Distinct(new) /\ Len(new) \in Nat \ {0} /\ DOMAIN new = 1 .. Len(new) /\ new[1] = e
    /\ \A p \in DOMAIN q : q[p].key # e.key =>
         \E r \in DOMAIN new :
            new[r] = q[p] /\ \A h \in 1 .. r - 1 : new[h].key = e.key \/ \E g \in 1 .. p - 1 : new[h].key = q[g].key

LEMMA PutInFront ==
    ASSUME NEW T, NEW q \in Seq(T), Distinct(q), NEW e \in T, \A k \in DOMAIN q : q[k].key # e.key
    PROVE  InFront(<<e>> \o q, q, e) /\ Len(<<e>> \o q) = Len(q) + 1 /\ <<e>> \o q \in Seq(T)
<1>1. PICK c, new : c = Len(q) /\ new = <<e>> \o q
  OBVIOUS
<1>2. c \in Nat /\ new \in Seq(T) /\ Len(new) = c + 1 /\ DOMAIN new = 1 .. c + 1 /\ DOMAIN q = 1 .. c
  BY <1>1
<1>3. new[1] = e /\ \A k \in 2 .. c + 1 : new[k] = q[k - 1]
  BY <1>1, <1>2
<1>4. \A k \in 1 .. c : new[k + 1] = q[k] /\ k + 1 \in 1 .. c + 1
  BY <1>2, <1>3
<1>5. \A k \in 1 .. c + 1 : k # 1 => k - 1 \in 1 .. c /\ new[k] = q[k - 1]
  BY <1>2, <1>3
<1>6. Distinct(new)
  <2> SUFFICES ASSUME NEW k \in 1 .. c + 1, NEW l \in 1 .. c + 1, new[k].key = new[l].key PROVE k = l
    BY <1>2 DEF Distinct
  <2>1. \A x \in 1 .. c + 1 : x # 1 => new[x].key # e.key
    BY <1>2, <1>5
  <2>2. CASE k = 1
    BY <1>3, <2>1, <2>2
  <2>3. CASE l = 1
    BY <1>3, <2>1, <2>3
  <2>4. CASE k # 1 /\ l # 1
    <3>1. /\ k - 1 \in DOMAIN q /\ new[k] = q[k - 1]
          /\ l - 1 \in DOMAIN q /\ new[l] = q[l - 1]
      BY <1>2, <1>5, <2>4
    <3>2. k - 1 = l - 1
      BY <3>1 DEF Distinct
    <3>. QED
      BY <1>2, <3>2
  <2>. QED
    BY <2>2, <2>3, <2>4
<1>7. ASSUME NEW p \in DOMAIN q
      PROVE  \E r \in DOMAIN new :
               new[r] = q[p] /\ \A h \in 1 .. r - 1 : new[h].key = e.key \/ \E g \in 1 .. p - 1 : new[h].key = q[g].key
  <2>1. p + 1 \in DOMAIN new /\ new[p + 1] = q[p] /\ p \in 1 .. c
    BY <1>2, <1>4
  <2>2. ASSUME NEW h \in 1 .. (p + 1) - 1 PROVE new[h].key = e.key \/ \E g \in 1 .. p - 1 : new[h].key = q[g].key
    <3>1. CASE h = 1
      BY <1>3, <3>1
    <3>2. CASE h # 1
      <4>1. h - 1 \in 1 .. p - 1 /\ h \in 1 .. c + 1
        BY <1>2, <2>1, <3>2
      <4>. QED
        BY <1>5, <3>2, <4>1
    <3>. QED
      BY <3>1, <3>2
  <2>. QED
    BY <2>1, <2>2
<1>8. Len(new) \in Nat \ {0} /\ DOMAIN new = 1 .. Len(new)
  BY <1>2
<1>9. InFront(new, q, e)
  BY <1>3, <1>6, <1>7, <1>8 DEF InFront
<1>. QED
  BY <1>1, <1>2, <1>9

LEMMA MovedToFront ==
    ASSUME NEW T, NEW q \in Seq(T), Distinct(q), NEW e \in T, NEW p \in DOMAIN q, q[p].key = e.key
    PROVE  /\ InFront(<<e>> \o RemoveAt(q, p), q, e) /\ Len(<<e>> \o RemoveAt(q, p)) = Len(q)
           /\ <<e>> \o RemoveAt(q, p) \in Seq(T)
<1>1. PICK c, w : c = Len(q) /\ w = RemoveAt(q, p)
  OBVIOUS
<1>2. c \in Nat /\ p \in 1 .. c /\ DOMAIN q = 1 .. c
  BY <1>1
<1>3. w \in Seq(T) /\ Len(w) = c - 1 /\ \A k \in 1 .. c - 1 : w[k] = IF k < p THEN q[k] ELSE q[k + 1]
  BY <1>1, Removed
<1>4. DOMAIN w = 1 .. c - 1
  BY <1>2, <1>3
<1>5. ASSUME NEW k \in 1 .. c - 1 PROVE \E g \in 1 .. c : g # p /\ w[k] = q[g] /\ g \in {k, k + 1}
  <2>1. CASE k < p
    BY <1>2, <1>3, <2>1
  <2>2. CASE ~(k < p)
    <3>1. k + 1 \in 1 .. c /\ k + 1 # p
      BY <1>2, <2>2
    <3>. QED
      BY <1>3, <2>2, <3>1
  <2>. QED
    BY <2>1, <2>2
<1>6. \A k \in DOMAIN w : w[k].key # e.key
  BY <1>2, <1>4, <1>5 DEF Distinct
<1>7. Distinct(w)
  <2> SUFFICES ASSUME NEW k \in 1 .. c - 1, NEW l \in 1 .. c - 1, w[k].key = w[l].key PROVE k = l
    BY <1>4 DEF Distinct
  <2>1. (IF k < p THEN k ELSE k + 1) \in 1 .. c /\ (IF l < p THEN l ELSE l + 1) \in 1 .. c
    BY <1>2
  <2>2. w[k] = q[IF k < p THEN k ELSE k + 1] /\ w[l] = q[IF l < p THEN l ELSE l + 1]
    BY <1>3
  <2>3. (IF k < p THEN k ELSE k + 1) = (IF l < p THEN l ELSE l + 1)
    BY <1>2, <2>1, <2>2 DEF Distinct
  <2>. QED
    BY <1>2, <2>3
<1>8. PICK new : new = <<e>> \o w
  OBVIOUS
<1>9. InFront(new, w, e) /\ Len(new) = c /\ new \in Seq(T)
  <2>1. InFront(<<e>> \o w, w, e) /\ Len(<<e>> \o w) = Len(w) + 1 /\ <<e>> \o w \in Seq(T)
    BY <1>3, <1>6, <1>7, PutInFront
  <2>. QED
    BY <1>2, <1>3, <1>8, <2>1
<1>10. ASSUME NEW s \in DOMAIN q, q[s].key # e.key
       PROVE  \E r \in DOMAIN new :
                new[r] = q[s] /\ \A h \in 1 .. r - 1 : new[h].key = e.key \/ \E g \in 1 .. s - 1 : new[h].key = q[g].key
  <2>1. s # p /\ s \in 1 .. c
    BY <1>2, <1>10
  <2>2. PICK v : v = IF s < p THEN s ELSE s - 1
    OBVIOUS
  <2>3. v \in 1 .. c - 1 /\ v <= s
    BY <1>2, <2>1, <2>2
  <2>4. w[v] = q[s]
    <3>1. CASE s < p
      BY <1>3, <2>2, <2>3, <3>1
    <3>2. CASE ~(s < p)
      <4>1. v = s - 1 /\ ~(v < p) /\ v + 1 = s
        BY <1>2, <2>1, <2>2, <3>2
      <4>. QED
        BY <1>3, <2>3, <4>1
    <3>. QED
      BY <3>1, <3>2
  <2>5. PICK r \in DOMAIN new :
          new[r] = w[v] /\ \A h \in 1 .. r - 1 : new[h].key = e.key \/ \E g \in 1 .. v - 1 : new[h].key = w[g].key
    BY <1>4, <1>9, <1>10, <2>3, <2>4 DEF InFront
  <2>6. ASSUME NEW g \in 1 .. v - 1 PROVE \E f \in 1 .. s - 1 : w[g].key = q[f].key
    <3>1. CASE g < p
      <4>1. g \in 1 .. s - 1 /\ g \in 1 .. c - 1
        BY <1>2, <2>1, <2>3
      <4>. QED
        BY <1>3, <3>1, <4>1
    <3>2. CASE ~(g < p)
      <4>1. g + 1 \in 1 .. s - 1 /\ g \in 1 .. c - 1
        BY <1>2, <2>1, <2>2, <2>3, <3>2
      <4>. QED
        BY <1>3, <3>2, <4>1
    <3>. QED
      BY <3>1, <3>2
  <2>. QED
    BY <2>4, <2>5, <2>6
<1>11. InFront(new, q, e)
  BY <1>9, <1>10 DEF InFront
<1>. QED
  BY <1>1, <1>8, <1>9, <1>11

LEMMA FirstTaken ==
    ASSUME NEW T, NEW q \in Seq(T), NEW n \in Nat
    PROVE  /\ First(n, q) \in Seq(T) /\ DOMAIN First(n, q) = 1 .. Len(First(n, q))
           /\ Len(First(n, q)) = IF Len(q) < n THEN Len(q) ELSE n
           /\ \A k \in DOMAIN First(n, q) : k \in DOMAIN q /\ First(n, q)[k] = q[k]
<1>1. PICK c, m : c = Len(q) /\ m = IF c < n THEN c ELSE n
  OBVIOUS
<1>2. c \in Nat /\ m \in Nat /\ m <= c /\ DOMAIN q = 1 .. c /\ \A k \in 1 .. m : q[k] \in T
  BY <1>1
<1>3. PICK w : w = SubSeq(q, 1, m)
  OBVIOUS
<1>4. w = First(n, q)
  BY <1>1, <1>3 DEF First
<1>5. w \in Seq(T) /\ Len(w) = m /\ DOMAIN w = 1 .. m /\ \A k \in 1 .. m : w[k] = q[k]
  BY <1>1, <1>2, <1>3
<1>6. \A k \in 1 .. m : k \in 1 .. c
  BY <1>2
<1>. QED
  BY <1>1, <1>2, <1>4, <1>5, <1>6

\* A list from which nothing need be cut.
LEMMA FirstIsAll == ASSUME NEW T, NEW q \in Seq(T), NEW n \in Nat, Len(q) <= n PROVE First(n, q) = q
<1>1. (IF Len(q) < n THEN Len(q) ELSE n) = Len(q)
  OBVIOUS
<1>2. SubSeq(q, 1, Len(q)) = q
  OBVIOUS
<1>. QED
  BY <1>1, <1>2 DEF First

\* What stood behind keys of D stands behind keys of D and the one put in front, unless it fell off
\* the end; then D and that one are enough to fill the list.
LEMMA KeptOrFilled ==
    ASSUME NEW T, NEW new \in Seq(T), NEW q, NEW e, InFront(new, q, e), NEW n \in Nat \ {0},
           NEW p \in DOMAIN q, q[p].key # e.key, NEW D, IsFiniteSet(D), e.key \in D,
           \A g \in 1 .. p - 1 : q[g].key \in D
    PROVE  \/ Cardinality(D) >= n
           \/ \E r \in DOMAIN First(n, new) :
                First(n, new)[r] = q[p] /\ \A h \in 1 .. r - 1 : First(n, new)[h].key \in D
<1>1. PICK r \in DOMAIN new :
        new[r] = q[p] /\ \A h \in 1 .. r - 1 : new[h].key = e.key \/ \E g \in 1 .. p - 1 : new[h].key = q[g].key
  BY DEF InFront
<1>2. new[r] = q[p] /\ \A h \in 1 .. r - 1 : new[h].key \in D
  BY <1>1
<1>3. PICK c, w : c = Len(new) /\ w = First(n, new)
  OBVIOUS
<1>4. c \in Nat /\ DOMAIN new = 1 .. c /\ r \in 1 .. c
  BY <1>3
<1>5. DOMAIN w = 1 .. (IF c < n THEN c ELSE n) /\ \A k \in DOMAIN w : w[k] = new[k]
  BY <1>3, FirstTaken
<1>6. CASE r <= n
  <2>1. r \in DOMAIN w /\ \A h \in 1 .. r - 1 : h \in DOMAIN w
    BY <1>4, <1>5, <1>6
  <2>. QED
    BY <1>2, <1>3, <1>5, <2>1
<1>7. CASE r > n
  <2>1. \A h \in 1 .. n : h \in 1 .. r - 1 /\ h \in 1 .. c
    BY <1>4, <1>7
  <2>2. PICK f : f = [h \in 1 .. n |-> new[h].key]
    OBVIOUS
  <2>3. f \in [1 .. n -> D]
    BY <1>2, <2>1, <2>2
  <2>4. \A h, k \in 1 .. n : f[h] = f[k] => h = k
    BY <1>4, <2>1, <2>2 DEF InFront, Distinct
  <2>5. IsInjective(f) /\ f \in Injection(1 .. n, D)
    BY <2>3, <2>4 DEF IsInjective, Injection
  <2>6. IsFiniteSet(1 .. n) /\ Cardinality(1 .. n) = n
    BY FS_Interval
  <2>7. Cardinality(1 .. n) <= Cardinality(D)
    BY <2>5, FS_Injection
  <2>8. Cardinality(D) \in Nat
    BY FS_CardinalityType
  <2>. QED
    BY <2>6, <2>7, <2>8
<1>. QED
  BY <1>4, <1>6, <1>7

-----------------------------------------------------------------------------
(* What dedupeLRU still knows of the badges it let through *)

\* The other keys that were asked for after the i-th, up to the j-th.
Between(i, j) == {asked[k].key : k \in i + 1 .. j} \ {asked[i].key}

\* The key of the i-th is remembered until its time is over at least, and stands behind keys that were
\* asked for since.
Remembered(i) ==
    \E p \in DOMAIN lru :
        /\ lru[p].key = asked[i].key /\ lru[p].exp >= asked[i].at + DedupeTTL
        /\ \A g \in 1 .. p - 1 : lru[g].key \in Between(i, Len(asked))

Entries(K) == [key : K, exp : Nat]
Questions(K) == [key : K, at : Nat, fresh : BOOLEAN]

LruInv == (\E K : lru \in Seq(Entries(K))) /\ Distinct(lru) /\ Len(lru) <= DedupeCapacity

\* A badge that was let through is remembered, or enough others were asked for since to push it out.
AskedInv ==
    /\ \E K : asked \in Seq(Questions(K))
    /\ \A i \in DOMAIN asked :
         /\ asked[i].at <= now
         /\ asked[i].fresh => Cardinality(Between(i, Len(asked))) >= DedupeCapacity \/ Remembered(i)

MemoryInv == LruInv /\ AskedInv /\ BadgeNotRepeated

\* What Allow leaves: the first of a list at whose front is the key, with its old time or a new one.
LEMMA AllowShape ==
    ASSUME LruInv, ClockInv, NEW key
    PROVE  \E K, e, new :
             /\ InFront(new, lru, e) /\ new \in Seq(Entries(K)) /\ Allow(key) = First(DedupeCapacity, new)
             /\ e.key = key /\ e.exp \in Nat
             /\ Unseen(key) => e.exp = now + DedupeTTL
             /\ ~Unseen(key) => \A p \in DOMAIN lru : lru[p].key = key => e.exp >= lru[p].exp
<1>1. PICK K : lru \in Seq(Entries(K))
  BY DEF LruInv
<1>2. PICK c, T : c = Len(lru) /\ T = Entries(K \union {key})
  OBVIOUS
<1>3. c \in Nat /\ c <= DedupeCapacity /\ DOMAIN lru = 1 .. c /\ \A k \in 1 .. c : lru[k] \in Entries(K)
  BY <1>1, <1>2 DEF LruInv
<1>4. lru \in Seq(T)
  <2>1. Entries(K) \subseteq T
    BY <1>2 DEF Entries
  <2>. QED
    BY <1>1, <2>1
<1>5. Distinct(lru) /\ now \in Nat
  BY DEF LruInv, ClockInv
<1>6. CASE Unseen(key)
  <2>1. PICK e : e = [key |-> key, exp |-> now + DedupeTTL]
    OBVIOUS
  <2>2. e.key = key /\ e.exp = now + DedupeTTL /\ e.exp \in Nat /\ e \in T
    BY <1>2, <1>5, <2>1, BadgeAssumption DEF Entries
  <2>3. PICK new : new = <<e>> \o Without(key)
    OBVIOUS
  <2>4. Allow(key) = First(DedupeCapacity, new)
    BY <1>6, <2>1, <2>3 DEF Allow
  <2>5. InFront(new, lru, e) /\ new \in Seq(T)
    <3>1. CASE \E k \in DOMAIN lru : lru[k].key = key
      <4>1. PICK p : p = CHOOSE k \in DOMAIN lru : lru[k].key = key
        OBVIOUS
      <4>2. p \in DOMAIN lru /\ lru[p].key = key
        BY <3>1, <4>1
      <4>3. new = <<e>> \o RemoveAt(lru, p)
        BY <2>3, <3>1, <4>1 DEF Without
      <4>. QED
        BY <1>4, <1>5, <2>2, <4>2, <4>3, MovedToFront
    <3>2. CASE ~\E k \in DOMAIN lru : lru[k].key = key
      <4>1. new = <<e>> \o lru
        BY <2>3, <3>2 DEF Without
      <4>. QED
        BY <1>4, <1>5, <2>2, <3>2, <4>1, PutInFront
    <3>. QED
      BY <3>1, <3>2
  <2>. QED
    BY <1>2, <1>6, <2>2, <2>4, <2>5
<1>7. CASE ~Unseen(key)
  <2>1. PICK p : p = CHOOSE k \in DOMAIN lru : lru[k].key = key
    OBVIOUS
  <2>2. (\E k \in DOMAIN lru : lru[k].key = key) /\ p \in DOMAIN lru /\ lru[p].key = key
    BY <1>7, <2>1 DEF Unseen
  <2>3. PICK e : e = CHOOSE x \in ToSet(lru) : x.key = key
    OBVIOUS
  <2>4. e \in ToSet(lru) /\ e.key = key
    BY <2>2, <2>3 DEF ToSet
  <2>5. e = lru[p]
    BY <1>5, <2>2, <2>4 DEF ToSet, Distinct
  <2>6. e \in T /\ e.exp \in Nat
    BY <1>2, <1>3, <2>2, <2>5 DEF Entries
  <2>7. PICK new : new = <<e>> \o RemoveAt(lru, p)
    OBVIOUS
  <2>8. InFront(new, lru, e) /\ Len(new) = c /\ new \in Seq(T)
    BY <1>2, <1>4, <1>5, <2>2, <2>4, <2>6, <2>7, MovedToFront
  <2>9. Allow(key) = new
    BY <1>7, <2>1, <2>2, <2>3, <2>7 DEF Allow, Without
  <2>10. Allow(key) = First(DedupeCapacity, new)
    BY <1>3, <2>8, <2>9, FirstIsAll, BadgeAssumption
  <2>11. \A k \in DOMAIN lru : lru[k].key = key => k = p
    BY <1>5, <2>2 DEF Distinct
  <2>12. \A k \in DOMAIN lru : lru[k].key = key => e.exp >= lru[k].exp
    BY <2>5, <2>6, <2>11
  <2>. QED
    BY <1>2, <1>7, <2>4, <2>6, <2>8, <2>10, <2>12
<1>. QED
  BY <1>6, <1>7

LEMMA QuestionFields ==
    ASSUME AskedInv, NEW i \in DOMAIN asked
    PROVE  asked[i].at \in Nat /\ asked[i].fresh \in BOOLEAN
<1>1. PICK K : asked \in Seq(Questions(K))
  BY DEF AskedInv
<1>2. asked[i] \in Questions(K)
  BY <1>1
<1>. QED
  BY <1>2 DEF Questions

LEMMA EntryFields == ASSUME LruInv, NEW p \in DOMAIN lru PROVE lru[p].exp \in Nat
<1>1. PICK K : lru \in Seq(Entries(K))
  BY DEF LruInv
<1>2. lru[p] \in Entries(K)
  BY <1>1
<1>. QED
  BY <1>2 DEF Entries

LEMMA BetweenFinite == ASSUME AskedInv, NEW i \in DOMAIN asked PROVE IsFiniteSet(Between(i, Len(asked)))
<1>1. Len(asked) \in Nat /\ i \in Nat
  BY DEF AskedInv
<1>2. PICK f : f = [k \in i + 1 .. Len(asked) |-> asked[k].key]
  OBVIOUS
<1>3. IsFiniteSet({asked[k].key : k \in i + 1 .. Len(asked)})
  <2>1. IsFiniteSet(i + 1 .. Len(asked))
    BY <1>1, FS_Interval
  <2>2. f \in Surjection(i + 1 .. Len(asked), {asked[k].key : k \in i + 1 .. Len(asked)})
    BY <1>2 DEF Surjection
  <2>. QED
    BY <2>1, <2>2, FS_Surjection
<1>. QED
  BY <1>3, FS_Subset DEF Between

\* The list is asked for one key.
AskedFor(key) ==
    /\ lru' = Allow(key) /\ UNCHANGED now
    /\ asked' = Append(asked, [key |-> key, at |-> now, fresh |-> Unseen(key)])

LEMMA AskedGrows ==
    ASSUME AskedInv, ClockInv, NEW key, AskedFor(key)
    PROVE  /\ Len(asked) \in Nat /\ DOMAIN asked = 1 .. Len(asked)
           /\ DOMAIN asked' = 1 .. Len(asked) + 1 /\ Len(asked') = Len(asked) + 1
           /\ \A i \in DOMAIN asked : asked'[i] = asked[i]
           /\ asked'[Len(asked) + 1] = [key |-> key, at |-> now, fresh |-> Unseen(key)]
           /\ \E K : asked' \in Seq(Questions(K))
<1>1. PICK K : asked \in Seq(Questions(K))
  BY DEF AskedInv
<1>2. PICK x : x = [key |-> key, at |-> now, fresh |-> Unseen(key)]
  OBVIOUS
<1>3. Unseen(key) \in BOOLEAN
  BY DEF Unseen
<1>4. x \in Questions(K \union {key}) /\ Questions(K) \subseteq Questions(K \union {key})
  BY <1>2, <1>3 DEF Questions, ClockInv
<1>5. asked \in Seq(Questions(K \union {key}))
  <2>1. PICK A, B : A = Questions(K) /\ B = Questions(K \union {key})
    OBVIOUS
  <2>2. asked \in Seq(A) /\ A \subseteq B
    BY <1>1, <1>4, <2>1
  <2>3. asked \in Seq(B)
    BY <2>2
  <2>. QED
    BY <2>1, <2>3
<1>6. asked' = Append(asked, x)
  BY <1>2 DEF AskedFor
<1>7. asked' \in Seq(Questions(K \union {key}))
  BY <1>4, <1>5, <1>6
<1>. QED
  BY <1>1, <1>2, <1>5, <1>6, <1>7

LEMMA BetweenGrows ==
    ASSUME AskedInv, ClockInv, NEW key, AskedFor(key), NEW i \in DOMAIN asked
    PROVE  /\ Between(i, Len(asked))' = Between(i, Len(asked)) \union ({key} \ {asked[i].key})
           /\ \A j \in DOMAIN asked : Between(i, j)' = Between(i, j)
<1>1. PICK n : n = Len(asked)
  OBVIOUS
<1>2. /\ n \in Nat /\ i \in 1 .. n /\ DOMAIN asked = 1 .. n /\ Len(asked') = n + 1 /\ DOMAIN asked' = 1 .. n + 1
      /\ \A k \in 1 .. n : asked'[k] = asked[k]
      /\ asked'[n + 1].key = key
  <2>1. asked'[n + 1] = [key |-> key, at |-> now, fresh |-> Unseen(key)]
    BY <1>1, AskedGrows
  <2>2. asked'[n + 1].key = key
    BY <2>1
  <2>. QED
    BY <1>1, <2>2, AskedGrows
<1>3. ASSUME NEW j \in 1 .. n PROVE {asked'[k].key : k \in i + 1 .. j} = {asked[k].key : k \in i + 1 .. j}
  <2>1. \A k \in i + 1 .. j : asked'[k] = asked[k]
    BY <1>2
  <2>. QED
    BY <2>1
<1>4. {asked'[k].key : k \in i + 1 .. n + 1} = {asked[k].key : k \in i + 1 .. n} \union {key}
  <2>1. i + 1 .. n + 1 = (i + 1 .. n) \union {n + 1}
    BY <1>2
  <2>2. \A k \in i + 1 .. n : asked'[k] = asked[k]
    BY <1>2
  <2>. QED
    BY <1>2, <2>1, <2>2
<1>5. \A j \in 1 .. n : Between(i, j)' = Between(i, j)
  BY <1>2, <1>3 DEF Between
<1>6. Between(i, Len(asked))' = Between(i, n) \union ({key} \ {asked[i].key})
  BY <1>2, <1>4 DEF Between
<1>. QED
  BY <1>1, <1>2, <1>5, <1>6

LEMMA LruStep ==
    ASSUME LruInv, ClockInv, NEW key, AskedFor(key)
    PROVE  LruInv'
<1>1. PICK K, e, new :
        InFront(new, lru, e) /\ new \in Seq(Entries(K)) /\ lru' = First(DedupeCapacity, new)
  BY AllowShape DEF AskedFor
<1>2. DedupeCapacity \in Nat
  BY BadgeAssumption
<1>3. /\ lru' \in Seq(Entries(K)) /\ Len(lru') <= DedupeCapacity
      /\ \A k \in DOMAIN lru' : k \in DOMAIN new /\ lru'[k] = new[k]
  <2>1. Len(new) \in Nat
    BY <1>1
  <2>. QED
    BY <1>1, <1>2, <2>1, FirstTaken
<1>4. Distinct(lru')
  BY <1>1, <1>3 DEF InFront, Distinct
<1>. QED
  BY <1>3, <1>4 DEF LruInv, Distinct

\* The key that was asked for is at the front.
LEMMA AskedIsFirst ==
    ASSUME LruInv, AskedInv, ClockInv, NEW key, AskedFor(key)
    PROVE  /\ 1 \in DOMAIN lru' /\ lru'[1].key = key /\ lru'[1].exp \in Nat
           /\ Unseen(key) => lru'[1].exp = now + DedupeTTL
           /\ ~Unseen(key) => \A p \in DOMAIN lru : lru[p].key = key => lru'[1].exp >= lru[p].exp
<1>1. PICK K, e, new :
        /\ InFront(new, lru, e) /\ new \in Seq(Entries(K)) /\ lru' = First(DedupeCapacity, new)
        /\ e.key = key /\ e.exp \in Nat
        /\ Unseen(key) => e.exp = now + DedupeTTL
        /\ ~Unseen(key) => \A p \in DOMAIN lru : lru[p].key = key => e.exp >= lru[p].exp
  BY AllowShape DEF AskedFor
<1>2. DedupeCapacity \in Nat \ {0} /\ Len(new) \in Nat \ {0} /\ new[1] = e
  BY <1>1, BadgeAssumption DEF InFront
<1>3. /\ DOMAIN lru' = 1 .. (IF Len(new) < DedupeCapacity THEN Len(new) ELSE DedupeCapacity)
      /\ \A k \in DOMAIN lru' : lru'[k] = new[k]
  BY <1>1, <1>2, FirstTaken
<1>4. 1 \in DOMAIN lru'
  BY <1>2, <1>3
<1>. QED
  BY <1>1, <1>2, <1>3, <1>4

LEMMA AskedStep ==
    ASSUME LruInv, AskedInv, ClockInv, NEW key, AskedFor(key)
    PROVE  AskedInv'
<1>1. PICK n : n = Len(asked)
  OBVIOUS
<1>2. /\ n \in Nat /\ DOMAIN asked = 1 .. n /\ Len(asked') = n + 1 /\ DOMAIN asked' = 1 .. n + 1
      /\ \A k \in 1 .. n : asked'[k] = asked[k]
      /\ asked'[n + 1] = [key |-> key, at |-> now, fresh |-> Unseen(key)]
      /\ \E K : asked' \in Seq(Questions(K))
  BY <1>1, AskedGrows
<1>3. DedupeCapacity \in Nat \ {0} /\ DedupeTTL \in Nat /\ now \in Nat /\ now' = now
  BY BadgeAssumption DEF ClockInv, AskedFor
<1>4. /\ 1 \in DOMAIN lru' /\ lru'[1].key = key /\ lru'[1].exp \in Nat
      /\ Unseen(key) => lru'[1].exp = now + DedupeTTL
      /\ ~Unseen(key) => \A p \in DOMAIN lru : lru[p].key = key => lru'[1].exp >= lru[p].exp
  BY AskedIsFirst
<1>5. \A i \in 1 .. n : asked[i].at \in Nat /\ asked[i].at <= now
  BY <1>2, QuestionFields DEF AskedInv
<1>6. ASSUME NEW i \in 1 .. n + 1 PROVE asked'[i].at <= now'
  BY <1>2, <1>3, <1>5
<1>7. ASSUME asked'[n + 1].fresh PROVE Remembered(n + 1)'
  <2>1. asked'[n + 1].key = key /\ asked'[n + 1].at = now /\ Unseen(key)
    BY <1>2, <1>7
  <2>2. lru'[1].exp >= asked'[n + 1].at + DedupeTTL
    BY <1>3, <1>4, <2>1
  <2>. QED
    BY <1>4, <2>1, <2>2 DEF Remembered
<1>8. ASSUME NEW i \in 1 .. n, asked'[i].fresh
      PROVE  Cardinality(Between(i, Len(asked))') >= DedupeCapacity \/ Remembered(i)'
  <2>1. asked'[i] = asked[i] /\ asked[i].fresh
    BY <1>2, <1>8
  <2>2. PICK D, E : D = Between(i, Len(asked)) /\ E = Between(i, Len(asked))'
    OBVIOUS
  <2>3. E = D \union ({key} \ {asked[i].key})
    BY <1>2, <2>2, BetweenGrows
  <2>4. IsFiniteSet(D)
    BY <1>2, <2>2, BetweenFinite
  <2>5. IsFiniteSet({key} \ {asked[i].key})
    BY FS_EmptySet, FS_Singleton, FS_Subset
  <2>6. IsFiniteSet(E)
    BY <2>3, <2>4, <2>5, FS_Union
  <2>7. Cardinality(D) \in Nat /\ Cardinality(E) \in Nat /\ Cardinality(D) <= Cardinality(E)
    BY <2>3, <2>4, <2>6, FS_Subset, FS_CardinalityType
  <2>8. CASE Cardinality(D) >= DedupeCapacity
    BY <1>3, <2>2, <2>7, <2>8
  <2>9. CASE Remembered(i)
    <3>1. PICK p \in DOMAIN lru :
            /\ lru[p].key = asked[i].key /\ lru[p].exp >= asked[i].at + DedupeTTL
            /\ \A g \in 1 .. p - 1 : lru[g].key \in D
      BY <2>2, <2>9 DEF Remembered
    <3>2. CASE asked[i].key = key
      <4>1. lru[p].exp \in Nat
        BY EntryFields
      <4>2. lru'[1].exp >= asked[i].at + DedupeTTL
        <5>1. CASE Unseen(key)
          BY <1>3, <1>4, <1>5, <5>1
        <5>2. CASE ~Unseen(key)
          BY <1>3, <1>4, <1>5, <3>1, <3>2, <4>1, <5>2
        <5>. QED
          BY <5>1, <5>2
      <4>. QED
        BY <1>4, <2>1, <3>2, <4>2 DEF Remembered
    <3>3. CASE asked[i].key # key
      <4>1. key \in E /\ \A g \in 1 .. p - 1 : lru[g].key \in E
        BY <2>3, <3>1, <3>3
      <4>2. PICK K, e, new :
              InFront(new, lru, e) /\ new \in Seq(Entries(K)) /\ lru' = First(DedupeCapacity, new) /\ e.key = key
        BY AllowShape DEF AskedFor
      <4>3. \/ Cardinality(E) >= DedupeCapacity
            \/ \E r \in DOMAIN lru' : lru'[r] = lru[p] /\ \A h \in 1 .. r - 1 : lru'[h].key \in E
        BY <1>3, <2>6, <3>1, <3>3, <4>1, <4>2, KeptOrFilled
      <4>. QED
        BY <2>1, <2>2, <3>1, <4>3 DEF Remembered
    <3>. QED
      BY <3>2, <3>3
  <2>. QED
    BY <1>2, <2>1, <2>2, <2>8, <2>9 DEF AskedInv
<1>9. \A i \in 1 .. n + 1 : i \in 1 .. n \/ i = n + 1
  BY <1>2
<1>. QED
  BY <1>2, <1>6, <1>7, <1>8, <1>9 DEF AskedInv

\* A key that is let through is not remembered with time left.
LEMMA NotRepeatedStep ==
    ASSUME LruInv, AskedInv, ClockInv, BadgeNotRepeated, NEW key, AskedFor(key)
    PROVE  BadgeNotRepeated'
<1>1. PICK n : n = Len(asked)
  OBVIOUS
<1>2. /\ n \in Nat /\ DOMAIN asked = 1 .. n /\ Len(asked') = n + 1 /\ DOMAIN asked' = 1 .. n + 1
      /\ \A k \in 1 .. n : asked'[k] = asked[k]
      /\ asked'[n + 1] = [key |-> key, at |-> now, fresh |-> Unseen(key)]
  BY <1>1, AskedGrows
<1>3. DedupeTTL \in Nat /\ now \in Nat
  BY BadgeAssumption DEF ClockInv
<1>4. SUFFICES ASSUME NEW i \in 1 .. n + 1, NEW j \in 1 .. n + 1, i < j, asked'[i].key = asked'[j].key,
                      asked'[i].fresh, asked'[j].fresh, asked'[j].at < asked'[i].at + DedupeTTL
               PROVE  Cardinality({asked'[k].key : k \in i + 1 .. j - 1} \ {asked'[i].key}) >= DedupeCapacity
  BY <1>2 DEF BadgeNotRepeated
<1>5. i \in 1 .. n /\ j - 1 \in 1 .. n /\ asked'[i] = asked[i]
  BY <1>2, <1>4
<1>6. {asked'[k].key : k \in i + 1 .. j - 1} \ {asked'[i].key} = Between(i, j - 1)
  <2>1. Between(i, j - 1)' = Between(i, j - 1)
    BY <1>2, <1>5, BetweenGrows
  <2>. QED
    BY <2>1 DEF Between
<1>7. CASE j \in 1 .. n
  <2>1. /\ i \in DOMAIN asked /\ j \in DOMAIN asked /\ asked[i].key = asked[j].key
        /\ asked[i].fresh /\ asked[j].fresh /\ asked[j].at < asked[i].at + DedupeTTL
    BY <1>2, <1>4, <1>5, <1>7
  <2>2. Cardinality(Between(i, j - 1)) >= DedupeCapacity
    BY <1>4, <2>1 DEF BadgeNotRepeated, Between
  <2>. QED
    BY <1>6, <2>2
<1>8. CASE j = n + 1
  <2>1. /\ asked[i].key = key /\ Unseen(key) /\ now < asked[i].at + DedupeTTL /\ j - 1 = n
        /\ asked[i].fresh
    BY <1>2, <1>4, <1>5, <1>8
  <2>2. asked[i].at \in Nat
    BY <1>2, <1>5, QuestionFields
  <2>3. ~Remembered(i)
    <3>1. SUFFICES ASSUME NEW p \in DOMAIN lru, lru[p].key = key, lru[p].exp >= asked[i].at + DedupeTTL PROVE FALSE
      BY <2>1 DEF Remembered
    <3>2. lru[p].exp \in Nat
      BY EntryFields
    <3>3. now < lru[p].exp
      BY <1>3, <2>1, <2>2, <3>1, <3>2
    <3>. QED
      BY <2>1, <3>1, <3>3 DEF Unseen
  <2>4. Cardinality(Between(i, Len(asked))) >= DedupeCapacity
    BY <1>2, <1>5, <2>1, <2>3 DEF AskedInv
  <2>. QED
    BY <1>1, <1>6, <2>1, <2>4
<1>. QED
  BY <1>2, <1>7, <1>8

LEMMA MemoryStays ==
    ASSUME MemoryInv, ClockInv, UNCHANGED <<lru, asked>>, UNCHANGED now \/ Tick
    PROVE  MemoryInv'
<1>1. now \in Nat /\ now' \in Nat /\ now <= now'
  BY DEF ClockInv, Tick
<1>2. LruInv' /\ BadgeNotRepeated'
  BY DEF MemoryInv, LruInv, Distinct, BadgeNotRepeated
<1>3. AskedInv /\ \A i \in DOMAIN asked : asked[i].at \in Nat
  BY QuestionFields DEF MemoryInv
<1>4. \A i \in DOMAIN asked : Remembered(i)' = Remembered(i) /\ Between(i, Len(asked))' = Between(i, Len(asked))
  BY DEF Remembered, Between
<1>5. \A i \in DOMAIN asked : asked[i].at <= now'
  BY <1>1, <1>3 DEF AskedInv
<1>6. AskedInv'
  BY <1>3, <1>4, <1>5 DEF AskedInv
<1>. QED
  BY <1>2, <1>6 DEF MemoryInv

LEMMA MemoryInvInit == Init => MemoryInv
<1> SUFFICES ASSUME lru = <<>>, asked = <<>> PROVE MemoryInv
  BY DEF Init, BadgeInit
<1>1. DedupeCapacity \in Nat /\ lru \in Seq(Entries({})) /\ asked \in Seq(Questions({}))
  BY BadgeAssumption
<1>2. DOMAIN lru = {} /\ DOMAIN asked = {} /\ Len(lru) = 0
  OBVIOUS
<1>. QED
  BY <1>1, <1>2 DEF MemoryInv, LruInv, AskedInv, BadgeNotRepeated, Distinct

LEMMA MemoryAsked == ASSUME MemoryInv, ClockInv, NEW key, AskedFor(key) PROVE MemoryInv'
BY LruStep, AskedStep, NotRepeatedStep DEF MemoryInv

LEMMA MemoryInvNext == MemoryInv /\ ClockInv /\ [Next]_vars => MemoryInv'
<1> SUFFICES ASSUME MemoryInv, ClockInv, [Next]_vars PROVE MemoryInv'
  OBVIOUS
<1>1. BadgeNext \/ UNCHANGED <<lru, asked>>
  BY DEF Next, vars, badgeVars, CreditHit, CreditCheckin
<1>2. ASSUME BadgeNext PROVE UNCHANGED <<lru, asked>> \/ (\E key : AskedFor(key)) \/ (lru' = <<>> /\ asked' = <<>>)
  BY <1>2 DEF BadgeNext, Emit, Detect, WriteBadge, EmitFails, GatewayRestarts, EmitEnds, AskedFor, clockVars
<1>3. CASE lru' = <<>> /\ asked' = <<>>
  <2>1. DedupeCapacity \in Nat /\ lru' \in Seq(Entries({})) /\ asked' \in Seq(Questions({}))
    BY <1>3, BadgeAssumption
  <2>2. DOMAIN lru' = {} /\ DOMAIN asked' = {} /\ Len(lru') = 0
    BY <1>3
  <2>. QED
    BY <2>1, <2>2 DEF MemoryInv, LruInv, AskedInv, BadgeNotRepeated, Distinct
<1>. QED
  BY <1>1, <1>2, <1>3, MemoryAsked, MemoryStays, ClockMoves

\* While the gateway runs, a badge is not shown again before its time is over, unless as many others as
\* dedupeLRU holds were asked for meanwhile: for every capacity, every TTL, and any number of turns
\* emitted at the same time.
THEOREM BadgesAreNotRepeated == Spec => []BadgeNotRepeated
<1>1. MemoryInv => BadgeNotRepeated
  BY DEF MemoryInv
<1>. QED
  BY <1>1, MemoryInvInit, MemoryInvNext, ClockInvInit, ClockInvNext, PTL DEF Spec

-----------------------------------------------------------------------------
(* Sums over finite sets.  Induction is stated of sets, not of predicates:  *)
(* what holds of the least counterexample is that there is none.           *)

\* A set that has 0, and with a number the next, has them all.
LEMMA InductionOnNumbers ==
    ASSUME NEW A, 0 \in A, \A n \in Nat : n \in A => n + 1 \in A
    PROVE  Nat \subseteq A
<1> SUFFICES ASSUME Nat \ A # {} PROVE FALSE
  OBVIOUS
<1>1. PICK R : R = OpToRel(<, Nat)
  OBVIOUS
<1>2. \A x, y \in Nat : <<x, y>> \in R <=> x < y
  BY <1>1 DEF OpToRel
<1>3. IsWellFoundedOn(R, Nat)
  BY <1>1, NatLessThanWellFounded
<1>4. PICK x \in Nat \ A : \A y \in Nat \ A : ~(<<y, x>> \in R)
  BY <1>3, WFMin
<1>5. x # 0 /\ x - 1 \in Nat /\ x - 1 < x /\ (x - 1) + 1 = x
  BY <1>4
<1>6. x - 1 \in A
  BY <1>2, <1>4, <1>5
<1>. QED
  BY <1>4, <1>5, <1>6

\* A subset of a finite set has a size, and one member less makes it one smaller.
LEMMA SubsetsAreCounted ==
    ASSUME NEW S, IsFiniteSet(S), NEW T \in SUBSET S
    PROVE  /\ IsFiniteSet(T) /\ Cardinality(T) \in Nat
           /\ Cardinality(T) = 0 => T = {}
           /\ \A x \in T : Cardinality(T) = Cardinality(T \ {x}) + 1 /\ Cardinality(T \ {x}) \in Nat
<1>1. IsFiniteSet(T)
  BY FS_Subset
<1>2. Cardinality(T) \in Nat /\ (Cardinality(T) = 0 => T = {})
  BY <1>1, FS_CardinalityType, FS_EmptySet
<1>3. ASSUME NEW x \in T PROVE Cardinality(T) = Cardinality(T \ {x}) + 1 /\ Cardinality(T \ {x}) \in Nat
  <2>1. IsFiniteSet(T \ {x})
    BY <1>1, FS_Subset
  <2>2. Cardinality(T \ {x}) \in Nat
    BY <2>1, FS_CardinalityType
  <2>3. Cardinality((T \ {x}) \union {x}) = Cardinality(T \ {x}) + 1
    BY <2>1, FS_AddElement
  <2>4. (T \ {x}) \union {x} = T
    OBVIOUS
  <2>. QED
    BY <2>2, <2>3, <2>4
<1>. QED
  BY <1>1, <1>2, <1>3

\* A family that has the empty set, and each subset of S of which it has all that lack one member, has
\* every subset of S.
LEMMA InductionOnSets ==
    ASSUME NEW S, IsFiniteSet(S), NEW A, {} \in A,
           \A T \in SUBSET S : T # {} /\ (\A x \in T : T \ {x} \in A) => T \in A
    PROVE  SUBSET S \subseteq A
<1> DEFINE N == {n \in Nat : \A T \in SUBSET S : Cardinality(T) = n => T \in A}
<1>1. 0 \in N
  BY SubsetsAreCounted
<1>2. ASSUME NEW n \in Nat, n \in N PROVE n + 1 \in N
  <2> SUFFICES ASSUME NEW T \in SUBSET S, Cardinality(T) = n + 1 PROVE T \in A
    OBVIOUS
  <2>1. T # {}
    <3>1. Cardinality({}) = 0
      BY FS_EmptySet
    <3>. QED
      BY <3>1
  <2>2. ASSUME NEW x \in T PROVE T \ {x} \in A
    <3>1. Cardinality(T \ {x}) = n
      BY SubsetsAreCounted
    <3>. QED
      BY <1>2, <3>1
  <2>. QED
    BY <2>1, <2>2
<1> HIDE DEF N
<1>3. Nat \subseteq N
  BY <1>1, <1>2, InductionOnNumbers
<1>4. ASSUME NEW T \in SUBSET S PROVE T \in A
  <2>1. Cardinality(T) \in N
    BY <1>3, SubsetsAreCounted
  <2>. QED
    BY <2>1 DEF N
<1>. QED
  BY <1>4

\* The sum of the library takes one member after the other.
Pick(s) == CHOOSE x \in s : TRUE
SumOf(f, g, s) == IF s = {} THEN 0 ELSE f[Pick(s)] + g[s \ {Pick(s)}]
Sums(g, f, S) == g = [s \in SUBSET S |-> SumOf(f, g, s)]

LEMMA SumUnfolds == ASSUME NEW f, NEW S PROVE SumFunctionOnSet(f, S) = (CHOOSE g : Sums(g, f, S))[S]
  BY DEF SumFunctionOnSet, FoldFunctionOnSet, MapThenFoldSet, Sums, SumOf, Pick

LEMMA PickPicks == ASSUME NEW T, T # {} PROVE Pick(T) \in T
  BY DEF Pick

\* A recursive sum exists on every finite set, built one cardinality at a time.
LEMMA SumExists == ASSUME NEW f, NEW S, IsFiniteSet(S) PROVE \E g : Sums(g, f, S)
<1> DEFINE Level(n) == {s \in SUBSET S : Cardinality(s) <= n}
           N == {n \in Nat : \E g : g = [s \in Level(n) |-> SumOf(f, g, s)]}
<1>1. ASSUME NEW n \in Nat, NEW s \in Level(n), s # {}
      PROVE  s \ {Pick(s)} \in Level(n) /\ \A m \in Nat : n = m + 1 => s \ {Pick(s)} \in Level(m)
  BY <1>1, SubsetsAreCounted, PickPicks
<1>2. 0 \in N
  <2> DEFINE g == [s \in Level(0) |-> 0]
  <2>1. Level(0) = {{}}
    BY SubsetsAreCounted, FS_EmptySet
  <2>2. g = [s \in Level(0) |-> SumOf(f, g, s)]
    BY <2>1 DEF SumOf
  <2>. QED
    BY <2>2
<1>3. ASSUME NEW n \in Nat, n \in N PROVE n + 1 \in N
  <2>1. PICK g : g = [s \in Level(n) |-> SumOf(f, g, s)]
    BY <1>3
  <2> DEFINE h == [s \in Level(n + 1) |-> SumOf(f, g, s)]
  <2>2. \A s \in Level(n) : s \in Level(n + 1) /\ h[s] = g[s]
    <3>1. ASSUME NEW s \in Level(n) PROVE s \in Level(n + 1)
      BY SubsetsAreCounted
    <3>2. ASSUME NEW s \in Level(n) PROVE h[s] = SumOf(f, g, s)
      BY <3>1
    <3>3. ASSUME NEW s \in Level(n) PROVE g[s] = SumOf(f, g, s)
      BY <2>1
    <3>. QED
      BY <3>1, <3>2, <3>3
  <2> HIDE DEF Level
  <2>3. ASSUME NEW s \in Level(n + 1) PROVE SumOf(f, h, s) = SumOf(f, g, s)
    <3>1. CASE s = {}
      BY <3>1 DEF SumOf
    <3>2. CASE s # {}
      <4>1. s \ {Pick(s)} \in Level(n)
        BY <1>1, <3>2
      <4>2. h[s \ {Pick(s)}] = g[s \ {Pick(s)}]
        BY <2>2, <4>1
      <4> HIDE DEF h
      <4>. QED
        BY <3>2, <4>2 DEF SumOf
    <3>. QED
      BY <3>1, <3>2
  <2>4. h = [s \in Level(n + 1) |-> SumOf(f, h, s)]
    BY <2>3
  <2> HIDE DEF h
  <2>5. n + 1 \in Nat /\ \E k : k = [s \in Level(n + 1) |-> SumOf(f, k, s)]
    BY <2>4
  <2>. QED
    BY <2>5
<1>4. Nat \subseteq N
  <2> HIDE DEF N
  <2>. QED
    BY <1>2, <1>3, InductionOnNumbers
<1>5. Cardinality(S) \in Nat /\ Level(Cardinality(S)) = SUBSET S
  BY FS_CardinalityType, FS_Subset
<1> HIDE DEF Level
<1>6. PICK g : g = [s \in Level(Cardinality(S)) |-> SumOf(f, g, s)]
  BY <1>4, <1>5
<1>. QED
  BY <1>5, <1>6 DEF Sums

\* SumFunctionOnSet is such a sum.
LEMMA SumIsPicked ==
    ASSUME NEW f, NEW S, IsFiniteSet(S)
    PROVE  \E g : Sums(g, f, S) /\ SumFunctionOnSet(f, S) = g[S]
<1>1. Sums(CHOOSE g : Sums(g, f, S), f, S)
  BY SumExists
<1>. QED
  BY <1>1, SumUnfolds

LEMMA SumAt == ASSUME NEW f, NEW S, NEW g, Sums(g, f, S), NEW T \in SUBSET S PROVE g[T] = SumOf(f, g, T)
  BY DEF Sums

\* Two recursive sums agree where both are defined.
LEMMA SumIsUnique ==
    ASSUME NEW f, NEW S, IsFiniteSet(S), NEW R \in SUBSET S, NEW g, Sums(g, f, S), NEW h, Sums(h, f, R)
    PROVE  g[R] = h[R]
<1> DEFINE A == {T \in SUBSET R : g[T] = h[T]}
<1>1. ASSUME NEW T \in SUBSET R PROVE g[T] = SumOf(f, g, T) /\ h[T] = SumOf(f, h, T)
  BY SumAt
<1>2. {} \in A
  BY <1>1 DEF SumOf
<1>3. ASSUME NEW T \in SUBSET R, T # {}, \A x \in T : T \ {x} \in A PROVE T \in A
  <2>1. T \ {Pick(T)} \in A
    BY <1>3, PickPicks
  <2>2. SumOf(f, g, T) = SumOf(f, h, T)
    BY <1>3, <2>1 DEF SumOf
  <2>. QED
    BY <1>1, <2>2
<1>4. SUBSET R \subseteq A
  <2> HIDE DEF A
  <2>1. IsFiniteSet(R)
    BY FS_Subset
  <2>. QED
    BY <1>2, <1>3, <2>1, InductionOnSets
<1>. QED
  BY <1>4

LEMMA EmptySum == ASSUME NEW f PROVE SumFunctionOnSet(f, {}) = 0
<1>1. PICK g : Sums(g, f, {}) /\ SumFunctionOnSet(f, {}) = g[{}]
  BY SumIsPicked, FS_EmptySet
<1>2. g[{}] = SumOf(f, g, {})
  BY <1>1, SumAt
<1>. QED
  BY <1>1, <1>2 DEF SumOf

LEMMA SumByPick ==
    ASSUME NEW f, NEW S, IsFiniteSet(S), S # {}
    PROVE  SumFunctionOnSet(f, S) = f[Pick(S)] + SumFunctionOnSet(f, S \ {Pick(S)})
<1> DEFINE R == S \ {Pick(S)}
<1>1. PICK g : Sums(g, f, S) /\ SumFunctionOnSet(f, S) = g[S]
  BY SumIsPicked
<1>2. IsFiniteSet(R) /\ R \in SUBSET S
  BY FS_Subset
<1>3. PICK h : Sums(h, f, R) /\ SumFunctionOnSet(f, R) = h[R]
  BY <1>2, SumIsPicked
<1>4. g[R] = h[R]
  <2> HIDE DEF R
  <2>. QED
    BY <1>1, <1>2, <1>3, SumIsUnique
<1>5. g[S] = SumOf(f, g, S)
  BY <1>1, SumAt
<1>. QED
  BY <1>1, <1>3, <1>4, <1>5 DEF SumOf

LEMMA SumIsNumber ==
    ASSUME NEW S, IsFiniteSet(S), NEW f \in [S -> Nat], NEW T \in SUBSET S
    PROVE  SumFunctionOnSet(f, T) \in Nat
<1> DEFINE A == {R \in SUBSET S : SumFunctionOnSet(f, R) \in Nat}
<1>1. {} \in A
  BY EmptySum
<1>2. ASSUME NEW R \in SUBSET S, R # {}, \A x \in R : R \ {x} \in A PROVE R \in A
  <2>1. Pick(R) \in R
    BY <1>2, PickPicks
  <2>2. SumFunctionOnSet(f, R \ {Pick(R)}) \in Nat
    BY <1>2, <2>1
  <2>3. SumFunctionOnSet(f, R) = f[Pick(R)] + SumFunctionOnSet(f, R \ {Pick(R)})
    BY <1>2, FS_Subset, SumByPick
  <2>4. f[Pick(R)] \in Nat
    BY <2>1
  <2>. QED
    BY <2>2, <2>3, <2>4
<1>3. SUBSET S \subseteq A
  <2> HIDE DEF A
  <2>. QED
    BY <1>1, <1>2, InductionOnSets
<1>. QED
  BY <1>3

\* Any member may be taken first.
LEMMA SumOfDifference ==
    ASSUME NEW S, IsFiniteSet(S), NEW f \in [S -> Nat], NEW T \in SUBSET S, NEW x \in T
    PROVE  SumFunctionOnSet(f, T) = f[x] + SumFunctionOnSet(f, T \ {x})
<1> DEFINE Sum(R) == SumFunctionOnSet(f, R)
           A == {R \in SUBSET S : \A y \in R : Sum(R) = f[y] + Sum(R \ {y})}
<1>1. {} \in A
  OBVIOUS
<1>2. \A R \in SUBSET S : Sum(R) \in Nat
  BY SumIsNumber
<1>3. ASSUME NEW R \in SUBSET S, R # {}, \A y \in R : R \ {y} \in A PROVE R \in A
  <2> DEFINE p == Pick(R)
  <2>1. p \in R
    BY <1>3, PickPicks
  <2>2. Sum(R) = f[p] + Sum(R \ {p})
    BY <1>3, FS_Subset, SumByPick
  <2> SUFFICES ASSUME NEW y \in R, y # p PROVE Sum(R) = f[y] + Sum(R \ {y})
    BY <2>2
  <2> HIDE DEF p
  <2>3. Sum(R \ {p}) = f[y] + Sum((R \ {p}) \ {y})
    BY <1>3, <2>1
  <2>4. Sum(R \ {y}) = f[p] + Sum((R \ {y}) \ {p})
    BY <1>3, <2>1
  <2>5. (R \ {p}) \ {y} = (R \ {y}) \ {p}
    OBVIOUS
  <2>6. Sum(R \ {y}) = f[p] + Sum((R \ {p}) \ {y})
    BY <2>4, <2>5
  <2>7. PICK a \in Nat : a = f[p]
    BY <2>1
  <2>8. PICK b \in Nat : b = f[y]
    OBVIOUS
  <2>9. PICK c \in Nat : c = Sum((R \ {p}) \ {y})
    BY <1>2
  <2>10. Sum(R) = a + (b + c) /\ Sum(R \ {y}) = a + c
    BY <2>2, <2>3, <2>6, <2>7, <2>8, <2>9
  <2>. QED
    BY <2>8, <2>10
<1>4. SUBSET S \subseteq A
  <2> HIDE DEF A
  <2>. QED
    BY <1>1, <1>3, InductionOnSets
<1>. QED
  BY <1>4

\* A sum over two sets that have nothing in common.
LEMMA SumOfUnion ==
    ASSUME NEW S, IsFiniteSet(S), NEW f \in [S -> Nat],
           NEW P \in SUBSET S, NEW Q \in SUBSET S, P \intersect Q = {}
    PROVE  SumFunctionOnSet(f, P \union Q) = SumFunctionOnSet(f, P) + SumFunctionOnSet(f, Q)
<1> DEFINE Sum(R) == SumFunctionOnSet(f, R)
           A == {R \in SUBSET Q : Sum(P \union R) = Sum(P) + Sum(R)}
<1>1. \A R \in SUBSET S : Sum(R) \in Nat
  BY SumIsNumber
<1>2. {} \in A
  <2>1. Sum({}) = 0 /\ P \union {} = P /\ Sum(P) \in Nat
    BY <1>1, EmptySum
  <2> HIDE DEF Sum
  <2>. QED
    BY <2>1
<1>3. ASSUME NEW R \in SUBSET Q, R # {}, \A y \in R : R \ {y} \in A PROVE R \in A
  <2>1. PICK y \in R : TRUE
    BY <1>3
  <2>2. Sum(R) = f[y] + Sum(R \ {y})
    BY SumOfDifference
  <2>3. Sum(P \union R) = f[y] + Sum((P \union R) \ {y})
    BY SumOfDifference
  <2>4. (P \union R) \ {y} = P \union (R \ {y})
    OBVIOUS
  <2>5. Sum(P \union (R \ {y})) = Sum(P) + Sum(R \ {y})
    BY <1>3
  <2>6. PICK a \in Nat : a = f[y]
    OBVIOUS
  <2>7. PICK b \in Nat : b = Sum(P)
    BY <1>1
  <2>8. PICK c \in Nat : c = Sum(R \ {y})
    BY <1>1
  <2>9. Sum(P \union R) = a + (b + c) /\ Sum(R) = a + c
    BY <2>2, <2>3, <2>4, <2>5, <2>6, <2>7, <2>8
  <2>10. Sum(P \union R) = Sum(P) + Sum(R)
    BY <2>7, <2>9
  <2>. QED
    BY <2>10
<1>4. SUBSET Q \subseteq A
  <2> HIDE DEF A
  <2>1. IsFiniteSet(Q)
    BY FS_Subset
  <2>. QED
    BY <1>2, <1>3, <2>1, InductionOnSets
<1>. QED
  BY <1>4

\* A sum by groups is the sum.
LEMMA SumByGroups ==
    ASSUME NEW S, IsFiniteSet(S), NEW f \in [S -> Nat], NEW R \in SUBSET S, NEW K, IsFiniteSet(K),
           NEW h, \A k \in R : h[k] \in K,
           NEW g \in [K -> Nat], \A key \in K : g[key] = SumFunctionOnSet(f, {k \in R : h[k] = key})
    PROVE  SumFunctionOnSet(g, K) = SumFunctionOnSet(f, R)
<1> DEFINE Under(L) == {k \in R : h[k] \in L}
           A == {L \in SUBSET K : SumFunctionOnSet(g, L) = SumFunctionOnSet(f, Under(L))}
<1>1. {} \in A
  <2>1. Under({}) = {}
    OBVIOUS
  <2>. QED
    BY <2>1, EmptySum
<1>2. ASSUME NEW L \in SUBSET K, L # {}, \A y \in L : L \ {y} \in A PROVE L \in A
  <2>1. PICK y \in L : TRUE
    BY <1>2
  <2>2. SumFunctionOnSet(g, L) = g[y] + SumFunctionOnSet(g, L \ {y})
    BY SumOfDifference
  <2>3. SumFunctionOnSet(g, L \ {y}) = SumFunctionOnSet(f, Under(L \ {y}))
    BY <1>2
  <2> DEFINE one == {k \in R : h[k] = y}
  <2>4. one \in SUBSET S /\ Under(L \ {y}) \in SUBSET S /\ one \intersect Under(L \ {y}) = {}
        /\ one \union Under(L \ {y}) = Under(L)
    OBVIOUS
  <2>5. g[y] = SumFunctionOnSet(f, one)
    OBVIOUS
  <2>6. PICK U : U = Under(L \ {y})
    OBVIOUS
  <2> HIDE DEF Under, one
  <2>7. one \in SUBSET S /\ U \in SUBSET S /\ one \intersect U = {} /\ one \union U = Under(L)
    BY <2>4, <2>6
  <2>8. SumFunctionOnSet(f, one \union U) = SumFunctionOnSet(f, one) + SumFunctionOnSet(f, U)
    BY <2>7, SumOfUnion
  <2>9. SumFunctionOnSet(g, L) = SumFunctionOnSet(f, Under(L))
    BY <2>2, <2>3, <2>5, <2>6, <2>7, <2>8
  <2>. QED
    BY <2>9
<1>3. SUBSET K \subseteq A
  <2> HIDE DEF A
  <2>. QED
    BY <1>1, <1>2, InductionOnSets
<1>4. Under(K) = R
  OBVIOUS
<1>. QED
  BY <1>3, <1>4

\* Counting is a sum.
LEMMA SumOfOnes ==
    ASSUME NEW S, IsFiniteSet(S), NEW T \in SUBSET S
    PROVE  SumFunctionOnSet([k \in S |-> 1], T) = Cardinality(T)
<1> DEFINE f == [k \in S |-> 1]
           A == {R \in SUBSET S : SumFunctionOnSet(f, R) = Cardinality(R)}
<1>1. f \in [S -> Nat]
  OBVIOUS
<1>2. {} \in A
  BY EmptySum, FS_EmptySet
<1>3. ASSUME NEW R \in SUBSET S, R # {}, \A y \in R : R \ {y} \in A PROVE R \in A
  <2>1. PICK y \in R : TRUE
    BY <1>3
  <2>2. SumFunctionOnSet(f, R) = f[y] + SumFunctionOnSet(f, R \ {y})
    <3> HIDE DEF f
    <3>. QED
      BY <1>1, SumOfDifference
  <2>3. SumFunctionOnSet(f, R \ {y}) = Cardinality(R \ {y}) /\ f[y] = 1
    BY <1>3
  <2>4. Cardinality(R) = Cardinality(R \ {y}) + 1 /\ Cardinality(R \ {y}) \in Nat
    BY SubsetsAreCounted
  <2>5. SumFunctionOnSet(f, R) = Cardinality(R)
    <3> HIDE DEF f
    <3>. QED
      BY <2>2, <2>3, <2>4
  <2>. QED
    BY <2>5
<1>4. SUBSET S \subseteq A
  <2> HIDE DEF A
  <2>. QED
    BY <1>2, <1>3, InductionOnSets
<1>. QED
  BY <1>4

-----------------------------------------------------------------------------
(* The cost ledger *)

LogFields == {"user", "anonymized", "task", "model", "tokensIn", "tokensOut", "chars", "cost", "at"}
AskFields == {"pc", "operation", "user", "gone", "usage"}

IsLog(log) == DOMAIN log = LogFields /\ log.cost \in Nat /\ log.at \in Nat

IsAsk(r) == DOMAIN r = AskFields /\ r.usage \in Nat \X Nat

LedgerInv ==
    /\ \E T : ledger \in Seq(T)
    /\ \A k \in DOMAIN ledger : IsLog(ledger[k])
    /\ DOMAIN ask = Callers /\ \A c \in Callers : ask[c] # None => IsAsk(ask[c])

\* No call has a negative price.
LEMMA PricesAreNat ==
    ASSUME NEW model, NEW n \in Nat, NEW m \in Nat
    PROVE  CalculateCostMicroYuan(model, n, m) \in Nat
<1> DEFINE price == ArkPricing[PricedAs(model)]
<1>1. CASE PricedAs(model) \in DOMAIN ArkPricing
  <2>1. price.input \in Nat /\ price.output \in Nat /\ Million \in Nat \ {0}
    BY <1>1, PricingAssumption
  <2>2. n * price.input \in Nat /\ m * price.output \in Nat
    BY <2>1
  <2>3. PICK due \in Nat : due = n * price.input + m * price.output
    BY <2>2
  <2>4. due \div Million \in Nat
    BY <2>1
  <2>. QED
    BY <2>3, <2>4 DEF CalculateCostMicroYuan
<1>2. CASE PricedAs(model) \notin DOMAIN ArkPricing
  BY <1>2 DEF CalculateCostMicroYuan
<1>. QED
  BY <1>1, <1>2

\* A row is filed.
LEMMA RecordStep ==
    ASSUME LedgerInv, NEW log, IsLog(log), Record(log), DOMAIN ask' = Callers,
           \A c \in Callers : ask'[c] # None => IsAsk(ask'[c])
    PROVE  LedgerInv'
<1>1. PICK T : ledger \in Seq(T)
  BY DEF LedgerInv
<1>2. ledger' \in Seq(T \union {log})
  BY <1>1 DEF Record
<1>3. \A k \in DOMAIN ledger' : ledger'[k] = log \/ (k \in DOMAIN ledger /\ ledger'[k] = ledger[k])
  BY <1>1 DEF Record
<1>. QED
  BY <1>2, <1>3 DEF LedgerInv

\* No row is.
LEMMA LedgerStays ==
    ASSUME LedgerInv, UNCHANGED ledger, DOMAIN ask' = Callers,
           \A c \in Callers : ask'[c] # None => IsAsk(ask'[c])
    PROVE  LedgerInv'
  BY DEF LedgerInv

LEMMA AskEnds ==
    ASSUME LedgerInv, NEW c \in Callers, ask' = [ask EXCEPT ![c] = None]
    PROVE  DOMAIN ask' = Callers /\ \A d \in Callers : ask'[d] # None => IsAsk(ask'[d])
  BY DEF LedgerInv

LEMMA WriteCostStep == ASSUME LedgerInv, ClockInv, NEW c \in Callers, NEW s, WriteCost(c, s) PROVE LedgerInv'
<1> DEFINE model == Serves[endpointFor(ask[c].operation)]
           log == Log(ask[c].user, ask[c].operation, model, ask[c].usage[1], ask[c].usage[2], 0,
                      CalculateCostMicroYuan(model, ask[c].usage[1], ask[c].usage[2]))
<1>1. ask[c] # None /\ ask' = [ask EXCEPT ![c] = None] /\ (UNCHANGED ledger \/ Record(log))
  BY DEF WriteCost
<1>2. ask[c].usage[1] \in Nat /\ ask[c].usage[2] \in Nat
  BY <1>1 DEF LedgerInv, IsAsk
<1>3. CalculateCostMicroYuan(model, ask[c].usage[1], ask[c].usage[2]) \in Nat
  BY <1>2, PricesAreNat
<1>4. IsLog(log)
  BY <1>3 DEF IsLog, Log, LogFields, ClockInv
<1> HIDE DEF log
<1>. QED
  BY <1>1, <1>4, AskEnds, RecordStep, LedgerStays

LEMMA AskSteps ==
    ASSUME LedgerInv, NEW c \in Callers,
           \/ \E operation, user : Complete(c, operation, user)
           \/ CallerGivesUp(c) \/ CompletionFails(c) \/ WriteCostFails(c)
           \/ \E usage \in Usages : ModelAnswers(c, usage)
    PROVE  LedgerInv'
<1>1. CASE CompletionFails(c) \/ WriteCostFails(c)
  BY <1>1, AskEnds, LedgerStays DEF CompletionFails, WriteCostFails
<1>2. ASSUME NEW r, IsAsk(r), ask' = [ask EXCEPT ![c] = r], UNCHANGED ledger PROVE LedgerInv'
  BY <1>2 DEF LedgerInv
<1>3. CASE CallerGivesUp(c)
  <2> DEFINE r == [ask[c] EXCEPT !.gone = TRUE]
  <2>1. ask' = [ask EXCEPT ![c] = r] /\ UNCHANGED ledger /\ IsAsk(ask[c])
    BY <1>3 DEF CallerGivesUp, LedgerInv
  <2>2. IsAsk(r)
    BY <2>1 DEF IsAsk, AskFields
  <2>. QED
    BY <1>2, <2>1, <2>2
<1>4. ASSUME NEW usage \in Usages, ModelAnswers(c, usage) PROVE LedgerInv'
  <2> DEFINE r == [ask[c] EXCEPT !.pc = "write", !.usage = usage]
  <2>1. ask' = [ask EXCEPT ![c] = r] /\ UNCHANGED ledger /\ IsAsk(ask[c])
    BY <1>4 DEF ModelAnswers, LedgerInv
  <2>2. usage \in Nat \X Nat
    BY UsageAssumption
  <2>3. IsAsk(r)
    BY <2>1, <2>2 DEF IsAsk, AskFields
  <2>. QED
    BY <1>2, <2>1, <2>3
<1>5. ASSUME NEW operation, NEW user, Complete(c, operation, user) PROVE LedgerInv'
  <2> DEFINE r == [pc |-> "ask", operation |-> operation, user |-> user, gone |-> FALSE, usage |-> <<0, 0>>]
  <2>1. ask' = [ask EXCEPT ![c] = r] /\ UNCHANGED ledger
    BY <1>5 DEF Complete
  <2>2. IsAsk(r)
    BY DEF IsAsk, AskFields
  <2> HIDE DEF r
  <2>. QED
    BY <1>2, <2>1, <2>2
<1>. QED
  BY <1>1, <1>3, <1>4, <1>5

\* Deletion and its compensation rewrite rows, and neither their price nor their time.
LEMMA RewriteStep ==
    ASSUME LedgerInv, NEW user, AnonymizeUser(user) \/ RestoreUser(user)
    PROVE  LedgerInv'
<1>1. PICK T : ledger \in Seq(T)
  BY DEF LedgerInv
<1>2. UNCHANGED ask /\ DOMAIN ledger' = DOMAIN ledger /\ ledger' = [k \in DOMAIN ledger |-> ledger'[k]]
  BY DEF AnonymizeUser, RestoreUser
<1>3. ASSUME NEW k \in DOMAIN ledger PROVE IsLog(ledger'[k])
  <2>1. IsLog(ledger[k])
    BY DEF LedgerInv
  <2>2. \/ ledger'[k] = ledger[k]
        \/ ledger'[k] = [ledger[k] EXCEPT !.anonymized = user, !.user = None]
        \/ ledger'[k] = [ledger[k] EXCEPT !.user = user, !.anonymized = None]
    BY DEF AnonymizeUser, RestoreUser
  <2>. QED
    BY <2>1, <2>2 DEF IsLog, LogFields
<1>4. ledger' \in Seq({ledger'[k] : k \in DOMAIN ledger})
  BY <1>1, <1>2
<1>. QED
  BY <1>2, <1>3, <1>4 DEF LedgerInv

\* A request for speech files a row without a price, or none.
LEMMA SpokenStep == ASSUME LedgerInv, ClockInv, SpeechNext PROVE LedgerInv'
<1>1. UNCHANGED ask
  BY DEF SpeechNext, PostSynthesize, SynthesizeGivesUp, PostOK, PostRefused, Post5xx, StreamFallback, Prompt,
         OpenFails, ReceivePiece, ReceiveEnd, StreamBreaks, ReaderLeaves, DuplexDies, ledgerVars
<1>2. \/ UNCHANGED ledger
      \/ \E s \in Speakers : Record(Log(None, "voice.tts", say[s].voice, 0, 0, PiecesOf[say[s].text], 0))
  BY DEF SpeechNext, PostSynthesize, SynthesizeGivesUp, PostOK, PostRefused, Post5xx, StreamFallback, Prompt,
         OpenFails, ReceivePiece, ReceiveEnd, StreamBreaks, ReaderLeaves, DuplexDies, ledgerVars, SpeechFails,
         AnswerWith
<1>3. CASE UNCHANGED ledger
  BY <1>1, <1>3, LedgerStays DEF LedgerInv
<1>4. ASSUME NEW s \in Speakers, Record(Log(None, "voice.tts", say[s].voice, 0, 0, PiecesOf[say[s].text], 0))
      PROVE  LedgerInv'
  <2> DEFINE log == Log(None, "voice.tts", say[s].voice, 0, 0, PiecesOf[say[s].text], 0)
  <2>1. IsLog(log)
    BY DEF IsLog, Log, LogFields, ClockInv
  <2>2. Record(log)
    BY <1>4
  <2> HIDE DEF log
  <2>. QED
    BY <1>1, <2>1, <2>2, RecordStep DEF LedgerInv
<1>. QED
  BY <1>2, <1>3, <1>4

LEMMA LedgerInvInit == Init => LedgerInv
<1> SUFFICES ASSUME ledger = <<>>, ask = [c \in Callers |-> None] PROVE LedgerInv
  BY DEF Init, LedgerInit
<1>1. ledger \in Seq({}) /\ DOMAIN ledger = {}
  OBVIOUS
<1>. QED
  BY <1>1 DEF LedgerInv

LEMMA LedgerInvNext == LedgerInv /\ ClockInv /\ [Next]_vars => LedgerInv'
<1> SUFFICES ASSUME LedgerInv, ClockInv, [Next]_vars PROVE LedgerInv'
  OBVIOUS
<1>1. ModelNext \/ SpeechNext \/ UNCHANGED ledgerVars
  BY DEF Next, vars, vendorVars, CreditHit, CreditCheckin
<1>2. CASE UNCHANGED ledgerVars
  BY <1>2 DEF ledgerVars, LedgerInv
<1>3. CASE ModelNext
  BY <1>3, AskSteps, WriteCostStep, RewriteStep DEF ModelNext
<1>. QED
  BY <1>1, <1>2, <1>3, SpokenStep

Costs == [k \in DOMAIN ledger |-> ledger[k]["cost"]]

LEMMA LedgerIsFinite ==
    ASSUME LedgerInv PROVE IsFiniteSet(DOMAIN ledger) /\ Costs \in [DOMAIN ledger -> Nat]
<1>1. PICK T : ledger \in Seq(T)
  BY DEF LedgerInv
<1>2. DOMAIN ledger = 1 .. Len(ledger) /\ Len(ledger) \in Nat
  BY <1>1
<1>3. IsFiniteSet(DOMAIN ledger)
  BY <1>2, FS_Interval
<1>4. \A k \in DOMAIN ledger : ledger[k]["cost"] \in Nat
  BY DEF LedgerInv, IsLog
<1>. QED
  BY <1>3, <1>4 DEF Costs

\* The dates of a window that is accepted fit an answer.
LEMMA DaysFitAnswer ==
    ASSUME LedgerInv, ClockBounded, NEW user, NEW since \in 0 .. now + 1, NEW until \in 0 .. now + 1,
           until - since <= MaxSummaryWindow
    PROVE  Cardinality({summaryKey(ledger[k], "day") : k \in Selected(user, since, until)}) <= MaxSummaryRows
<1> DEFINE K == {summaryKey(ledger[k], "day") : k \in Selected(user, since, until)}
           T == since .. until - 1
           D == {utcDate(t) : t \in T}
<1>1. since \in 0 .. MaxNow + 1 /\ until \in 0 .. MaxNow + 1
  BY DayAssumption DEF ClockBounded
<1>2. Cardinality(D) <= MaxSummaryRows
  BY <1>1, DaysFit
<1>3. IsFiniteSet(D)
  <2>1. IsFiniteSet(T)
    BY <1>1, FS_Interval
  <2>2. [t \in T |-> utcDate(t)] \in Surjection(T, D)
    BY DEF Surjection
  <2> HIDE DEF T, D
  <2>. QED
    BY <2>1, <2>2, FS_Surjection
<1>4. K \subseteq D
  <2> SUFFICES ASSUME NEW k \in Selected(user, since, until) PROVE summaryKey(ledger[k], "day") \in D
    OBVIOUS
  <2>1. ledger[k].at \in Nat /\ since <= ledger[k].at /\ ledger[k].at < until
    BY DEF Selected, LedgerInv, IsLog
  <2>2. ledger[k].at \in T
    BY <1>1, <2>1
  <2>3. summaryKey(ledger[k], "day") = utcDate(ledger[k].at)
    BY DEF summaryKey
  <2> HIDE DEF T
  <2>. QED
    BY <2>2, <2>3
<1> HIDE DEF K, D
<1>5. IsFiniteSet(K) /\ Cardinality(K) <= Cardinality(D)
  BY <1>3, <1>4, FS_Subset
<1>6. Cardinality(K) \in Nat /\ Cardinality(D) \in Nat /\ MaxSummaryRows \in Nat
  BY <1>3, <1>5, FS_CardinalityType, PricingAssumption
<1>7. Cardinality(K) <= MaxSummaryRows
  BY <1>2, <1>5, <1>6
<1>. QED
  BY <1>7 DEF K

\* However it is grouped, a roll-up that fits adds up to the rows it selects and to what they cost.
LEMMA SummaryTotals ==
    ASSUME LedgerInv, ClockBounded, NEW user, NEW since \in 0 .. now + 1, NEW until \in 0 .. now + 1, NEW g,
           since < until, until - since <= MaxSummaryWindow, Fits(user, since, until, g)
    PROVE  /\ Add("rows", Summary(user, since, until, g)) = Cardinality(Selected(user, since, until))
           /\ Add("cost", Summary(user, since, until, g)) = SumFunctionOnSet(Costs, Selected(user, since, until))
<1> DEFINE R == Selected(user, since, until)
           h == [k \in R |-> summaryKey(ledger[k], g)]
           K == {summaryKey(ledger[k], g) : k \in R}
           bucket(key) == {k \in R : h[k] = key}
           s == SummarizeCosts(user, since, until, g)
           ones == [k \in DOMAIN ledger |-> 1]
<1>1. Summary(user, since, until, g) = s
  <2>1. Cardinality({summaryKey(ledger[k], g) : k \in Selected(user, since, until)}) <= MaxSummaryRows
    BY DaysFitAnswer DEF Fits
  <2>2. DOMAIN s = {summaryKey(ledger[k], g) : k \in Selected(user, since, until)}
    BY DEF SummarizeCosts
  <2>3. IsFiniteSet(DOMAIN s)
    <3>1. IsFiniteSet(R)
      BY LedgerIsFinite, FS_Subset DEF Selected
    <3>2. h \in Surjection(R, K)
      BY DEF Surjection
    <3>3. IsFiniteSet(K)
      <4> HIDE DEF R, K, h
      <4>. QED
        BY <3>1, <3>2, FS_Surjection
    <3>. QED
      BY <2>2, <3>3
  <2> HIDE DEF s
  <2>4. Cardinality(DOMAIN s) \in Nat /\ MaxSummaryRows \in Nat
    BY <2>3, FS_CardinalityType, PricingAssumption
  <2>5. ~(Cardinality(DOMAIN s) > MaxSummaryRows)
    BY <2>1, <2>2, <2>4
  <2>6. since \in Int /\ until \in Int /\ MaxSummaryWindow \in Nat
    BY DayAssumption, PricingAssumption DEF ClockBounded
  <2>7. ~(since >= until \/ until - since > MaxSummaryWindow)
    BY <2>6
  <2>. QED
    BY <2>5, <2>7 DEF Summary, s
<1>2. R \in SUBSET DOMAIN ledger /\ IsFiniteSet(DOMAIN ledger) /\ IsFiniteSet(R)
  BY LedgerIsFinite, FS_Subset DEF Selected
<1>3. IsFiniteSet(K)
  <2>1. h \in Surjection(R, K)
    BY DEF Surjection
  <2> HIDE DEF R, K, h
  <2>. QED
    BY <1>2, <2>1, FS_Surjection
<1>4. \A key : bucket(key) \in SUBSET DOMAIN ledger /\ bucket(key) = {k \in R : summaryKey(ledger[k], g) = key}
  BY <1>2
<1>5. DOMAIN s = K
  BY DEF SummarizeCosts
<1>6. \A key \in K : /\ s[key]["rows"] = Cardinality(bucket(key))
                     /\ s[key]["cost"] = SumFunctionOnSet(Costs, bucket(key))
  <2> SUFFICES ASSUME NEW key \in K
               PROVE  /\ s[key]["rows"] = Cardinality(bucket(key))
                      /\ s[key]["cost"] = SumFunctionOnSet(Costs, bucket(key))
    OBVIOUS
  <2>1. bucket(key) = {k \in R : summaryKey(ledger[k], g) = key}
    BY <1>4
  <2> HIDE DEF bucket
  <2>. QED
    BY <2>1 DEF SummarizeCosts, Costs
<1>7. \A k \in R : h[k] \in K
  OBVIOUS
<1> HIDE DEF R, K, s, h
<1>8. Add("cost", s) = SumFunctionOnSet(Costs, R)
  <2> DEFINE f == [key \in DOMAIN s |-> s[key]["cost"]]
  <2>1. \A key \in K : SumFunctionOnSet(Costs, bucket(key)) \in Nat
    <3> SUFFICES ASSUME NEW key \in K PROVE SumFunctionOnSet(Costs, bucket(key)) \in Nat
      OBVIOUS
    <3>1. bucket(key) \in SUBSET DOMAIN ledger
      BY <1>4
    <3> HIDE DEF bucket
    <3>. QED
      BY <1>2, <3>1, LedgerIsFinite, SumIsNumber
  <2>2. DOMAIN f = K /\ \A key \in K : f[key] = SumFunctionOnSet(Costs, bucket(key))
    BY <1>5, <1>6
  <2>3. f \in [K -> Nat]
    BY <1>5, <2>1, <2>2
  <2> HIDE DEF f
  <2>4. SumFunctionOnSet(f, K) = SumFunctionOnSet(Costs, R)
    BY <1>2, <1>3, <1>7, <2>2, <2>3, LedgerIsFinite, SumByGroups
  <2>. QED
    BY <2>2, <2>4 DEF Add, SumFunction, f
<1>9. Add("rows", s) = Cardinality(R)
  <2> DEFINE f == [key \in DOMAIN s |-> s[key]["rows"]]
  <2>1. ones \in [DOMAIN ledger -> Nat]
    OBVIOUS
  <2>2. \A key \in K : f[key] = SumFunctionOnSet(ones, {k \in R : h[k] = key})
    BY <1>2, <1>4, <1>5, <1>6, SumOfOnes
  <2>3. f \in [K -> Nat] /\ DOMAIN f = K
    <3>1. ASSUME NEW key \in K PROVE Cardinality(bucket(key)) \in Nat
      BY <1>2, <1>4, FS_Subset, FS_CardinalityType
    <3>2. \A key \in K : f[key] = Cardinality(bucket(key))
      BY <1>5, <1>6
    <3>. QED
      BY <1>5, <3>1, <3>2
  <2>4. SumFunctionOnSet(ones, R) = Cardinality(R)
    BY <1>2, SumOfOnes
  <2> HIDE DEF f, ones
  <2>5. SumFunctionOnSet(f, K) = SumFunctionOnSet(ones, R)
    BY <1>2, <1>3, <1>7, <2>1, <2>2, <2>3, SumByGroups
  <2>. QED
    BY <2>3, <2>4, <2>5 DEF Add, SumFunction, f
<1>. QED
  BY <1>1, <1>8, <1>9 DEF R

LEMMA LedgerAddsUp == LedgerInv /\ ClockInv /\ ClockBounded => SummaryAddsUp
<1> SUFFICES ASSUME LedgerInv, ClockInv, ClockBounded,
                    NEW since \in 0 .. now + 1, NEW cut \in 0 .. now + 1, NEW until \in 0 .. now + 1,
                    NEW g \in Groups, NEW h \in Groups, NEW user \in {None, Payer},
                    since < cut, cut < until, until - since <= MaxSummaryWindow,
                    Fits(user, since, until, g), Fits(user, since, cut, h), Fits(user, cut, until, h)
             PROVE  /\ Add("rows", Summary(user, since, until, g))
                         = Add("rows", Summary(user, since, cut, h)) + Add("rows", Summary(user, cut, until, h))
                    /\ Add("cost", Summary(user, since, until, g))
                         = Add("cost", Summary(user, since, cut, h)) + Add("cost", Summary(user, cut, until, h))
  BY DEF SummaryAddsUp
<1> DEFINE W == Selected(user, since, until)
           L == Selected(user, since, cut)
           R == Selected(user, cut, until)
<1>1. since \in Nat /\ cut \in Nat /\ until \in Nat /\ MaxSummaryWindow \in Nat
  BY PricingAssumption DEF ClockInv
<1>2. since < until /\ cut - since <= MaxSummaryWindow /\ until - cut <= MaxSummaryWindow
  BY <1>1
<1>3. \A k \in DOMAIN ledger : ledger[k].at \in Nat
  BY DEF LedgerInv, IsLog
<1>4. W = L \union R /\ L \intersect R = {}
  BY <1>1, <1>3 DEF Selected
<1>5. L \in SUBSET DOMAIN ledger /\ R \in SUBSET DOMAIN ledger
  BY DEF Selected
<1>6. Add("rows", Summary(user, since, until, g)) = Cardinality(W)
      /\ Add("cost", Summary(user, since, until, g)) = SumFunctionOnSet(Costs, W)
  BY <1>2, SummaryTotals
<1>7. Add("rows", Summary(user, since, cut, h)) = Cardinality(L)
      /\ Add("cost", Summary(user, since, cut, h)) = SumFunctionOnSet(Costs, L)
  BY <1>2, SummaryTotals
<1>8. Add("rows", Summary(user, cut, until, h)) = Cardinality(R)
      /\ Add("cost", Summary(user, cut, until, h)) = SumFunctionOnSet(Costs, R)
  BY <1>2, SummaryTotals
<1> HIDE DEF W, L, R
<1>9. SumFunctionOnSet(Costs, L \union R) = SumFunctionOnSet(Costs, L) + SumFunctionOnSet(Costs, R)
  BY <1>4, <1>5, LedgerIsFinite, SumOfUnion
<1>10. Cardinality(L \union R) = Cardinality(L) + Cardinality(R)
  <2>1. IsFiniteSet(L) /\ IsFiniteSet(R)
    BY <1>5, LedgerIsFinite, FS_Subset
  <2>2. Cardinality(L) \in Nat /\ Cardinality(R) \in Nat /\ Cardinality({}) = 0
    BY <2>1, FS_CardinalityType, FS_EmptySet
  <2>3. Cardinality(L \union R) = Cardinality(L) + Cardinality(R) - Cardinality(L \intersect R)
    BY <2>1, FS_Union
  <2>4. PICK n \in Nat, m \in Nat : n = Cardinality(L) /\ m = Cardinality(R)
    BY <2>2
  <2>5. Cardinality(L \union R) = n + m - 0
    BY <1>4, <2>2, <2>3, <2>4
  <2>. QED
    BY <2>4, <2>5
<1>. QED
  BY <1>4, <1>6, <1>7, <1>8, <1>9, <1>10

\* Wherever a window of the ledger of calls is cut in two, every row counts exactly once and every
\* price is added exactly once, by day always, by task or model when the buckets fit an answer, for
\* any number of rows, calls and groups, while rows are filed and a learner's data is deleted and
\* restored (Service.Summary, SummarizeCosts).
THEOREM SummariesAddUp == Spec => []SummaryAddsUp
  BY LedgerInvInit, LedgerInvNext, LedgerAddsUp, ClockInvInit, ClockInvNext, ClockBoundedInit, ClockBoundedNext,
     PTL DEF Spec

LEMMA ProductsAreMonotone == ASSUME NEW a \in Nat, NEW b \in Nat, NEW p \in Nat, a <= b PROVE a * p <= b * p
<1>1. PICK d \in Nat : b = a + d
  <2>1. b - a \in Nat /\ b = a + (b - a)
    OBVIOUS
  <2>. QED
    BY <2>1
<1>2. (a + d) * p = a * p + d * p /\ a * p \in Nat /\ d * p \in Nat
  OBVIOUS
<1>. QED
  BY <1>1, <1>2

LEMMA QuotientsAreMonotone ==
    ASSUME NEW a \in Nat, NEW b \in Nat, NEW q \in Nat \ {0}, a <= b
    PROVE  a \div q \in Nat /\ b \div q \in Nat /\ a \div q <= b \div q
<1>1. a = q * (a \div q) + (a % q) /\ a % q \in 0 .. q - 1 /\ a \div q \in Nat
  OBVIOUS
<1>2. b = q * (b \div q) + (b % q) /\ b % q \in 0 .. q - 1 /\ b \div q \in Nat
  OBVIOUS
<1> SUFFICES ASSUME (b \div q) + 1 <= a \div q PROVE FALSE
  BY <1>1, <1>2
<1>3. PICK x \in Nat : x = a \div q
  BY <1>1
<1>4. PICK y \in Nat : y = b \div q
  BY <1>2
<1>5. (y + 1) * q <= x * q
  BY <1>3, <1>4, ProductsAreMonotone
<1>6. (y + 1) * q = y * q + q /\ x * q = q * x /\ y * q = q * y
  OBVIOUS
<1>7. b < y * q + q
  BY <1>2, <1>4, <1>6
<1>8. x * q <= a
  BY <1>1, <1>3, <1>6
<1>9. PICK u \in Nat, v \in Nat : u = y * q /\ v = x * q
  OBVIOUS
<1>10. b < u + q /\ u + q <= v /\ v <= a
  BY <1>5, <1>6, <1>7, <1>8, <1>9
<1>. QED
  BY <1>10

\* A call is free when it used no token or when no price is known for its model, and only then: usage
\* that rounds to nothing is still charged; and no token makes a call cheaper, at any rates.
THEOREM PricesAreFair ==
    ASSUME NEW model, NEW n \in Nat, NEW m \in Nat, NEW more \in Nat, NEW yet \in Nat, n <= more, m <= yet
    PROVE  /\ CalculateCostMicroYuan(model, n, m) = 0 <=> n + m = 0 \/ PricedAs(model) \notin DOMAIN ArkPricing
           /\ CalculateCostMicroYuan(model, n, m) <= CalculateCostMicroYuan(model, more, yet)
<1>1. CASE PricedAs(model) \notin DOMAIN ArkPricing
  BY <1>1 DEF CalculateCostMicroYuan
<1>2. CASE PricedAs(model) \in DOMAIN ArkPricing
  <2> DEFINE price == ArkPricing[PricedAs(model)]
  <2>1. price.input \in Nat /\ price.output \in Nat /\ Million \in Nat \ {0}
    BY <1>2, PricingAssumption
  <2>2. PICK p \in Nat, q \in Nat : p = price.input /\ q = price.output
    BY <2>1
  <2>3. PICK a \in Nat : a = n * p + m * q
    OBVIOUS
  <2>4. PICK b \in Nat : b = more * p + yet * q
    OBVIOUS
  <2>5. a <= b
    <3>1. n * p <= more * p /\ m * q <= yet * q
      BY ProductsAreMonotone
    <3>2. n * p \in Nat /\ more * p \in Nat /\ m * q \in Nat /\ yet * q \in Nat
      OBVIOUS
    <3>. QED
      BY <2>3, <2>4, <3>1, <3>2
  <2>6. a \div Million \in Nat /\ b \div Million \in Nat /\ a \div Million <= b \div Million
    BY <2>1, <2>5, QuotientsAreMonotone
  <2>7. CalculateCostMicroYuan(model, n, m)
          = IF n + m = 0 THEN 0 ELSE IF a \div Million = 0 THEN 1 ELSE a \div Million
    BY <1>2, <2>2, <2>3 DEF CalculateCostMicroYuan
  <2>8. CalculateCostMicroYuan(model, more, yet)
          = IF more + yet = 0 THEN 0 ELSE IF b \div Million = 0 THEN 1 ELSE b \div Million
    BY <1>2, <2>2, <2>4 DEF CalculateCostMicroYuan
  <2>9. PICK c \in Nat, d \in Nat : c = a \div Million /\ d = b \div Million
    BY <2>6
  <2>. QED
    BY <1>2, <2>6, <2>7, <2>8, <2>9
<1>. QED
  BY <1>1, <1>2

=============================================================================
