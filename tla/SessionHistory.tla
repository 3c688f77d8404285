---------------------------- MODULE SessionHistory --------------------------
(***************************************************************************)
(* The sessions a learner has practised, as the in-process session store   *)
(* keeps them and GET /sessions, GET /sessions/:id and the review poll     *)
(* show them.  Every operation of the store holds its mutex; the steps of  *)
(* ending a session and of the review worker are those of SessionService   *)
(* and ReviewPipeline, and are one step each here.                         *)
(***************************************************************************)
EXTENDS DayClock, Sequences, FiniteSets, SequencesExt

CONSTANTS
    Student, Visitor,    \* a registered learner, and the guest merged into that account
    Lists,               \* clients that list sessions, and open one
    Reports,             \* what the gateway reports at the end: [said, ladders]
    MaxUtterances, MaxRescueEvents, MaxLevel,
    JobAttempts,         \* MaxJobAttempts
    HistoryPage,         \* size of a page
    MaxSessions

\* None stands for a review, or a cursor, that is not there.
ASSUME HistoryAssumption ==
    /\ None \notin {"ready", "failed", "unread"} /\ None \notin [at : Nat, id : Nat]
    /\ HistoryPage \in Nat \ {0}

VARIABLES
    sess,      \* the sessions, in the order of their ids
    listing,   \* of each client: what was shown, the cursor, and what it must be shown
    detail     \* of each client: the session it opens, and what was read of it so far

historyVars == <<sess, listing, detail>>

-----------------------------------------------------------------------------
Students == {Student, Visitor}

\* CreateSessionWithTicket: the rows of a new session.
NewSession(user) ==
    [user |-> user, at |-> now, status |-> "created", used |-> FALSE, said |-> <<>>, ladders |-> {},
     jobs |-> <<>>, evals |-> "open", live |-> TRUE]

NewJob == [status |-> "pending", attempts |-> 0, at |-> now]

HistoryTypeOK ==
    /\ Len(sess) <= MaxSessions
    /\ \A k \in DOMAIN sess :
         /\ sess[k].user \in Students /\ sess[k].at \in 0 .. now
         /\ sess[k].status \in {"created", "active", "ended", "abandoned", "reviewed"}
         /\ {sess[k].used, sess[k].live} \subseteq BOOLEAN /\ sess[k].evals \in {"open", "complete"}
         /\ \A j \in DOMAIN sess[k].jobs : sess[k].jobs[j].status \in {"pending", "processing", "done", "failed"}
    /\ DOMAIN listing = Lists
    /\ \A l \in Lists : detail[l] # None =>
         /\ detail[l].id \in DOMAIN sess /\ detail[l].pc \in {"utterances", "job", "summary", "done"}
         /\ detail[l].review \in {"ready", "failed", "unread", None}

HistoryInit == sess = <<>> /\ listing = [l \in Lists |-> None] /\ detail = [l \in Lists |-> None]

-----------------------------------------------------------------------------
(* What the end of a session may report *)

Valid(u) == u.seq \in 1 .. MaxUtterances /\ u.speaker \in {"user", "ai"} /\ u.text # ""

\* One bad utterance, or a number used twice, and the whole report is refused.
normalizeEndUtterances(items) ==
    IF /\ Len(items) <= MaxUtterances
       /\ \A i \in DOMAIN items : Valid(items[i])
       /\ \A i, j \in DOMAIN items : i # j => items[i].seq # items[j].seq
    THEN items ELSE None

\* A ladder is dropped on its own, the first with its number wins even when it is dropped, and an
\* anchor needs a learner who spoke.
normalizeEndRescueEvents(items, user) ==
    IF Len(items) > MaxRescueEvents THEN {}
    ELSE {[seq |-> items[i].seq, user |-> user, at |-> now,
           path |-> IF items[i].path = "" THEN "silent" ELSE items[i].path,
           anchor |-> IF items[i].opened THEN items[i].anchor ELSE ""] :
             i \in {i \in DOMAIN items :
                      /\ items[i].seq \in 1 .. MaxRescueEvents
                      /\ \A j \in 1 .. i - 1 : items[j].seq # items[i].seq
                      /\ items[i].level \in 1 .. MaxLevel
                      /\ items[i].path \in {"incomplete", "silent", ""}}}

Spoke(k) == \E i \in DOMAIN sess[k].said : sess[k].said[i].speaker = "user"

-----------------------------------------------------------------------------
(* The life of a session *)

HasSessionJob(k, statuses) == \E j \in DOMAIN sess[k].jobs : sess[k].jobs[j].status \in statuses

CreateSession(user) ==
    /\ Spend("history") /\ Len(sess) < MaxSessions
    /\ sess' = Append(sess, NewSession(user))
    /\ UNCHANGED listing

\* ConsumeTicket, then MarkSessionActive.
Activate(k) ==
    /\ ~sess[k].used
    /\ sess' = [sess EXCEPT ![k].used = TRUE,
                            ![k].status = IF @ = "created" THEN "active" ELSE @]
    /\ UNCHANGED <<clockVars, listing>>

Enqueued(s) ==
    IF \E j \in DOMAIN s.jobs : s.jobs[j].status \in {"pending", "processing", "done"} THEN s
    ELSE [s EXCEPT !.jobs = Append(@, NewJob)]

\* EndSession: the first end keeps its report; every later one finds the session terminal, and
\* queues a review again when the last one failed.
EndSession(k, report, reason) ==
    LET s == sess[k]
        said == normalizeEndUtterances(report.said)
        ended == [s EXCEPT !.status = IF reason = "abandoned" THEN "abandoned" ELSE "ended",
                           !.said = said, !.ladders = normalizeEndRescueEvents(report.ladders, s.user)] IN
    /\ Spend("end")
    /\ CASE s.status \in {"created", "active"} ->
              /\ said # None
              /\ sess' = [sess EXCEPT ![k] =
                            IF reason # "abandoned" /\ \E i \in DOMAIN said : said[i].speaker = "user"
                            THEN Enqueued(ended) ELSE ended]
         [] s.status \in {"ended", "reviewed"} /\ Spoke(k) -> sess' = [sess EXCEPT ![k] = Enqueued(@)]
         [] OTHER -> UNCHANGED sess
    /\ UNCHANGED listing

-----------------------------------------------------------------------------
(* The worker *)

\* No pending job is older; the ids, which break ties, are random.  A worker that stalls past its
\* lease is ReviewPipeline's subject.
Oldest(k, j) ==
    /\ sess[k].jobs[j].status = "pending"
    /\ \A i \in DOMAIN sess : \A h \in DOMAIN sess[i].jobs :
         sess[i].jobs[h].status = "pending" => sess[k].jobs[j].at <= sess[i].jobs[h].at

ClaimNextJob(k, j) ==
    /\ Oldest(k, j)
    /\ sess' = [sess EXCEPT ![k].jobs[j] = [@ EXCEPT !.status = "processing", !.attempts = @ + 1]]
    /\ UNCHANGED <<clockVars, listing>>

MarkSessionReviewed(s) == [s EXCEPT !.status = IF @ = "ended" THEN "reviewed" ELSE @]

\* MarkSessionReviewedWithCost, then CompleteJob.
CompleteJob(k, j) ==
    /\ sess[k].jobs[j].status = "processing"
    /\ sess' = [sess EXCEPT ![k] = MarkSessionReviewed([@ EXCEPT !.jobs[j].status = "done"])]
    /\ UNCHANGED <<clockVars, listing>>

FailJob(k, j) ==
    /\ sess[k].jobs[j].status = "processing" /\ Fault
    /\ sess' = [sess EXCEPT ![k].jobs[j].status = IF sess[k].jobs[j].attempts < JobAttempts THEN "pending" ELSE "failed"]
    /\ UNCHANGED listing

\* The last SaveUtteranceEval of the session; its job runs beside the review's.
SaveUtteranceEval(k) ==
    /\ Spoke(k) /\ sess[k].evals = "open"
    /\ sess' = [sess EXCEPT ![k].evals = "complete"]
    /\ UNCHANGED <<clockVars, listing>>

-----------------------------------------------------------------------------
(* Deletion of the account's data, its compensation, and the merge of a guest *)

SoftDeleteSessions(user) ==
    /\ Spend("forget")
    /\ sess' = [k \in DOMAIN sess |-> [sess[k] EXCEPT !.live = @ /\ sess[k].user # user]]
    /\ UNCHANGED listing

RestoreSessions(user) ==
    /\ Spend("forget")
    /\ sess' = [k \in DOMAIN sess |-> [sess[k] EXCEPT !.live = @ \/ sess[k].user = user]]
    /\ UNCHANGED listing

\* Sessions and tickets move; the ladders keep the name of the guest.
ReassignSessions(from, to) ==
    /\ Spend("forget")
    /\ sess' = [k \in DOMAIN sess |-> [sess[k] EXCEPT !.user = IF @ = from THEN to ELSE @]]
    /\ UNCHANGED listing

-----------------------------------------------------------------------------
(* What is shown *)

\* What the review poll answers.
GetReview(k) ==
    CASE sess[k].status = "abandoned" -> "none"
      [] sess[k].status = "ended" /\ ~Spoke(k) -> "empty"
      [] sess[k].status = "reviewed" -> "ready"
      [] sess[k].status # "reviewed" /\ HasSessionJob(k, {"failed"}) -> "failed"
      [] OTHER -> "pending"

\* What a detail read in one instant would say of the review.
ReviewNow(k) ==
    IF HasSessionJob(k, {"failed"}) THEN "failed"
    ELSE IF sess[k].status = "reviewed" /\ sess[k].evals = "complete" THEN "ready" ELSE None

Shown(user) == {k \in DOMAIN sess : sess[k].user = user /\ sess[k].live}

\* Newest first, then by id.
After(k, cursor) == cursor = None \/ sess[k].at < cursor.at \/ (sess[k].at = cursor.at /\ k < cursor.id)

HistoryCursor(k) == [at |-> sess[k].at, id |-> k]

Newer(a, b) == sess[a].at > sess[b].at \/ (sess[a].at = sess[b].at /\ a > b)

ListSessions(user, cursor, limit) == First(limit, Ordered({k \in Shown(user) : After(k, cursor)}, Newer))

ListBegins(l, user) ==
    /\ listing[l] = None /\ Spend("list")
    /\ listing' = [listing EXCEPT ![l] = [user |-> user, items |-> <<>>, cursor |-> None, done |-> FALSE,
                                          owed |-> Shown(user)]]
    /\ UNCHANGED sess

\* List: one row more than the page tells whether there is a next one, whose cursor is the last row
\* shown.
List(l) ==
    LET r == listing[l]
        rows == ListSessions(r.user, r.cursor, HistoryPage + 1)
        page == First(HistoryPage, rows) IN
    /\ r # None /\ ~r.done
    /\ listing' = [listing EXCEPT ![l] =
          IF Len(rows) > HistoryPage
          THEN [r EXCEPT !.items = @ \o page, !.cursor = HistoryCursor(Last(page)),
                         !.owed = @ \intersect Shown(r.user)]
          ELSE [r EXCEPT !.items = @ \o page, !.done = TRUE, !.owed = @ \intersect Shown(r.user)]]
    /\ UNCHANGED <<clockVars, sess>>

-----------------------------------------------------------------------------
(* One session in detail: four reads of the store, with no lock over them *)

\* GetSession: the row that decides who may see it, and whether it is reviewed.  Anyone else, and the
\* owner of a deleted session, is turned away here.
GetDetail(l, user, k) ==
    /\ detail[l] = None /\ Spend("detail") /\ k \in Shown(user)
    /\ detail' = [detail EXCEPT ![l] = [id |-> k, pc |-> "utterances", status |-> sess[k].status, review |-> None,
                                       began |-> ReviewNow(k)]]

ListUtterances(l) ==
    /\ detail[l] # None /\ detail[l].pc = "utterances"
    /\ detail' = [detail EXCEPT ![l] = [@ EXCEPT !.pc = "job"]]
    /\ UNCHANGED clockVars

\* Mutant: the scores are looked up whatever the status of the session.
detailReviewEarly(l) ==
    /\ detail[l] # None /\ detail[l].pc = "job"
    /\ detail' = [detail EXCEPT ![l] =
          IF HasSessionJob(@.id, {"failed"}) THEN [@ EXCEPT !.pc = "done", !.review = "failed"]
          ELSE [@ EXCEPT !.pc = "summary"]]
    /\ UNCHANGED clockVars

\* A failed job goes before everything else; then the status read at the start counts.
detailReview(l) ==
    /\ detail[l] # None /\ detail[l].pc = "job"
    /\ detail' = [detail EXCEPT ![l] =
          IF HasSessionJob(@.id, {"failed"}) THEN [@ EXCEPT !.pc = "done", !.review = "failed"]
          ELSE IF @.status # "reviewed" THEN [@ EXCEPT !.pc = "done"]
          ELSE [@ EXCEPT !.pc = "summary"]]
    /\ UNCHANGED clockVars

EvalSummary(l) ==
    /\ detail[l] # None /\ detail[l].pc = "summary"
    /\ detail' = [detail EXCEPT ![l] =
          [@ EXCEPT !.pc = "done", !.review = IF sess[detail[l].id].evals = "complete" THEN "ready" ELSE None]]
    /\ UNCHANGED clockVars

\* Without the transcript there is no answer; without the review there is one, and a line in the log.
DetailFails(l) ==
    /\ detail[l] # None /\ detail[l].pc # "done" /\ Fault
    /\ detail' = [detail EXCEPT ![l] =
          IF @.pc = "utterances" THEN None ELSE [@ EXCEPT !.pc = "done", !.review = "unread"]]

DetailNext ==
    \E l \in Lists :
        \/ \E k \in DOMAIN sess : GetDetail(l, Student, k)
        \/ ListUtterances(l) \/ detailReview(l) \/ EvalSummary(l) \/ DetailFails(l)

-----------------------------------------------------------------------------
SessionNext ==
    \/ \E user \in Students : CreateSession(user)
    \/ \E k \in DOMAIN sess :
         \/ Activate(k) \/ SaveUtteranceEval(k)
         \/ \E report \in Reports, reason \in {"user_ended", "abandoned"} : EndSession(k, report, reason)
         \/ \E j \in DOMAIN sess[k].jobs : ClaimNextJob(k, j) \/ CompleteJob(k, j) \/ FailJob(k, j)
    \/ SoftDeleteSessions(Student) \/ RestoreSessions(Student) \/ ReassignSessions(Visitor, Student)
    \/ \E l \in Lists : ListBegins(l, Student) \/ List(l)

HistoryNext ==
    \/ SessionNext /\ UNCHANGED detail
    \/ DetailNext /\ UNCHANGED <<sess, listing>>

-----------------------------------------------------------------------------
(* Properties *)

\* A learner who pages through the history sees no session twice, and every session that was there
\* from the first page to the last, while sessions start, end, are deleted and restored, and arrive
\* with the merge of a guest.
HistoryShowsEach ==
    \A l \in Lists : listing[l] # None =>
        /\ IsInjective(listing[l].items)
        /\ listing[l].done => listing[l].owed \subseteq ToSet(listing[l].items)

\* The four reads of a detail add up to an answer: a review it shows is one the poll has, then and
\* from then on; a failure it shows is that of a job, which the poll shows too until a later job
\* succeeds; and a detail without a review, when no read failed, was right when it was asked for.
DetailIsNotAhead ==
    \A l \in Lists : detail[l] # None /\ detail[l].pc = "done" =>
        /\ detail[l].review = "ready" => GetReview(detail[l].id) = "ready"
        /\ detail[l].review = "failed" => GetReview(detail[l].id) \in {"failed", "ready"}
        /\ detail[l].review = None => detail[l].began = None
=============================================================================
