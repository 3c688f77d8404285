---------------------------- MODULE SessionStore ----------------------------
(***************************************************************************)
(* The rows of the practice-session store (internal/session) and what one  *)
(* store call, a single transaction or a single critical section, does to  *)
(* them.  A session row carries its status, the transcript written by the  *)
(* End that closed it, the review and the per-utterance scores; beside it  *)
(* are the voice cost row and the session_jobs outbox that the review      *)
(* workers drain.                                                          *)
(*                                                                         *)
(* A transcript is the set of the learner's utterances: what the assistant *)
(* said, texts and durations never change what the code does.  Instants    *)
(* are kept relative to now: a pending job counts down to its              *)
(* available_at, a claimed one counts up from its locked_at.               *)
(***************************************************************************)
EXTENDS Integers, FiniteSets

CONSTANTS
    Sessions,        \* session ids
    Utterances,      \* ids of things a learner may have said
    Calls,           \* End requests, one handler each
    Workers,         \* review worker processes
    JobIds,          \* job ids (uuids)
    NoWorker,        \* locked_by IS NULL
    MaxJobAttempts,  \* session.MaxJobAttempts
    JobLease,        \* session.DefaultJobLease, in ticks
    RetryDelay       \* session.defaultJobRetryDelay, in ticks

ASSUME StoreAssumption ==
    /\ Sessions # {}
    /\ JobIds # {}
    /\ MaxJobAttempts \in Nat \ {0}
    /\ JobLease \in Nat \ {0}
    /\ RetryDelay \in Nat
    /\ NoWorker \notin Workers

VARIABLES
    status,      \* practice_sessions.status, "none" before the insert
    transcript,  \* the user rows of utterances
    billed,      \* the End requests that wrote an ai_cost_logs row
    review,      \* who made review_json, "none" while it is NULL
    scored,      \* the utterances whose llm_eval_json is set
    jobs         \* session_jobs

sessionVars == <<status, transcript, billed, review, scored>>
storeVars == <<status, transcript, billed, review, scored, jobs>>

Statuses == {"created", "active", "ended", "abandoned", "reviewed"}
OpenStatuses == {"created", "active"}
JobTypes == {"session.finished", "session.eval"}
JobStatuses == {"pending", "processing", "done", "failed"}
ReviewSources == {"generator", "stub"}

isTerminalStatus(st) == st \in {"ended", "abandoned"}
hasUserSpeech(saved) == saved # {}

JobRow == [status : JobStatuses \cup {"none"}, type : JobTypes, sid : Sessions,
           attempts : Nat, wait : 0 .. RetryDelay, age : 0 .. JobLease,
           lockedBy : Workers \cup {NoWorker}]

StoreTypeOK ==
    /\ status \in [Sessions -> Statuses \cup {"none"}]
    /\ transcript \in [Sessions -> SUBSET Utterances]
    /\ billed \in [Sessions -> SUBSET Calls]
    /\ review \in [Sessions -> ReviewSources \cup {"none"}]
    /\ scored \in [Sessions -> SUBSET Utterances]
    /\ jobs \in [JobIds -> JobRow]

NoJob == [status |-> "none", type |-> "session.finished",
          sid |-> CHOOSE s \in Sessions : TRUE, attempts |-> 0, wait |-> 0,
          age |-> 0, lockedBy |-> NoWorker]

StoreInit ==
    /\ status = [s \in Sessions |-> "none"]
    /\ transcript = [s \in Sessions |-> {}]
    /\ billed = [s \in Sessions |-> {}]
    /\ review = [s \in Sessions |-> "none"]
    /\ scored = [s \in Sessions |-> {}]
    /\ jobs = [j \in JobIds |-> NoJob]

-----------------------------------------------------------------------------
(* Sessions *)

\* The session row, inserted together with the ticket that will admit its owner
\* to the voice gateway.
CreateSessionWithTicket(s) ==
    /\ status[s] = "none"
    /\ status' = [status EXCEPT ![s] = "created"]
    /\ UNCHANGED <<transcript, billed, review, scored, jobs>>

\* created becomes active, active stays so; any other status is a conflict.
MarkSessionActive(s) ==
    /\ status[s] \in OpenStatuses
    /\ status' = [status EXCEPT ![s] = "active"]
    /\ UNCHANGED <<transcript, billed, review, scored, jobs>>

\* Mutant: a closed session may be closed again.
EndSessionClosesAgain(s) == status[s] # "reviewed"

\* Whether the EndSession transaction closes the session, finds it closed
\* (and returns what is there), or refuses because it is reviewed.
EndSessionCloses(s) == status[s] \in OpenStatuses
EndSessionConflicts(s) == ~EndSessionCloses(s) /\ ~isTerminalStatus(status[s])

EndSessionSaved(s, said) == IF EndSessionCloses(s) THEN said ELSE transcript[s]

\* Mutant: the cost row is written outside the check that the session is open.
EndSessionBillsReplay(s, c, terminal, said, metered) ==
    /\ IF EndSessionCloses(s)
       THEN /\ status' = [status EXCEPT ![s] = terminal]
            /\ transcript' = [transcript EXCEPT ![s] = said]
       ELSE UNCHANGED <<status, transcript>>
    /\ billed' = [billed EXCEPT ![s] = IF metered THEN @ \cup {c} ELSE @]
    /\ UNCHANGED <<review, scored, jobs>>

\* One transaction: status, transcript and, for a metered request, the cost.
EndSession(s, c, terminal, said, metered) ==
    /\ IF EndSessionCloses(s)
       THEN /\ status' = [status EXCEPT ![s] = terminal]
            /\ transcript' = [transcript EXCEPT ![s] = said]
            /\ billed' = [billed EXCEPT ![s] = IF metered THEN @ \cup {c} ELSE @]
       ELSE UNCHANGED <<status, transcript, billed>>
    /\ UNCHANGED <<review, scored, jobs>>

\* reviewed keeps the review it has; only an ended session takes a new one.
MarkSessionReviewedOK(s) == status[s] \in {"ended", "reviewed"}

MarkSessionReviewed(s, source) ==
    /\ IF status[s] = "ended"
       THEN /\ status' = [status EXCEPT ![s] = "reviewed"]
            /\ review' = [review EXCEPT ![s] = source]
       ELSE UNCHANGED <<status, review>>
    /\ UNCHANGED <<transcript, billed, scored, jobs>>

SaveUtteranceEval(s, u) ==
    /\ scored' = [scored EXCEPT ![s] = @ \cup {u}]
    /\ UNCHANGED <<status, transcript, billed, review, jobs>>

-----------------------------------------------------------------------------
(* The job outbox *)

HasSessionJob(s, type, statuses) ==
    \E j \in JobIds :
        /\ jobs[j].status \in statuses
        /\ jobs[j].sid = s
        /\ jobs[j].type = type

FreshIds == {j \in JobIds : jobs[j].status = "none"}
newID == CHOOSE j \in FreshIds : TRUE

NewJob(s, type) == [status |-> "pending", type |-> type, sid |-> s, attempts |-> 0,
                    wait |-> 0, age |-> 0, lockedBy |-> NoWorker]

\* No unique key covers (session_id, job_type): the insert always succeeds.
EnqueueJob(s, type) ==
    /\ FreshIds # {}
    /\ jobs' = [jobs EXCEPT ![newID] = NewJob(s, type)]
    /\ UNCHANGED sessionVars

Locked(row, w) == [row EXCEPT !.status = "processing", !.attempts = row.attempts + 1,
                              !.age = 0, !.lockedBy = w]
Unlocked(row) == [row EXCEPT !.age = 0, !.lockedBy = NoWorker]

\* Mutants: the lease is one tick short; a lost lease is never reclaimed.
ClaimableEarly(j) ==
    \/ jobs[j].status = "pending" /\ jobs[j].wait = 0
    \/ jobs[j].status = "processing" /\ jobs[j].age >= JobLease - 1

ClaimableOnce(j) == jobs[j].status = "pending" /\ jobs[j].wait = 0

Claimable(j) ==
    \/ jobs[j].status = "pending" /\ jobs[j].wait = 0
    \/ jobs[j].status = "processing" /\ jobs[j].age >= JobLease

\* The code takes the oldest claimable row by (created_at, id).  created_at is
\* stamped by each End before its insert and ids are uuids, so concurrent Ends
\* can order rows either way: the model takes any claimable row.
ClaimJobRow(j, w) ==
    /\ Claimable(j)
    /\ jobs' = [jobs EXCEPT ![j] = Locked(@, w)]
    /\ UNCHANGED sessionVars

\* Neither CompleteJob nor FailJob looks at locked_by.
CompleteJob(j) ==
    /\ jobs[j].status = "processing"
    /\ jobs' = [jobs EXCEPT ![j] = [Unlocked(@) EXCEPT !.status = "done"]]
    /\ UNCHANGED sessionVars

\* available_at is the claim instant plus the delay: what is left of the delay
\* is what the attempt has not used up.
RetryWait(elapsed) == IF elapsed < RetryDelay THEN RetryDelay - elapsed ELSE 0

\* Mutant: one retry too many.
FailJobLate(j, elapsed) ==
    /\ jobs[j].status = "processing"
    /\ jobs' = [jobs EXCEPT ![j] =
                  IF @.attempts <= MaxJobAttempts
                  THEN [Unlocked(@) EXCEPT !.status = "pending",
                                           !.wait = RetryWait(elapsed)]
                  ELSE [Unlocked(@) EXCEPT !.status = "failed"]]
    /\ UNCHANGED sessionVars

FailJob(j, elapsed) ==
    /\ jobs[j].status = "processing"
    /\ jobs' = [jobs EXCEPT ![j] =
                  IF @.attempts < MaxJobAttempts
                  THEN [Unlocked(@) EXCEPT !.status = "pending",
                                           !.wait = RetryWait(elapsed)]
                  ELSE [Unlocked(@) EXCEPT !.status = "failed"]]
    /\ UNCHANGED sessionVars

-----------------------------------------------------------------------------
(* Time *)

Before(n) == IF n = 0 THEN 0 ELSE n - 1
AtMost(n, cap) == IF n < cap THEN n ELSE cap

JobsLater ==
    [j \in JobIds |->
        [jobs[j] EXCEPT !.wait = Before(@),
                        !.age = IF jobs[j].status = "processing"
                                THEN AtMost(@ + 1, JobLease) ELSE @]]
=============================================================================
