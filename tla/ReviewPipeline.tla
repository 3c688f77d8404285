--------------------------- MODULE ReviewPipeline ---------------------------
(***************************************************************************)
(* The asynchronous review pipeline (internal/session/review.go,           *)
(* internal/review/service.go, cmd/worker): worker processes that claim    *)
(* session jobs under a lease, write the review and the utterance scores,  *)
(* and settle the job, beside the session service and a client that polls  *)
(* for the review.                                                         *)
(*                                                                         *)
(* Every store call of a worker is a step.  A store call may fail, it may  *)
(* take effect while its answer is lost, and the process may die; faults   *)
(* are counted and bounded by MaxFaults.  Time passes in ticks.  Without   *)
(* Pauses a worker is held to its contexts: the job's timeout and then the *)
(* two short timeouts of completeJob and failJob.  With Pauses it may      *)
(* stall anywhere and come back after its lease is gone.                   *)
(***************************************************************************)
EXTENDS SessionService

CONSTANTS
    JobTimeout,   \* by job type: DefaultJobTimeout and the eval timeout
    CloseBudget,  \* the time completeJob and failJob together may take
    MaxFaults,    \* bound on store faults and crashes
    Pauses,       \* whether a worker may outlive its own deadlines
    Polled        \* the sessions whose owner polls for the review

ASSUME PipelineAssumption ==
    /\ JobTimeout \in [JobTypes -> Nat \ {0}]
    /\ CloseBudget \in Nat
    /\ \A t \in JobTypes : JobTimeout[t] + CloseBudget < JobLease
    /\ MaxFaults \in Nat
    /\ Pauses \in BOOLEAN
    /\ Polled \subseteq Sessions

VARIABLES
    worker,  \* each worker's ProcessNextJob
    poll,    \* a client's GetReview
    faults   \* store faults and crashes so far

pipelineVars == <<storeVars, call, worker, poll, faults>>

RunPCs == {"GetSession", "Build", "MarkReviewed", "ListUtterances", "Score"}
WorkerPCs == RunPCs \cup {"idle", "Complete", "Fail"}

WorkerRecord == [pc : WorkerPCs, job : JobIds, elapsed : 0 .. JobLease,
                 todo : SUBSET Utterances, source : ReviewSources]

IdleWorker == [pc |-> "idle", job |-> CHOOSE j \in JobIds : TRUE, elapsed |-> 0,
               todo |-> {}, source |-> "stub"]

PollRecord == [pc : {"idle", "ListUtterances", "HasFailed"}, sid : Sessions,
               answer : {"none", "not_found", "empty", "ready", "failed", "pending"}]

TypeOK ==
    /\ ServiceTypeOK
    /\ worker \in [Workers -> WorkerRecord]
    /\ poll \in PollRecord
    /\ faults \in 0 .. MaxFaults

Init ==
    /\ ServiceInit
    /\ worker = [w \in Workers |-> IdleWorker]
    /\ poll = [pc |-> "idle", sid |-> CHOOSE s \in Sessions : TRUE, answer |-> "none"]
    /\ faults = 0

-----------------------------------------------------------------------------
(* ProcessNextJob *)

Busy(w) == worker[w].pc # "idle"
jobOf(w) == jobs[worker[w].job]
sidOf(w) == jobOf(w).sid

WGoto(w, pc) == worker' = [worker EXCEPT ![w].pc = pc]
WIdle(w) == worker' = [worker EXCEPT ![w] = IdleWorker]

\* runJob works under a context that expires with the job's timeout.
InTime(w) == worker[w].elapsed < JobTimeout[jobOf(w).type]

ClaimNextJob(w, j) ==
    /\ ~Busy(w)
    /\ ClaimJobRow(j, w)
    /\ worker' = [worker EXCEPT ![w] =
                    [IdleWorker EXCEPT !.pc = IF jobs[j].type = "session.finished"
                                              THEN "GetSession" ELSE "ListUtterances",
                                       !.job = j]]
    /\ UNCHANGED <<call, poll, faults>>

\* processSessionFinished: only an ended session is worked on, a reviewed one
\* is already done, anything else is an error.
RunGetSession(w) ==
    /\ worker[w].pc = "GetSession" /\ InTime(w)
    /\ WGoto(w, CASE status[sidOf(w)] = "reviewed" -> "Complete"
                  [] status[sidOf(w)] = "ended" -> "Build"
                  [] OTHER -> "Fail")
    /\ UNCHANGED <<storeVars, call, poll, faults>>

\* The generator is tried twice, then the stub is used: building never fails,
\* not even once the context has expired.
RunBuild(w, source) ==
    /\ worker[w].pc = "Build"
    /\ InTime(w) \/ source = "stub"
    /\ worker' = [worker EXCEPT ![w].pc = "MarkReviewed", ![w].source = source]
    /\ UNCHANGED <<storeVars, call, poll, faults>>

RunMarkReviewed(w) ==
    /\ worker[w].pc = "MarkReviewed" /\ InTime(w)
    /\ MarkSessionReviewed(sidOf(w), worker[w].source)
    /\ WGoto(w, IF MarkSessionReviewedOK(sidOf(w)) THEN "Complete" ELSE "Fail")
    /\ UNCHANGED <<call, poll, faults>>

\* RunEvalJob: one look at the transcript, then one save per unscored utterance.
RunEvalList(w) ==
    /\ worker[w].pc = "ListUtterances" /\ InTime(w)
    /\ worker' = [worker EXCEPT ![w].pc = "Score",
                                ![w].todo = transcript[sidOf(w)] \ scored[sidOf(w)]]
    /\ UNCHANGED <<storeVars, call, poll, faults>>

RunScore(w, u) ==
    /\ worker[w].pc = "Score" /\ InTime(w)
    /\ u \in worker[w].todo
    /\ SaveUtteranceEval(sidOf(w), u)
    /\ worker' = [worker EXCEPT ![w].todo = @ \ {u}]
    /\ UNCHANGED <<call, poll, faults>>

RunScoreDone(w) ==
    /\ worker[w].pc = "Score" /\ worker[w].todo = {}
    /\ WGoto(w, "Complete")
    /\ UNCHANGED <<storeVars, call, poll, faults>>

\* Mutant: an expired context is not reported as an error.
RunTimesOutAsDone(w) ==
    /\ worker[w].pc \in RunPCs \ {"Build"} /\ ~InTime(w)
    /\ WGoto(w, "Complete")
    /\ UNCHANGED <<storeVars, call, poll, faults>>

\* The next store call fails with the context's error.
RunTimesOut(w) ==
    /\ worker[w].pc \in RunPCs \ {"Build"} /\ ~InTime(w)
    /\ WGoto(w, "Fail")
    /\ UNCHANGED <<storeVars, call, poll, faults>>

\* A job that is no longer processing is a conflict, and goes to failJob.
Complete(w) ==
    /\ worker[w].pc = "Complete"
    /\ \/ CompleteJob(worker[w].job) /\ WIdle(w)
       \/ jobOf(w).status # "processing" /\ WGoto(w, "Fail") /\ UNCHANGED storeVars
    /\ UNCHANGED <<call, poll, faults>>

Fail(w) ==
    /\ worker[w].pc = "Fail"
    /\ \/ FailJob(worker[w].job, worker[w].elapsed)
       \/ jobOf(w).status # "processing" /\ UNCHANGED storeVars
    /\ WIdle(w)
    /\ UNCHANGED <<call, poll, faults>>

WorkerStep(w) ==
    \/ \E j \in JobIds : ClaimNextJob(w, j)
    \/ RunGetSession(w)
    \/ \E source \in ReviewSources : RunBuild(w, source)
    \/ RunMarkReviewed(w)
    \/ RunEvalList(w)
    \/ \E u \in Utterances : RunScore(w, u)
    \/ RunScoreDone(w)
    \/ RunTimesOut(w)
    \/ Complete(w)
    \/ Fail(w)

-----------------------------------------------------------------------------
(* Faults *)

Fault == faults < MaxFaults /\ faults' = faults + 1

\* A store call returns an error and did nothing.  After failJob there is
\* nothing left to try: the row stays processing until its lease runs out.
StoreFault(w) ==
    /\ Busy(w) /\ Fault
    /\ IF worker[w].pc = "Fail" THEN WIdle(w) ELSE WGoto(w, "Fail")
    /\ worker[w].pc # "Build"
    /\ UNCHANGED <<storeVars, call, poll>>

\* The write took effect, the answer did not come back.
LostAnswer(w) ==
    /\ Fault
    /\ \/ /\ worker[w].pc = "MarkReviewed"
          /\ MarkSessionReviewed(sidOf(w), worker[w].source)
       \/ /\ worker[w].pc = "Complete"
          /\ CompleteJob(worker[w].job)
    /\ WGoto(w, "Fail")
    /\ UNCHANGED <<call, poll>>

\* The worker process dies and comes back with nothing.
Crash(w) ==
    /\ Busy(w) /\ Fault
    /\ WIdle(w)
    /\ UNCHANGED <<storeVars, call, poll>>

-----------------------------------------------------------------------------
(* GetReview *)

Answer(a) == poll' = [poll EXCEPT !.pc = "idle", !.answer = a]

\* Mutant: a session that is still open is looked through for speech too.
PollGetSessionAny(s) ==
    /\ poll.pc = "idle"
    /\ poll' = [pc |-> IF status[s] \in OpenStatuses \cup {"ended"} THEN "ListUtterances"
                       ELSE "idle",
                sid |-> s,
                answer |-> CASE status[s] \in {"none", "abandoned"} -> "not_found"
                             [] status[s] = "reviewed" -> "ready"
                             [] OTHER -> "none"]
    /\ UNCHANGED <<storeVars, call, worker, faults>>

PollGetSession(s) ==
    /\ poll.pc = "idle"
    /\ poll' = [pc |-> CASE status[s] = "ended" -> "ListUtterances"
                         [] status[s] \in OpenStatuses -> "HasFailed"
                         [] OTHER -> "idle",
                sid |-> s,
                answer |-> CASE status[s] \in {"none", "abandoned"} -> "not_found"
                             [] status[s] = "reviewed" -> "ready"
                             [] OTHER -> "none"]
    /\ UNCHANGED <<storeVars, call, worker, faults>>

PollListUtterances ==
    /\ poll.pc = "ListUtterances"
    /\ IF hasUserSpeech(transcript[poll.sid])
       THEN poll' = [poll EXCEPT !.pc = "HasFailed"] ELSE Answer("empty")
    /\ UNCHANGED <<storeVars, call, worker, faults>>

PollHasFailed ==
    /\ poll.pc = "HasFailed"
    /\ Answer(IF HasSessionJob(poll.sid, "session.finished", {"failed"})
              THEN "failed" ELSE "pending")
    /\ UNCHANGED <<storeVars, call, worker, faults>>

PollStep == (\E s \in Polled : PollGetSession(s)) \/ PollListUtterances \/ PollHasFailed

-----------------------------------------------------------------------------
(* Time *)

Deadline(w) == IF worker[w].pc \in RunPCs THEN JobTimeout[jobOf(w).type]
               ELSE JobTimeout[jobOf(w).type] + CloseBudget

Tick ==
    /\ Pauses \/ \A w \in Workers : Busy(w) => worker[w].elapsed < Deadline(w)
    /\ jobs' = JobsLater
    /\ worker' = [w \in Workers |->
                    IF Busy(w) THEN [worker[w] EXCEPT !.elapsed = AtMost(@ + 1, JobLease)]
                    ELSE worker[w]]
    /\ UNCHANGED <<sessionVars, call, poll, faults>>

-----------------------------------------------------------------------------
Next ==
    \/ ServiceNext /\ UNCHANGED <<worker, poll, faults>>
    \/ \E w \in Workers : WorkerStep(w)
    \/ \E w \in Workers : StoreFault(w) \/ LostAnswer(w) \/ Crash(w)
    \/ PollStep
    \/ Tick

Spec == Init /\ [][Next]_pipelineVars

\* cmd/worker calls ProcessNextJob in an endless loop, and time does not stop.
\* Clients and the gateway promise nothing.
FairSpec == Spec /\ WF_pipelineVars(Tick)
                 /\ \A w \in Workers : WF_pipelineVars(WorkerStep(w))

-----------------------------------------------------------------------------
(* What the pipeline promises *)

\* The pipeline implements ReviewContract, whatever Ends, workers, faults and
\* stalls interleave: one close, a transcript that never changes after it, one
\* review, and only for a kept session in which the learner spoke
\* (EndSession, ensureSessionFinishedEnqueued, MarkSessionReviewed).
phaseAt(st) ==
    CASE st = "none" -> "absent"
      [] st \in OpenStatuses -> "open"
      [] st = "ended" -> "kept"
      [] st = "abandoned" -> "dropped"
      [] st = "reviewed" -> "published"

phaseOf == [s \in Sessions |-> phaseAt(status[s])]

Contract == INSTANCE ReviewContract WITH phase <- phaseOf, text <- transcript

ImplementsContract == Contract!ContractSpec

\* A session is charged for at most one End, and for the End whose transcript
\* it keeps: replays and losers of a race leave no cost row (EndSession).
ChargedForWhatIsKept ==
    \A s \in Sessions :
        /\ Cardinality(billed[s]) <= 1
        /\ \A c \in billed[s] : call[c].sid = s /\ transcript[s] = call[c].req.said

\* An End that answered without review_skipped left a review job behind or
\* found the review written (End, ensureSessionFinishedEnqueued).
OkMeansQueued ==
    \A c \in Calls : call[c].reply = "ok" =>
        \/ status[call[c].sid] = "reviewed"
        \/ HasSessionJob(call[c].sid, "session.finished", JobStatuses)

\* A session.finished job is only marked done once the review is stored, even
\* by a worker that lost its lease (ProcessNextJob, processSessionFinished).
DoneMeansReviewed ==
    \A j \in JobIds :
        (jobs[j].type = "session.finished" /\ jobs[j].status = "done")
            => status[jobs[j].sid] = "reviewed"

\* Without stalls the lease excludes: no two workers hold the same job, since
\* job timeout, completeJob and failJob together end before DefaultJobLease.
LeaseExclusive ==
    ~Pauses => \A v, w \in Workers :
        (Busy(v) /\ Busy(w) /\ worker[v].job = worker[w].job) => v = w

\* Without stalls a job is claimed MaxJobAttempts times and once more for
\* each fault at most: a lease reclaim is the only way past the limit
\* (ClaimNextJob, FailJob).
AttemptsBounded ==
    ~Pauses => \A j \in JobIds : jobs[j].attempts <= MaxJobAttempts + faults

\* A client that was told "empty" was told the truth for good (GetReview): no
\* review of that session appears later.
EmptyIsFinal == poll.answer = "empty" => review[poll.sid] = "none"

\* Scores belong to the stored transcript, although the scoring worker reads
\* it once and saves later (RunEvalJob).
ScoresWithinTranscript == \A s \in Sessions : scored[s] \subseteq transcript[s]

\* Every job is eventually done or failed, crashes and lost leases included
\* (worker loop, ClaimNextJob's reclaim).
EveryJobSettles ==
    \A j \in JobIds : (jobs[j].status # "none") ~> (jobs[j].status \in {"done", "failed"})

\* Every End that answered without review_skipped is followed by the review or
\* by a failed job, which GetReview reports: a client does not poll for ever.
AckedSettles ==
    \A c \in Calls : (call[c].reply = "ok") ~>
        \/ status[call[c].sid] = "reviewed"
        \/ HasSessionJob(call[c].sid, "session.finished", {"failed"})

-----------------------------------------------------------------------------
(* Statements of the repository that concurrent requests or crashes break *)

\* "an abandoned session must not enqueue a review job" (abandon_test.go).
\* Two Ends see the session open; the abandoning one commits first, the other
\* goes by its own reason and by the transcript it is handed back.
AbandonedNotQueued ==
    \A s \in Sessions : status[s] = "abandoned" =>
        ~HasSessionJob(s, "session.finished", ActiveOrDone)

\* "ReviewSkipped says no review will ever exist for this session" (types.go).
\* An abandoning End that loses the race answers review_skipped all the same.
SkippedIsFinal ==
    \A c \in Calls : call[c].reply = "skipped" => review[call[c].sid] = "none"

\* "Idempotent if one is already active or done" (EnqueueEval): at most one
\* such session.eval job per session.
EvalEnqueuedOnce ==
    \A i, j \in JobIds :
        (/\ jobs[i].type = "session.eval" /\ jobs[i].status \in ActiveOrDone
         /\ jobs[j].type = "session.eval" /\ jobs[j].status \in ActiveOrDone
         /\ jobs[i].sid = jobs[j].sid) => i = j

\* "MaxJobAttempts is initial try + one retry" (types.go): no job is claimed
\* more often than that.
AttemptsWithinMax == \A j \in JobIds : jobs[j].attempts <= MaxJobAttempts

\* "idempotent if already ended" (End): a repeated End is never refused.
RepeatedEndNotRefused == \A c \in Calls : call[c].reply # "conflict"
=============================================================================
