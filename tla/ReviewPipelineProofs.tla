------------------------ MODULE ReviewPipelineProofs ------------------------
(***************************************************************************)
(* Proofs about ReviewPipeline for every set of sessions, requests,        *)
(* workers and jobs, every timeout shorter than the lease and every number *)
(* of faults: types; the lease that excludes when no worker stalls, and    *)
(* the bound on how often a job is claimed; and, stalls allowed, that the  *)
(* pipeline implements ReviewContract, charges for the transcript it keeps *)
(* and answers its callers truthfully.                                     *)
(***************************************************************************)
EXTENDS ReviewPipeline, FiniteSetTheorems, TLAPS

-----------------------------------------------------------------------------
(* Types *)

LEMMA InitTypeOK == Init => TypeOK
<1> SUFFICES ASSUME Init PROVE TypeOK
    OBVIOUS
<1> USE StoreAssumption, ServiceAssumption, PipelineAssumption
<1>1. NoJob \in JobRow
    BY DEF NoJob, JobRow, JobTypes, JobStatuses
<1>2. StoreTypeOK
    BY <1>1 DEF Init, ServiceInit, StoreInit, StoreTypeOK
<1>3. IdleCall \in CallRecord
    BY DEF IdleCall, CallRecord, CallPCs, Replies
<1>4. call \in [Calls -> CallRecord]
    BY <1>3 DEF Init, ServiceInit
<1>5. IdleWorker \in WorkerRecord
    BY DEF IdleWorker, WorkerRecord, WorkerPCs, RunPCs, ReviewSources
<1>6. worker \in [Workers -> WorkerRecord]
    BY <1>5 DEF Init
<1>7. poll \in PollRecord
    BY DEF Init, PollRecord
<1>8. faults \in 0 .. MaxFaults
    BY DEF Init
<1> QED
    BY <1>2, <1>4, <1>6, <1>7, <1>8 DEF TypeOK, ServiceTypeOK

LEMMA JobIdFresh == FreshIds # {} => newID \in JobIds /\ jobs[newID].status = "none"
BY DEF FreshIds, newID

LEMMA GotoType ==
    ASSUME call \in [Calls -> CallRecord], NEW c \in Calls, NEW pc \in CallPCs, Goto(c, pc)
    PROVE  call' \in [Calls -> CallRecord]
BY DEF Goto, CallRecord

LEMMA ReplyType ==
    ASSUME call \in [Calls -> CallRecord], NEW c \in Calls, NEW a \in Replies, Reply(c, a)
    PROVE  call' \in [Calls -> CallRecord]
<1>1. [call[c] EXCEPT !.pc = "done", !.seen = "none", !.reply = a] \in CallRecord
    BY DEF CallRecord, CallPCs
<1> QED
    BY <1>1 DEF Reply

LEMMA EnqueueType ==
    ASSUME StoreTypeOK, NEW s \in Sessions, NEW type \in JobTypes, EnqueueJob(s, type)
    PROVE  StoreTypeOK'
<1>1. NewJob(s, type) \in JobRow
    BY StoreAssumption DEF NewJob, JobRow, JobStatuses
<1>2. newID \in JobIds
    BY JobIdFresh DEF EnqueueJob
<1> QED
    BY <1>1, <1>2 DEF EnqueueJob, sessionVars, StoreTypeOK

LEMMA ServiceStepTypeOK ==
    ASSUME ServiceTypeOK, ServiceNext
    PROVE  ServiceTypeOK'
<1>0. StoreTypeOK /\ call \in [Calls -> CallRecord]
    BY DEF ServiceTypeOK
<1>1. ASSUME NEW s \in Sessions, Create(s) \/ Activate(s)
      PROVE  ServiceTypeOK'
    BY <1>0, <1>1 DEF Create, Activate, CreateSessionWithTicket, MarkSessionActive,
       Statuses, OpenStatuses, StoreTypeOK, ServiceTypeOK
<1>2. ASSUME UNCHANGED storeVars, call' \in [Calls -> CallRecord]
      PROVE  ServiceTypeOK'
    BY <1>0, <1>2 DEF storeVars, StoreTypeOK, ServiceTypeOK
<1>3. ASSUME NEW c \in Calls, NEW s \in Sessions, NEW r \in Requests, EndCall(c, s, r)
      PROVE  ServiceTypeOK'
    <2>1. [call[c] EXCEPT !.pc = "GetSession", !.sid = s, !.req = r] \in CallRecord
        BY <1>0 DEF CallRecord, CallPCs
    <2> QED
        BY <1>0, <1>2, <1>3, <2>1 DEF EndCall
<1>4. ASSUME NEW c \in Calls, EndStep(c)
      PROVE  ServiceTypeOK'
    <2>0. /\ call[c] \in CallRecord
          /\ call[c].sid \in Sessions
          /\ call[c].req \in [reason : Reasons, said : SUBSET Utterances, metered : BOOLEAN]
        BY <1>0, ServiceAssumption DEF CallRecord
    <2>1. CASE EndGetSession(c)
        <3>1. \A pc \in CallPCs, st \in Statuses \cup {"none"} :
                 [call[c] EXCEPT !.pc = pc, !.seen = st] \in CallRecord
            BY <2>0 DEF CallRecord
        <3>2. status[call[c].sid] \in Statuses \cup {"none"}
            BY <1>0, <2>0 DEF StoreTypeOK
        <3>3. {"EndSession", "ListUtterances"} \subseteq CallPCs
            BY DEF CallPCs
        <3> QED
            BY <1>0, <1>2, <2>1, <3>1, <3>2, <3>3 DEF EndGetSession
    <2>2. CASE EndListUtterances(c)
        <3>1. Goto(c, "HasFinished") \/ Reply(c, "skipped") \/ Reply(c, "ok")
            BY <2>2 DEF EndListUtterances
        <3>2. call' \in [Calls -> CallRecord]
            BY <1>0, <3>1, GotoType, ReplyType DEF CallPCs, Replies
        <3> QED
            BY <1>2, <2>2, <3>2 DEF EndListUtterances
    <2>3. CASE EndEndSession(c)
        <3>1. Goto(c, "HasFinished") \/ (\E a \in Replies : Reply(c, a))
            BY <2>3 DEF EndEndSession, Replies
        <3>2. call' \in [Calls -> CallRecord]
            BY <1>0, <3>1, GotoType, ReplyType DEF CallPCs
        <3>3. terminalStatus(c) \in Statuses
            BY DEF terminalStatus, Statuses
        <3>4. StoreTypeOK'
            BY <1>0, <2>0, <2>3, <3>3 DEF EndEndSession, EndSession, StoreTypeOK
        <3> QED
            BY <3>2, <3>4 DEF ServiceTypeOK
    <2>4. CASE EndHasFinished(c)
        <3>1. Goto(c, "HasEval") \/ Goto(c, "EnqueueFinished")
            BY <2>4 DEF EndHasFinished
        <3>2. call' \in [Calls -> CallRecord]
            BY <1>0, <3>1, GotoType DEF CallPCs
        <3> QED
            BY <1>2, <2>4, <3>2 DEF EndHasFinished
    <2>5. CASE EndEnqueueFinished(c)
        BY <1>0, <2>0, <2>5, EnqueueType, GotoType
        DEF EndEnqueueFinished, CallPCs, JobTypes, ServiceTypeOK
    <2>6. CASE EndHasEval(c)
        <3>1. Reply(c, "ok") \/ Goto(c, "EnqueueEval")
            BY <2>6 DEF EndHasEval
        <3>2. call' \in [Calls -> CallRecord]
            BY <1>0, <3>1, GotoType, ReplyType DEF CallPCs, Replies
        <3> QED
            BY <1>2, <2>6, <3>2 DEF EndHasEval
    <2>7. CASE EndEnqueueEval(c)
        BY <1>0, <2>0, <2>7, EnqueueType, ReplyType
        DEF EndEnqueueEval, Replies, JobTypes, ServiceTypeOK
    <2>8. CASE EndWithoutEval(c)
        BY <1>0, <1>2, <2>8, ReplyType DEF EndWithoutEval, Replies
    <2>9. CASE EndFails(c)
        BY <1>0, <1>2, <2>9, ReplyType DEF EndFails, Replies
    <2> QED
        BY <1>4, <2>1, <2>2, <2>3, <2>4, <2>5, <2>6, <2>7, <2>8, <2>9 DEF EndStep
<1> QED
    BY <1>1, <1>3, <1>4 DEF ServiceNext

-----------------------------------------------------------------------------
LEMMA IdleWorkerType == IdleWorker \in WorkerRecord
BY StoreAssumption DEF IdleWorker, WorkerRecord, WorkerPCs, RunPCs, ReviewSources

LEMMA WGotoType ==
    ASSUME worker \in [Workers -> WorkerRecord], NEW w \in Workers,
           NEW pc \in WorkerPCs, WGoto(w, pc)
    PROVE  worker' \in [Workers -> WorkerRecord]
BY DEF WGoto, WorkerRecord

LEMMA WIdleType ==
    ASSUME worker \in [Workers -> WorkerRecord], NEW w \in Workers, WIdle(w)
    PROVE  worker' \in [Workers -> WorkerRecord]
BY IdleWorkerType DEF WIdle

LEMMA RowTypes ==
    ASSUME StoreTypeOK, NEW j \in JobIds
    PROVE  /\ \A w \in Workers : Locked(jobs[j], w) \in JobRow
           /\ \A st \in JobStatuses : [Unlocked(jobs[j]) EXCEPT !.status = st] \in JobRow
           /\ \A elapsed \in Nat :
                [Unlocked(jobs[j]) EXCEPT !.status = "pending",
                                          !.wait = RetryWait(elapsed)] \in JobRow
<1>1. jobs[j] \in JobRow
    BY DEF StoreTypeOK
<1>2. "processing" \in JobStatuses /\ "pending" \in JobStatuses
    BY DEF JobStatuses
<1>3. ASSUME NEW w \in Workers
      PROVE  Locked(jobs[j], w) \in JobRow
    <2>1. jobs[j].attempts + 1 \in Nat
        BY <1>1 DEF JobRow
    <2>2. 0 \in 0 .. JobLease
        BY StoreAssumption
    <2> QED
        BY <1>1, <1>2, <2>1, <2>2 DEF Locked, JobRow
<1>4. Unlocked(jobs[j]) \in JobRow
    <2>1. 0 \in 0 .. JobLease
        BY StoreAssumption
    <2> QED
        BY <1>1, <2>1 DEF Unlocked, JobRow
<1>5. \A st \in JobStatuses : [Unlocked(jobs[j]) EXCEPT !.status = st] \in JobRow
    BY <1>4 DEF JobRow
<1>6. \A elapsed \in Nat : RetryWait(elapsed) \in 0 .. RetryDelay
    BY StoreAssumption DEF RetryWait
<1>7. \A elapsed \in Nat :
        [Unlocked(jobs[j]) EXCEPT !.status = "pending", !.wait = RetryWait(elapsed)] \in JobRow
    BY <1>2, <1>4, <1>6 DEF JobRow
<1> QED
    BY <1>3, <1>5, <1>7

LEMMA ClaimType ==
    ASSUME StoreTypeOK, NEW j \in JobIds, NEW w \in Workers, ClaimJobRow(j, w)
    PROVE  StoreTypeOK'
BY RowTypes DEF ClaimJobRow, sessionVars, StoreTypeOK

LEMMA CompleteType ==
    ASSUME StoreTypeOK, NEW j \in JobIds, CompleteJob(j)
    PROVE  StoreTypeOK'
<1>1. [Unlocked(jobs[j]) EXCEPT !.status = "done"] \in JobRow
    BY RowTypes DEF JobStatuses
<1> QED
    BY <1>1 DEF CompleteJob, sessionVars, StoreTypeOK

LEMMA FailType ==
    ASSUME StoreTypeOK, NEW j \in JobIds, NEW elapsed \in Nat, FailJob(j, elapsed)
    PROVE  StoreTypeOK'
<1>1. [Unlocked(jobs[j]) EXCEPT !.status = "failed"] \in JobRow
    BY RowTypes DEF JobStatuses
<1>2. [Unlocked(jobs[j]) EXCEPT !.status = "pending", !.wait = RetryWait(elapsed)] \in JobRow
    BY RowTypes
<1> QED
    BY <1>1, <1>2 DEF FailJob, sessionVars, StoreTypeOK

LEMMA MarkType ==
    ASSUME StoreTypeOK, NEW s \in Sessions, NEW source \in ReviewSources,
           MarkSessionReviewed(s, source)
    PROVE  StoreTypeOK'
BY DEF MarkSessionReviewed, StoreTypeOK, Statuses

LEMMA LaterType == StoreTypeOK => JobsLater \in [JobIds -> JobRow]
<1> SUFFICES ASSUME StoreTypeOK, NEW j \in JobIds
             PROVE  [jobs[j] EXCEPT !.wait = Before(jobs[j].wait),
                                    !.age = IF jobs[j].status = "processing"
                                            THEN AtMost(jobs[j].age + 1, JobLease)
                                            ELSE jobs[j].age] \in JobRow
    BY DEF JobsLater
<1>1. jobs[j] \in JobRow
    BY DEF StoreTypeOK
<1>2. Before(jobs[j].wait) \in 0 .. RetryDelay
    BY <1>1, StoreAssumption DEF Before, JobRow
<1>3. AtMost(jobs[j].age + 1, JobLease) \in 0 .. JobLease
    BY <1>1, StoreAssumption DEF AtMost, JobRow
<1>4. jobs[j].age \in 0 .. JobLease
    BY <1>1 DEF JobRow
<1> QED
    BY <1>1, <1>2, <1>3, <1>4 DEF JobRow

LEMMA WorkerStepTypeOK ==
    ASSUME TypeOK, NEW w \in Workers, WorkerStep(w)
    PROVE  TypeOK'
<1>0. /\ StoreTypeOK
      /\ call \in [Calls -> CallRecord]
      /\ worker \in [Workers -> WorkerRecord]
      /\ worker[w] \in WorkerRecord
      /\ worker[w].job \in JobIds
      /\ sidOf(w) \in Sessions
      /\ worker[w].elapsed \in Nat
      /\ worker[w].source \in ReviewSources
    BY StoreAssumption
    DEF TypeOK, ServiceTypeOK, StoreTypeOK, WorkerRecord, sidOf, jobOf, JobRow
<1>1. ASSUME StoreTypeOK', worker' \in [Workers -> WorkerRecord],
             UNCHANGED <<call, poll, faults>>
      PROVE  TypeOK'
    BY <1>1 DEF TypeOK, ServiceTypeOK
<1>2. ASSUME UNCHANGED storeVars
      PROVE  StoreTypeOK'
    BY <1>0, <1>2 DEF StoreTypeOK, storeVars
<1>3. RunPCs \cup {"idle", "Complete", "Fail"} = WorkerPCs
    BY DEF WorkerPCs
<1>4. ASSUME NEW j \in JobIds, ClaimNextJob(w, j)
      PROVE  TypeOK'
    <2>1. StoreTypeOK'
        BY <1>0, <1>4, ClaimType DEF ClaimNextJob
    <2>2. \A pc \in WorkerPCs : [IdleWorker EXCEPT !.pc = pc, !.job = j] \in WorkerRecord
        BY IdleWorkerType DEF WorkerRecord
    <2>3. {"GetSession", "ListUtterances"} \subseteq WorkerPCs
        BY DEF WorkerPCs, RunPCs
    <2>4. worker' \in [Workers -> WorkerRecord]
        BY <1>0, <1>4, <2>2, <2>3 DEF ClaimNextJob
    <2> QED
        BY <1>1, <1>4, <2>1, <2>4 DEF ClaimNextJob
<1>5. CASE RunGetSession(w)
    <2>1. \E pc \in WorkerPCs : WGoto(w, pc)
        BY <1>5 DEF RunGetSession, WorkerPCs, RunPCs
    <2> QED
        BY <1>0, <1>1, <1>2, <1>5, <2>1, WGotoType DEF RunGetSession
<1>6. ASSUME NEW source \in ReviewSources, RunBuild(w, source)
      PROVE  TypeOK'
    <2>1. worker' \in [Workers -> WorkerRecord]
        BY <1>0, <1>6 DEF RunBuild, WorkerRecord, WorkerPCs, RunPCs
    <2> QED
        BY <1>1, <1>2, <1>6, <2>1 DEF RunBuild
<1>7. CASE RunMarkReviewed(w)
    <2>1. \E pc \in WorkerPCs : WGoto(w, pc)
        BY <1>7 DEF RunMarkReviewed, WorkerPCs
    <2> QED
        BY <1>0, <1>1, <1>7, <2>1, WGotoType, MarkType DEF RunMarkReviewed
<1>8. CASE RunEvalList(w)
    <2>1. transcript[sidOf(w)] \ scored[sidOf(w)] \in SUBSET Utterances
        BY <1>0 DEF StoreTypeOK
    <2>2. worker' \in [Workers -> WorkerRecord]
        BY <1>0, <1>8, <2>1 DEF RunEvalList, WorkerRecord, WorkerPCs, RunPCs
    <2> QED
        BY <1>1, <1>2, <1>8, <2>2 DEF RunEvalList
<1>9. ASSUME NEW u \in Utterances, RunScore(w, u)
      PROVE  TypeOK'
    <2>1. StoreTypeOK'
        BY <1>0, <1>9 DEF RunScore, SaveUtteranceEval, StoreTypeOK
    <2>2. worker' \in [Workers -> WorkerRecord]
        BY <1>0, <1>9 DEF RunScore, WorkerRecord
    <2> QED
        BY <1>1, <1>9, <2>1, <2>2 DEF RunScore
<1>10. CASE RunScoreDone(w)
    BY <1>0, <1>1, <1>2, <1>3, <1>10, WGotoType DEF RunScoreDone
<1>11. CASE RunTimesOut(w)
    BY <1>0, <1>1, <1>2, <1>3, <1>11, WGotoType DEF RunTimesOut
<1>12. CASE Complete(w)
    <2>1. StoreTypeOK'
        BY <1>0, <1>2, <1>12, CompleteType DEF Complete
    <2>2. WIdle(w) \/ WGoto(w, "Fail")
        BY <1>12 DEF Complete
    <2>3. worker' \in [Workers -> WorkerRecord]
        BY <1>0, <1>3, <2>2, WIdleType, WGotoType
    <2> QED
        BY <1>1, <1>12, <2>1, <2>3 DEF Complete
<1>13. CASE Fail(w)
    <2>1. StoreTypeOK'
        BY <1>0, <1>2, <1>13, FailType DEF Fail
    <2> QED
        BY <1>0, <1>1, <1>13, <2>1, WIdleType DEF Fail
<1> QED
    BY <1>4, <1>5, <1>6, <1>7, <1>8, <1>9, <1>10, <1>11, <1>12, <1>13 DEF WorkerStep


LEMMA FaultTypeOK ==
    ASSUME TypeOK, NEW w \in Workers, StoreFault(w) \/ LostAnswer(w) \/ Crash(w)
    PROVE  TypeOK'
<1>0. /\ StoreTypeOK
      /\ call \in [Calls -> CallRecord]
      /\ worker \in [Workers -> WorkerRecord]
      /\ worker[w].job \in JobIds
      /\ sidOf(w) \in Sessions
      /\ worker[w].source \in ReviewSources
    BY DEF TypeOK, ServiceTypeOK, StoreTypeOK, WorkerRecord, sidOf, jobOf, JobRow
<1>1. Fault /\ UNCHANGED <<call, poll>>
    BY DEF StoreFault, LostAnswer, Crash
<1>2. faults' \in 0 .. MaxFaults
    BY <1>1, PipelineAssumption DEF TypeOK, Fault
<1>3. WIdle(w) \/ WGoto(w, "Fail")
    BY DEF StoreFault, LostAnswer, Crash
<1>4. worker' \in [Workers -> WorkerRecord]
    BY <1>0, <1>3, WIdleType, WGotoType DEF WorkerPCs
<1>5. StoreTypeOK'
    <2>1. CASE UNCHANGED storeVars
        BY <1>0, <2>1 DEF StoreTypeOK, storeVars
    <2>2. CASE LostAnswer(w)
        BY <1>0, <2>2, MarkType, CompleteType DEF LostAnswer
    <2> QED
        BY <2>1, <2>2 DEF StoreFault, Crash
<1> QED
    BY <1>1, <1>2, <1>4, <1>5 DEF TypeOK, ServiceTypeOK

LEMMA PollTypeOK ==
    ASSUME TypeOK, PollStep
    PROVE  TypeOK'
<1>1. UNCHANGED <<storeVars, call, worker, faults>>
    BY DEF PollStep, PollGetSession, PollListUtterances, PollHasFailed
<1>2. poll' \in PollRecord
    <2>0. poll \in PollRecord
        BY DEF TypeOK
    <2>1. ASSUME NEW s \in Polled, PollGetSession(s)
          PROVE  poll' \in PollRecord
        BY <2>1, PipelineAssumption DEF PollGetSession, PollRecord
    <2>2. CASE PollListUtterances
        BY <2>0, <2>2 DEF PollListUtterances, Answer, PollRecord
    <2>3. CASE PollHasFailed
        <3>1. Answer("failed") \/ Answer("pending")
            BY <2>3 DEF PollHasFailed
        <3> QED
            BY <2>0, <3>1 DEF Answer, PollRecord
    <2> QED
        BY <2>1, <2>2, <2>3 DEF PollStep
<1> QED
    BY <1>1, <1>2 DEF TypeOK, ServiceTypeOK, StoreTypeOK, storeVars

\* A tick moves timers only.
LEMMA LaterRow ==
    ASSUME TypeOK, Tick, NEW j \in JobIds
    PROVE  /\ jobs'[j].status = jobs[j].status
           /\ jobs'[j].type = jobs[j].type
           /\ jobs'[j].sid = jobs[j].sid
           /\ jobs'[j].attempts = jobs[j].attempts
           /\ jobs'[j].lockedBy = jobs[j].lockedBy
           /\ jobs[j].status = "processing" => jobs'[j].age = AtMost(jobs[j].age + 1, JobLease)
<1>1. jobs'[j] = [jobs[j] EXCEPT !.wait = Before(jobs[j].wait),
                                 !.age = IF jobs[j].status = "processing"
                                         THEN AtMost(jobs[j].age + 1, JobLease)
                                         ELSE jobs[j].age]
    BY DEF Tick, JobsLater
<1>2. jobs[j] \in JobRow
    BY DEF TypeOK, ServiceTypeOK, StoreTypeOK
<1> QED
    BY <1>1, <1>2 DEF JobRow

LEMMA TickTypeOK ==
    ASSUME TypeOK, Tick
    PROVE  TypeOK'
<1>0. StoreTypeOK /\ worker \in [Workers -> WorkerRecord]
    BY DEF TypeOK, ServiceTypeOK
<1>1. jobs' \in [JobIds -> JobRow]
    BY <1>0, LaterType DEF Tick
<1>2. ASSUME NEW w \in Workers
      PROVE  [worker[w] EXCEPT !.elapsed = AtMost(worker[w].elapsed + 1, JobLease)]
                \in WorkerRecord
    <2>1. AtMost(worker[w].elapsed + 1, JobLease) \in 0 .. JobLease
        BY <1>0, StoreAssumption DEF AtMost, WorkerRecord
    <2> QED
        BY <1>0, <2>1 DEF WorkerRecord
<1>3. worker' \in [Workers -> WorkerRecord]
    BY <1>0, <1>2 DEF Tick
<1> QED
    BY <1>1, <1>3 DEF Tick, sessionVars, TypeOK, ServiceTypeOK, StoreTypeOK

LEMMA StepTypeOK == TypeOK /\ [Next]_pipelineVars => TypeOK'
<1> SUFFICES ASSUME TypeOK, [Next]_pipelineVars PROVE TypeOK'
    OBVIOUS
<1>1. CASE ServiceNext /\ UNCHANGED <<worker, poll, faults>>
    <2>1. ServiceTypeOK'
        BY <1>1, ServiceStepTypeOK DEF TypeOK
    <2> QED
        BY <1>1, <2>1 DEF TypeOK
<1>2. CASE UNCHANGED pipelineVars
    BY <1>2 DEF pipelineVars, storeVars, TypeOK, ServiceTypeOK, StoreTypeOK
<1> QED
    BY <1>1, <1>2, WorkerStepTypeOK, FaultTypeOK, PollTypeOK, TickTypeOK DEF Next

\* Every reachable state of the pipeline is well typed: statuses, rows, program
\* counters and timers stay in their ranges (session store, End, workers, GetReview).
THEOREM TypeCorrect == Spec => []TypeOK
BY InitTypeOK, StepTypeOK, PTL DEF Spec


-----------------------------------------------------------------------------
(* Facts the other proof modules share *)

LEMMA ServiceJobs ==
    ASSUME ServiceNext
    PROVE  \/ UNCHANGED jobs
           \/ \E c \in Calls, type \in JobTypes : EnqueueJob(call[c].sid, type)
BY DEF ServiceNext, Create, Activate, CreateSessionWithTicket, MarkSessionActive, EndCall,
   EndStep, EndGetSession, EndListUtterances, EndEndSession, EndSession, EndHasFinished,
   EndEnqueueFinished, EndHasEval, EndEnqueueEval, EndWithoutEval, EndFails, storeVars, JobTypes

\* The service only ever adds rows.
LEMMA ServiceKeepsJobs ==
    ASSUME TypeOK, ServiceNext
    PROVE  \A j \in JobIds : jobs[j].status # "none" => jobs'[j] = jobs[j]
<1>1. ASSUME NEW s, NEW type, EnqueueJob(s, type)
      PROVE  \A j \in JobIds : jobs[j].status # "none" => jobs'[j] = jobs[j]
    BY <1>1, JobIdFresh DEF EnqueueJob, TypeOK, ServiceTypeOK, StoreTypeOK
<1> QED
    BY <1>1, ServiceJobs

LEMMA WorkerTypes ==
    ASSUME TypeOK, NEW w \in Workers
    PROVE  /\ worker[w].job \in JobIds
           /\ worker[w].elapsed \in 0 .. JobLease
           /\ worker[w].pc \in WorkerPCs
           /\ jobOf(w) \in JobRow
           /\ jobOf(w).type \in JobTypes
           /\ JobTimeout[jobOf(w).type] \in Nat
           /\ JobTimeout[jobOf(w).type] + CloseBudget < JobLease
           /\ Deadline(w) \in Nat
           /\ Deadline(w) < JobLease
<1>1. /\ worker[w].job \in JobIds
      /\ worker[w].elapsed \in 0 .. JobLease
      /\ worker[w].pc \in WorkerPCs
    BY DEF TypeOK, WorkerRecord
<1>2. jobOf(w) \in JobRow /\ jobOf(w).type \in JobTypes
    BY <1>1 DEF TypeOK, ServiceTypeOK, StoreTypeOK, jobOf, JobRow
<1>3. /\ JobTimeout[jobOf(w).type] \in Nat
      /\ JobTimeout[jobOf(w).type] + CloseBudget < JobLease
    BY <1>2, PipelineAssumption
<1> QED
    BY <1>1, <1>2, <1>3, PipelineAssumption, StoreAssumption DEF Deadline


-----------------------------------------------------------------------------
(* The lease of the job queue *)


\* A working worker is within its deadline and owns the row it works on, whose
\* age is the time since its claim; the one exception is a completeJob that
\* took effect while its answer was lost.
Owns(w) ==
    /\ worker[w].elapsed <= Deadline(w)
    /\ \/ /\ jobOf(w).status = "processing"
          /\ jobOf(w).lockedBy = w
          /\ jobOf(w).age = worker[w].elapsed
       \/ jobOf(w).status = "done" /\ worker[w].pc = "Fail"

Sole == \A v, w \in Workers :
            (Busy(v) /\ Busy(w) /\ worker[v].job = worker[w].job) => v = w

LeaseInv == (\A w \in Workers : Busy(w) => Owns(w)) /\ Sole

\* A row left processing by nobody was left by a fault, which pays for the
\* reclaim to come.
Orphan(j) == jobs[j].status = "processing"
             /\ \A w \in Workers : Busy(w) => worker[w].job # j

AttemptsInv ==
    \A j \in JobIds :
        /\ jobs[j].attempts <= MaxJobAttempts + faults
        /\ jobs[j].status = "pending" => jobs[j].attempts < MaxJobAttempts
        /\ Orphan(j) => jobs[j].attempts < MaxJobAttempts + faults

LInv == ~Pauses => LeaseInv /\ AttemptsInv

-----------------------------------------------------------------------------
(* How a step may touch workers and rows *)

\* A worker that is left alone, with its row, stays in order.
LEMMA OwnsKept ==
    ASSUME NEW v \in Workers, Busy(v), Owns(v),
           worker'[v] = worker[v], jobs'[worker[v].job] = jobs[worker[v].job]
    PROVE  Busy(v)' /\ Owns(v)'
BY DEF Busy, Owns, Deadline, jobOf

\* One worker moves to another store call; rows do not change.
LEMMA MoveLease ==
    ASSUME TypeOK, LeaseInv, NEW w \in Workers, Busy(w), jobs' = jobs,
           \A v \in Workers : v # w => worker'[v] = worker[v],
           worker'[w].job = worker[w].job,
           worker'[w].elapsed = worker[w].elapsed,
           worker'[w].pc # "idle",
           worker[w].pc \notin RunPCs => worker'[w].pc \notin RunPCs,
           jobOf(w).status = "processing" \/ worker'[w].pc = "Fail"
    PROVE  LeaseInv'
<1>1. \A v \in Workers : v # w => (Busy(v)' <=> Busy(v)) /\ worker'[v].job = worker[v].job
    BY DEF Busy
<1>2. Sole'
    BY <1>1 DEF LeaseInv, Sole
<1>3. ASSUME NEW v \in Workers, v # w, Busy(v)' PROVE Owns(v)'
    BY <1>1, <1>3, OwnsKept DEF LeaseInv
<1>4. Owns(w)'
    <2>1. Owns(w)
        BY DEF LeaseInv
    <2>2. worker[w].elapsed \in Nat /\ JobTimeout[jobOf(w).type] \in Nat
        BY PipelineAssumption, StoreAssumption
        DEF TypeOK, ServiceTypeOK, StoreTypeOK, WorkerRecord, jobOf, JobRow
    <2>3. jobOf(w)' = jobOf(w)
        BY DEF jobOf
    <2>4. worker'[w].elapsed <= Deadline(w)'
        BY <2>1, <2>2, <2>3, PipelineAssumption DEF Owns, Deadline
    <2> QED
        BY <2>1, <2>3, <2>4 DEF Owns
<1> QED
    BY <1>2, <1>3, <1>4 DEF LeaseInv

\* One worker becomes idle, and touches no row but its own.
LEMMA LeaveLease ==
    ASSUME LeaseInv, NEW w \in Workers, Busy(w), ~Busy(w)',
           \A v \in Workers : v # w => worker'[v] = worker[v],
           \A j \in JobIds : j # worker[w].job => jobs'[j] = jobs[j],
           \A v \in Workers : worker[v].job \in JobIds
    PROVE  LeaseInv'
<1>1. \A v \in Workers : v # w => (Busy(v)' <=> Busy(v)) /\ worker'[v].job = worker[v].job
    BY DEF Busy
<1>2. Sole'
    BY <1>1 DEF LeaseInv, Sole
<1>3. ASSUME NEW v \in Workers, v # w, Busy(v)' PROVE Owns(v)'
    <2>1. Busy(v) /\ worker[v].job # worker[w].job
        BY <1>1, <1>3 DEF LeaseInv, Sole
    <2> QED
        BY <1>3, <2>1, OwnsKept DEF LeaseInv
<1> QED
    BY <1>2, <1>3 DEF LeaseInv

\* A row somebody works on is not claimable.
LEMMA OwnedNotClaimable ==
    ASSUME TypeOK, LeaseInv, NEW v \in Workers, Busy(v)
    PROVE  ~Claimable(worker[v].job)
<1>1. Owns(v)
    BY DEF LeaseInv
<1> QED
    BY <1>1, WorkerTypes, StoreAssumption DEF Owns, Claimable, jobOf


-----------------------------------------------------------------------------
(* The lease excludes *)

LEMMA ClaimLease ==
    ASSUME TypeOK, LeaseInv, NEW w \in Workers, NEW j \in JobIds, ClaimNextJob(w, j)
    PROVE  LeaseInv'
<1>0. jobs \in [JobIds -> JobRow] /\ worker \in [Workers -> WorkerRecord]
    BY DEF TypeOK, ServiceTypeOK, StoreTypeOK
<1>1. /\ ~Busy(w) /\ Claimable(j)
      /\ jobs' = [jobs EXCEPT ![j] = Locked(jobs[j], w)]
      /\ \A v \in Workers : v # w => worker'[v] = worker[v]
    BY <1>0 DEF ClaimNextJob, ClaimJobRow
<1>2. /\ worker'[w].job = j /\ worker'[w].elapsed = 0 /\ worker'[w].pc # "idle"
    BY <1>0 DEF ClaimNextJob, IdleWorker
<1>3. \A v \in Workers : (v # w /\ Busy(v)) => worker[v].job # j
    BY <1>1, OwnedNotClaimable
<1>4. Sole'
    BY <1>1, <1>2, <1>3 DEF LeaseInv, Sole, Busy
<1>5. ASSUME NEW v \in Workers, v # w, Busy(v)' PROVE Owns(v)'
    <2>1. Busy(v) /\ worker'[v] = worker[v]
        BY <1>1, <1>5 DEF Busy
    <2>2. jobs'[worker[v].job] = jobs[worker[v].job]
        BY <1>0, <1>1, <1>3, <1>5, <2>1, WorkerTypes
    <2> QED
        BY <2>1, <2>2, OwnsKept DEF LeaseInv
<1>6. Owns(w)'
    <2>1. jobs'[j] = Locked(jobs[j], w) /\ jobs[j] \in JobRow
        BY <1>0, <1>1
    <2>2. /\ jobs'[j].status = "processing" /\ jobs'[j].lockedBy = w
          /\ jobs'[j].age = 0 /\ jobs'[j].type \in JobTypes
        BY <2>1 DEF Locked, JobRow
    <2>3. Deadline(w)' >= 0
        BY <1>2, <2>2, PipelineAssumption DEF Deadline, jobOf
    <2> QED
        BY <1>2, <2>2, <2>3 DEF Owns, jobOf
<1> QED
    BY <1>4, <1>5, <1>6 DEF LeaseInv

LEMMA WorkerStepLease ==
    ASSUME TypeOK, LeaseInv, NEW w \in Workers, WorkerStep(w)
    PROVE  LeaseInv'
<1>0. worker \in [Workers -> WorkerRecord] /\ jobs \in [JobIds -> JobRow]
    BY DEF TypeOK, ServiceTypeOK, StoreTypeOK
<1>1. ASSUME NEW j \in JobIds, ClaimNextJob(w, j) PROVE LeaseInv'
    BY <1>1, ClaimLease
<1>2. ASSUME Busy(w), worker[w].pc # "Fail" PROVE jobOf(w).status = "processing"
    BY <1>2 DEF LeaseInv, Owns
<1>3. ASSUME worker[w].pc \in RunPCs \cup {"Complete"}, jobs' = jobs,
             NEW pc \in {"Build", "Complete", "Fail"}, WGoto(w, pc),
             pc = "Build" => worker[w].pc \in RunPCs
      PROVE  LeaseInv'
    <2>1. Busy(w) /\ jobOf(w).status = "processing"
        BY <1>2, <1>3 DEF Busy, RunPCs
    <2>2. /\ worker'[w].pc = pc
          /\ worker'[w].job = worker[w].job
          /\ worker'[w].elapsed = worker[w].elapsed
          /\ \A v \in Workers : v # w => worker'[v] = worker[v]
        BY <1>0, <1>3 DEF WGoto, WorkerRecord
    <2> QED
        BY <1>3, <2>1, <2>2, MoveLease DEF RunPCs
<1>4. CASE RunGetSession(w)
    <2>1. worker[w].pc \in RunPCs /\ jobs' = jobs
        BY <1>4 DEF RunGetSession, storeVars, RunPCs
    <2>2. WGoto(w, "Complete") \/ WGoto(w, "Build") \/ WGoto(w, "Fail")
        BY <1>4 DEF RunGetSession
    <2> QED
        BY <1>3, <2>1, <2>2
<1>5. ASSUME NEW source \in ReviewSources, RunBuild(w, source) PROVE LeaseInv'
    <2>1. worker[w].pc = "Build" /\ jobs' = jobs /\ Busy(w)
        BY <1>5 DEF RunBuild, storeVars, Busy
    <2>2. /\ worker'[w].pc = "MarkReviewed"
          /\ worker'[w].job = worker[w].job
          /\ worker'[w].elapsed = worker[w].elapsed
          /\ \A v \in Workers : v # w => worker'[v] = worker[v]
        BY <1>0, <1>5 DEF RunBuild, WorkerRecord
    <2> QED
        BY <1>2, <2>1, <2>2, MoveLease DEF RunPCs
<1>6. CASE RunMarkReviewed(w)
    <2>1. worker[w].pc \in RunPCs /\ jobs' = jobs
        BY <1>6 DEF RunMarkReviewed, MarkSessionReviewed, RunPCs
    <2>2. WGoto(w, "Complete") \/ WGoto(w, "Fail")
        BY <1>6 DEF RunMarkReviewed
    <2> QED
        BY <1>3, <2>1, <2>2
<1>7. ASSUME RunEvalList(w) \/ \E u \in Utterances : RunScore(w, u) PROVE LeaseInv'
    <2>1. worker[w].pc \in {"ListUtterances", "Score"} /\ jobs' = jobs /\ Busy(w)
        BY <1>7 DEF RunEvalList, RunScore, SaveUtteranceEval, storeVars, Busy
    <2>2. /\ worker'[w].pc = "Score"
          /\ worker'[w].job = worker[w].job
          /\ worker'[w].elapsed = worker[w].elapsed
          /\ \A v \in Workers : v # w => worker'[v] = worker[v]
        BY <1>0, <1>7 DEF RunEvalList, RunScore, WorkerRecord
    <2> QED
        BY <1>2, <2>1, <2>2, MoveLease DEF RunPCs
<1>8. CASE RunScoreDone(w) \/ RunTimesOut(w)
    <2>1. worker[w].pc \in RunPCs /\ jobs' = jobs /\ (WGoto(w, "Complete") \/ WGoto(w, "Fail"))
        BY <1>8 DEF RunScoreDone, RunTimesOut, storeVars, RunPCs
    <2> QED
        BY <1>3, <2>1
<1>9. ASSUME WIdle(w), Busy(w), CompleteJob(worker[w].job)
                \/ FailJob(worker[w].job, worker[w].elapsed) \/ UNCHANGED storeVars
      PROVE  LeaseInv'
    <2>1. ~Busy(w)' /\ \A v \in Workers : v # w => worker'[v] = worker[v]
        BY <1>0, <1>9 DEF WIdle, Busy, IdleWorker
    <2>2. \A v \in Workers : worker[v].job \in JobIds
        BY WorkerTypes
    <2>3. \A j \in JobIds : j # worker[w].job => jobs'[j] = jobs[j]
        BY <1>0, <1>9, <2>2 DEF CompleteJob, FailJob, storeVars
    <2> QED
        BY <1>9, <2>1, <2>2, <2>3, LeaveLease
<1>10. CASE Complete(w)
    <2>1. worker[w].pc = "Complete" /\ Busy(w)
        BY <1>10 DEF Complete, Busy
    <2>2. CASE WGoto(w, "Fail") /\ UNCHANGED storeVars
        BY <1>3, <2>1, <2>2 DEF storeVars
    <2> QED
        BY <1>9, <1>10, <2>1, <2>2 DEF Complete
<1>11. CASE Fail(w)
    BY <1>9, <1>11 DEF Fail, Busy
<1> QED
    BY <1>1, <1>4, <1>5, <1>6, <1>7, <1>8, <1>10, <1>11 DEF WorkerStep

LEMMA FaultLease ==
    ASSUME TypeOK, LeaseInv, NEW w \in Workers, StoreFault(w) \/ LostAnswer(w) \/ Crash(w)
    PROVE  LeaseInv'
<1>0. /\ worker \in [Workers -> WorkerRecord] /\ jobs \in [JobIds -> JobRow]
      /\ \A v \in Workers : worker[v].job \in JobIds
    BY WorkerTypes DEF TypeOK, ServiceTypeOK, StoreTypeOK
<1>1. Busy(w)
    BY DEF StoreFault, LostAnswer, Crash, Busy
<1>2. CASE WIdle(w) /\ UNCHANGED storeVars
    <2>1. ~Busy(w)' /\ (\A v \in Workers : v # w => worker'[v] = worker[v]) /\ jobs' = jobs
        BY <1>0, <1>2 DEF WIdle, Busy, IdleWorker, storeVars
    <2> QED
        BY <1>0, <1>1, <2>1, LeaveLease
<1>3. ASSUME WGoto(w, "Fail")
      PROVE  /\ worker'[w].pc = "Fail"
             /\ worker'[w].job = worker[w].job
             /\ worker'[w].elapsed = worker[w].elapsed
             /\ \A v \in Workers : v # w => worker'[v] = worker[v]
    BY <1>0, <1>3 DEF WGoto, WorkerRecord
<1>4. CASE WGoto(w, "Fail") /\ jobs' = jobs
    BY <1>1, <1>3, <1>4, MoveLease DEF RunPCs
<1>5. CASE WGoto(w, "Fail") /\ worker[w].pc = "Complete" /\ CompleteJob(worker[w].job)
    <2>1. \A j \in JobIds : j # worker[w].job => jobs'[j] = jobs[j]
        BY <1>0, <1>5 DEF CompleteJob
    <2>2. jobs'[worker[w].job].status = "done" /\ jobs'[worker[w].job].type = jobOf(w).type
        BY <1>0, <1>5 DEF CompleteJob, Unlocked, JobRow, jobOf
    <2>3. \A v \in Workers : (Busy(v)' <=> Busy(v)) /\ worker'[v].job = worker[v].job
        BY <1>1, <1>3, <1>5 DEF Busy
    <2>4. Sole'
        BY <2>3 DEF LeaseInv, Sole
    <2>5. ASSUME NEW v \in Workers, v # w, Busy(v)' PROVE Owns(v)'
        <3>1. Busy(v) /\ worker[v].job # worker[w].job
            BY <1>1, <2>3, <2>5 DEF LeaseInv, Sole
        <3> QED
            BY <1>0, <1>3, <1>5, <2>1, <2>5, <3>1, OwnsKept DEF LeaseInv
    <2>6. Owns(w)'
        <3>1. worker[w].elapsed <= Deadline(w)
            BY <1>1 DEF LeaseInv, Owns
        <3>2. Deadline(w)' = Deadline(w)
            BY <1>3, <1>5, <2>2 DEF Deadline, jobOf, RunPCs
        <3> QED
            BY <1>3, <1>5, <2>2, <3>1, <3>2 DEF Owns, jobOf
    <2> QED
        BY <2>4, <2>5, <2>6 DEF LeaseInv
<1> QED
    BY <1>2, <1>4, <1>5 DEF StoreFault, LostAnswer, Crash, MarkSessionReviewed, storeVars

LEMMA TickLease ==
    ASSUME TypeOK, LeaseInv, ~Pauses, Tick
    PROVE  LeaseInv'
<1>0. worker \in [Workers -> WorkerRecord] /\ jobs \in [JobIds -> JobRow]
    BY DEF TypeOK, ServiceTypeOK, StoreTypeOK
<1>1. ASSUME NEW v \in Workers
      PROVE  /\ worker'[v].pc = worker[v].pc
             /\ worker'[v].job = worker[v].job
             /\ Busy(v)' <=> Busy(v)
             /\ Busy(v) => worker'[v].elapsed = AtMost(worker[v].elapsed + 1, JobLease)
    BY <1>0 DEF Tick, Busy, WorkerRecord
<1>2. ASSUME NEW j \in JobIds
      PROVE  /\ jobs'[j].status = jobs[j].status
             /\ jobs'[j].type = jobs[j].type
             /\ jobs'[j].lockedBy = jobs[j].lockedBy
             /\ jobs[j].status = "processing" => jobs'[j].age = AtMost(jobs[j].age + 1, JobLease)
    BY LaterRow
<1>3. Sole'
    BY <1>1 DEF LeaseInv, Sole
<1>4. ASSUME NEW v \in Workers, Busy(v)' PROVE Owns(v)'
    <2>1. Busy(v) /\ Owns(v) /\ worker[v].elapsed < Deadline(v)
        BY <1>1, <1>4 DEF LeaseInv, Tick
    <2>2. Deadline(v)' = Deadline(v)
        BY <1>1, <1>2, WorkerTypes DEF Deadline, jobOf
    <2>3. worker'[v].elapsed = worker[v].elapsed + 1
        BY <1>1, <2>1, WorkerTypes, StoreAssumption DEF AtMost
    <2>4. worker'[v].elapsed <= Deadline(v)'
        BY <2>1, <2>2, <2>3, WorkerTypes
    <2>5. CASE jobOf(v).status = "processing" /\ jobOf(v).lockedBy = v
               /\ jobOf(v).age = worker[v].elapsed
        BY <1>1, <1>2, <2>1, <2>4, <2>5, WorkerTypes DEF Owns, jobOf
    <2>6. CASE jobOf(v).status = "done" /\ worker[v].pc = "Fail"
        BY <1>1, <1>2, <2>4, <2>6, WorkerTypes DEF Owns, jobOf
    <2> QED
        BY <2>1, <2>5, <2>6 DEF Owns
<1> QED
    BY <1>3, <1>4 DEF LeaseInv

LEMMA StepLease ==
    ASSUME TypeOK, LeaseInv, ~Pauses, [Next]_pipelineVars
    PROVE  LeaseInv'
<1>1. ASSUME UNCHANGED worker,
             \A j \in JobIds : jobs[j].status # "none" => jobs'[j] = jobs[j]
      PROVE  LeaseInv'
    <2>1. Sole'
        BY <1>1 DEF LeaseInv, Sole, Busy
    <2>2. ASSUME NEW v \in Workers, Busy(v)' PROVE Owns(v)'
        <3>1. Busy(v) /\ Owns(v) /\ jobOf(v).status # "none"
            BY <1>1, <2>2 DEF LeaseInv, Owns, Busy
        <3> QED
            BY <1>1, <3>1, OwnsKept, WorkerTypes DEF jobOf
    <2> QED
        BY <2>1, <2>2 DEF LeaseInv
<1>2. CASE ServiceNext /\ UNCHANGED <<worker, poll, faults>>
    BY <1>1, <1>2, ServiceKeepsJobs
<1>3. CASE PollStep
    BY <1>1, <1>3 DEF PollStep, PollGetSession, PollListUtterances, PollHasFailed, storeVars
<1>4. CASE UNCHANGED pipelineVars
    BY <1>1, <1>4 DEF pipelineVars, storeVars
<1> QED
    BY <1>2, <1>3, <1>4, WorkerStepLease, FaultLease, TickLease DEF Next


-----------------------------------------------------------------------------
(* How often a job is claimed *)

\* Rows are left alone, and no worker leaves one.
LEMMA KeepAttempts ==
    ASSUME TypeOK, AttemptsInv, faults' \in Nat, faults <= faults',
           \A j \in JobIds : \/ /\ jobs'[j].status = jobs[j].status
                                /\ jobs'[j].attempts = jobs[j].attempts
                             \/ /\ jobs'[j].status \in {"done", "failed"}
                                /\ jobs'[j].attempts = jobs[j].attempts
                             \/ jobs'[j].status = "pending" /\ jobs'[j].attempts < MaxJobAttempts,
           \A j \in JobIds : \/ ~Orphan(j)'
                             \/ Orphan(j)
                             \/ jobs'[j].attempts < MaxJobAttempts + faults',
           \A j \in JobIds : jobs'[j].attempts \in Nat
    PROVE  AttemptsInv'
<1>1. \A j \in JobIds : jobs[j].attempts \in Nat
    BY DEF TypeOK, ServiceTypeOK, StoreTypeOK, JobRow
<1>2. faults \in Nat
    BY PipelineAssumption DEF TypeOK
<1>3. ASSUME NEW j \in JobIds
      PROVE  /\ jobs'[j].attempts <= MaxJobAttempts + faults'
             /\ jobs'[j].status = "pending" => jobs'[j].attempts < MaxJobAttempts
             /\ Orphan(j)' => jobs'[j].attempts < MaxJobAttempts + faults'
    <2>1. /\ jobs[j].attempts <= MaxJobAttempts + faults
          /\ jobs[j].status = "pending" => jobs[j].attempts < MaxJobAttempts
          /\ Orphan(j) => jobs[j].attempts < MaxJobAttempts + faults
        BY DEF AttemptsInv
    <2>2. jobs'[j].attempts <= MaxJobAttempts + faults'
        BY <1>1, <1>2, <2>1, StoreAssumption
    <2>3. jobs'[j].status = "pending" => jobs'[j].attempts < MaxJobAttempts
        BY <2>1
    <2>4. Orphan(j)' => jobs'[j].status = "processing"
        BY DEF Orphan
    <2>5. Orphan(j)' => jobs'[j].attempts < MaxJobAttempts + faults'
        BY <1>1, <1>2, <2>1, <2>4, StoreAssumption
    <2> QED
        BY <2>2, <2>3, <2>5
<1> QED
    BY <1>3 DEF AttemptsInv

LEMMA ClaimAttempts ==
    ASSUME TypeOK, LeaseInv, AttemptsInv, NEW w \in Workers, NEW j \in JobIds, ClaimNextJob(w, j)
    PROVE  AttemptsInv'
<1>0. jobs \in [JobIds -> JobRow] /\ worker \in [Workers -> WorkerRecord] /\ faults \in Nat
    BY PipelineAssumption DEF TypeOK, ServiceTypeOK, StoreTypeOK
<1>1. /\ ~Busy(w) /\ Claimable(j)
      /\ jobs' = [jobs EXCEPT ![j] = Locked(jobs[j], w)]
      /\ \A v \in Workers : v # w => worker'[v] = worker[v]
      /\ faults' = faults
    BY <1>0 DEF ClaimNextJob, ClaimJobRow
<1>2. worker'[w].job = j /\ worker'[w].pc # "idle"
    BY <1>0 DEF ClaimNextJob, IdleWorker
<1>3. /\ jobs'[j].status = "processing" /\ jobs'[j].attempts = jobs[j].attempts + 1
      /\ jobs[j].attempts \in Nat
      /\ \A i \in JobIds : i # j => jobs'[i] = jobs[i]
    BY <1>0, <1>1 DEF Locked, JobRow
<1>4. jobs[j].status = "processing" => Orphan(j)
    BY <1>1, OwnedNotClaimable DEF Orphan
<1>5. jobs'[j].attempts <= MaxJobAttempts + faults
    BY <1>0, <1>1, <1>3, <1>4, StoreAssumption DEF AttemptsInv, Claimable
<1>6. ~Orphan(j)'
    BY <1>2 DEF Orphan, Busy
<1>7. \A i \in JobIds : (i # j /\ Orphan(i)') => Orphan(i)
    BY <1>1, <1>3 DEF Orphan, Busy
<1> QED
    BY <1>1, <1>3, <1>5, <1>6, <1>7 DEF AttemptsInv

LEMMA ServiceAttempts ==
    ASSUME TypeOK, AttemptsInv, ServiceNext, UNCHANGED <<worker, poll, faults>>
    PROVE  AttemptsInv'
<1>1. \A j \in JobIds : jobs[j].status # "none" => jobs'[j] = jobs[j]
    BY ServiceKeepsJobs
<1>2. \/ UNCHANGED jobs
      \/ \E c \in Calls, type \in JobTypes : EnqueueJob(call[c].sid, type)
    BY ServiceJobs
<1>3. CASE UNCHANGED jobs
    BY <1>3 DEF AttemptsInv, Orphan, Busy
<1>4. ASSUME NEW s, NEW type, EnqueueJob(s, type) PROVE AttemptsInv'
    <2>1. /\ jobs'[newID].status = "pending" /\ jobs'[newID].attempts = 0
          /\ \A j \in JobIds : j # newID => jobs'[j] = jobs[j]
        BY <1>4, JobIdFresh DEF EnqueueJob, NewJob, TypeOK, ServiceTypeOK, StoreTypeOK
    <2>2. faults \in Nat
        BY PipelineAssumption DEF TypeOK
    <2> QED
        BY <2>1, <2>2, StoreAssumption DEF AttemptsInv, Orphan, Busy
<1> QED
    BY <1>2, <1>3, <1>4

LEMMA SettleAttempts ==
    ASSUME TypeOK, LeaseInv, AttemptsInv, NEW w \in Workers, Busy(w), WIdle(w) \/ WGoto(w, "Fail"),
           \/ CompleteJob(worker[w].job)
           \/ FailJob(worker[w].job, worker[w].elapsed)
           \/ jobOf(w).status # "processing" /\ UNCHANGED storeVars,
           faults' \in Nat, faults <= faults'
    PROVE  AttemptsInv'
<1>0. /\ jobs \in [JobIds -> JobRow] /\ worker \in [Workers -> WorkerRecord]
      /\ worker[w].job \in JobIds
    BY WorkerTypes DEF TypeOK, ServiceTypeOK, StoreTypeOK
<1> DEFINE j == worker[w].job
<1>1. jobs[j] \in JobRow /\ \A i \in JobIds : i # j => jobs'[i] = jobs[i]
    BY <1>0 DEF CompleteJob, FailJob, storeVars
<1>2. /\ jobs'[j].status # "processing"
      /\ jobs'[j].attempts = jobs[j].attempts
      /\ \/ jobs'[j].status = jobs[j].status
         \/ jobs'[j].status \in {"done", "failed"}
         \/ jobs'[j].status = "pending" /\ jobs'[j].attempts < MaxJobAttempts
    <2>1. CASE CompleteJob(j)
        BY <1>0, <1>1, <2>1 DEF CompleteJob, Unlocked, JobRow
    <2>2. CASE FailJob(j, worker[w].elapsed)
        BY <1>0, <1>1, <2>2 DEF FailJob, Unlocked, JobRow
    <2>3. CASE jobOf(w).status # "processing" /\ UNCHANGED storeVars
        BY <2>3 DEF storeVars, jobOf
    <2> QED
        BY <2>1, <2>2, <2>3
<1>3. \A v \in Workers : v # w => worker'[v] = worker[v]
    BY <1>0 DEF WIdle, WGoto
<1>4. worker'[w].pc = "idle" \/ worker'[w].job = j
    BY <1>0 DEF WIdle, WGoto, IdleWorker, WorkerRecord
<1>5. \A i \in JobIds : Orphan(i)' => Orphan(i)
    BY <1>1, <1>2, <1>3 DEF Orphan, Busy
<1>6. \A i \in JobIds : jobs'[i].attempts \in Nat
    BY <1>0, <1>1, <1>2 DEF JobRow
<1> QED
    BY <1>1, <1>2, <1>5, <1>6, KeepAttempts

LEMMA StepAttempts ==
    ASSUME TypeOK, LeaseInv, AttemptsInv, [Next]_pipelineVars
    PROVE  AttemptsInv'
<1>0. /\ jobs \in [JobIds -> JobRow] /\ worker \in [Workers -> WorkerRecord]
      /\ faults \in Nat
      /\ \A j \in JobIds : jobs[j].attempts \in Nat
    BY PipelineAssumption DEF TypeOK, ServiceTypeOK, StoreTypeOK, JobRow
<1>1. ASSUME jobs' = jobs, faults' = faults,
             \A v \in Workers : Busy(v) => Busy(v)' /\ worker'[v].job = worker[v].job
      PROVE  AttemptsInv'
    BY <1>1 DEF AttemptsInv, Orphan
<1>2. ASSUME NEW w \in Workers, WorkerStep(w) PROVE AttemptsInv'
    <2>1. ASSUME NEW j \in JobIds, ClaimNextJob(w, j) PROVE AttemptsInv'
        BY <2>1, ClaimAttempts
    <2>2. CASE Complete(w) \/ Fail(w)
        <3>1. Busy(w) /\ faults' = faults
            BY <2>2 DEF Complete, Fail, Busy
        <3> QED
            BY <1>0, <2>2, <3>1, SettleAttempts DEF Complete, Fail
    <2>3. ASSUME \/ RunGetSession(w) \/ RunMarkReviewed(w) \/ RunEvalList(w)
                 \/ RunScoreDone(w) \/ RunTimesOut(w)
                 \/ \E source \in ReviewSources : RunBuild(w, source)
                 \/ \E u \in Utterances : RunScore(w, u)
          PROVE  AttemptsInv'
        <3>1. jobs' = jobs /\ faults' = faults /\ \A v \in Workers : v # w => worker'[v] = worker[v]
            BY <1>0, <2>3 DEF RunGetSession, RunMarkReviewed, MarkSessionReviewed, RunEvalList,
               RunScoreDone, RunTimesOut, RunBuild, RunScore, SaveUtteranceEval, storeVars, WGoto
        <3>2. worker'[w].job = worker[w].job /\ worker'[w].pc # "idle"
            <4>1. CASE \E pc \in WorkerPCs \ {"idle"} : WGoto(w, pc)
                BY <1>0, <4>1 DEF WGoto, WorkerRecord
            <4>2. CASE RunGetSession(w) \/ RunMarkReviewed(w) \/ RunScoreDone(w) \/ RunTimesOut(w)
                BY <4>1, <4>2 DEF RunGetSession, RunMarkReviewed, RunScoreDone, RunTimesOut,
                   WorkerPCs, RunPCs
            <4>3. CASE RunEvalList(w)
                BY <1>0, <4>3 DEF RunEvalList, WorkerRecord
            <4>4. CASE \E source \in ReviewSources : RunBuild(w, source)
                BY <1>0, <4>4 DEF RunBuild, WorkerRecord
            <4>5. CASE \E u \in Utterances : RunScore(w, u)
                BY <1>0, <4>5 DEF RunScore, WorkerRecord
            <4> QED
                BY <2>3, <4>2, <4>3, <4>4, <4>5
        <3> QED
            BY <1>1, <3>1, <3>2 DEF Busy
    <2> QED
        BY <1>2, <2>1, <2>2, <2>3 DEF WorkerStep
<1>3. ASSUME NEW w \in Workers, StoreFault(w) \/ LostAnswer(w) \/ Crash(w) PROVE AttemptsInv'
    <2>1. faults' = faults + 1 /\ Busy(w)
        BY <1>3 DEF StoreFault, LostAnswer, Crash, Fault, Busy
    <2>2. CASE jobs' = jobs
        <3>1. \A j \in JobIds : jobs'[j].attempts < MaxJobAttempts + faults'
            BY <1>0, <2>1, <2>2, StoreAssumption DEF AttemptsInv
        <3> QED
            BY <1>0, <2>1, <2>2, <3>1, KeepAttempts
    <2>3. CASE LostAnswer(w) /\ CompleteJob(worker[w].job)
        BY <1>0, <2>1, <2>3, SettleAttempts DEF LostAnswer
    <2> QED
        BY <1>3, <2>2, <2>3 DEF StoreFault, LostAnswer, Crash, MarkSessionReviewed, storeVars
<1>4. CASE Tick
    <2>1. \A j \in JobIds : jobs'[j].status = jobs[j].status /\ jobs'[j].attempts = jobs[j].attempts
        BY <1>4, LaterRow
    <2>2. \A v \in Workers : (Busy(v)' <=> Busy(v)) /\ worker'[v].job = worker[v].job
        BY <1>0, <1>4 DEF Tick, Busy, WorkerRecord
    <2>3. \A j \in JobIds : Orphan(j)' => Orphan(j)
        BY <2>1, <2>2 DEF Orphan
    <2>4. faults' = faults
        BY <1>4 DEF Tick
    <2> QED
        BY <1>0, <2>1, <2>3, <2>4, KeepAttempts
<1>5. CASE PollStep \/ UNCHANGED pipelineVars
    BY <1>1, <1>5 DEF PollStep, PollGetSession, PollListUtterances, PollHasFailed, storeVars,
       pipelineVars, Busy
<1> QED
    BY <1>2, <1>3, <1>4, <1>5, ServiceAttempts DEF Next

-----------------------------------------------------------------------------
LEMMA InitLInv == Init => LInv
<1> SUFFICES ASSUME Init PROVE LeaseInv /\ AttemptsInv
    BY DEF LInv
<1>1. \A w \in Workers : ~Busy(w)
    BY DEF Init, Busy, IdleWorker
<1>2. \A j \in JobIds : jobs[j].status = "none" /\ jobs[j].attempts = 0
    BY DEF Init, ServiceInit, StoreInit, NoJob
<1>3. faults = 0
    BY DEF Init
<1> QED
    BY <1>1, <1>2, <1>3, StoreAssumption DEF LeaseInv, Sole, AttemptsInv, Orphan

LEMMA LInvHolds == Spec => []LInv
<1>1. TypeOK /\ LInv /\ [Next]_pipelineVars => LInv'
    BY StepLease, StepAttempts DEF LInv
<1> QED
    BY <1>1, InitLInv, TypeCorrect, PTL DEF Spec

\* Without stalls no two workers ever hold the same job, for any number of
\* workers and faults, because job timeout, completeJob and failJob together
\* end before the lease does (ClaimNextJob, ProcessNextJob).
THEOREM LeaseExclusion == Spec => []LeaseExclusive
<1>1. LInv => LeaseExclusive
    BY DEF LInv, LeaseInv, Sole, LeaseExclusive
<1> QED
    BY <1>1, LInvHolds, PTL

\* Without stalls a job is claimed at most MaxJobAttempts times plus once per
\* fault, however often its leases run out (ClaimNextJob, FailJob).
THEOREM AttemptsBound == Spec => []AttemptsBounded
<1>1. LInv => AttemptsBounded
    BY DEF LInv, AttemptsInv, AttemptsBounded
<1> QED
    BY <1>1, LInvHolds, PTL


-----------------------------------------------------------------------------
(* The contract, with stalls, faults and concurrent Ends *)


Closed(s) == status[s] \in {"ended", "abandoned", "reviewed"}
Spoken(s) == Closed(s) /\ hasUserSpeech(transcript[s])

\* Review jobs exist only for closed sessions with speech, and the Ends about
\* to enqueue one know it.
QueuedSpoken ==
    /\ \A j \in JobIds : (jobs[j].status # "none" /\ jobs[j].type = "session.finished")
                            => Spoken(jobs[j].sid)
    /\ \A c \in Calls :
        /\ call[c].pc = "ListUtterances" => Closed(call[c].sid)
        /\ call[c].pc \in {"HasFinished", "EnqueueFinished"} => Spoken(call[c].sid)

\* A worker works on an existing job of the kind its store call belongs to, and
\* is about to complete a review job only if the review is there.
WorkersInOrder ==
    \A w \in Workers :
        /\ Busy(w) => jobOf(w).status # "none"
        /\ worker[w].pc \in {"GetSession", "Build", "MarkReviewed"}
                => jobOf(w).type = "session.finished"
        /\ worker[w].pc \in {"ListUtterances", "Score"} => jobOf(w).type = "session.eval"
        /\ (worker[w].pc = "Complete" /\ jobOf(w).type = "session.finished")
                => status[sidOf(w)] = "reviewed"

PInv == QueuedSpoken /\ WorkersInOrder /\ DoneMeansReviewed

-----------------------------------------------------------------------------
(* What a step may do to a session *)

Inserts(s) ==
    /\ status[s] = "none"
    /\ status' = [status EXCEPT ![s] = "created"]
    /\ UNCHANGED <<transcript, review>>

Activates(s) ==
    /\ status[s] \in OpenStatuses
    /\ status' = [status EXCEPT ![s] = "active"]
    /\ UNCHANGED <<transcript, review>>

Closes(s, st, said) ==
    /\ status[s] \in OpenStatuses
    /\ status' = [status EXCEPT ![s] = st]
    /\ transcript' = [transcript EXCEPT ![s] = said]
    /\ UNCHANGED review

Publishes(s, source) ==
    /\ status[s] = "ended"
    /\ hasUserSpeech(transcript[s])
    /\ status' = [status EXCEPT ![s] = "reviewed"]
    /\ review' = [review EXCEPT ![s] = source]
    /\ UNCHANGED transcript

SessionStep ==
    \/ UNCHANGED <<status, transcript, review>>
    \/ \E s \in Sessions :
        \/ Inserts(s)
        \/ Activates(s)
        \/ \E st \in {"ended", "abandoned"}, said \in SUBSET Utterances : Closes(s, st, said)
        \/ \E source \in ReviewSources : Publishes(s, source)

LEMMA ServiceSessionStep ==
    ASSUME TypeOK, ServiceNext
    PROVE  SessionStep
<1>1. ASSUME NEW s \in Sessions, Create(s) \/ Activate(s) PROVE SessionStep
    BY <1>1 DEF Create, Activate, CreateSessionWithTicket, MarkSessionActive, Inserts, Activates,
       SessionStep
<1>2. ASSUME NEW c \in Calls, EndEndSession(c) PROVE SessionStep
    <2>1. /\ call[c].sid \in Sessions
          /\ call[c].req.said \in SUBSET Utterances
        BY ServiceAssumption DEF TypeOK, ServiceTypeOK, CallRecord
    <2>2. terminalStatus(c) \in {"ended", "abandoned"}
        BY DEF terminalStatus
    <2>3. CASE EndSessionCloses(call[c].sid)
        <3>1. Closes(call[c].sid, terminalStatus(c), call[c].req.said)
            BY <1>2, <2>3 DEF EndEndSession, EndSession, EndSessionCloses, Closes
        <3> QED
            BY <2>1, <2>2, <3>1 DEF SessionStep
    <2>4. CASE ~EndSessionCloses(call[c].sid)
        BY <1>2, <2>4 DEF EndEndSession, EndSession, SessionStep
    <2> QED
        BY <2>3, <2>4
<1>3. ASSUME NEW c \in Calls, EndStep(c), ~EndEndSession(c) PROVE SessionStep
    BY <1>3 DEF EndStep, EndGetSession, EndListUtterances, EndHasFinished, EndEnqueueFinished,
       EndHasEval, EndEnqueueEval, EndWithoutEval, EndFails, EnqueueJob, storeVars, sessionVars,
       SessionStep
<1>4. ASSUME NEW c \in Calls, NEW s \in Sessions, NEW r \in Requests, EndCall(c, s, r)
      PROVE  SessionStep
    BY <1>4 DEF EndCall, storeVars, SessionStep
<1> QED
    BY <1>1, <1>2, <1>3, <1>4 DEF ServiceNext

LEMMA MarkSessionStep ==
    ASSUME TypeOK, PInv, NEW w \in Workers, worker[w].pc = "MarkReviewed",
           MarkSessionReviewed(sidOf(w), worker[w].source)
    PROVE  SessionStep
<1>1. /\ worker[w].job \in JobIds /\ worker[w].source \in ReviewSources
      /\ sidOf(w) \in Sessions
    BY DEF TypeOK, ServiceTypeOK, StoreTypeOK, WorkerRecord, JobRow, sidOf, jobOf
<1>2. Spoken(sidOf(w))
    BY <1>1 DEF PInv, QueuedSpoken, WorkersInOrder, Busy, jobOf, sidOf
<1> QED
    BY <1>1, <1>2 DEF MarkSessionReviewed, Spoken, Publishes, SessionStep

LEMMA NextSessionStep ==
    ASSUME TypeOK, PInv, [Next]_pipelineVars
    PROVE  SessionStep
<1>1. ASSUME NEW w \in Workers, WorkerStep(w) PROVE SessionStep
    <2>1. CASE RunMarkReviewed(w)
        BY <2>1, MarkSessionStep DEF RunMarkReviewed
    <2>2. CASE UNCHANGED <<status, transcript, review>>
        BY <2>2 DEF SessionStep
    <2> QED
        BY <1>1, <2>1, <2>2 DEF WorkerStep, ClaimNextJob, ClaimJobRow, RunGetSession, RunBuild,
           RunEvalList, RunScore, SaveUtteranceEval, RunScoreDone, RunTimesOut, Complete,
           CompleteJob, Fail, FailJob, storeVars, sessionVars
<1>2. ASSUME NEW w \in Workers, StoreFault(w) \/ LostAnswer(w) \/ Crash(w) PROVE SessionStep
    BY <1>2, MarkSessionStep DEF StoreFault, LostAnswer, Crash, CompleteJob, storeVars,
       sessionVars, SessionStep
<1>3. CASE PollStep \/ Tick \/ UNCHANGED pipelineVars
    BY <1>3 DEF PollStep, PollGetSession, PollListUtterances, PollHasFailed, Tick, storeVars,
       sessionVars, pipelineVars, SessionStep
<1> QED
    BY <1>1, <1>2, <1>3, ServiceSessionStep DEF Next

\* What is closed stays closed, keeps its transcript, and stays reviewed.
LEMMA ClosedForGood ==
    ASSUME TypeOK, SessionStep, NEW s \in Sessions
    PROVE  /\ Closed(s) => Closed(s)' /\ transcript'[s] = transcript[s]
           /\ Spoken(s) => Spoken(s)'
           /\ status[s] = "reviewed" => status'[s] = "reviewed"
<1>0. status \in [Sessions -> Statuses \cup {"none"}] /\ transcript \in [Sessions -> SUBSET Utterances]
    BY DEF TypeOK, ServiceTypeOK, StoreTypeOK
<1>1. /\ Closed(s) => Closed(s)' /\ transcript'[s] = transcript[s]
      /\ status[s] = "reviewed" => status'[s] = "reviewed"
    BY <1>0 DEF SessionStep, Inserts, Activates, Closes, Publishes, Closed, OpenStatuses
<1> QED
    BY <1>1 DEF Spoken

-----------------------------------------------------------------------------
(* The invariant *)

\* Outside the service no row changes its session or its type, appears or goes.
LEMMA JobsKept ==
    ASSUME TypeOK, TypeOK', NEW j \in JobIds,
           \/ \E w \in Workers : WorkerStep(w) \/ StoreFault(w) \/ LostAnswer(w) \/ Crash(w)
           \/ PollStep \/ Tick \/ UNCHANGED pipelineVars
    PROVE  /\ jobs'[j].sid = jobs[j].sid
           /\ jobs'[j].type = jobs[j].type
           /\ jobs'[j].status # "none" <=> jobs[j].status # "none"
<1>0. jobs \in [JobIds -> JobRow] /\ jobs[j] \in JobRow
    BY DEF TypeOK, ServiceTypeOK, StoreTypeOK
<1>1. CASE UNCHANGED jobs
    BY <1>1
<1>2. CASE Tick
    BY <1>2, LaterRow
<1>3. ASSUME NEW i \in JobIds, NEW w \in Workers, ClaimJobRow(i, w)
      PROVE  /\ jobs'[j].sid = jobs[j].sid
             /\ jobs'[j].type = jobs[j].type
             /\ jobs'[j].status # "none" <=> jobs[j].status # "none"
    BY <1>0, <1>3 DEF ClaimJobRow, Locked, Claimable, JobRow
<1>4. ASSUME NEW i \in JobIds, CompleteJob(i)
      PROVE  /\ jobs'[j].sid = jobs[j].sid
             /\ jobs'[j].type = jobs[j].type
             /\ jobs'[j].status # "none" <=> jobs[j].status # "none"
    BY <1>0, <1>4 DEF CompleteJob, Unlocked, JobRow
<1>5. ASSUME NEW i \in JobIds, NEW e, FailJob(i, e)
      PROVE  /\ jobs'[j].sid = jobs[j].sid
             /\ jobs'[j].type = jobs[j].type
             /\ jobs'[j].status # "none" <=> jobs[j].status # "none"
    BY <1>0, <1>5 DEF FailJob, Unlocked, JobRow
<1>6. \A w \in Workers : worker[w].job \in JobIds
    BY WorkerTypes
<1>7. ASSUME NEW w \in Workers, WorkerStep(w)
      PROVE  \/ UNCHANGED jobs
             \/ \E i \in JobIds : \/ ClaimJobRow(i, w) \/ CompleteJob(i)
                                  \/ FailJob(i, worker[w].elapsed)
    BY <1>6, <1>7 DEF WorkerStep, ClaimNextJob, RunGetSession, RunBuild, RunMarkReviewed,
       MarkSessionReviewed, RunEvalList, RunScore, SaveUtteranceEval, RunScoreDone, RunTimesOut,
       Complete, Fail, storeVars
<1>8. ASSUME NEW w \in Workers, StoreFault(w) \/ LostAnswer(w) \/ Crash(w)
      PROVE  UNCHANGED jobs \/ \E i \in JobIds : CompleteJob(i)
    BY <1>6, <1>8 DEF StoreFault, LostAnswer, Crash, MarkSessionReviewed, storeVars
<1>9. PollStep \/ UNCHANGED pipelineVars => UNCHANGED jobs
    BY DEF PollStep, PollGetSession, PollListUtterances, PollHasFailed, pipelineVars, storeVars
<1> QED
    BY <1>1, <1>2, <1>3, <1>4, <1>5, <1>7, <1>8, <1>9

LEMMA QueuedSpokenStep ==
    ASSUME TypeOK, TypeOK', PInv, [Next]_pipelineVars
    PROVE  QueuedSpoken'
<1>0. SessionStep
    BY NextSessionStep
<1>1. /\ jobs \in [JobIds -> JobRow] /\ call \in [Calls -> CallRecord]
      /\ \A j \in JobIds : jobs[j].sid \in Sessions
      /\ \A c \in Calls : call[c].sid \in Sessions
    BY DEF TypeOK, ServiceTypeOK, StoreTypeOK, JobRow, CallRecord
<1>2. QueuedSpoken
    BY DEF PInv
<1>3. CASE ServiceNext
    <2>1. ASSUME NEW j \in JobIds, jobs'[j].status # "none", jobs'[j].type = "session.finished"
          PROVE  Spoken(jobs[j].sid)'
        <3>1. CASE jobs[j].status # "none"
            BY <1>0, <1>1, <1>2, <1>3, <2>1, <3>1, ServiceKeepsJobs, ClosedForGood
            DEF QueuedSpoken, Closed, Spoken
        <3>2. CASE jobs[j].status = "none"
            <4>1. PICK c \in Calls : EndEnqueueFinished(c) \/ EndEnqueueEval(c)
                BY <1>3, <2>1, <3>2 DEF ServiceNext, Create, Activate, CreateSessionWithTicket,
                   MarkSessionActive, EndCall, EndStep, EndGetSession, EndListUtterances,
                   EndEndSession, EndSession, EndHasFinished, EndHasEval, EndWithoutEval, EndFails,
                   storeVars
            <4>2. \A type : EnqueueJob(call[c].sid, type)
                        => jobs'[j].type = type /\ jobs'[j].sid = call[c].sid
                BY <1>1, <2>1, <3>2, JobIdFresh DEF EnqueueJob, NewJob
            <4>3. EndEnqueueFinished(c)
                BY <2>1, <4>1, <4>2 DEF EndEnqueueEval
            <4>4. Spoken(call[c].sid) /\ jobs'[j].sid = call[c].sid
                BY <1>2, <4>2, <4>3 DEF EndEnqueueFinished, QueuedSpoken
            <4> QED
                BY <1>0, <1>1, <4>4, ClosedForGood DEF Closed, Spoken
        <3> QED
            BY <3>1, <3>2
    <2>2. ASSUME NEW c \in Calls
          PROVE  /\ call'[c].pc = "ListUtterances" => Closed(call[c].sid)'
                 /\ call'[c].pc \in {"HasFinished", "EnqueueFinished"} => Spoken(call[c].sid)'
        <3>1. CASE call'[c] = call[c]
            BY <1>0, <1>1, <1>2, <3>1, ClosedForGood DEF QueuedSpoken, Closed, Spoken
        <3>2. ASSUME NEW s \in Sessions, NEW r \in Requests, EndCall(c, s, r)
              PROVE  call'[c].pc = "GetSession"
            BY <1>1, <3>2 DEF EndCall, CallRecord
        <3>3. ASSUME NEW pc, Goto(c, pc) PROVE call'[c].pc = pc /\ call'[c].sid = call[c].sid
            BY <1>1, <3>3 DEF Goto, CallRecord
        <3>4. ASSUME NEW a, Reply(c, a) PROVE call'[c].pc = "done"
            BY <1>1, <3>4 DEF Reply, CallRecord
        <3>5. CASE EndGetSession(c)
            <4>1. /\ call'[c].sid = call[c].sid
                  /\ call'[c].pc \in {"EndSession", "ListUtterances"}
                  /\ call'[c].pc = "ListUtterances" => status[call[c].sid] \notin OpenStatuses \cup {"none"}
                BY <1>1, <3>5 DEF EndGetSession, CallRecord
            <4>2. call'[c].pc = "ListUtterances" => Closed(call[c].sid)
                BY <1>1, <4>1 DEF Closed, OpenStatuses, Statuses, TypeOK, ServiceTypeOK, StoreTypeOK
            <4> QED
                BY <1>0, <1>1, <4>1, <4>2, ClosedForGood DEF Closed
        <3>6. CASE EndListUtterances(c)
            <4>1. Closed(call[c].sid)
                BY <1>2, <3>6 DEF EndListUtterances, QueuedSpoken
            <4>2. \/ \E a : Reply(c, a)
                  \/ Goto(c, "HasFinished") /\ hasUserSpeech(transcript[call[c].sid])
                BY <3>6 DEF EndListUtterances
            <4> QED
                BY <1>0, <1>1, <3>3, <3>4, <4>1, <4>2, ClosedForGood DEF Closed, Spoken
        <3>7. CASE EndEndSession(c)
            <4> DEFINE s == call[c].sid
                       said == call[c].req.said
            <4>1. \/ \E a : Reply(c, a)
                  \/ Goto(c, "HasFinished") /\ ~EndSessionConflicts(s)
                        /\ hasUserSpeech(EndSessionSaved(s, said))
                BY <3>7 DEF EndEndSession
            <4>2. CASE EndSessionCloses(s)
                <5>1. status'[s] = terminalStatus(c) /\ transcript'[s] = said
                    BY <1>1, <3>7, <4>2 DEF EndEndSession, EndSession, TypeOK, ServiceTypeOK, StoreTypeOK
                <5>2. status'[s] \in {"ended", "abandoned"}
                    BY <5>1 DEF terminalStatus
                <5>3. hasUserSpeech(EndSessionSaved(s, said)) => hasUserSpeech(transcript'[s])
                    BY <4>2, <5>1 DEF EndSessionSaved
                <5> QED
                    BY <3>3, <3>4, <4>1, <5>2, <5>3 DEF Closed, Spoken
            <4>3. CASE ~EndSessionCloses(s)
                <5>1. ~EndSessionConflicts(s) => Closed(s)
                    BY <4>3 DEF EndSessionConflicts, isTerminalStatus, Closed
                <5>2. EndSessionSaved(s, said) = transcript[s]
                    BY <4>3 DEF EndSessionSaved
                <5> QED
                    BY <1>0, <1>1, <3>3, <3>4, <4>1, <5>1, <5>2, ClosedForGood DEF Closed, Spoken
            <4> QED
                BY <4>2, <4>3
        <3>8. CASE EndHasFinished(c)
            <4>1. Spoken(call[c].sid)
                BY <1>2, <3>8 DEF EndHasFinished, QueuedSpoken
            <4>2. Goto(c, "HasEval") \/ Goto(c, "EnqueueFinished")
                BY <3>8 DEF EndHasFinished
            <4> QED
                BY <1>0, <1>1, <3>3, <4>1, <4>2, ClosedForGood DEF Closed, Spoken
        <3>9. CASE EndEnqueueFinished(c) \/ EndHasEval(c) \/ EndEnqueueEval(c) \/ EndWithoutEval(c)
                   \/ EndFails(c)
            BY <3>3, <3>4, <3>9 DEF EndEnqueueFinished, EndHasEval, EndEnqueueEval, EndWithoutEval,
               EndFails
        <3>10. ASSUME NEW d \in Calls, d # c,
                      EndStep(d) \/ \E s \in Sessions, r \in Requests : EndCall(d, s, r)
               PROVE  call'[c] = call[c]
            BY <1>1, <3>10 DEF EndStep, EndCall, EndGetSession, EndListUtterances, EndEndSession,
               EndHasFinished, EndEnqueueFinished, EndHasEval, EndEnqueueEval, EndWithoutEval,
               EndFails, Goto, Reply
        <3>11. CASE \E s \in Sessions : Create(s) \/ Activate(s)
            BY <3>1, <3>11 DEF Create, Activate
        <3>12. CASE EndStep(c)
            BY <3>5, <3>6, <3>7, <3>8, <3>9, <3>12 DEF EndStep
        <3> QED
            BY <1>3, <3>1, <3>2, <3>10, <3>11, <3>12 DEF ServiceNext
    <2> QED
        BY <2>1, <2>2 DEF QueuedSpoken
<1>4. CASE ~ServiceNext
    <2>1. \/ \E w \in Workers : WorkerStep(w) \/ StoreFault(w) \/ LostAnswer(w) \/ Crash(w)
          \/ PollStep \/ Tick \/ UNCHANGED pipelineVars
        BY <1>4 DEF Next
    <2>2. call' = call
        BY <2>1 DEF WorkerStep, ClaimNextJob, RunGetSession, RunBuild, RunMarkReviewed, RunEvalList,
           RunScore, RunScoreDone, RunTimesOut, Complete, Fail, StoreFault, LostAnswer, Crash,
           PollStep, PollGetSession, PollListUtterances, PollHasFailed, Tick, pipelineVars
    <2> QED
        BY <1>0, <1>1, <1>2, <2>1, <2>2, JobsKept, ClosedForGood DEF QueuedSpoken, Closed, Spoken
<1> QED
    BY <1>3, <1>4


LEMMA WorkersInOrderStep ==
    ASSUME TypeOK, TypeOK', PInv, [Next]_pipelineVars
    PROVE  WorkersInOrder'
<1>0. SessionStep
    BY NextSessionStep
<1>1. /\ jobs \in [JobIds -> JobRow] /\ worker \in [Workers -> WorkerRecord]
      /\ \A j \in JobIds : jobs[j].sid \in Sessions
      /\ \A w \in Workers : worker[w].job \in JobIds /\ sidOf(w) \in Sessions
    BY WorkerTypes DEF TypeOK, ServiceTypeOK, StoreTypeOK, JobRow, sidOf
<1>2. WorkersInOrder
    BY DEF PInv
<1>3. \A j \in JobIds : jobs[j].status # "none" =>
        /\ jobs'[j].status # "none"
        /\ jobs'[j].sid = jobs[j].sid
        /\ jobs'[j].type = jobs[j].type
    BY ServiceKeepsJobs, JobsKept DEF Next
<1>4. \A s \in Sessions : status[s] = "reviewed" => status'[s] = "reviewed"
    BY <1>0, ClosedForGood
<1> SUFFICES ASSUME NEW w \in Workers
             PROVE  /\ Busy(w)' => jobOf(w)'.status # "none"
                    /\ worker'[w].pc \in {"GetSession", "Build", "MarkReviewed"}
                            => jobOf(w)'.type = "session.finished"
                    /\ worker'[w].pc \in {"ListUtterances", "Score"}
                            => jobOf(w)'.type = "session.eval"
                    /\ (worker'[w].pc = "Complete" /\ jobOf(w)'.type = "session.finished")
                            => status'[sidOf(w)'] = "reviewed"
    BY DEF WorkersInOrder
\* The worker stays where it is, but for timers.
<1>5. CASE worker'[w].pc = worker[w].pc /\ worker'[w].job = worker[w].job
    BY <1>1, <1>2, <1>3, <1>4, <1>5 DEF WorkersInOrder, Busy, jobOf, sidOf, WorkerRecord
<1>6. CASE worker'[w].pc = "idle"
    BY <1>6 DEF Busy
\* The worker goes on with its job.
<1>7. ASSUME Busy(w), worker'[w].job = worker[w].job,
             \/ worker'[w].pc = "Fail"
             \/ /\ worker[w].pc \in {"GetSession", "Build"}
                /\ worker'[w].pc \in {"Build", "MarkReviewed"}
             \/ worker[w].pc \in {"ListUtterances", "Score"} /\ worker'[w].pc \in {"Score", "Complete"}
             \/ worker'[w].pc = "Complete" /\ status'[sidOf(w)] = "reviewed"
      PROVE  /\ Busy(w)' => jobOf(w)'.status # "none"
             /\ worker'[w].pc \in {"GetSession", "Build", "MarkReviewed"}
                     => jobOf(w)'.type = "session.finished"
             /\ worker'[w].pc \in {"ListUtterances", "Score"}
                     => jobOf(w)'.type = "session.eval"
             /\ (worker'[w].pc = "Complete" /\ jobOf(w)'.type = "session.finished")
                     => status'[sidOf(w)'] = "reviewed"
    <2>1. /\ jobOf(w)'.status # "none" /\ jobOf(w)'.type = jobOf(w).type /\ sidOf(w)' = sidOf(w)
        BY <1>1, <1>2, <1>3, <1>7 DEF WorkersInOrder, jobOf, sidOf
    <2> QED
        BY <1>2, <1>7, <2>1 DEF WorkersInOrder
<1>8. ASSUME NEW pc, WGoto(w, pc) PROVE worker'[w].pc = pc /\ worker'[w].job = worker[w].job
    BY <1>1, <1>8 DEF WGoto, WorkerRecord
<1>9. ASSUME WIdle(w) PROVE worker'[w].pc = "idle"
    BY <1>1, <1>9 DEF WIdle, IdleWorker
<1>10. ASSUME NEW j \in JobIds, ClaimNextJob(w, j)
       PROVE  /\ Busy(w)' => jobOf(w)'.status # "none"
              /\ worker'[w].pc \in {"GetSession", "Build", "MarkReviewed"}
                      => jobOf(w)'.type = "session.finished"
              /\ worker'[w].pc \in {"ListUtterances", "Score"}
                      => jobOf(w)'.type = "session.eval"
              /\ (worker'[w].pc = "Complete" /\ jobOf(w)'.type = "session.finished")
                      => status'[sidOf(w)'] = "reviewed"
    <2>1. /\ worker'[w].job = j
          /\ worker'[w].pc = IF jobs[j].type = "session.finished"
                             THEN "GetSession" ELSE "ListUtterances"
        BY <1>1, <1>10 DEF ClaimNextJob, IdleWorker
    <2>2. jobs[j].status # "none" /\ jobs[j].type \in JobTypes
        BY <1>1, <1>10 DEF ClaimNextJob, ClaimJobRow, Claimable, JobRow
    <2>3. jobOf(w)'.status # "none" /\ jobOf(w)'.type = jobs[j].type
        BY <1>3, <2>1, <2>2 DEF jobOf
    <2> QED
        BY <2>1, <2>2, <2>3 DEF JobTypes
<1>11. CASE WorkerStep(w)
    <2>1. CASE RunGetSession(w)
        <3>1. /\ worker[w].pc = "GetSession" /\ Busy(w) /\ status' = status
              /\ \/ WGoto(w, "Complete") /\ status[sidOf(w)] = "reviewed"
                 \/ WGoto(w, "Build") \/ WGoto(w, "Fail")
            BY <2>1 DEF RunGetSession, Busy, storeVars
        <3> QED
            BY <1>7, <1>8, <3>1
    <2>2. CASE \E source \in ReviewSources : RunBuild(w, source)
        <3>1. /\ worker[w].pc = "Build" /\ Busy(w)
              /\ worker'[w].pc = "MarkReviewed" /\ worker'[w].job = worker[w].job
            BY <1>1, <2>2 DEF RunBuild, Busy, WorkerRecord
        <3> QED
            BY <1>7, <3>1
    <2>3. CASE RunMarkReviewed(w)
        <3>1. /\ worker[w].pc = "MarkReviewed" /\ Busy(w)
              /\ WGoto(w, "Fail") \/ (WGoto(w, "Complete") /\ MarkSessionReviewedOK(sidOf(w)))
            BY <2>3 DEF RunMarkReviewed, Busy
        <3>2. MarkSessionReviewedOK(sidOf(w)) => status'[sidOf(w)] = "reviewed"
            BY <1>1, <2>3 DEF RunMarkReviewed, MarkSessionReviewed, MarkSessionReviewedOK, TypeOK,
               ServiceTypeOK, StoreTypeOK
        <3> QED
            BY <1>7, <1>8, <3>1, <3>2
    <2>4. CASE RunEvalList(w) \/ \E u \in Utterances : RunScore(w, u)
        <3>1. /\ worker[w].pc \in {"ListUtterances", "Score"} /\ Busy(w)
              /\ worker'[w].pc = "Score" /\ worker'[w].job = worker[w].job
            BY <1>1, <2>4 DEF RunEvalList, RunScore, Busy, WorkerRecord
        <3> QED
            BY <1>7, <3>1
    <2>5. CASE RunScoreDone(w) \/ RunTimesOut(w)
        <3>1. /\ Busy(w)
              /\ WGoto(w, "Fail") \/ (worker[w].pc = "Score" /\ WGoto(w, "Complete"))
            BY <2>5 DEF RunScoreDone, RunTimesOut, Busy, RunPCs
        <3> QED
            BY <1>7, <1>8, <3>1
    <2>6. CASE Complete(w) \/ Fail(w)
        BY <1>6, <1>7, <1>8, <1>9, <2>6 DEF Complete, Fail, Busy
    <2> QED
        BY <1>10, <1>11, <2>1, <2>2, <2>3, <2>4, <2>5, <2>6 DEF WorkerStep
<1>12. CASE StoreFault(w) \/ LostAnswer(w) \/ Crash(w)
    <2>1. Busy(w) /\ (WIdle(w) \/ WGoto(w, "Fail"))
        BY <1>12 DEF StoreFault, LostAnswer, Crash, Busy
    <2> QED
        BY <1>6, <1>7, <1>8, <1>9, <2>1
<1>13. ASSUME NEW v \in Workers, v # w,
              WorkerStep(v) \/ StoreFault(v) \/ LostAnswer(v) \/ Crash(v)
       PROVE  worker'[w] = worker[w]
    BY <1>1, <1>13 DEF WorkerStep, ClaimNextJob, RunGetSession, RunBuild, RunMarkReviewed,
       RunEvalList, RunScore, RunScoreDone, RunTimesOut, Complete, Fail, StoreFault, LostAnswer,
       Crash, WGoto, WIdle
<1>14. CASE Tick
    BY <1>1, <1>5, <1>14 DEF Tick, WorkerRecord
<1>15. CASE ServiceNext /\ UNCHANGED <<worker, poll, faults>>
    BY <1>5, <1>15
<1>16. CASE PollStep \/ UNCHANGED pipelineVars
    BY <1>5, <1>16 DEF PollStep, PollGetSession, PollListUtterances, PollHasFailed, pipelineVars
<1> QED
    BY <1>5, <1>11, <1>12, <1>13, <1>14, <1>15, <1>16 DEF Next

LEMMA DoneStep ==
    ASSUME TypeOK, TypeOK', PInv, [Next]_pipelineVars
    PROVE  DoneMeansReviewed'
<1>0. SessionStep
    BY NextSessionStep
<1>1. /\ jobs \in [JobIds -> JobRow]
      /\ \A j \in JobIds : jobs[j] \in JobRow /\ jobs[j].sid \in Sessions
      /\ \A w \in Workers : worker[w].job \in JobIds
    BY WorkerTypes DEF TypeOK, ServiceTypeOK, StoreTypeOK, JobRow
<1> SUFFICES ASSUME NEW j \in JobIds, jobs'[j].type = "session.finished", jobs'[j].status = "done"
             PROVE  status'[jobs'[j].sid] = "reviewed"
    BY DEF DoneMeansReviewed
<1>2. jobs[j].status # "none" /\ jobs'[j].sid = jobs[j].sid /\ jobs'[j].type = jobs[j].type
    <2>1. CASE ServiceNext
        <3>1. ASSUME NEW s, NEW type, EnqueueJob(s, type), jobs[j].status = "none" PROVE FALSE
            BY <1>1, <3>1, JobIdFresh DEF EnqueueJob, NewJob
        <3>2. jobs[j].status # "none"
            BY <2>1, <3>1, ServiceJobs
        <3> QED
            BY <2>1, <3>2, ServiceKeepsJobs
    <2>2. CASE ~ServiceNext
        BY <2>2, JobsKept DEF Next
    <2> QED
        BY <2>1, <2>2
<1>3. CASE jobs[j].status = "done"
    BY <1>0, <1>1, <1>2, <1>3, ClosedForGood DEF PInv, DoneMeansReviewed
<1>4. CASE jobs[j].status # "done"
    <2>1. \A i \in JobIds, w \in Workers : ~ClaimJobRow(i, w)
        <3>1. ASSUME NEW i \in JobIds, NEW w \in Workers, ClaimJobRow(i, w) PROVE FALSE
            <4>1. CASE i = j
                BY <1>1, <3>1, <4>1 DEF ClaimJobRow, Locked
            <4>2. CASE i # j
                BY <1>1, <1>4, <3>1, <4>2 DEF ClaimJobRow
            <4> QED
                BY <4>1, <4>2
        <3> QED
            BY <3>1
    <2>2. \A i \in JobIds : \A e : ~FailJob(i, e)
        <3>1. SUFFICES ASSUME NEW i \in JobIds, NEW e, FailJob(i, e) PROVE FALSE
            OBVIOUS
        <3>2. CASE i = j
            <4>1. jobs'[j].status \in {"pending", "failed"}
                BY <1>1, <3>1, <3>2 DEF FailJob, Unlocked, JobRow
            <4> QED
                BY <4>1
        <3>3. CASE i # j
            BY <1>1, <1>4, <3>1, <3>3 DEF FailJob
        <3> QED
            BY <3>2, <3>3
    <2>3. ~(UNCHANGED jobs)
        BY <1>4
    <2>4. ~Tick /\ ~ServiceNext
        BY <1>2, <1>4, LaterRow, ServiceKeepsJobs
    <2>5. PICK w \in Workers : worker[w].pc = "Complete" /\ CompleteJob(worker[w].job)
        <3>1. ~PollStep /\ ~(UNCHANGED pipelineVars)
            BY <2>3 DEF PollStep, PollGetSession, PollListUtterances, PollHasFailed, pipelineVars,
               storeVars
        <3>2. ASSUME NEW w \in Workers, WorkerStep(w)
              PROVE  worker[w].pc = "Complete" /\ CompleteJob(worker[w].job)
            <4>1. Complete(w) \/ Fail(w)
                BY <2>1, <2>3, <3>2 DEF WorkerStep, ClaimNextJob, RunGetSession, RunBuild,
                   RunMarkReviewed, MarkSessionReviewed, RunEvalList, RunScore, SaveUtteranceEval,
                   RunScoreDone, RunTimesOut, storeVars
            <4> QED
                BY <1>1, <2>2, <2>3, <4>1 DEF Complete, Fail, storeVars
        <3>3. ASSUME NEW w \in Workers, StoreFault(w) \/ LostAnswer(w) \/ Crash(w)
              PROVE  worker[w].pc = "Complete" /\ CompleteJob(worker[w].job)
            BY <2>3, <3>3 DEF StoreFault, LostAnswer, Crash, MarkSessionReviewed, storeVars
        <3> QED
            BY <2>4, <3>1, <3>2, <3>3 DEF Next
    <2>6. worker[w].job = j
        BY <1>1, <1>4, <2>5 DEF CompleteJob
    <2>7. status[jobs[j].sid] = "reviewed"
        BY <1>2, <2>5, <2>6 DEF PInv, WorkersInOrder, jobOf, sidOf
    <2> QED
        BY <1>0, <1>1, <1>2, <2>7, ClosedForGood
<1> QED
    BY <1>3, <1>4


LEMMA InitPInv == Init => PInv
BY DEF Init, ServiceInit, StoreInit, NoJob, IdleCall, IdleWorker, PInv, QueuedSpoken,
   WorkersInOrder, DoneMeansReviewed, Busy, jobOf, sidOf

LEMMA PInvHolds == Spec => []PInv
<1>1. TypeOK /\ TypeOK' /\ PInv /\ [Next]_pipelineVars => PInv'
    BY QueuedSpokenStep, WorkersInOrderStep, DoneStep DEF PInv
<1> QED
    BY <1>1, InitPInv, TypeCorrect, PTL DEF Spec

-----------------------------------------------------------------------------
\* A session.finished job is marked done only when its session has a review,
\* stalls and lost leases included (ProcessNextJob, processSessionFinished).
THEOREM DoneIsReviewed == Spec => []DoneMeansReviewed
<1>1. PInv => DoneMeansReviewed
    BY DEF PInv
<1> QED
    BY <1>1, PInvHolds, PTL

LEMMA PhaseValues ==
    /\ phaseAt("none") = "absent"
    /\ \A st \in OpenStatuses : phaseAt(st) = "open"
    /\ phaseAt("ended") = "kept"
    /\ phaseAt("abandoned") = "dropped"
    /\ phaseAt("reviewed") = "published"
BY DEF phaseAt, OpenStatuses

\* Changing one status changes one phase.
LEMMA PhaseStep ==
    ASSUME TypeOK, NEW s \in Sessions, NEW st, status' = [status EXCEPT ![s] = st]
    PROVE  /\ phaseOf[s] = phaseAt(status[s])
           /\ phaseOf' = [phaseOf EXCEPT ![s] = phaseAt(st)]
<1>1. status \in [Sessions -> Statuses \cup {"none"}]
    BY DEF TypeOK, ServiceTypeOK, StoreTypeOK
<1>2. status'[s] = st /\ \A r \in Sessions : r # s => status'[r] = status[r]
    BY <1>1
<1>3. phaseOf' = [r \in Sessions |-> phaseAt(status'[r])]
    BY DEF phaseOf, phaseAt
<1>4. phaseOf = [r \in Sessions |-> phaseAt(status[r])]
    BY DEF phaseOf
<1> QED
    BY <1>2, <1>3, <1>4

LEMMA StepImplements ==
    ASSUME TypeOK, SessionStep
    PROVE  [Contract!ContractNext]_Contract!contractVars
<1>1. CASE UNCHANGED <<status, transcript, review>>
    BY <1>1 DEF Contract!contractVars, phaseOf
<1>2. ASSUME NEW s \in Sessions, Inserts(s)
      PROVE  Contract!ContractNext
    <2>0. /\ phaseOf[s] = phaseAt(status[s])
          /\ phaseOf' = [phaseOf EXCEPT ![s] = phaseAt("created")]
        BY <1>2, PhaseStep DEF Inserts
    <2>1. phaseOf[s] = "absent" /\ phaseOf' = [phaseOf EXCEPT ![s] = "open"]
        BY <1>2, <2>0, PhaseValues DEF Inserts, OpenStatuses
    <2> QED
        BY <1>2, <2>1 DEF Inserts, Contract!ContractNext, Contract!Open
<1>3. ASSUME NEW s \in Sessions, Activates(s)
      PROVE  UNCHANGED Contract!contractVars
    <2>0. /\ phaseOf[s] = phaseAt(status[s])
          /\ phaseOf' = [phaseOf EXCEPT ![s] = phaseAt("active")]
        BY <1>3, PhaseStep DEF Activates
    <2>1. phaseOf[s] = "open" /\ phaseOf' = [phaseOf EXCEPT ![s] = "open"]
        BY <1>3, <2>0, PhaseValues DEF Activates, OpenStatuses
    <2>2. phaseOf' = phaseOf
        BY <2>1 DEF phaseOf
    <2> QED
        BY <1>3, <2>2 DEF Activates, Contract!contractVars
<1>4. ASSUME NEW s \in Sessions, NEW st \in {"ended", "abandoned"},
             NEW said \in SUBSET Utterances, Closes(s, st, said)
      PROVE  Contract!ContractNext
    <2>1. phaseOf[s] = "open" /\ phaseOf' = [phaseOf EXCEPT ![s] = phaseAt(st)]
        BY <1>4, PhaseValues, PhaseStep DEF Closes
    <2>2. phaseAt(st) \in {"kept", "dropped"}
        BY PhaseValues
    <2>3. Contract!Close(s, phaseAt(st), said)
        BY <1>4, <2>1, <2>2 DEF Closes, Contract!Close
    <2> QED
        BY <2>2, <2>3 DEF Contract!ContractNext
<1>5. ASSUME NEW s \in Sessions, NEW source \in ReviewSources, Publishes(s, source)
      PROVE  Contract!ContractNext
    <2>0. /\ phaseOf[s] = phaseAt(status[s])
          /\ phaseOf' = [phaseOf EXCEPT ![s] = phaseAt("reviewed")]
        BY <1>5, PhaseStep DEF Publishes
    <2>1. phaseOf[s] = "kept" /\ phaseOf' = [phaseOf EXCEPT ![s] = "published"]
        BY <1>5, <2>0, PhaseValues DEF Publishes, OpenStatuses
    <2>2. Contract!Publish(s, source)
        BY <1>5, <2>1 DEF Publishes, hasUserSpeech, Contract!Publish
    <2> QED
        BY <2>2 DEF Contract!ContractNext
<1> QED
    BY <1>1, <1>2, <1>3, <1>4, <1>5 DEF SessionStep

\* The whole pipeline implements the contract: each of its steps closes,
\* drops or publishes one session as the contract allows, or changes nothing a
\* learner can see (EndSession, MarkSessionReviewed and everything around them).
THEOREM PipelineImplementsContract == Spec => ImplementsContract
<1>1. Init => Contract!ContractInit
    BY PhaseValues DEF Init, ServiceInit, StoreInit, Contract!ContractInit, phaseOf
<1>2. TypeOK /\ PInv /\ [Next]_pipelineVars => [Contract!ContractNext]_Contract!contractVars
    BY NextSessionStep, StepImplements
<1> QED
    BY <1>1, <1>2, TypeCorrect, PInvHolds, PTL DEF Spec, ImplementsContract, Contract!ContractSpec

-----------------------------------------------------------------------------
(* What Ends, pollers and scoring workers are told *)

HasReviewJob(s) == HasSessionJob(s, "session.finished", JobStatuses)

\* An End replies once, and one that is past its look for a review job left
\* such a job behind.
EndsInOrder ==
    \A c \in Calls :
        /\ call[c].pc # "done" => call[c].reply = "none"
        /\ (call[c].pc = "ListUtterances" /\ call[c].seen = "reviewed")
                => status[call[c].sid] = "reviewed"
        /\ call[c].pc \in {"HasEval", "EnqueueEval"}
                => HasReviewJob(call[c].sid) /\ Closed(call[c].sid)
        /\ call[c].reply = "ok" => status[call[c].sid] = "reviewed" \/ HasReviewJob(call[c].sid)

\* Only the End that closed a session can have a cost row there.
BillsInOrder ==
    \A s \in Sessions :
        /\ ~Closed(s) => billed[s] = {}
        /\ \A c \in billed[s] : /\ call[c].pc # "idle" /\ call[c].sid = s
                                /\ transcript[s] = call[c].req.said
                                /\ \A d \in billed[s] : d = c

\* A poller says "empty" of a closed session without speech, which can never
\* come by a review.
PollInOrder ==
    /\ poll.pc = "ListUtterances" => Closed(poll.sid)
    /\ poll.answer = "empty" => Closed(poll.sid) /\ ~hasUserSpeech(transcript[poll.sid])
    /\ \A s \in Sessions : review[s] # "none" => Spoken(s)

\* Scoring starts when the transcript is final.
ScoresInOrder ==
    /\ \A j \in JobIds : jobs[j].status # "none" => Closed(jobs[j].sid)
    /\ \A s \in Sessions : scored[s] \subseteq transcript[s] /\ (~Closed(s) => scored[s] = {})
    /\ \A w \in Workers : worker[w].pc = "Score" => worker[w].todo \subseteq transcript[sidOf(w)]

TInv == EndsInOrder /\ BillsInOrder /\ PollInOrder /\ ScoresInOrder

\* The steps that are not the service's.
Background ==
    \/ \E w \in Workers : WorkerStep(w) \/ StoreFault(w) \/ LostAnswer(w) \/ Crash(w)
    \/ PollStep \/ Tick \/ UNCHANGED pipelineVars

LEMMA BackgroundKeeps ==
    ASSUME Background
    PROVE  call' = call /\ billed' = billed
BY DEF Background, WorkerStep, ClaimNextJob, ClaimJobRow, RunGetSession, RunBuild,
   RunMarkReviewed, MarkSessionReviewed, RunEvalList, RunScore, SaveUtteranceEval, RunScoreDone,
   RunTimesOut, Complete, CompleteJob, Fail, FailJob, StoreFault, LostAnswer, Crash,
   PollStep, PollGetSession, PollListUtterances, PollHasFailed, Tick, pipelineVars,
   storeVars, sessionVars

LEMMA TwoKinds ==
    ASSUME [Next]_pipelineVars
    PROVE  (ServiceNext /\ UNCHANGED <<worker, poll, faults>>) \/ Background
BY DEF Next, Background

\* A row that is there stays the row of its session.
LEMMA RowsStay ==
    ASSUME TypeOK, TypeOK', [Next]_pipelineVars
    PROVE  \A j \in JobIds : jobs[j].status # "none" =>
              /\ jobs'[j].status # "none"
              /\ jobs'[j].sid = jobs[j].sid
              /\ jobs'[j].type = jobs[j].type
BY TwoKinds, ServiceKeepsJobs, JobsKept DEF Background

LEMMA ReviewJobStays ==
    ASSUME TypeOK, TypeOK', [Next]_pipelineVars, NEW s, HasReviewJob(s)
    PROVE  HasReviewJob(s)'
<1>1. PICK j \in JobIds : /\ jobs[j].status \in JobStatuses /\ jobs[j].sid = s
                          /\ jobs[j].type = "session.finished"
    BY DEF HasReviewJob, HasSessionJob
<1>2. /\ jobs'[j].status # "none" /\ jobs'[j].sid = s
      /\ jobs'[j].type = "session.finished"
    BY <1>1, RowsStay DEF JobStatuses
<1>3. jobs'[j].status \in JobStatuses
    BY <1>2 DEF TypeOK, ServiceTypeOK, StoreTypeOK, JobRow
<1> QED
    BY <1>2, <1>3 DEF HasReviewJob, HasSessionJob

\* One End moves at a time.
LEMMA OneEndMoves ==
    ASSUME TypeOK, ServiceNext, NEW c \in Calls
    PROVE  \/ call'[c] = call[c]
           \/ EndStep(c)
           \/ \E s \in Sessions, r \in Requests : EndCall(c, s, r)
<1>0. call \in [Calls -> CallRecord]
    BY DEF TypeOK, ServiceTypeOK
<1>1. ASSUME NEW d \in Calls, d # c,
             EndStep(d) \/ \E s \in Sessions, r \in Requests : EndCall(d, s, r)
      PROVE  call'[c] = call[c]
    BY <1>0, <1>1 DEF EndStep, EndCall, EndGetSession, EndListUtterances, EndEndSession,
       EndHasFinished, EndEnqueueFinished, EndHasEval, EndEnqueueEval, EndWithoutEval,
       EndFails, Goto, Reply
<1>2. CASE \E s \in Sessions : Create(s) \/ Activate(s)
    BY <1>2 DEF Create, Activate
<1> QED
    BY <1>1, <1>2 DEF ServiceNext

LEMMA GotoKeeps ==
    ASSUME TypeOK, NEW c \in Calls, NEW pc, Goto(c, pc)
    PROVE  /\ call'[c].pc = pc /\ call'[c].sid = call[c].sid /\ call'[c].req = call[c].req
           /\ call'[c].seen = call[c].seen /\ call'[c].reply = call[c].reply
BY DEF TypeOK, ServiceTypeOK, Goto, CallRecord

LEMMA ReplyKeeps ==
    ASSUME TypeOK, NEW c \in Calls, NEW reply, Reply(c, reply)
    PROVE  /\ call'[c].pc = "done" /\ call'[c].sid = call[c].sid /\ call'[c].req = call[c].req
           /\ call'[c].reply = reply
BY DEF TypeOK, ServiceTypeOK, Reply, CallRecord

LEMMA EndCallSets ==
    ASSUME TypeOK, NEW c \in Calls, NEW s \in Sessions, NEW r \in Requests, EndCall(c, s, r)
    PROVE  /\ call[c].pc = "idle" /\ call'[c].pc = "GetSession" /\ call'[c].sid = s
           /\ call'[c].reply = call[c].reply
BY DEF TypeOK, ServiceTypeOK, EndCall, CallRecord

LEMMA EndGetSessionSets ==
    ASSUME TypeOK, NEW c \in Calls, EndGetSession(c)
    PROVE  /\ call[c].pc = "GetSession" /\ call'[c].pc \in {"EndSession", "ListUtterances"}
           /\ call'[c].sid = call[c].sid /\ call'[c].req = call[c].req
           /\ call'[c].reply = call[c].reply
           /\ call'[c].seen = status[call[c].sid]
BY DEF TypeOK, ServiceTypeOK, EndGetSession, CallRecord

\* Only EndCall gives a call another session or request.
LEMMA EndStaysWithItsSession ==
    ASSUME TypeOK, ServiceNext, NEW c \in Calls, call[c].pc # "idle"
    PROVE  call'[c].pc # "idle" /\ call'[c].sid = call[c].sid /\ call'[c].req = call[c].req
<1>1. CASE call'[c] = call[c]
    BY <1>1
<1>2. CASE EndGetSession(c)
    BY <1>2, EndGetSessionSets
<1>3. CASE (\E a : Reply(c, a)) \/ \E pc \in CallPCs \ {"idle"} : Goto(c, pc)
    BY <1>3, ReplyKeeps, GotoKeeps
<1>4. CASE EndStep(c) /\ ~EndGetSession(c)
    BY <1>3, <1>4 DEF EndStep, EndListUtterances, EndEndSession, EndHasFinished,
       EndEnqueueFinished, EndHasEval, EndEnqueueEval, EndWithoutEval, EndFails, CallPCs
<1> QED
    BY <1>1, <1>2, <1>4, OneEndMoves DEF EndCall

LEMMA EnqueueMakes ==
    ASSUME TypeOK, NEW s \in Sessions, NEW type \in JobTypes, EnqueueJob(s, type)
    PROVE  \E j \in JobIds : /\ jobs[j].status = "none" /\ jobs'[j].status = "pending"
                             /\ jobs'[j].sid = s /\ jobs'[j].type = type
                             /\ \A i \in JobIds : i # j => jobs'[i] = jobs[i]
<1>1. newID \in JobIds /\ jobs[newID].status = "none"
    BY JobIdFresh DEF EnqueueJob
<1>2. PICK j \in JobIds : j = newID
    BY <1>1
<1>3. jobs' = [jobs EXCEPT ![j] = NewJob(s, type)] /\ jobs \in [JobIds -> JobRow]
    BY <1>2 DEF EnqueueJob, TypeOK, ServiceTypeOK, StoreTypeOK
<1>4. jobs'[j] = NewJob(s, type) /\ \A i \in JobIds : i # j => jobs'[i] = jobs[i]
    BY <1>3
<1> QED
    BY <1>1, <1>2, <1>4 DEF NewJob

LEMMA EndsStep ==
    ASSUME TypeOK, TypeOK', PInv, EndsInOrder, [Next]_pipelineVars
    PROVE  EndsInOrder'
<1>0. SessionStep
    BY NextSessionStep
<1> SUFFICES ASSUME NEW c \in Calls
             PROVE  /\ call'[c].pc # "done" => call'[c].reply = "none"
                    /\ (call'[c].pc = "ListUtterances" /\ call'[c].seen = "reviewed")
                            => status'[call'[c].sid] = "reviewed"
                    /\ call'[c].pc \in {"HasEval", "EnqueueEval"}
                            => HasReviewJob(call[c].sid)' /\ Closed(call[c].sid)'
                    /\ call'[c].reply = "ok" =>
                            status'[call'[c].sid] = "reviewed" \/ HasReviewJob(call[c].sid)'
    BY DEF EndsInOrder
<1>1. call[c].sid \in Sessions
    BY DEF TypeOK, ServiceTypeOK, CallRecord
<1>2. /\ status[call[c].sid] = "reviewed" => status'[call[c].sid] = "reviewed"
      /\ Closed(call[c].sid) => status'[call[c].sid] \in {"ended", "abandoned", "reviewed"}
    BY <1>0, <1>1, ClosedForGood DEF Closed
<1>3. CASE call'[c] = call[c]
    <2>1. HasReviewJob(call[c].sid) => HasReviewJob(call[c].sid)'
        <3>1. PICK s \in Sessions : s = call[c].sid /\ s = call'[c].sid
            BY <1>1, <1>3
        <3>2. HasReviewJob(s) => HasReviewJob(s)'
            BY ReviewJobStays
        <3> QED
            BY <3>1, <3>2 DEF HasReviewJob, HasSessionJob
    <2> QED
        BY <1>2, <1>3, <2>1 DEF EndsInOrder, Closed
<1>4. ASSUME call[c].pc # "done", call'[c].sid = call[c].sid
      PROVE  /\ call[c].reply = "none"
             /\ HasReviewJob(call[c].sid) => HasReviewJob(call[c].sid)'
    <2>1. PICK s \in Sessions : s = call[c].sid /\ s = call'[c].sid
        BY <1>1, <1>4
    <2>2. HasReviewJob(s) => HasReviewJob(s)'
        BY ReviewJobStays
    <2> QED
        BY <1>4, <2>1, <2>2 DEF EndsInOrder, HasReviewJob, HasSessionJob
<1>5. CASE \E s \in Sessions, r \in Requests : EndCall(c, s, r)
    BY <1>5, EndCallSets DEF EndsInOrder
<1>6. CASE EndGetSession(c)
    BY <1>2, <1>4, <1>6, EndGetSessionSets
<1>7. ASSUME NEW a, Reply(c, a), call[c].pc # "done",
             a = "ok" => status'[call[c].sid] = "reviewed" \/ HasReviewJob(call[c].sid)
      PROVE  /\ call'[c].pc = "done" /\ call'[c].sid = call[c].sid
             /\ call'[c].reply = "ok" =>
                            status'[call'[c].sid] = "reviewed" \/ HasReviewJob(call[c].sid)'
    BY <1>4, <1>7, ReplyKeeps
<1>8. CASE EndListUtterances(c)
    <2>1. \/ Reply(c, "skipped") \/ Goto(c, "HasFinished")
          \/ Reply(c, "ok") /\ status[call[c].sid] = "reviewed"
        BY <1>8 DEF EndListUtterances, EndsInOrder
    <2>2. call[c].pc # "done"
        BY <1>8 DEF EndListUtterances
    <2> QED
        BY <1>2, <1>4, <1>7, <2>1, <2>2, GotoKeeps
<1>9. CASE EndEndSession(c)
    <2>1. \/ Reply(c, "skipped") \/ Reply(c, "error") \/ Reply(c, "conflict")
          \/ Goto(c, "HasFinished")
        BY <1>9 DEF EndEndSession
    <2>2. call[c].pc # "done"
        BY <1>9 DEF EndEndSession
    <2> QED
        BY <1>4, <1>7, <2>1, <2>2, GotoKeeps
<1>10. CASE EndHasFinished(c)
    <2>1. call[c].pc = "HasFinished" /\ Closed(call[c].sid)
        BY <1>10 DEF EndHasFinished, PInv, QueuedSpoken, Spoken
    <2>2. \/ Goto(c, "EnqueueFinished")
          \/ Goto(c, "HasEval") /\ HasReviewJob(call[c].sid)
        BY <1>10 DEF EndHasFinished, HasReviewJob, HasSessionJob, ActiveOrDone, JobStatuses
    <2> QED
        BY <1>2, <1>4, <2>1, <2>2, GotoKeeps DEF Closed
<1>11. CASE EndEnqueueFinished(c)
    <2>1. /\ call[c].pc = "EnqueueFinished" /\ Closed(call[c].sid) /\ Goto(c, "HasEval")
          /\ EnqueueJob(call[c].sid, "session.finished")
        BY <1>11 DEF EndEnqueueFinished, PInv, QueuedSpoken, Spoken
    <2>2. PICK j \in JobIds : /\ jobs'[j].status = "pending" /\ jobs'[j].sid = call[c].sid
                              /\ jobs'[j].type = "session.finished"
        BY <1>1, <2>1, EnqueueMakes DEF JobTypes
    <2>3. call'[c].sid = call[c].sid
        BY <2>1, GotoKeeps
    <2>4. HasReviewJob(call[c].sid)'
        BY <2>2, <2>3 DEF HasReviewJob, HasSessionJob, JobStatuses
    <2> QED
        BY <1>2, <1>4, <2>1, <2>4, GotoKeeps DEF Closed
<1>12. CASE EndHasEval(c) \/ EndEnqueueEval(c) \/ EndWithoutEval(c)
    <2>1. /\ call[c].pc \in {"HasEval", "EnqueueEval"}
          /\ HasReviewJob(call[c].sid) /\ Closed(call[c].sid)
        BY <1>12 DEF EndHasEval, EndEnqueueEval, EndWithoutEval, EndsInOrder
    <2>2. Reply(c, "ok") \/ Goto(c, "EnqueueEval")
        BY <1>12 DEF EndHasEval, EndEnqueueEval, EndWithoutEval
    <2> QED
        BY <1>2, <1>4, <1>7, <2>1, <2>2, GotoKeeps DEF Closed
<1>13. CASE EndFails(c)
    BY <1>7, <1>13 DEF EndFails
<1>14. CASE EndStep(c)
    BY <1>6, <1>8, <1>9, <1>10, <1>11, <1>12, <1>13, <1>14 DEF EndStep
<1> QED
    BY <1>3, <1>5, <1>14, TwoKinds, OneEndMoves, BackgroundKeeps

LEMMA BillsStep ==
    ASSUME TypeOK, TypeOK', PInv, BillsInOrder, [Next]_pipelineVars
    PROVE  BillsInOrder'
<1>0. SessionStep
    BY NextSessionStep
<1>1. /\ billed \in [Sessions -> SUBSET Calls] /\ call \in [Calls -> CallRecord]
      /\ \A c \in Calls : call[c].sid \in Sessions
    BY DEF TypeOK, ServiceTypeOK, StoreTypeOK, CallRecord
\* A cost row that is there stays with its End, and the transcript with both.
<1>2. ASSUME NEW s \in Sessions, NEW c \in billed[s]
      PROVE  /\ c \in Calls /\ call'[c].pc # "idle" /\ call'[c].sid = s
             /\ transcript'[s] = call'[c].req.said /\ Closed(s)'
    <2>1. /\ c \in Calls /\ call[c].pc # "idle" /\ call[c].sid = s
          /\ transcript[s] = call[c].req.said /\ Closed(s)
        BY <1>1 DEF BillsInOrder
    <2>2. Closed(s)' /\ transcript'[s] = transcript[s]
        BY <1>0, <2>1, ClosedForGood
    <2>3. call'[c].pc # "idle" /\ call'[c].sid = call[c].sid /\ call'[c].req = call[c].req
        BY <2>1, TwoKinds, BackgroundKeeps, EndStaysWithItsSession
    <2> QED
        BY <2>1, <2>2, <2>3
<1>3. ASSUME NEW s \in Sessions, billed'[s] = billed[s]
      PROVE  /\ ~Closed(s)' => billed'[s] = {}
             /\ \A c \in billed'[s] : /\ call'[c].pc # "idle" /\ call'[c].sid = s
                                      /\ transcript'[s] = call'[c].req.said
                                      /\ \A d \in billed'[s] : d = c
    <2>1. Closed(s) => Closed(s)'
        BY <1>0, ClosedForGood
    <2>2. ~Closed(s) => billed[s] = {}
        BY DEF BillsInOrder
    <2>3. \A c \in billed[s] : \A d \in billed[s] : d = c
        BY DEF BillsInOrder
    <2> QED
        BY <1>2, <1>3, <2>1, <2>2, <2>3
<1>4. CASE billed' = billed
    BY <1>3, <1>4 DEF BillsInOrder
<1>5. CASE billed' # billed
    <2>1. PICK c \in Calls : EndEndSession(c) /\ ServiceNext
        BY <1>5, TwoKinds, BackgroundKeeps DEF ServiceNext, Create, Activate,
           CreateSessionWithTicket, MarkSessionActive, EndCall, EndStep, EndGetSession,
           EndListUtterances, EndHasFinished, EndEnqueueFinished, EndHasEval, EndEnqueueEval,
           EndWithoutEval, EndFails, EnqueueJob, storeVars, sessionVars
    <2>2. PICK s \in Sessions : s = call[c].sid
        BY <1>1
    <2>3. /\ EndSessionCloses(s)
          /\ status' = [status EXCEPT ![s] = terminalStatus(c)]
          /\ transcript' = [transcript EXCEPT ![s] = call[c].req.said]
          /\ billed' = [billed EXCEPT ![s] =
                          IF call[c].req.metered THEN @ \cup {c} ELSE @]
        BY <1>5, <2>1, <2>2 DEF EndEndSession, EndSession
    <2>4. /\ status'[s] \in {"ended", "abandoned"} /\ transcript'[s] = call[c].req.said
          /\ billed'[s] = billed[s] \/ billed'[s] = billed[s] \cup {c}
          /\ \A t \in Sessions : t # s => billed'[t] = billed[t]
        <3>1. status \in [Sessions -> Statuses \cup {"none"}]
              /\ transcript \in [Sessions -> SUBSET Utterances]
            BY DEF TypeOK, ServiceTypeOK, StoreTypeOK
        <3>2. terminalStatus(c) \in {"ended", "abandoned"}
            BY DEF terminalStatus
        <3>3. status'[s] \in {"ended", "abandoned"} /\ transcript'[s] = call[c].req.said
            BY <2>3, <3>1, <3>2
        <3>4. /\ billed'[s] = IF call[c].req.metered THEN billed[s] \cup {c} ELSE billed[s]
              /\ \A t \in Sessions : t # s => billed'[t] = billed[t]
            BY <1>1, <2>3
        <3> QED
            BY <3>3, <3>4
    <2>5. billed[s] = {}
        <3>1. ~Closed(s)
            BY <2>3 DEF EndSessionCloses, OpenStatuses, Closed
        <3> QED
            BY <3>1 DEF BillsInOrder
    <2>6. call'[c].pc # "idle" /\ call'[c].sid = s /\ call'[c].req = call[c].req
        BY <2>1, <2>2, EndStaysWithItsSession DEF EndEndSession
    <2>7. \A t \in Sessions : t # s =>
             /\ ~Closed(t)' => billed'[t] = {}
             /\ \A d \in billed'[t] : /\ call'[d].pc # "idle" /\ call'[d].sid = t
                                      /\ transcript'[t] = call'[d].req.said
                                      /\ \A e \in billed'[t] : e = d
        BY <1>3, <2>4
    <2>8. Closed(s)'
        BY <2>4 DEF Closed
    <2>9. \A d \in billed'[s] : d = c
        BY <2>4, <2>5
    <2>10. /\ ~Closed(s)' => billed'[s] = {}
           /\ \A d \in billed'[s] : /\ call'[d].pc # "idle" /\ call'[d].sid = s
                                    /\ transcript'[s] = call'[d].req.said
                                    /\ \A e \in billed'[s] : e = d
        BY <2>4, <2>6, <2>8, <2>9
    <2> QED
        BY <2>7, <2>10 DEF BillsInOrder
<1> QED
    BY <1>4, <1>5

LEMMA PollInOrderStep ==
    ASSUME TypeOK, TypeOK', PInv, PollInOrder, [Next]_pipelineVars
    PROVE  PollInOrder'
<1>0. SessionStep
    BY NextSessionStep
<1>1. poll \in PollRecord /\ poll.sid \in Sessions
    BY DEF TypeOK, PollRecord
<1>2. \A s \in Sessions : Spoken(s) => Spoken(s)'
    BY <1>0, ClosedForGood
<1>3. ASSUME NEW s \in Sessions, review'[s] # "none" PROVE Spoken(s)'
    <2>0. /\ status \in [Sessions -> Statuses \cup {"none"}]
          /\ review \in [Sessions -> ReviewSources \cup {"none"}]
        BY DEF TypeOK, ServiceTypeOK, StoreTypeOK
    <2>1. CASE review'[s] = review[s]
        BY <1>2, <1>3, <2>1 DEF PollInOrder
    <2>2. CASE review'[s] # review[s]
        <3>1. PICK t \in Sessions : \E source \in ReviewSources : Publishes(t, source)
            BY <1>0, <2>2 DEF SessionStep, Inserts, Activates, Closes
        <3>2. t = s
            BY <2>0, <2>2, <3>1 DEF Publishes
        <3>3. Spoken(s)
            BY <3>1, <3>2 DEF Publishes, Spoken, Closed
        <3> QED
            BY <1>2, <3>3
    <2> QED
        BY <2>1, <2>2
<1>4. \A s \in Sessions : Closed(s) => Closed(s)' /\ transcript'[s] = transcript[s]
    BY <1>0, ClosedForGood
<1>5. CASE poll' = poll
    <2>1. Closed(poll.sid) => Closed(poll.sid)' /\ transcript'[poll'.sid] = transcript[poll.sid]
        BY <1>1, <1>4, <1>5 DEF Closed
    <2> QED
        BY <1>3, <1>5, <2>1 DEF PollInOrder
<1>6. CASE PollStep
    <2>0. status' = status /\ transcript' = transcript
        BY <1>6 DEF PollStep, PollGetSession, PollListUtterances, PollHasFailed, storeVars
    <2>1. ASSUME NEW s \in Polled, PollGetSession(s)
          PROVE  /\ poll'.pc = "ListUtterances" => Closed(poll.sid)'
                 /\ poll'.answer # "empty"
        <3>1. poll'.sid = s /\ (poll'.pc = "ListUtterances" => status[s] = "ended")
            BY <2>1 DEF PollGetSession, OpenStatuses
        <3>2. poll'.answer # "empty"
            BY <2>1 DEF PollGetSession
        <3> QED
            BY <2>0, <3>1, <3>2 DEF Closed
    <2>2. CASE PollListUtterances
        <3>1. Closed(poll.sid)
            BY <2>2 DEF PollListUtterances, PollInOrder
        <3>2. CASE hasUserSpeech(transcript[poll.sid])
            <4>1. poll' = [poll EXCEPT !.pc = "HasFailed"]
                BY <2>2, <3>2 DEF PollListUtterances
            <4>2. poll'.pc = "HasFailed" /\ poll'.sid = poll.sid /\ poll'.answer = poll.answer
                BY <1>1, <4>1 DEF PollRecord
            <4> QED
                BY <1>3, <2>0, <3>1, <4>2 DEF PollInOrder, Closed
        <3>3. CASE ~hasUserSpeech(transcript[poll.sid])
            <4>1. poll' = [poll EXCEPT !.pc = "idle", !.answer = "empty"]
                BY <2>2, <3>3 DEF PollListUtterances, Answer
            <4>2. poll'.pc = "idle" /\ poll'.sid = poll.sid
                BY <1>1, <4>1 DEF PollRecord
            <4> QED
                BY <1>3, <2>0, <3>1, <3>3, <4>2 DEF PollInOrder, Closed
        <3> QED
            BY <3>2, <3>3
    <2>3. CASE PollHasFailed
        <3>1. PICK a \in {"failed", "pending"} : Answer(a)
            BY <2>3 DEF PollHasFailed
        <3>2. poll'.pc = "idle" /\ poll'.answer = a
            BY <1>1, <3>1 DEF Answer, PollRecord
        <3> QED
            BY <1>3, <3>2 DEF PollInOrder
    <2> QED
        BY <1>3, <1>6, <2>1, <2>2, <2>3 DEF PollStep, PollInOrder
<1>7. poll' = poll \/ PollStep
    BY DEF Next, WorkerStep, ClaimNextJob, RunGetSession, RunBuild, RunMarkReviewed, RunEvalList,
       RunScore, RunScoreDone, RunTimesOut, Complete, Fail, StoreFault, LostAnswer, Crash, Tick,
       pipelineVars
<1> QED
    BY <1>5, <1>6, <1>7

LEMMA ScoresStep ==
    ASSUME TypeOK, TypeOK', PInv, EndsInOrder, ScoresInOrder, [Next]_pipelineVars
    PROVE  ScoresInOrder'
<1>0. SessionStep
    BY NextSessionStep
<1>1. /\ \A j \in JobIds : jobs[j].sid \in Sessions
      /\ \A c \in Calls : call[c].sid \in Sessions
      /\ scored \in [Sessions -> SUBSET Utterances]
      /\ worker \in [Workers -> WorkerRecord]
      /\ \A w \in Workers : worker[w].job \in JobIds /\ worker[w] \in WorkerRecord
    BY WorkerTypes DEF TypeOK, ServiceTypeOK, StoreTypeOK, JobRow, CallRecord
<1>2. \A s \in Sessions : Closed(s) => Closed(s)' /\ transcript'[s] = transcript[s]
    BY <1>0, ClosedForGood
\* Jobs are for closed sessions.
<1>3. ASSUME NEW j \in JobIds, jobs'[j].status # "none" PROVE Closed(jobs[j].sid)'
    <2>1. CASE jobs[j].status # "none"
        <3>1. jobs'[j].sid = jobs[j].sid
            BY <2>1, RowsStay
        <3>2. Closed(jobs[j].sid)
            BY <2>1 DEF ScoresInOrder
        <3> QED
            BY <1>1, <1>2, <3>1, <3>2 DEF Closed
    <2>2. CASE jobs[j].status = "none"
        <3>1. ServiceNext
            BY <1>3, <2>2, TwoKinds, JobsKept DEF Background
        <3>2. PICK c \in Calls : EndEnqueueFinished(c) \/ EndEnqueueEval(c)
            BY <1>3, <2>2, <3>1 DEF ServiceNext, Create, Activate, CreateSessionWithTicket,
               MarkSessionActive, EndCall, EndStep, EndGetSession, EndListUtterances,
               EndEndSession, EndSession, EndHasFinished, EndHasEval, EndWithoutEval, EndFails,
               storeVars
        <3>3. Closed(call[c].sid)
            BY <3>2 DEF EndEnqueueFinished, EndEnqueueEval, PInv, QueuedSpoken, Spoken, EndsInOrder
        <3>4. \E type \in JobTypes : EnqueueJob(call[c].sid, type)
            BY <3>2 DEF EndEnqueueFinished, EndEnqueueEval, JobTypes
        <3>5. jobs'[j].sid = call[c].sid
            BY <1>1, <1>3, <2>2, <3>4, EnqueueMakes
        <3> QED
            BY <1>1, <1>2, <3>3, <3>5 DEF Closed
    <2> QED
        BY <2>1, <2>2
\* What a scoring worker holds.
<1>4. ASSUME NEW w \in Workers, worker[w].pc # "idle"
      PROVE  /\ sidOf(w) \in Sessions /\ Closed(sidOf(w))
             /\ jobs'[worker[w].job].sid = sidOf(w)
             /\ transcript'[sidOf(w)] = transcript[sidOf(w)]
    <2>1. jobs[worker[w].job].status # "none"
        BY <1>4 DEF PInv, WorkersInOrder, Busy, jobOf
    <2>2. Closed(sidOf(w)) /\ sidOf(w) \in Sessions
        BY <1>1, <2>1 DEF ScoresInOrder, sidOf, jobOf
    <2> QED
        BY <1>1, <1>2, <2>1, <2>2, RowsStay DEF sidOf, jobOf
<1>5. ASSUME NEW s \in Sessions
      PROVE  scored'[s] \subseteq transcript'[s] /\ (~Closed(s)' => scored'[s] = {})
    <2>1. CASE scored'[s] = scored[s]
        BY <1>2, <2>1 DEF ScoresInOrder
    <2>2. CASE scored'[s] # scored[s]
        <3>1. PICK w \in Workers : \E u \in Utterances : RunScore(w, u)
            BY <2>2 DEF Next, ServiceNext, Create, Activate, CreateSessionWithTicket,
               MarkSessionActive, EndCall, EndStep, EndGetSession, EndListUtterances, EndEndSession,
               EndSession, EndHasFinished, EndEnqueueFinished, EndHasEval, EndEnqueueEval,
               EndWithoutEval, EndFails, EnqueueJob, WorkerStep, ClaimNextJob, ClaimJobRow,
               RunGetSession, RunBuild, RunMarkReviewed, MarkSessionReviewed, RunEvalList,
               RunScoreDone, RunTimesOut, Complete, CompleteJob, Fail, FailJob, StoreFault,
               LostAnswer, Crash, PollStep, PollGetSession, PollListUtterances, PollHasFailed,
               Tick, pipelineVars, storeVars, sessionVars
        <3>2. PICK u \in Utterances : RunScore(w, u)
            BY <3>1
        <3>3. /\ worker[w].pc = "Score" /\ u \in worker[w].todo
              /\ scored' = [scored EXCEPT ![sidOf(w)] = @ \cup {u}]
            BY <3>2 DEF RunScore, SaveUtteranceEval
        <3>4. s = sidOf(w) /\ scored'[s] = scored[s] \cup {u}
            BY <1>1, <2>2, <3>3
        <3>5. Closed(s) /\ transcript'[s] = transcript[s]
            BY <1>4, <3>3, <3>4
        <3>6. u \in transcript[s] /\ scored[s] \subseteq transcript[s]
            BY <3>3, <3>4 DEF ScoresInOrder
        <3> QED
            BY <1>2, <3>4, <3>5, <3>6
    <2> QED
        BY <2>1, <2>2
<1>6. ASSUME NEW w \in Workers, worker'[w].pc = "Score"
      PROVE  worker'[w].todo \subseteq transcript'[sidOf(w)']
    <2>1. CASE /\ worker[w].pc = "Score" /\ worker'[w].job = worker[w].job
               /\ worker'[w].todo \subseteq worker[w].todo
        <3>1. sidOf(w)' = sidOf(w) /\ transcript'[sidOf(w)] = transcript[sidOf(w)]
            BY <1>4, <2>1 DEF sidOf, jobOf
        <3> QED
            BY <2>1, <3>1 DEF ScoresInOrder
    <2>2. CASE RunEvalList(w)
        <3>1. /\ worker[w].pc = "ListUtterances" /\ worker'[w].job = worker[w].job
              /\ worker'[w].todo = transcript[sidOf(w)] \ scored[sidOf(w)]
            BY <1>1, <2>2 DEF RunEvalList, WorkerRecord
        <3>2. sidOf(w)' = sidOf(w) /\ transcript'[sidOf(w)] = transcript[sidOf(w)]
            BY <1>4, <3>1 DEF sidOf, jobOf
        <3> QED
            BY <3>1, <3>2
    <2>3. ASSUME NEW pc \in {"Complete", "Build", "Fail"}, WGoto(w, pc) PROVE FALSE
        <3>1. worker'[w].pc = pc
            BY <1>1, <2>3 DEF WGoto, WorkerRecord
        <3> QED
            BY <1>6, <3>1
    <2>4. ~WIdle(w)
        BY <1>1, <1>6 DEF WIdle, IdleWorker
    <2>5. \A j \in JobIds : ~ClaimNextJob(w, j)
        BY <1>1, <1>6 DEF ClaimNextJob, IdleWorker
    <2>6. \A source \in ReviewSources : ~RunBuild(w, source)
        BY <1>1, <1>6 DEF RunBuild, WorkerRecord
    <2>7. CASE \E u \in Utterances : RunScore(w, u)
        BY <1>1, <2>1, <2>7 DEF RunScore, WorkerRecord
    <2>8. CASE WorkerStep(w)
        BY <2>2, <2>3, <2>4, <2>5, <2>6, <2>7, <2>8 DEF WorkerStep, RunGetSession,
           RunMarkReviewed, RunScoreDone, RunTimesOut, Complete, Fail
    <2>9. ~(StoreFault(w) \/ LostAnswer(w) \/ Crash(w))
        BY <2>3, <2>4 DEF StoreFault, LostAnswer, Crash
    <2>10. CASE worker'[w] = worker[w]
        BY <1>6, <2>1, <2>10
    <2>11. ASSUME NEW v \in Workers, v # w,
                  WorkerStep(v) \/ StoreFault(v) \/ LostAnswer(v) \/ Crash(v)
           PROVE  worker'[w] = worker[w]
        BY <1>1, <2>11 DEF WorkerStep, ClaimNextJob, RunGetSession, RunBuild, RunMarkReviewed,
           RunEvalList, RunScore, RunScoreDone, RunTimesOut, Complete, Fail, StoreFault, LostAnswer,
           Crash, WGoto, WIdle
    <2>12. CASE Tick
        <3>1. /\ worker'[w].pc = worker[w].pc /\ worker'[w].job = worker[w].job
              /\ worker'[w].todo = worker[w].todo
            BY <1>1, <2>12 DEF Tick, WorkerRecord
        <3> QED
            BY <1>6, <2>1, <3>1
    <2>13. PollStep \/ UNCHANGED pipelineVars => worker' = worker
        BY DEF PollStep, PollGetSession, PollListUtterances, PollHasFailed, pipelineVars
    <2> QED
        BY <2>8, <2>9, <2>10, <2>11, <2>12, <2>13, TwoKinds DEF Background
<1> QED
    BY <1>3, <1>5, <1>6 DEF ScoresInOrder

LEMMA InitTInv == Init => TInv
BY DEF Init, ServiceInit, StoreInit, NoJob, IdleCall, IdleWorker, TInv, EndsInOrder,
   BillsInOrder, PollInOrder, ScoresInOrder, Closed

LEMMA TInvHolds == Spec => []TInv
<1>1. TypeOK /\ TypeOK' /\ PInv /\ TInv /\ [Next]_pipelineVars => TInv'
    BY EndsStep, BillsStep, PollInOrderStep, ScoresStep DEF TInv
<1> QED
    BY <1>1, InitTInv, TypeCorrect, PInvHolds, PTL DEF Spec

\* A session has at most one cost row, that of the End whose transcript it
\* keeps, however many Ends race, repeat or are told an error (EndSession).
THEOREM ChargesAreKept == Spec => []ChargedForWhatIsKept
<1>1. TypeOK /\ TInv => ChargedForWhatIsKept
    <2> SUFFICES ASSUME TypeOK, TInv, NEW s \in Sessions
                 PROVE  /\ Cardinality(billed[s]) <= 1
                        /\ \A c \in billed[s] : call[c].sid = s /\ transcript[s] = call[c].req.said
        BY DEF ChargedForWhatIsKept
    <2>1. \A c \in billed[s] : /\ call[c].sid = s /\ transcript[s] = call[c].req.said
                               /\ \A d \in billed[s] : d = c
        BY DEF TInv, BillsInOrder
    <2>2. CASE billed[s] = {}
        BY <2>2, FS_EmptySet
    <2>3. CASE billed[s] # {}
        <3>1. PICK c \in billed[s] : billed[s] = {c}
            BY <2>1, <2>3
        <3> QED
            <4>1. Cardinality({c}) = 1
                BY FS_Singleton
            <4> QED
                BY <2>1, <3>1, <4>1
    <2> QED
        BY <2>1, <2>2, <2>3
<1> QED
    BY <1>1, TypeCorrect, TInvHolds, PTL

\* A client that GetReview has told "empty" never misses a review: none is
\* written for that session afterwards.
THEOREM EmptyStaysEmpty == Spec => []EmptyIsFinal
<1>1. TypeOK /\ TInv => EmptyIsFinal
    <2> SUFFICES ASSUME TypeOK, TInv, poll.answer = "empty", review[poll.sid] # "none"
                 PROVE  FALSE
        BY DEF EmptyIsFinal
    <2>1. poll.sid \in Sessions
        BY DEF TypeOK, PollRecord
    <2> QED
        BY <2>1 DEF TInv, PollInOrder, Spoken
<1> QED
    BY <1>1, TypeCorrect, TInvHolds, PTL

\* An End that answered without review_skipped is backed by a review or by a
\* job that will make one, whichever of its own steps were skipped because
\* another End had taken them (End, ensureSessionFinishedEnqueued).
THEOREM OkIsQueued == Spec => []OkMeansQueued
<1>1. TInv => OkMeansQueued
    BY DEF TInv, EndsInOrder, OkMeansQueued, HasReviewJob
<1> QED
    BY <1>1, TInvHolds, PTL

\* Scores are for utterances of the stored transcript, although a worker reads
\* the transcript once and saves score by score, beside workers that took its
\* lease over (RunEvalJob).
THEOREM ScoresAreWithin == Spec => []ScoresWithinTranscript
<1>1. TInv => ScoresWithinTranscript
    BY DEF TInv, ScoresInOrder, ScoresWithinTranscript
<1> QED
    BY <1>1, TInvHolds, PTL

=============================================================================
