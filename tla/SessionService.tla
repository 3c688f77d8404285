--------------------------- MODULE SessionService ---------------------------
(***************************************************************************)
(* The session lifecycle of the app-server (internal/session/service.go):  *)
(* Create, Activate and End.                                               *)
(*                                                                         *)
(* End is the only one that makes several store calls, and the gateway may *)
(* have two of them in flight for one session: session.end times out after *)
(* 5 s, the connection teardown then sends another with its own reason.    *)
(* Each End is a call with a program counter; every store call is a step,  *)
(* and any of them may fail or be the last thing the process does.         *)
(***************************************************************************)
EXTENDS SessionStore

CONSTANT Requests   \* the End requests the gateway may send

Reasons == {"user_ended", "abandoned"}

ASSUME ServiceAssumption ==
    /\ Requests # {}
    /\ Requests \subseteq [reason : Reasons, said : SUBSET Utterances, metered : BOOLEAN]

VARIABLE call

serviceVars == <<storeVars, call>>

\* Where an End is: the store call it makes next.
CallPCs == {"idle", "GetSession", "ListUtterances", "EndSession",
            "HasFinished", "EnqueueFinished", "HasEval", "EnqueueEval", "done"}
Replies == {"none", "ok", "skipped", "conflict", "error"}

CallRecord == [pc : CallPCs, sid : Sessions, req : Requests,
               seen : Statuses \cup {"none"}, reply : Replies]

IdleCall == [pc |-> "idle", sid |-> CHOOSE s \in Sessions : TRUE,
             req |-> CHOOSE r \in Requests : TRUE, seen |-> "none", reply |-> "none"]

ServiceTypeOK == StoreTypeOK /\ call \in [Calls -> CallRecord]

ServiceInit == StoreInit /\ call = [c \in Calls |-> IdleCall]

Goto(c, pc) == call' = [call EXCEPT ![c].pc = pc]
Reply(c, reply) ==
    call' = [call EXCEPT ![c] = [@ EXCEPT !.pc = "done", !.seen = "none", !.reply = reply]]

terminalStatus(c) == IF call[c].req.reason = "abandoned" THEN "abandoned" ELSE "ended"

-----------------------------------------------------------------------------
(* Create and Activate: one store call each *)

Create(s) == CreateSessionWithTicket(s) /\ UNCHANGED call

Activate(s) == MarkSessionActive(s) /\ UNCHANGED call

-----------------------------------------------------------------------------
(* End *)

EndCall(c, s, r) ==
    /\ call[c].pc = "idle"
    /\ call' = [call EXCEPT ![c] = [@ EXCEPT !.pc = "GetSession", !.sid = s, !.req = r]]
    /\ UNCHANGED storeVars

EndGetSession(c) ==
    LET st == status[call[c].sid] IN
    /\ call[c].pc = "GetSession"
    /\ st # "none"
    /\ call' = [call EXCEPT ![c] =
                   [@ EXCEPT !.pc = IF st \in OpenStatuses THEN "EndSession"
                                    ELSE "ListUtterances",
                             !.seen = st]]
    /\ UNCHANGED storeVars

\* The session was closed before this End looked.  Only for an ended one does
\* End go on, to make up for an earlier End that died before its enqueue.
EndListUtterances(c) ==
    /\ call[c].pc = "ListUtterances"
    /\ \/ call[c].seen = "abandoned" /\ Reply(c, "skipped")
       \/ call[c].seen = "reviewed" /\ Reply(c, "ok")
       \/ /\ call[c].seen = "ended"
          /\ IF hasUserSpeech(transcript[call[c].sid])
             THEN Goto(c, "HasFinished")
             ELSE Reply(c, "skipped")
    /\ UNCHANGED storeVars

\* The session looked open.  Whether this End closes it is decided inside the
\* transaction; what happens next is decided by this request's own reason and
\* by the transcript the transaction returned.
EndEndSession(c) ==
    LET s == call[c].sid
        r == call[c].req
    IN
    /\ call[c].pc = "EndSession"
    /\ EndSession(s, c, terminalStatus(c), r.said, r.metered)
    /\ \/ Reply(c, "error")   \* the commit's answer was lost
       \/ EndSessionConflicts(s) /\ Reply(c, "conflict")
       \/ /\ ~EndSessionConflicts(s)
          /\ IF r.reason # "abandoned" /\ hasUserSpeech(EndSessionSaved(s, r.said))
             THEN Goto(c, "HasFinished")
             ELSE Reply(c, "skipped")

ActiveOrDone == {"pending", "processing", "done"}

\* ensureSessionFinishedEnqueued: a look, then an insert.
EndHasFinished(c) ==
    /\ call[c].pc = "HasFinished"
    /\ Goto(c, IF HasSessionJob(call[c].sid, "session.finished", ActiveOrDone)
               THEN "HasEval" ELSE "EnqueueFinished")
    /\ UNCHANGED storeVars

EndEnqueueFinished(c) ==
    /\ call[c].pc = "EnqueueFinished"
    /\ EnqueueJob(call[c].sid, "session.finished")
    /\ Goto(c, "HasEval")

\* EnqueueEval: the same look and insert for the scoring job.
EndHasEval(c) ==
    /\ call[c].pc = "HasEval"
    /\ IF HasSessionJob(call[c].sid, "session.eval", ActiveOrDone)
       THEN Reply(c, "ok") ELSE Goto(c, "EnqueueEval")
    /\ UNCHANGED storeVars

EndEnqueueEval(c) ==
    /\ call[c].pc = "EnqueueEval"
    /\ EnqueueJob(call[c].sid, "session.eval")
    /\ Reply(c, "ok")

\* A failed EnqueueEval is only logged, and a server without an evaluator
\* never tries: the reply is the same.
EndWithoutEval(c) ==
    /\ call[c].pc \in {"HasEval", "EnqueueEval"}
    /\ Reply(c, "ok")
    /\ UNCHANGED storeVars

\* Mutant: a failed enqueue of the review is only logged, like the scoring one.
EndFailsQuietly(c) ==
    /\ call[c].pc \notin {"idle", "done"}
    /\ Reply(c, IF call[c].pc = "EnqueueFinished" THEN "ok" ELSE "error")
    /\ UNCHANGED storeVars

\* Any other store error, a rejected transcript, a session that does not
\* exist, or the death of the app-server: the caller sees an error.
EndFails(c) ==
    /\ call[c].pc \notin {"idle", "done"}
    /\ Reply(c, "error")
    /\ UNCHANGED storeVars

EndStep(c) ==
    \/ EndGetSession(c)
    \/ EndListUtterances(c)
    \/ EndEndSession(c)
    \/ EndHasFinished(c)
    \/ EndEnqueueFinished(c)
    \/ EndHasEval(c)
    \/ EndEnqueueEval(c)
    \/ EndWithoutEval(c)
    \/ EndFails(c)

-----------------------------------------------------------------------------
ServiceNext ==
    \/ \E s \in Sessions : Create(s) \/ Activate(s)
    \/ \E c \in Calls, s \in Sessions, r \in Requests : EndCall(c, s, r)
    \/ \E c \in Calls : EndStep(c)

ServiceSpec == ServiceInit /\ [][ServiceNext]_serviceVars
=============================================================================
