--------------------------- MODULE PrivacyCascade ---------------------------
(***************************************************************************)
(* Deleting a user's data and giving it back (internal/account,            *)
(* PrivacyService).  DELETE /account/data hides the rows of one entity     *)
(* after the other, removes the ones that are not kept, marks the account  *)
(* deleted and leaves tombstones; when a call fails it restores, in        *)
(* reverse, the entities hidden so far.  Support may undelete the account  *)
(* within a window.                                                        *)
(*                                                                         *)
(* There is no transaction around any of this: every statement is a step,  *)
(* other requests come in between, and a statement may fail, take effect   *)
(* while its answer is lost, or be the last thing the server does.  All    *)
(* statements name one user, so one user is enough.                        *)
(***************************************************************************)
EXTENDS Naturals, Sequences, SequencesExt

CONSTANTS
    Wipers,     \* DataWipers in order: the kinds of rows each one hides, in order
    Hard,       \* kinds a HardDeleter removes, in order
    Calls,      \* requests that may run at the same time
    Window,     \* UndeleteWindow, in ticks
    MaxFaults,  \* bound on failed statements, lost answers and crashes
    MaxCalls    \* bound on requests

SoftKinds == UNION {ToSet(Wipers[i]) : i \in DOMAIN Wipers}
HardKinds == ToSet(Hard)
Kinds == SoftKinds \union HardKinds

ASSUME CascadeAssumption ==
    /\ Wipers \in Seq(Seq(SoftKinds) \ {<<>>}) /\ Wipers # <<>>
    /\ Hard \in Seq(HardKinds) /\ Hard # <<>>
    /\ SoftKinds \intersect HardKinds = {}
    /\ Window \in Nat /\ MaxFaults \in Nat /\ MaxCalls \in Nat

VARIABLES
    user,    \* status of the account and time since its deletion
    token,   \* a refresh token of the user is stored
    rows,    \* what became of the user's rows, by kind
    tombs,   \* entities with a tombstone
    call,    \* the requests
    faults,
    calls    \* requests so far

vars == <<user, token, rows, tombs, call, faults, calls>>

-----------------------------------------------------------------------------
RowStates == {"none", "live", "hidden", "gone"}
Pcs == {"idle", "get", "wipe", "hard", "mark", "tokens", "tombs", "undo",
        "restore", "clear", "untomb", "audit"}
Replies == {"none", "ok", "already", "refused", "error"}

\* at: the wiper at work; stmt: its statement; hit: kinds with rows affected;
\* alone: nothing else happened to the user's data; bad: faults this call met.
Call == [op : {"none", "delete", "undelete"}, pc : Pcs, at : 0 .. Len(Wipers) + 1,
         stmt : Nat \ {0}, hit : SUBSET Kinds, failed : 0 .. Len(Wipers) + 1,
         alone : BOOLEAN, bad : 0 .. MaxFaults, reply : Replies]
NoCall == [op |-> "none", pc |-> "idle", at |-> 0, stmt |-> 1, hit |-> {}, failed |-> 0,
           alone |-> FALSE, bad |-> 0, reply |-> "none"]

TypeOK ==
    /\ user \in [status : {"active", "deleted"}, age : 0 .. Window + 1]
    /\ token \in BOOLEAN
    /\ rows \in [Kinds -> RowStates]
    /\ \A k \in SoftKinds : rows[k] # "gone"
    /\ tombs \in SUBSET (Kinds \union {"users"})
    /\ call \in [Calls -> Call]
    /\ faults \in 0 .. MaxFaults /\ calls \in 0 .. MaxCalls

Init ==
    /\ user = [status |-> "active", age |-> 0]
    /\ token = TRUE
    /\ rows = [k \in Kinds |-> "none"]
    /\ tombs = {}
    /\ call = [c \in Calls |-> NoCall]
    /\ faults = 0 /\ calls = 0

Busy(c) == call[c].pc # "idle"

-----------------------------------------------------------------------------
(* Stores: what each statement does to the rows of its kind *)

SoftDelete(k) == [rows EXCEPT ![k] = IF @ = "live" THEN "hidden" ELSE @]
Restore(k) == [rows EXCEPT ![k] = IF @ = "hidden" THEN "live" ELSE @]
HardDelete(k) == [rows EXCEPT ![k] = IF @ = "none" THEN @ ELSE "gone"]

Statement(c) == Wipers[call[c].at][call[c].stmt]
LastStatement(c) == call[c].stmt = Len(Wipers[call[c].at])

MarkDeleted == user' = IF user.status = "active" THEN [status |-> "deleted", age |-> 0] ELSE user
ClearDeleted == user' = [status |-> "active", age |-> 0]

\* The rest of the user's traffic: a row is written, or one is thrown away.
Disturbed == [c \in Calls |-> [call[c] EXCEPT !.alone = FALSE]]
Answered(reply) == [NoCall EXCEPT !.reply = reply]

\* Requests, review jobs and refines write rows; a job does so whatever the account's status.
WriteRow(k) ==
    /\ rows[k] \in {"none", "gone"}
    /\ rows' = [rows EXCEPT ![k] = "live"]
    /\ call' = Disturbed
    /\ UNCHANGED <<user, token, tombs, faults, calls>>

\* IssueGuest, LoginEmail and Refresh store a token.
SignIn ==
    /\ user.status = "active" /\ ~token
    /\ token' = TRUE
    /\ UNCHANGED <<user, rows, tombs, call, faults, calls>>

-----------------------------------------------------------------------------
(* Requests *)

Begin(c, op) ==
    /\ ~Busy(c) /\ calls < MaxCalls
    /\ calls' = calls + 1
    /\ call' = [d \in Calls |->
                  IF d = c
                  THEN [NoCall EXCEPT !.op = op, !.pc = "get", !.alone = \A e \in Calls \ {c} : ~Busy(e)]
                  ELSE Disturbed[d]]
    /\ UNCHANGED <<user, token, rows, tombs, faults>>

\* Authenticate has seen an active account before the handler runs.
DeleteCall(c) == user.status = "active" /\ Begin(c, "delete")
UndeleteCall(c) == Begin(c, "undelete")

Goto(c, pc) == call' = [call EXCEPT ![c].pc = pc]
Answer(c, reply) == call' = [call EXCEPT ![c] = Answered(reply)]

DeleteGetUser(c) ==
    /\ call[c].op = "delete" /\ call[c].pc = "get"
    /\ IF user.status = "deleted" THEN Answer(c, "already")
       ELSE call' = [call EXCEPT ![c].pc = "wipe", ![c].at = 1]
    /\ UNCHANGED <<user, token, rows, tombs, faults, calls>>

\* Mutant: off by one, the last wiper is skipped.
NextStatementShort(c, atEnd) ==
    IF ~LastStatement(c) THEN [call[c] EXCEPT !.stmt = @ + 1]
    ELSE IF call[c].at + 1 < Len(Wipers) THEN [call[c] EXCEPT !.at = @ + 1, !.stmt = 1]
    ELSE [call[c] EXCEPT !.pc = atEnd, !.at = @ + 1, !.stmt = 1]

\* Where the call goes after a statement of the wiper at work.
NextStatement(c, atEnd) ==
    IF ~LastStatement(c) THEN [call[c] EXCEPT !.stmt = @ + 1]
    ELSE IF call[c].at < Len(Wipers) THEN [call[c] EXCEPT !.at = @ + 1, !.stmt = 1]
    ELSE [call[c] EXCEPT !.pc = atEnd, !.at = @ + 1, !.stmt = 1]

Wipe(c) ==
    LET k == Statement(c) IN
    /\ call[c].pc = "wipe"
    /\ rows' = SoftDelete(k)
    /\ call' = [call EXCEPT ![c] = [NextStatement(c, "hard") EXCEPT
                                      !.hit = IF rows[k] = "live" THEN @ \union {k} ELSE @]]
    /\ UNCHANGED <<user, token, tombs, faults, calls>>

Delete(c) ==
    LET k == Hard[call[c].stmt] IN
    /\ call[c].pc = "hard"
    /\ rows' = HardDelete(k)
    /\ call' = [call EXCEPT ![c].pc = IF @ = "hard" /\ call[c].stmt < Len(Hard) THEN "hard" ELSE "mark",
                            ![c].stmt = IF @ < Len(Hard) THEN @ + 1 ELSE 1,
                            ![c].hit = IF rows[k] = "live" THEN @ \union {k} ELSE @]
    /\ UNCHANGED <<user, token, tombs, faults, calls>>

MarkUserDeleted(c) ==
    /\ call[c].pc = "mark"
    /\ MarkDeleted
    /\ Goto(c, "tokens")
    /\ UNCHANGED <<token, rows, tombs, faults, calls>>

DeleteRefreshTokens(c) ==
    /\ call[c].pc = "tokens"
    /\ token' = FALSE
    /\ Goto(c, "tombs")
    /\ UNCHANGED <<user, rows, tombs, faults, calls>>

InsertTombstones(c) ==
    /\ call[c].pc = "tombs"
    /\ tombs' = tombs \union call[c].hit \union {"users"}
    /\ Answer(c, "ok")
    /\ UNCHANGED <<user, token, rows, faults, calls>>

\* Mutant: the compensation forgets the wiper that finished last.
CompensateEarlier(c, failed) ==
    IF failed < 3 THEN Answered("error")
    ELSE [call[c] EXCEPT !.pc = "undo", !.at = failed - 2, !.stmt = 1, !.failed = failed, !.bad = @ + 1]

\* restoreWipers runs over the wipers that finished, the last one first.
Compensate(c, failed) ==
    IF failed < 2 THEN Answered("error")
    ELSE [call[c] EXCEPT !.pc = "undo", !.at = failed - 1, !.stmt = 1, !.failed = failed, !.bad = @ + 1]

\* The wiper's restore is over: on to the one before it.
Undone(c) ==
    IF call[c].at = 1 THEN Answered("error") ELSE [call[c] EXCEPT !.at = @ - 1, !.stmt = 1]

Undo(c) ==
    /\ call[c].pc = "undo"
    /\ rows' = Restore(Statement(c))
    /\ call' = [call EXCEPT ![c] = IF LastStatement(c) THEN Undone(c) ELSE [call[c] EXCEPT !.stmt = @ + 1]]
    /\ UNCHANGED <<user, token, tombs, faults, calls>>

-----------------------------------------------------------------------------
(* UndeleteUser *)

UndeleteGetUser(c) ==
    /\ call[c].op = "undelete" /\ call[c].pc = "get"
    /\ IF user.status = "active" \/ user.age > Window THEN Answer(c, "refused")
       ELSE call' = [call EXCEPT ![c].pc = "restore", ![c].at = 1]
    /\ UNCHANGED <<user, token, rows, tombs, faults, calls>>

RestoreRows(c) ==
    /\ call[c].pc = "restore"
    /\ rows' = Restore(Statement(c))
    /\ call' = [call EXCEPT ![c] = NextStatement(c, "clear")]
    /\ UNCHANGED <<user, token, tombs, faults, calls>>

ClearUserDeleted(c) ==
    /\ call[c].pc = "clear"
    /\ ClearDeleted
    /\ Goto(c, "untomb")
    /\ UNCHANGED <<token, rows, tombs, faults, calls>>

\* Mutant: only the account's own tombstone is taken away.
DeleteTombstonesOfUser(c) ==
    /\ call[c].pc = "untomb"
    /\ tombs' = tombs \ {"users"}
    /\ Goto(c, "audit")
    /\ UNCHANGED <<user, token, rows, faults, calls>>

DeleteTombstones(c) ==
    /\ call[c].pc = "untomb"
    /\ tombs' = {}
    /\ Goto(c, "audit")
    /\ UNCHANGED <<user, token, rows, faults, calls>>

InsertAudit(c) ==
    /\ call[c].pc = "audit"
    /\ Answer(c, "ok")
    /\ UNCHANGED <<user, token, rows, tombs, faults, calls>>

CallStep(c) ==
    \/ DeleteGetUser(c) \/ Wipe(c) \/ Delete(c) \/ MarkUserDeleted(c)
    \/ DeleteRefreshTokens(c) \/ InsertTombstones(c) \/ Undo(c)
    \/ UndeleteGetUser(c) \/ RestoreRows(c) \/ ClearUserDeleted(c) \/ DeleteTombstones(c)
    \/ InsertAudit(c)

-----------------------------------------------------------------------------
(* Faults *)

Fault == faults < MaxFaults /\ faults' = faults + 1 /\ UNCHANGED calls

\* The error path of the statement at hand.
ErrorPath(c) ==
    CASE call[c].pc \in {"wipe", "hard", "mark"} -> Compensate(c, call[c].at)
      [] call[c].pc = "tokens" -> [call[c] EXCEPT !.pc = "tombs"]
      [] call[c].pc = "undo" /\ call[c].at > 1 -> [Undone(c) EXCEPT !.bad = @ + 1]
      [] OTHER -> Answered("error")

\* The statement fails and changes nothing.
StatementFails(c) ==
    /\ Fault
    /\ call[c].pc \notin {"idle", "tombs"}
    /\ call' = [call EXCEPT ![c] = ErrorPath(c)]
    /\ UNCHANGED <<user, token, rows, tombs>>

\* The statement takes effect and its answer is lost.
AnswerLost(c) ==
    /\ Fault
    /\ \/ call[c].pc = "wipe" /\ rows' = SoftDelete(Statement(c)) /\ UNCHANGED <<user, tombs>>
       \/ call[c].pc = "hard" /\ rows' = HardDelete(Hard[call[c].stmt]) /\ UNCHANGED <<user, tombs>>
       \/ call[c].pc = "mark" /\ MarkDeleted /\ UNCHANGED <<rows, tombs>>
       \/ call[c].pc \in {"undo", "restore"} /\ rows' = Restore(Statement(c))
          /\ UNCHANGED <<user, tombs>>
       \/ call[c].pc = "clear" /\ ClearDeleted /\ UNCHANGED <<rows, tombs>>
       \/ call[c].pc = "untomb" /\ tombs' = {} /\ UNCHANGED <<user, rows>>
    /\ call' = [call EXCEPT ![c] = ErrorPath(c)]
    /\ UNCHANGED token

\* Some tombstones are not written, which is only logged.
TombstonesLost(c) ==
    /\ Fault
    /\ call[c].pc = "tombs"
    /\ \E kept \in SUBSET (call[c].hit \union {"users"}) : tombs' = tombs \union kept
    /\ Answer(c, "ok")
    /\ UNCHANGED <<user, token, rows>>

\* The server dies in the middle of the request.
Dies(c) ==
    /\ Fault
    /\ Busy(c)
    /\ call' = [call EXCEPT ![c] = NoCall]
    /\ UNCHANGED <<user, token, rows, tombs>>

Tick ==
    /\ user.status = "deleted" /\ user.age <= Window
    /\ user' = [user EXCEPT !.age = @ + 1]
    /\ UNCHANGED <<token, rows, tombs, call, faults, calls>>

Next ==
    \/ \E k \in Kinds : WriteRow(k)
    \/ SignIn
    \/ \E c \in Calls : \/ DeleteCall(c) \/ UndeleteCall(c) \/ CallStep(c)
                        \/ StatementFails(c) \/ AnswerLost(c) \/ TombstonesLost(c) \/ Dies(c)
    \/ Tick

Spec == Init /\ [][Next]_vars

-----------------------------------------------------------------------------
\* Call c answers in this step, and nobody else touched the data meanwhile.
Answers(c, op, reply) ==
    /\ Busy(c) /\ call[c].op = op /\ call[c].alone
    /\ call'[c].pc = "idle" /\ call'[c].reply = reply

\* Faults that call c has met when this step is over.
FaultsOf(c) == call[c].bad + (faults' - faults)

(* A deletion that is answered with success has left nothing of the user's *)
(* in sight, whatever earlier deletions, restores, failures and crashes    *)
(* had left half done, provided nothing ran beside it (DeleteAllData).     *)
DeletedIsOutOfSight ==
    [][\A c \in Calls : Answers(c, "delete", "ok") =>
         /\ \A k \in Kinds : rows'[k] # "live"
         /\ user'.status = "deleted"]_vars

(* An undelete that is answered with success has brought everything back   *)
(* that deletions keep, and no tombstone announces a purge any more,       *)
(* whatever was left half done before (UndeleteUser).                      *)
UndeletedIsBack ==
    [][\A c \in Calls : Answers(c, "undelete", "ok") =>
         /\ \A k \in SoftKinds : rows'[k] # "hidden"
         /\ user'.status = "active" /\ tombs' = {}]_vars

(* A deletion that fails once has given back all that the wipers before    *)
(* the failure took, in whichever step it failed (restoreWipers).          *)
FailureIsCompensated ==
    [][\A c \in Calls :
         (Answers(c, "delete", "error") /\ call[c].pc = "undo" /\ FaultsOf(c) = 1) =>
         \A i \in 1 .. call[c].failed - 1 :
             \A k \in ToSet(Wipers[i]) : rows'[k] # "hidden"]_vars

-----------------------------------------------------------------------------
(* TestPrivacyService_WiperFailureRestores: after a wipe that failed,      *)
(* "block should remain".  TLC refutes it: the wiper of the corpus runs    *)
(* two statements, and when the second fails the first is not undone,      *)
(* because the wiper itself never finished.                                *)
FailedDeleteLeavesAll ==
    [][\A c \in Calls : (Answers(c, "delete", "error") /\ FaultsOf(c) = 1) =>
         \A k \in call[c].hit \intersect SoftKinds : rows'[k] # "hidden"]_vars

(* DeleteAllData: "A second call with the same confirmation is idempotent."*)
(* TLC refutes it for calls that overlap: when one of them fails, its      *)
(* compensation restores the rows of an account the other has deleted.     *)
DeletedStaysHidden ==
    [][\A k \in SoftKinds :
         user.status = "deleted" /\ rows[k] = "hidden" /\ rows'[k] = "live" =>
         \E c \in Calls : call[c].op = "undelete" /\ Busy(c)]_vars
=============================================================================
