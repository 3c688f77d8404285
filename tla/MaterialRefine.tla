--------------------------- MODULE MaterialRefine ---------------------------
(***************************************************************************)
(* The refine of pasted materials (internal/materials).  POST /materials   *)
(* inserts a queued row and starts a goroutine that claims the row, asks   *)
(* the model for phrase blocks, saves them and settles the row; a sweeper  *)
(* in the worker's loop takes back rows whose lease ran out.               *)
(*                                                                         *)
(* Every store call is a step.  A call may fail, take effect while its     *)
(* answer is lost, or be the last thing the process does: each of these is *)
(* a fault, and MaxFaults bounds them.  A tick is the 40 s a refine may    *)
(* take.                                                                   *)
(***************************************************************************)
EXTENDS Naturals, FiniteSets, Functions

CONSTANTS
    Materials,          \* materials of one user
    Refiners,           \* goroutines that may run at the same time
    MaxRefineAttempts,  \* the initial try and the retries
    Lease,              \* DefaultRefineLease, in ticks
    JobTimeout,         \* refineJobTimeout, in ticks
    MaxFaults           \* bound on failed calls, lost answers and crashes

ASSUME RefineAssumption ==
    /\ MaxRefineAttempts \in Nat \ {0}
    /\ Lease \in Nat /\ JobTimeout \in Nat \ {0}
    /\ JobTimeout < Lease
    /\ MaxFaults \in Nat
    /\ IsFiniteSet(Materials) /\ IsFiniteSet(Refiners)

VARIABLES
    row,     \* the materials table
    blocks,  \* how many times blocks of a material were saved
    job,     \* the refine goroutines
    faults   \* faults so far

vars == <<row, blocks, job, faults>>

-----------------------------------------------------------------------------
Statuses == {"absent", "queued", "processing", "ready", "failed"}
Codes == {"none", "llm_timeout", "parse_error", "db_error", "no_chunks_extracted",
          "lease_expired"}

Row == [status : Statuses, attempts : 0 .. MaxRefineAttempts, held : 0 .. Lease,
        code : Codes, count : 0 .. 1, deleted : BOOLEAN]
NoRow == [status |-> "absent", attempts |-> 0, held |-> 0, code |-> "none", count |-> 0,
          deleted |-> FALSE]

Job == [pc : {"idle", "get", "claim", "call", "save", "ready", "fail"},
        material : Materials, age : 0 .. JobTimeout, code : Codes, count : 0 .. 1]

Settled(m) == row[m].status \in {"ready", "failed"}
Idle(g) == job[g].pc = "idle"
Expired(g) == job[g].age >= JobTimeout

TypeOK ==
    /\ row \in [Materials -> Row]
    /\ blocks \in [Materials -> Nat]
    /\ job \in [Refiners -> Job]
    /\ faults \in 0 .. MaxFaults

Init ==
    /\ row = [m \in Materials |-> NoRow]
    /\ blocks = [m \in Materials |-> 0]
    /\ job \in [Refiners -> [pc : {"idle"}, material : Materials, age : {0}, code : {"none"},
                           count : {0}]]
    /\ faults = 0

-----------------------------------------------------------------------------
(* Store operations: each is one statement or one transaction. *)

InsertMaterial(m) == row' = [row EXCEPT ![m] = [NoRow EXCEPT !.status = "queued"]]

CanClaim(m) == row[m].status = "queued"
MarkProcessing(m) ==
    row' = [row EXCEPT ![m].status = "processing", ![m].attempts = @ + 1, ![m].held = 0]

\* MarkRefined and MarkRefineFailed: a row that is no longer processing is left alone.
Settle(m, status, code, n) ==
    row' = IF row[m].status = "processing"
           THEN [row EXCEPT ![m].status = status, ![m].code = code, ![m].held = 0, ![m].count = n]
           ELSE row

\* No save of a material's blocks finds an earlier one: they have no source session.
SaveBlocks(m, n) == blocks' = [blocks EXCEPT ![m] = @ + n]

\* Mutant: a lease is over one tick early.
StuckEarly == {m \in Materials : /\ row[m].status = "processing" /\ ~row[m].deleted
                                 /\ row[m].held + 2 >= Lease}

\* Mutant: the sweep looks only for rows it can put back.
StuckUnspent == {m \in Materials : /\ row[m].status = "processing" /\ ~row[m].deleted
                                   /\ row[m].held >= Lease
                                   /\ row[m].attempts < MaxRefineAttempts}

Stuck == {m \in Materials : /\ row[m].status = "processing" /\ ~row[m].deleted
                            /\ row[m].held >= Lease}

Requeued == {m \in Stuck : row[m].attempts < MaxRefineAttempts}

ReclaimRows ==
    row' = [m \in Materials |->
              IF m \notin Stuck THEN row[m]
              ELSE [row[m] EXCEPT !.status = IF m \in Requeued THEN "queued" ELSE "failed",
                                  !.code = IF m \in Requeued THEN "none" ELSE "lease_expired",
                                  !.held = 0]]

-----------------------------------------------------------------------------
(* The goroutine: Refine *)

Start(m) == [pc |-> "get", material |-> m, age |-> 0, code |-> "none", count |-> 0]
Goto(g, pc, code) == job' = [job EXCEPT ![g].pc = pc, ![g].code = code]
Return(g) == job' = [job EXCEPT ![g].pc = "idle", ![g].age = 0, ![g].code = "none",
                                 ![g].count = 0]

Create(m, g) ==
    /\ row[m].status = "absent" /\ Idle(g)
    /\ InsertMaterial(m)
    /\ job' = [job EXCEPT ![g] = Start(m)]
    /\ UNCHANGED <<blocks, faults>>

GetMaterial(g) ==
    LET m == job[g].material IN
    /\ job[g].pc = "get" /\ ~Expired(g)
    /\ IF row[m].deleted \/ ~CanClaim(m) THEN Return(g) ELSE Goto(g, "claim", "none")
    /\ UNCHANGED <<row, blocks, faults>>

Claim(g) ==
    LET m == job[g].material IN
    /\ job[g].pc = "claim" /\ ~Expired(g)
    /\ IF CanClaim(m) THEN MarkProcessing(m) /\ Goto(g, "call", "none")
       ELSE Return(g) /\ UNCHANGED row
    /\ UNCHANGED <<blocks, faults>>

\* Mutant: the row is marked ready and the blocks are forgotten.
CompleteUnsaved(g) ==
    /\ job[g].pc = "call" /\ ~Expired(g)
    /\ job' = [job EXCEPT ![g].pc = "ready", ![g].count = 1]
    /\ UNCHANGED <<row, blocks, faults>>

\* The model's answer: none in time, not JSON, no blocks, or blocks.  toPhraseBlocks
\* drops blocks with a blank expression, which may leave none to save.
Complete(g) ==
    /\ job[g].pc = "call" /\ ~Expired(g)
    /\ \/ Goto(g, "fail", "llm_timeout")
       \/ Goto(g, "fail", "parse_error")
       \/ Goto(g, "ready", "no_chunks_extracted")
       \/ \E n \in 0 .. 1 : job' = [job EXCEPT ![g].pc = "save", ![g].count = n]
    /\ UNCHANGED <<row, blocks, faults>>

SaveAcceptedBlocks(g) ==
    /\ job[g].pc = "save" /\ ~Expired(g)
    /\ SaveBlocks(job[g].material, job[g].count)
    /\ Goto(g, "ready", "none")
    /\ UNCHANGED <<row, faults>>

MarkRefined(g) ==
    /\ job[g].pc = "ready" /\ ~Expired(g)
    /\ Settle(job[g].material, "ready", job[g].code, job[g].count)
    /\ Return(g)
    /\ UNCHANGED <<blocks, faults>>

MarkRefineFailed(g) ==
    /\ job[g].pc = "fail" /\ ~Expired(g)
    /\ Settle(job[g].material, "failed", job[g].code, row[job[g].material].count)
    /\ Return(g)
    /\ UNCHANGED <<blocks, faults>>

\* Every call, the one that would record the failure too, shares one deadline.
DeadlinePasses(g) ==
    /\ ~Idle(g) /\ Expired(g)
    /\ Return(g)
    /\ UNCHANGED <<row, blocks, faults>>

RefineStep(g) ==
    \/ GetMaterial(g) \/ Claim(g) \/ Complete(g) \/ SaveAcceptedBlocks(g)
    \/ MarkRefined(g) \/ MarkRefineFailed(g) \/ DeadlinePasses(g)

-----------------------------------------------------------------------------
(* The sweeper and the account's deletion *)

\* ReclaimExpired: one transaction, then a goroutine for each row put back.
ReclaimExpired ==
    /\ Stuck # {}
    /\ ReclaimRows
    /\ \E f \in Injection(Requeued, {g \in Refiners : Idle(g)}) :
         job' = [g \in Refiners |->
                   IF g \in Range(f) THEN Start(CHOOSE m \in Requeued : f[m] = g) ELSE job[g]]
    /\ UNCHANGED <<blocks, faults>>

SoftDeleteAllForUser ==
    /\ row' = [m \in Materials |-> IF row[m].status = "absent" THEN row[m]
                                   ELSE [row[m] EXCEPT !.deleted = TRUE]]
    /\ UNCHANGED <<blocks, job, faults>>

RestoreDeletedForUser ==
    /\ row' = [m \in Materials |-> [row[m] EXCEPT !.deleted = FALSE]]
    /\ UNCHANGED <<blocks, job, faults>>

-----------------------------------------------------------------------------
(* Faults *)

Fault == faults < MaxFaults /\ faults' = faults + 1

\* The row is inserted, but Create's answer is lost or the server dies.
CreateLost(m) ==
    /\ Fault
    /\ row[m].status = "absent"
    /\ InsertMaterial(m)
    /\ UNCHANGED <<blocks, job>>

\* A store call fails and changes nothing.
CallFails(g) ==
    /\ Fault
    /\ job[g].pc \in {"get", "claim", "save", "ready", "fail"}
    /\ IF job[g].pc = "save" THEN Goto(g, "fail", "db_error") ELSE Return(g)
    /\ UNCHANGED <<row, blocks>>

\* A store call takes effect and its answer is lost.
AnswerLost(g) ==
    LET m == job[g].material IN
    /\ Fault
    /\ \/ /\ job[g].pc = "claim" /\ CanClaim(m)
          /\ MarkProcessing(m) /\ Return(g) /\ UNCHANGED blocks
       \/ /\ job[g].pc = "save"
          /\ SaveBlocks(m, job[g].count) /\ Goto(g, "fail", "db_error") /\ UNCHANGED row

\* The process dies: the goroutine is gone wherever it was.
Dies(g) ==
    /\ Fault
    /\ ~Idle(g)
    /\ Return(g)
    /\ UNCHANGED <<row, blocks>>

\* The sweep commits and the worker dies before it starts a goroutine.
ReclaimDies ==
    /\ Fault
    /\ Stuck # {}
    /\ ReclaimRows
    /\ UNCHANGED <<blocks, job>>

Tick ==
    /\ \A g \in Refiners : Idle(g) \/ ~Expired(g)
    /\ row' = [m \in Materials |->
                 IF row[m].status = "processing" /\ row[m].held < Lease
                 THEN [row[m] EXCEPT !.held = @ + 1] ELSE row[m]]
    /\ job' = [g \in Refiners |-> IF Idle(g) THEN job[g] ELSE [job[g] EXCEPT !.age = @ + 1]]
    /\ UNCHANGED <<blocks, faults>>

-----------------------------------------------------------------------------
Next ==
    \/ \E m \in Materials : CreateLost(m) \/ \E g \in Refiners : Create(m, g)
    \/ \E g \in Refiners : RefineStep(g) \/ CallFails(g) \/ AnswerLost(g) \/ Dies(g)
    \/ ReclaimExpired \/ ReclaimDies
    \/ SoftDeleteAllForUser \/ RestoreDeletedForUser
    \/ Tick

Spec == Init /\ [][Next]_vars

\* Goroutines run, time passes, and the worker's loop finds its queue empty
\* again and again, which is when it sweeps.
FairSpec ==
    /\ Spec
    /\ WF_vars(Tick) /\ WF_vars(ReclaimExpired)
    /\ \A g \in Refiners : WF_vars(RefineStep(g))

-----------------------------------------------------------------------------
Working(g, m) == job[g].material = m /\ job[g].pc \in {"call", "save", "ready", "fail"}

(* The lease excludes: no two goroutines have claimed one material and are *)
(* still at work on it, and none works on a row that was taken away from   *)
(* it, because a refine's deadline ends before the sweep may give the row  *)
(* to another (refineJobTimeout, DefaultRefineLease).                      *)
OneRefiner ==
    \A g \in Refiners, m \in Materials : Working(g, m) =>
        /\ row[m].status = "processing"
        /\ \A h \in Refiners : Working(h, m) => g = h

(* A claim is tried again at most MaxRefineAttempts times in all, crashes  *)
(* and reclaims included, and no row with attempts to spare is given up as *)
(* lease_expired (ReclaimExpired).                                         *)
RetriesExact ==
    \A m \in Materials :
        /\ row[m].attempts <= MaxRefineAttempts
        /\ row[m].code = "lease_expired" => row[m].attempts = MaxRefineAttempts

(* The number of blocks a client is told of is in the corpus, and a claim  *)
(* saves them at most once: corpus and row are written by two calls, with  *)
(* crashes, lost answers and retries in between (Refine).                  *)
CountedIsSaved ==
    \A m \in Materials : row[m].count <= blocks[m] /\ blocks[m] <= row[m].attempts

(* A client that polled ready or failed is never told otherwise: a late    *)
(* goroutine, the sweeper or a retry does not change a settled row.        *)
SettledIsFinal ==
    [][\A m \in Materials :
         Settled(m) => /\ row'[m].status = row[m].status
                       /\ row'[m].code = row[m].code]_vars

(* A row never stays processing: whatever becomes of the goroutine that    *)
(* claimed it, it is settled or put back, unless its owner deletes it.     *)
ProcessingExits ==
    \A m \in Materials : row[m].status = "processing"
                         ~> row[m].status # "processing" \/ row[m].deleted

-----------------------------------------------------------------------------
(* Migration 0027: lease and attempts give every material "an exit the     *)
(* user can see instead of a spinner that never resolves".  TLC refutes    *)
(* it: nothing looks for rows that are queued and have no goroutine.       *)
EveryMaterialSettles ==
    \A m \in Materials : row[m].status = "queued" ~> Settled(m) \/ row[m].deleted

(* model.go: no_chunks_extracted "is set on ready with zero usable blocks".*)
(* TLC refutes it: the code looks at the list before blank expressions are *)
(* dropped from it.                                                        *)
EmptyIsExplained ==
    \A m \in Materials :
        row[m].status = "ready" /\ row[m].count = 0 => row[m].code = "no_chunks_extracted"
=============================================================================
