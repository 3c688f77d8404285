----------------------------- MODULE DailyReads -----------------------------
(***************************************************************************)
(* The daily read: generated by the first request of the day under a lock  *)
(* that each process has for a learner and a day, stored as pending first  *)
(* and ready afterwards.  The processes share the table and no lock.       *)
(***************************************************************************)
EXTENDS DayClock, FiniteSets

CONSTANTS
    Readers,         \* GET /content/today requests under way
    ReadProcesses,   \* the processes that serve them
    Learners, MaxReads

ASSUME ReadAssumption == MaxReads \in Nat

VARIABLES
    reads,     \* daily_reads
    reader,    \* the requests
    marked     \* ghost: how many requests of a process made a read ready for a learner

readVars == <<reads, reader, marked>>

-----------------------------------------------------------------------------
ReadIds == 1 .. MaxReads

ReadTypeOK ==
    /\ \A r \in reads : r.id \in ReadIds /\ r.user \in Learners /\ r.status \in {"pending", "ready"}
    /\ \A r \in Readers : \/ reader[r] = None
                           \/ reader[r].pc \in {"lock", "create", "list", "mark", "back", "fallback", "again", "last"}
    /\ marked \in [ReadProcesses \X Learners \X ReadIds -> Nat]

ReadInit ==
    /\ reads = {}
    /\ reader = [r \in Readers |-> None]
    /\ marked = [k \in ReadProcesses \X Learners \X ReadIds |-> 0]

GetByUserDate(user, day) == {r \in reads : r.user = user /\ r.day = day}

Answered(r) == reader' = [reader EXCEPT ![r] = None]
Step(r, fields) == reader' = [reader EXCEPT ![r] = [f \in DOMAIN @ |->
                                                     IF f \in DOMAIN fields THEN fields[f] ELSE @[f]]]

\* The day is read before the lock is waited for.
GetToday(r, p, user) ==
    /\ reader[r] = None /\ Spend("reads")
    /\ reader' = [reader EXCEPT ![r] = [pc |-> "lock", proc |-> p, user |-> user, day |-> utcDate(now),
                                        id |-> 0, blocks |-> {}]]
    /\ UNCHANGED <<reads, marked>>

\* generationLock: the lock of a process for a learner and a day.
LockOf(r) == <<reader[r].proc, reader[r].user, reader[r].day>>
Holding == {r \in Readers : reader[r] # None /\ reader[r].pc # "lock"}

\* Mutant: nobody waits.
FreeAlways(r) == r \notin Holding

Free(r) == LockOf(r) \notin {LockOf(q) : q \in Holding}

\* A read that is ready is the answer; one that is pending was left by a request that died.
Found(r, read) == IF read.status = "ready" THEN Answered(r) ELSE Step(r, [pc |-> "list", id |-> read.id])

\* The lock is taken, and the read looked for.
ensureTodayRead(r) ==
    LET found == GetByUserDate(reader[r].user, reader[r].day) IN
    /\ reader[r] # None /\ reader[r].pc = "lock" /\ Free(r)
    /\ IF found = {} THEN Step(r, [pc |-> "create"]) ELSE \E read \in found : Found(r, read)
    /\ UNCHANGED <<clockVars, reads, marked>>

\* A duplicate key is answered with the row that is there.
CreatePending(r) ==
    LET found == GetByUserDate(reader[r].user, reader[r].day) id == Cardinality(reads) + 1 IN
    /\ reader[r] # None /\ reader[r].pc = "create"
    /\ IF found # {} THEN UNCHANGED reads /\ \E read \in found : Found(r, read)
       ELSE /\ id <= MaxReads
            /\ reads' = reads \union {[id |-> id, user |-> reader[r].user, day |-> reader[r].day,
                                       status |-> "pending", blocks |-> {}]}
            /\ Step(r, [pc |-> "list", id |-> id])
    /\ UNCHANGED <<clockVars, marked>>

\* The first blocks of the corpus; none is the preset text.
GenerateDailyRead(r, blocks) ==
    /\ reader[r] # None /\ reader[r].pc = "list"
    /\ Step(r, [pc |-> "mark", blocks |-> blocks])
    /\ UNCHANGED <<clockVars, reads, marked>>

\* MySQL looks for the row under the learner's name, the memory store under its id alone.
Target(r, store) ==
    {read \in reads : read.id = reader[r].id /\ (store = "mysql" => read.user = reader[r].user)}

\* An error while listing or storing is answered with the preset text, an error after that, or
\* before, with an error.
Refused(r) ==
    CASE reader[r].pc \in {"list", "mark"} -> Step(r, [pc |-> "fallback", blocks |-> {}])
      [] reader[r].pc = "back" -> Step(r, [pc |-> "again", blocks |-> {}])
      [] OTHER -> Answered(r)

\* The text is written whatever is there.  MySQL has still to read the row back.
MarkReady(r, store) ==
    LET target == Target(r, store) key == <<reader[r].proc, reader[r].user, reader[r].id>> IN
    /\ reader[r] # None /\ reader[r].pc \in {"mark", "fallback", "again"}
    /\ IF target # {}
       THEN /\ reads' = {IF read \in target
                         THEN [read EXCEPT !.status = "ready", !.blocks = reader[r].blocks]
                         ELSE read : read \in reads}
            /\ marked' = [marked EXCEPT ![key] = IF reader[r].pc = "again" THEN @ ELSE @ + 1]
            /\ IF store = "mysql"
               THEN Step(r, [pc |-> IF reader[r].pc = "mark" THEN "back" ELSE "last"])
               ELSE Answered(r)
       ELSE UNCHANGED <<reads, marked>> /\ Refused(r)
    /\ UNCHANGED clockVars

\* GetBlock after the UPDATE.  A row that a merge has moved since is not found: the preset text is next.
ReadBack(r) ==
    /\ reader[r] # None /\ reader[r].pc \in {"back", "last"}
    /\ IF Target(r, "mysql") # {} THEN Answered(r) ELSE Refused(r)
    /\ UNCHANGED <<clockVars, reads, marked>>

\* A statement fails; an UPDATE whose answer is lost is one whose read-back fails.
ReadFails(r) ==
    /\ reader[r] # None /\ (reader[r].pc = "lock" => Free(r)) /\ Fault
    /\ Refused(r)
    /\ UNCHANGED <<reads, marked>>

ReadProcessDies(p) ==
    /\ Fault
    /\ reader' = [r \in Readers |-> IF reader[r] # None /\ reader[r].proc = p THEN None ELSE reader[r]]
    /\ UNCHANGED <<reads, marked>>

\* The merge of a guest; a day that both have violates MySQL's key, and nothing is moved.
ReassignReads(from, to, store) ==
    /\ \E r \in reads : r.user = from
    /\ Spend("merge")
    /\ reads' = IF store = "mysql" /\ \E r, s \in reads : r.user = from /\ s.user = to /\ r.day = s.day
                THEN reads
                ELSE {IF r.user = from THEN [r EXCEPT !.user = to] ELSE r : r \in reads}
    /\ UNCHANGED <<reader, marked>>

-----------------------------------------------------------------------------
(* Properties *)

\* One request of a process makes a learner's read of the day ready: others at the same time wait for
\* it, find it ready, and write no other text over the one that was served.  (The one request writes
\* twice when its row was stored and not read back, before anyone of its process has seen it; and
\* two processes may.)
ReadGeneratedOnce == \A k \in DOMAIN marked : marked[k] <= 1

-----------------------------------------------------------------------------
\* A read that is ready keeps its text.  TLC refutes it, with one process too: MySQLStore.MarkReady
\* stores the generated text and then reads it back; when that fails, ensureTodayRead stores the
\* preset text over it.
ReadyTextStays ==
    [][\A old \in reads, new \in reads' :
         old.id = new.id /\ old.status = "ready" => new.blocks = old.blocks]_reads
=============================================================================
