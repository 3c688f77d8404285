------------------------ MODULE MaterialRefineProofs ------------------------
(***************************************************************************)
(* The lease of a refine: it excludes, it bounds the retries, and what a   *)
(* client is told of a material is true and final, for any number of       *)
(* materials, goroutines, attempts and faults.                             *)
(***************************************************************************)
EXTENDS MaterialRefine, TLAPS

\* A queued row has an attempt to spare, and only a row out of attempts is given up.
RowInOrder(m) ==
    /\ row[m].status = "absent" => row[m].attempts = 0
    /\ row[m].status = "queued" => row[m].attempts < MaxRefineAttempts
    /\ row[m].code = "lease_expired" =>
         row[m].status = "failed" /\ row[m].attempts = MaxRefineAttempts
    /\ row[m].count <= blocks[m]
    /\ blocks[m] <= row[m].attempts

AtWork(g) == job[g].pc \in {"call", "save", "ready", "fail"}

\* A goroutine past its claim has the row, for no longer than it has been running;
\* a claim that has not saved yet is not counted in the corpus.
JobInOrder(g) ==
    LET m == job[g].material IN
    /\ job[g].code # "lease_expired"
    /\ job[g].pc \in {"get", "claim", "call"} => job[g].count = 0
    /\ AtWork(g) => row[m].status = "processing" /\ row[m].held <= job[g].age
    /\ job[g].pc \in {"call", "save"} => blocks[m] < row[m].attempts
    /\ job[g].pc = "ready" => job[g].count <= blocks[m]

OneAtWork ==
    \A g, h \in Refiners : AtWork(g) /\ AtWork(h) /\ job[g].material = job[h].material => g = h

RefineInv ==
    /\ TypeOK
    /\ \A m \in Materials : RowInOrder(m)
    /\ \A g \in Refiners : JobInOrder(g)
    /\ OneAtWork

-----------------------------------------------------------------------------
(* How a step may touch rows and goroutines *)

\* The row of a goroutine at work has not run out of its lease.
LEMMA WorkingNotStuck ==
    ASSUME RefineInv, NEW g \in Refiners, AtWork(g)
    PROVE  job[g].material \notin Stuck
<1>1. /\ row[job[g].material].held <= job[g].age
      /\ job[g] \in Job /\ job[g].material \in Materials
      /\ row[job[g].material] \in Row
    BY DEF RefineInv, JobInOrder, TypeOK, Job
<1>2. job[g].age <= JobTimeout /\ job[g].age \in Nat /\ row[job[g].material].held \in Nat
    BY <1>1, RefineAssumption DEF Job, Row
<1> QED
    BY <1>1, <1>2, RefineAssumption DEF Stuck

\* A goroutine moves on, and no row changes.
LEMMA JobMoves ==
    ASSUME RefineInv, NEW g \in Refiners, NEW new \in Job,
           job' = [job EXCEPT ![g] = new], row' = row, blocks' = blocks, faults' \in 0 .. MaxFaults,
           new.material = job[g].material, new.age = job[g].age \/ new.pc = "idle",
           new.code # "lease_expired",
           new.pc \in {"get", "claim", "call"} => new.count = 0,
           new.pc \in {"call", "save", "ready", "fail"} => AtWork(g),
           new.pc \in {"call", "save"} => job[g].pc \in {"call", "save"},
           new.pc = "ready" => new.count <= blocks[new.material]
    PROVE  RefineInv'
<1>0. row \in [Materials -> Row] /\ blocks \in [Materials -> Nat] /\ job \in [Refiners -> Job]
    BY DEF RefineInv, TypeOK
<1>1. job' \in [Refiners -> Job] /\ job'[g] = new /\ \A h \in Refiners : h # g => job'[h] = job[h]
    BY <1>0
<1>2. TypeOK'
    BY <1>0, <1>1 DEF TypeOK
<1>3. \A m \in Materials : RowInOrder(m)'
    BY DEF RefineInv, RowInOrder
<1>4. \A h \in Refiners : h # g => JobInOrder(h)'
    BY <1>1 DEF RefineInv, JobInOrder, AtWork
<1>5. JobInOrder(g)'
    BY <1>1 DEF RefineInv, JobInOrder, AtWork
<1>6. OneAtWork'
    BY <1>1 DEF RefineInv, OneAtWork, AtWork
<1> QED
    BY <1>2, <1>3, <1>4, <1>5, <1>6 DEF RefineInv

LEMMA Zeros == 0 \in 0 .. JobTimeout /\ 0 \in 0 .. Lease /\ 0 \in 0 .. 1
BY RefineAssumption

LEMMA ReturnedJob ==
    ASSUME job \in [Refiners -> Job], NEW g \in Refiners, Return(g)
    PROVE  /\ job' \in [Refiners -> Job]
           /\ job'[g].pc = "idle" /\ job'[g].code = "none"
           /\ \A h \in Refiners : h # g => job'[h] = job[h]
<1>1. \A r \in Job : [r EXCEPT !.pc = "idle", !.age = 0, !.code = "none", !.count = 0] \in Job
    BY Zeros DEF Job, Codes
<1>2. job'[g] = [job[g] EXCEPT !.pc = "idle", !.age = 0, !.code = "none", !.count = 0]
    BY DEF Return
<1>3. job'[g].pc = "idle" /\ job'[g].code = "none"
    BY DEF Return, Job
<1>4. job' = [job EXCEPT ![g] = job'[g]]
    BY DEF Return
<1>5. job'[g] \in Job
    BY <1>1, <1>2
<1> QED
    BY <1>3, <1>4, <1>5

\* A goroutine returns, having done what it may to the row it had claimed.
LEMMA JobReturns ==
    ASSUME RefineInv, NEW g \in Refiners, Return(g), blocks' = blocks, faults' \in 0 .. MaxFaults,
           row' \in [Materials -> Row],
           \A m \in Materials : RowInOrder(m)',
           row' = row \/ (AtWork(g) /\ \A m \in Materials : m # job[g].material => row'[m] = row[m])
    PROVE  RefineInv'
<1>0. row \in [Materials -> Row] /\ blocks \in [Materials -> Nat] /\ job \in [Refiners -> Job]
    BY DEF RefineInv, TypeOK
<1>1. /\ job' \in [Refiners -> Job] /\ job'[g].pc = "idle" /\ job'[g].code = "none"
      /\ \A h \in Refiners : h # g => job'[h] = job[h]
    BY <1>0, ReturnedJob
<1>2. TypeOK'
    BY <1>0, <1>1 DEF TypeOK
<1>3. \A h \in Refiners : h # g /\ AtWork(h) => row'[job[h].material] = row[job[h].material]
    BY <1>0 DEF RefineInv, OneAtWork, Job
<1>4. \A h \in Refiners : h # g => JobInOrder(h)'
    <2> SUFFICES ASSUME NEW h \in Refiners, h # g PROVE JobInOrder(h)'
        OBVIOUS
    <2>1. JobInOrder(h) /\ job'[h] = job[h] /\ job[h].material \in Materials
        BY <1>0, <1>1 DEF RefineInv, Job
    <2>2. CASE AtWork(h)
        BY <1>3, <2>1, <2>2 DEF JobInOrder, AtWork
    <2>3. CASE ~AtWork(h)
        BY <2>1, <2>3 DEF JobInOrder, AtWork
    <2> QED
        BY <2>2, <2>3
<1>5. JobInOrder(g)'
    BY <1>1 DEF JobInOrder, AtWork
<1>6. OneAtWork'
    BY <1>1 DEF RefineInv, OneAtWork, AtWork
<1> QED
    BY <1>2, <1>4, <1>5, <1>6 DEF RefineInv

\* A goroutine goes on to another call.
LEMMA GoneTo ==
    ASSUME job \in [Refiners -> Job], NEW g \in Refiners, NEW code \in Codes,
           NEW pc \in {"claim", "call", "ready", "fail"}, Goto(g, pc, code)
    PROVE  /\ job' = [job EXCEPT ![g] = job'[g]] /\ job'[g] \in Job
           /\ job'[g].pc = pc /\ job'[g].code = code /\ job'[g].count = job[g].count
           /\ job'[g].material = job[g].material /\ job'[g].age = job[g].age
<1>1. \A r \in Job : [r EXCEPT !.pc = pc, !.code = code] \in Job
    BY DEF Job
<1>2. job'[g] = [job[g] EXCEPT !.pc = pc, !.code = code]
    BY DEF Goto
<1>3. /\ job'[g].pc = pc /\ job'[g].code = code /\ job'[g].count = job[g].count
      /\ job'[g].material = job[g].material /\ job'[g].age = job[g].age
    BY DEF Goto, Job
<1>4. job' = [job EXCEPT ![g] = job'[g]]
    BY DEF Goto
<1>5. job'[g] \in Job
    BY <1>1, <1>2
<1> QED
    BY <1>3, <1>4, <1>5

\* What the invariant says of one goroutine and its row.
LEMMA JobFacts ==
    ASSUME RefineInv, NEW g \in Refiners
    PROVE  /\ row \in [Materials -> Row] /\ blocks \in [Materials -> Nat]
           /\ job \in [Refiners -> Job] /\ faults \in 0 .. MaxFaults
           /\ job[g] \in Job /\ job[g].material \in Materials /\ JobInOrder(g)
           /\ row[job[g].material] \in Row /\ RowInOrder(job[g].material)
           /\ job[g].code \in Codes /\ job[g].count \in 0 .. 1
BY DEF RefineInv, TypeOK, Job

\* A goroutine that returns without a write.
LEMMA PlainReturn ==
    ASSUME RefineInv, NEW g \in Refiners, Return(g), row' = row, blocks' = blocks,
           faults' \in 0 .. MaxFaults
    PROVE  RefineInv'
BY JobReturns DEF RefineInv, TypeOK, RowInOrder

-----------------------------------------------------------------------------
(* The goroutine *)

LEMMA GetStep ==
    ASSUME RefineInv, NEW g \in Refiners, GetMaterial(g)
    PROVE  RefineInv'
<1>1. row' = row /\ blocks' = blocks /\ faults' \in 0 .. MaxFaults /\ job[g].pc = "get"
    BY DEF GetMaterial, RefineInv, TypeOK
<1>2. CASE Return(g)
    BY <1>1, <1>2, PlainReturn
<1>3. CASE Goto(g, "claim", "none")
    <2>1. "none" \in Codes
        BY DEF Codes
    <2>2. /\ job' = [job EXCEPT ![g] = job'[g]] /\ job'[g] \in Job
          /\ job'[g].pc = "claim" /\ job'[g].code = "none" /\ job'[g].count = job[g].count
          /\ job'[g].material = job[g].material /\ job'[g].age = job[g].age
        BY <1>3, <2>1, JobFacts, GoneTo
    <2>3. job[g].count = 0
        BY <1>1, JobFacts DEF JobInOrder
    <2> QED
        BY <1>1, <2>2, <2>3, JobMoves
<1> QED
    BY <1>2, <1>3 DEF GetMaterial

LEMMA CompleteStep ==
    ASSUME RefineInv, NEW g \in Refiners, Complete(g)
    PROVE  RefineInv'
<1>1. /\ row' = row /\ blocks' = blocks /\ faults' \in 0 .. MaxFaults
      /\ job[g].pc = "call" /\ AtWork(g) /\ job[g].count = 0
    BY JobFacts DEF Complete, AtWork, JobInOrder
<1>2. blocks[job[g].material] \in Nat
    BY JobFacts
<1>3. ASSUME NEW pc \in {"fail", "ready"}, NEW code \in Codes \ {"lease_expired"}, Goto(g, pc, code)
      PROVE  RefineInv'
    <2>1. /\ job' = [job EXCEPT ![g] = job'[g]] /\ job'[g] \in Job
          /\ job'[g].pc = pc /\ job'[g].code = code /\ job'[g].count = 0
          /\ job'[g].material = job[g].material /\ job'[g].age = job[g].age
        BY <1>1, <1>3, JobFacts, GoneTo
    <2> QED
        BY <1>1, <1>2, <2>1, JobMoves
<1>4. ASSUME NEW n \in 0 .. 1, job' = [job EXCEPT ![g].pc = "save", ![g].count = n]
      PROVE  RefineInv'
    <2>1. \A r \in Job : [r EXCEPT !.pc = "save", !.count = n] \in Job
        BY DEF Job
    <2>2. job'[g] = [job[g] EXCEPT !.pc = "save", !.count = n] /\ job' = [job EXCEPT ![g] = job'[g]]
        BY <1>4, JobFacts
    <2>3. /\ job'[g].pc = "save" /\ job'[g].code = job[g].code
          /\ job'[g].material = job[g].material /\ job'[g].age = job[g].age
        BY <1>4, JobFacts DEF Job
    <2>4. job'[g] \in Job /\ job'[g].code # "lease_expired"
        BY <2>1, <2>2, <2>3, JobFacts DEF JobInOrder
    <2> QED
        BY <1>1, <2>2, <2>3, <2>4, JobMoves
<1> QED
    BY <1>3, <1>4 DEF Complete, Codes

\* A claim takes an attempt and leaves the other rows alone.
LEMMA ClaimedRow ==
    ASSUME RefineInv, NEW m \in Materials, CanClaim(m), MarkProcessing(m)
    PROVE  /\ row' \in [Materials -> Row]
           /\ row'[m].status = "processing" /\ row'[m].attempts = row[m].attempts + 1
           /\ row'[m].held = 0 /\ row'[m].count = row[m].count /\ row'[m].code = row[m].code
           /\ \A n \in Materials : n # m => row'[n] = row[n]
<1>0. /\ row \in [Materials -> Row] /\ row[m] \in Row /\ RowInOrder(m)
      /\ row[m].status = "queued"
    BY DEF RefineInv, TypeOK, CanClaim
<1>1. row[m].attempts + 1 \in 0 .. MaxRefineAttempts
    BY <1>0, RefineAssumption DEF RowInOrder, Row
<1>2. \A r \in Row, n \in 0 .. MaxRefineAttempts :
          [r EXCEPT !.status = "processing", !.attempts = n, !.held = 0] \in Row
    BY Zeros DEF Row, Statuses
<1>3. row'[m] = [row[m] EXCEPT !.status = "processing", !.attempts = row[m].attempts + 1, !.held = 0]
    BY <1>0 DEF MarkProcessing
<1>4. row' = [row EXCEPT ![m] = row'[m]]
    BY <1>0 DEF MarkProcessing
<1>5. row'[m] \in Row
    BY <1>0, <1>1, <1>2, <1>3, ZenonT(30)
<1>6. /\ row'[m].status = "processing" /\ row'[m].attempts = row[m].attempts + 1
      /\ row'[m].held = 0 /\ row'[m].count = row[m].count /\ row'[m].code = row[m].code
    BY <1>0, <1>3 DEF Row
<1> QED
    BY <1>0, <1>4, <1>5, <1>6

\* The claimed row is in order, and nobody was at work on it.
LEMMA ClaimKeeps ==
    ASSUME RefineInv, NEW m \in Materials, CanClaim(m), MarkProcessing(m), blocks' = blocks
    PROVE  /\ \A n \in Materials : RowInOrder(n)'
           /\ \A h \in Refiners : AtWork(h) => job[h].material # m
           /\ \A h \in Refiners : job'[h] = job[h] => JobInOrder(h)'
           /\ blocks'[m] < row'[m].attempts
<1>1. /\ row' \in [Materials -> Row]
      /\ row'[m].status = "processing" /\ row'[m].attempts = row[m].attempts + 1
      /\ row'[m].held = 0 /\ row'[m].count = row[m].count /\ row'[m].code = row[m].code
      /\ \A n \in Materials : n # m => row'[n] = row[n]
    BY ClaimedRow
<1>2. /\ row[m] \in Row /\ RowInOrder(m) /\ row[m].status = "queued"
      /\ blocks[m] \in Nat /\ row[m].attempts \in Nat
    BY RefineAssumption DEF RefineInv, TypeOK, CanClaim, Row
<1>3. blocks'[m] < row'[m].attempts
    BY <1>1, <1>2 DEF RowInOrder
<1>4. RowInOrder(m)'
    BY <1>1, <1>2, <1>3 DEF RowInOrder
<1>5. \A n \in Materials : n # m => RowInOrder(n)'
    BY <1>1 DEF RefineInv, RowInOrder
<1>6. \A h \in Refiners : AtWork(h) => job[h].material # m
    BY <1>2 DEF RefineInv, JobInOrder
<1>7. \A h \in Refiners : job'[h] = job[h] => JobInOrder(h)'
    <2> SUFFICES ASSUME NEW h \in Refiners, job'[h] = job[h] PROVE JobInOrder(h)'
        OBVIOUS
    <2>1. JobInOrder(h) /\ job[h].material \in Materials
        BY JobFacts
    <2>2. CASE AtWork(h)
        BY <1>1, <1>6, <2>1, <2>2 DEF JobInOrder, AtWork
    <2>3. CASE ~AtWork(h)
        BY <2>1, <2>3 DEF JobInOrder, AtWork
    <2> QED
        BY <2>2, <2>3
<1> QED
    BY <1>3, <1>4, <1>5, <1>6, <1>7

LEMMA ClaimStep ==
    ASSUME RefineInv, NEW g \in Refiners, Claim(g)
    PROVE  RefineInv'
<1> DEFINE m == job[g].material
<1>1. /\ blocks' = blocks /\ faults' \in 0 .. MaxFaults /\ job[g].pc = "claim"
      /\ m \in Materials /\ job[g].count = 0
    BY JobFacts DEF Claim, JobInOrder
<1>2. CASE Return(g) /\ row' = row
    BY <1>1, <1>2, PlainReturn
<1>3. CASE CanClaim(m) /\ MarkProcessing(m) /\ Goto(g, "call", "none")
    <2>1. "none" \in Codes
        BY DEF Codes
    <2>2. /\ job' = [job EXCEPT ![g] = job'[g]] /\ job'[g] \in Job
          /\ job'[g].pc = "call" /\ job'[g].code = "none" /\ job'[g].count = job[g].count
          /\ job'[g].material = job[g].material /\ job'[g].age = job[g].age
        BY <1>3, <2>1, JobFacts, GoneTo
    <2>3. job' \in [Refiners -> Job] /\ \A h \in Refiners : h # g => job'[h] = job[h]
        BY <2>2, JobFacts
    <2>4. row' \in [Materials -> Row] /\ row'[m].status = "processing" /\ row'[m].held = 0
        BY <1>1, <1>3, ClaimedRow
    <2>5. /\ \A n \in Materials : RowInOrder(n)'
          /\ \A h \in Refiners : AtWork(h) => job[h].material # m
          /\ \A h \in Refiners : job'[h] = job[h] => JobInOrder(h)'
          /\ blocks'[m] < row'[m].attempts
        BY <1>1, <1>3, ClaimKeeps
    <2>6. TypeOK'
        BY <1>1, <2>3, <2>4, JobFacts DEF TypeOK
    <2>7. job[g].age >= 0
        BY JobFacts, RefineAssumption DEF Job
    <2>8. JobInOrder(g)'
        BY <1>1, <2>2, <2>4, <2>5, <2>7 DEF JobInOrder, AtWork
    <2>9. OneAtWork'
        BY <2>2, <2>3, <2>5 DEF RefineInv, OneAtWork, AtWork
    <2> QED
        BY <2>3, <2>5, <2>6, <2>8, <2>9 DEF RefineInv
<1> QED
    BY <1>2, <1>3 DEF Claim

\* Saved blocks are those of the one goroutine at work on the material.
LEMMA SaveStep ==
    ASSUME RefineInv, NEW g \in Refiners, NEW pc \in {"ready", "fail"},
           NEW code \in {"none", "db_error"},
           job[g].pc = "save", SaveBlocks(job[g].material, job[g].count), Goto(g, pc, code),
           row' = row, faults' \in 0 .. MaxFaults
    PROVE  RefineInv'
<1> DEFINE m == job[g].material
<1>0. /\ AtWork(g) /\ JobInOrder(g) /\ m \in Materials /\ RowInOrder(m)
      /\ row \in [Materials -> Row] /\ blocks \in [Materials -> Nat] /\ row[m] \in Row
      /\ job[g].count \in 0 .. 1
    BY JobFacts DEF AtWork
<1>1. /\ job' = [job EXCEPT ![g] = job'[g]] /\ job'[g] \in Job
      /\ job'[g].pc = pc /\ job'[g].code = code /\ job'[g].count = job[g].count
      /\ job'[g].material = job[g].material /\ job'[g].age = job[g].age
    BY JobFacts, GoneTo DEF Codes
<1>2. job' \in [Refiners -> Job] /\ \A h \in Refiners : h # g => job'[h] = job[h]
    BY <1>1, JobFacts
<1>3. /\ blocks' \in [Materials -> Nat] /\ blocks'[m] = blocks[m] + job[g].count
      /\ \A n \in Materials : n # m => blocks'[n] = blocks[n]
    BY <1>0 DEF SaveBlocks
<1>4. TypeOK'
    BY <1>0, <1>2, <1>3 DEF TypeOK
<1>5. /\ blocks[m] < row[m].attempts /\ blocks[m] \in Nat /\ row[m].attempts \in Nat
      /\ row[m].count \in Nat /\ job[g].count \in {0, 1}
    BY <1>0, RefineAssumption DEF JobInOrder, Row
<1>6. \A n \in Materials : RowInOrder(n)'
    <2> SUFFICES ASSUME NEW n \in Materials PROVE RowInOrder(n)'
        OBVIOUS
    <2>1. CASE n = m
        BY <1>0, <1>3, <1>5, <2>1 DEF RowInOrder
    <2>2. CASE n # m
        BY <1>3, <2>2 DEF RefineInv, RowInOrder
    <2> QED
        BY <2>1, <2>2
<1>7. JobInOrder(g)'
    BY <1>0, <1>1, <1>3 DEF JobInOrder, AtWork
<1>8. \A h \in Refiners : h # g => JobInOrder(h)'
    <2> SUFFICES ASSUME NEW h \in Refiners, h # g PROVE JobInOrder(h)'
        OBVIOUS
    <2>1. JobInOrder(h) /\ job'[h] = job[h] /\ job[h].material \in Materials
        BY <1>2, JobFacts
    <2>2. CASE AtWork(h)
        <3>1. job[h].material # m
            BY <1>0, <2>2 DEF RefineInv, OneAtWork
        <3> QED
            BY <1>3, <2>1, <2>2, <3>1 DEF JobInOrder, AtWork
    <2>3. CASE ~AtWork(h)
        BY <2>1, <2>3 DEF JobInOrder, AtWork
    <2> QED
        BY <2>2, <2>3
<1>9. OneAtWork'
    BY <1>0, <1>1, <1>2 DEF RefineInv, OneAtWork, AtWork
<1> QED
    BY <1>4, <1>6, <1>7, <1>8, <1>9 DEF RefineInv

\* A goroutine at work settles its row: a row out of lease is not settled by it.
LEMMA SettleStep ==
    ASSUME RefineInv, NEW g \in Refiners, AtWork(g), Return(g), blocks' = blocks,
           NEW status \in {"ready", "failed"}, NEW n \in 0 .. 1, n <= blocks[job[g].material],
           Settle(job[g].material, status, job[g].code, n), faults' \in 0 .. MaxFaults
    PROVE  RefineInv'
<1>0. PICK m \in Materials : m = job[g].material
    BY JobFacts
<1>1. PICK code \in Codes : code = job[g].code
    BY JobFacts
<1>2. /\ row \in [Materials -> Row] /\ row[m] \in Row /\ row[m].status = "processing"
      /\ code # "lease_expired" /\ RowInOrder(m)
    BY <1>0, <1>1, JobFacts DEF JobInOrder
<1>3. row' = [row EXCEPT ![m].status = status, ![m].code = code, ![m].held = 0, ![m].count = n]
    BY <1>0, <1>1, <1>2 DEF Settle
<1>4. \A r \in Row : [r EXCEPT !.status = status, !.code = code, !.held = 0, !.count = n] \in Row
    BY Zeros DEF Row, Statuses
<1>5. /\ row'[m] = [row[m] EXCEPT !.status = status, !.code = code, !.held = 0, !.count = n]
      /\ row' = [row EXCEPT ![m] = row'[m]]
    BY <1>2, <1>3
<1>6. row'[m] \in Row
    BY <1>2, <1>4, <1>5
<1>7. /\ row'[m].status = status /\ row'[m].attempts = row[m].attempts
      /\ row'[m].count = n /\ row'[m].code = code
    BY <1>2, <1>5 DEF Row
<1>8. row' \in [Materials -> Row] /\ \A k \in Materials : k # m => row'[k] = row[k]
    BY <1>2, <1>5, <1>6
<1>9. \A k \in Materials : RowInOrder(k)'
    <2> SUFFICES ASSUME NEW k \in Materials PROVE RowInOrder(k)'
        OBVIOUS
    <2>1. CASE k = m
        BY <1>0, <1>2, <1>7, <2>1 DEF RowInOrder
    <2>2. CASE k # m
        BY <1>8, <2>2 DEF RefineInv, RowInOrder
    <2> QED
        BY <2>1, <2>2
<1> QED
    BY <1>0, <1>8, <1>9, JobReturns

LEMMA MarkRefinedStep ==
    ASSUME RefineInv, NEW g \in Refiners, MarkRefined(g)
    PROVE  RefineInv'
<1>1. AtWork(g) /\ job[g].count <= blocks[job[g].material] /\ job[g].count \in 0 .. 1
    BY JobFacts DEF MarkRefined, AtWork, JobInOrder
<1>2. faults' \in 0 .. MaxFaults /\ blocks' = blocks /\ Return(g)
    BY JobFacts DEF MarkRefined
<1> QED
    BY <1>1, <1>2, SettleStep DEF MarkRefined

LEMMA MarkRefineFailedStep ==
    ASSUME RefineInv, NEW g \in Refiners, MarkRefineFailed(g)
    PROVE  RefineInv'
<1>1. AtWork(g)
    BY DEF MarkRefineFailed, AtWork
<1>2. /\ row[job[g].material].count <= blocks[job[g].material]
      /\ row[job[g].material].count \in 0 .. 1
    BY JobFacts DEF RowInOrder, Row
<1>3. faults' \in 0 .. MaxFaults /\ blocks' = blocks /\ Return(g)
    BY JobFacts DEF MarkRefineFailed
<1> QED
    BY <1>1, <1>2, <1>3, SettleStep DEF MarkRefineFailed

LEMMA RefineStepKeeps ==
    ASSUME RefineInv, NEW g \in Refiners, RefineStep(g)
    PROVE  RefineInv'
<1>1. CASE SaveAcceptedBlocks(g)
    BY <1>1, SaveStep, JobFacts DEF SaveAcceptedBlocks
<1>2. CASE DeadlinePasses(g)
    BY <1>2, PlainReturn, JobFacts DEF DeadlinePasses
<1> QED
    BY <1>1, <1>2, GetStep, ClaimStep, CompleteStep, MarkRefinedStep, MarkRefineFailedStep
    DEF RefineStep

-----------------------------------------------------------------------------
(* Faults of a goroutine *)

LEMMA FaultType ==
    ASSUME faults \in 0 .. MaxFaults, Fault
    PROVE  faults' \in 0 .. MaxFaults
BY RefineAssumption DEF Fault

LEMMA CallFailsStep ==
    ASSUME RefineInv, NEW g \in Refiners, CallFails(g)
    PROVE  RefineInv'
<1>1. faults' \in 0 .. MaxFaults /\ row' = row /\ blocks' = blocks
    BY JobFacts, FaultType DEF CallFails
<1>2. CASE Return(g)
    BY <1>1, <1>2, PlainReturn
<1>3. CASE job[g].pc = "save" /\ Goto(g, "fail", "db_error")
    <2>1. "db_error" \in Codes
        BY DEF Codes
    <2>2. /\ job' = [job EXCEPT ![g] = job'[g]] /\ job'[g] \in Job
          /\ job'[g].pc = "fail" /\ job'[g].code = "db_error"
          /\ job'[g].material = job[g].material /\ job'[g].age = job[g].age
        BY <1>3, <2>1, JobFacts, GoneTo
    <2> QED
        BY <1>1, <1>3, <2>2, JobMoves DEF AtWork
<1> QED
    BY <1>2, <1>3 DEF CallFails

LEMMA AnswerLostStep ==
    ASSUME RefineInv, NEW g \in Refiners, AnswerLost(g)
    PROVE  RefineInv'
<1>0. PICK m \in Materials : m = job[g].material
    BY JobFacts
<1>1. faults' \in 0 .. MaxFaults
    BY JobFacts, FaultType DEF AnswerLost
<1>2. CASE /\ job[g].pc = "claim" /\ CanClaim(m) /\ MarkProcessing(m)
           /\ Return(g) /\ blocks' = blocks
    <2>1. /\ job' \in [Refiners -> Job] /\ job'[g].pc = "idle" /\ job'[g].code = "none"
          /\ \A h \in Refiners : h # g => job'[h] = job[h]
        BY <1>2, JobFacts, ReturnedJob
    <2>2. row' \in [Materials -> Row]
        BY <1>2, ClaimedRow
    <2>3. /\ \A n \in Materials : RowInOrder(n)'
          /\ \A h \in Refiners : job'[h] = job[h] => JobInOrder(h)'
        BY <1>2, ClaimKeeps
    <2>4. TypeOK'
        BY <1>1, <1>2, <2>1, <2>2, JobFacts DEF TypeOK
    <2>5. JobInOrder(g)'
        BY <2>1 DEF JobInOrder, AtWork
    <2>6. OneAtWork'
        BY <2>1 DEF RefineInv, OneAtWork, AtWork
    <2> QED
        BY <2>1, <2>3, <2>4, <2>5, <2>6 DEF RefineInv
<1>3. CASE /\ job[g].pc = "save" /\ SaveBlocks(m, job[g].count)
           /\ Goto(g, "fail", "db_error") /\ row' = row
    BY <1>0, <1>1, <1>3, SaveStep
<1> QED
    BY <1>0, <1>2, <1>3 DEF AnswerLost

LEMMA DiesStep ==
    ASSUME RefineInv, NEW g \in Refiners, Dies(g)
    PROVE  RefineInv'
BY JobFacts, FaultType, PlainReturn DEF Dies

-----------------------------------------------------------------------------
(* The rest of the system *)

\* Rows change in a way that no goroutine at work notices.
LEMMA RowsChange ==
    ASSUME RefineInv, row' \in [Materials -> Row], blocks' = blocks,
           \A m \in Materials : RowInOrder(m)', job' \in [Refiners -> Job],
           faults' \in 0 .. MaxFaults,
           \A g \in Refiners :
              \/ job'[g] = job[g]
              \/ job'[g].pc = "get" /\ job'[g].count = 0 /\ job'[g].code = "none",
           \A g \in Refiners : AtWork(g) =>
              /\ row'[job[g].material].status = row[job[g].material].status
              /\ row'[job[g].material].held = row[job[g].material].held
              /\ row'[job[g].material].attempts = row[job[g].material].attempts
    PROVE  RefineInv'
<1>1. TypeOK'
    BY DEF RefineInv, TypeOK
<1>2. \A g \in Refiners : JobInOrder(g)'
    <2> SUFFICES ASSUME NEW g \in Refiners PROVE JobInOrder(g)'
        OBVIOUS
    <2>1. CASE job'[g] = job[g]
        BY <2>1, JobFacts DEF JobInOrder, AtWork
    <2>2. CASE job'[g].pc = "get" /\ job'[g].count = 0 /\ job'[g].code = "none"
        BY <2>2 DEF JobInOrder, AtWork
    <2> QED
        BY <2>1, <2>2
<1>3. OneAtWork'
    BY DEF RefineInv, OneAtWork, AtWork
<1> QED
    BY <1>1, <1>2, <1>3 DEF RefineInv

LEMMA InsertKeeps ==
    ASSUME RefineInv, NEW m \in Materials, row[m].status = "absent", InsertMaterial(m),
           blocks' = blocks
    PROVE  /\ row' \in [Materials -> Row] /\ \A n \in Materials : RowInOrder(n)'
           /\ \A h \in Refiners : AtWork(h) => row'[job[h].material] = row[job[h].material]
<1>0. /\ row \in [Materials -> Row] /\ blocks \in [Materials -> Nat]
      /\ RowInOrder(m) /\ row[m] \in Row
    BY DEF RefineInv, TypeOK
<1> DEFINE new == [NoRow EXCEPT !.status = "queued"]
<1>1. /\ new \in Row /\ new.status = "queued"
      /\ new.attempts = 0 /\ new.code = "none" /\ new.count = 0
    <2>1. NoRow \in Row
        BY Zeros, RefineAssumption DEF NoRow, Row, Statuses, Codes
    <2>2. \A r \in Row : [r EXCEPT !.status = "queued"] \in Row
        BY DEF Row, Statuses
    <2>3. new.status = "queued" /\ new.attempts = 0 /\ new.code = "none" /\ new.count = 0
        BY DEF NoRow
    <2> QED
        BY <2>1, <2>2, <2>3
<1> HIDE DEF new
<1>2. row' = [row EXCEPT ![m] = new]
    BY DEF InsertMaterial, new
<1>3. blocks[m] = 0
    BY <1>0 DEF RowInOrder
<1>4. \A n \in Materials : RowInOrder(n)'
    <2> SUFFICES ASSUME NEW n \in Materials PROVE RowInOrder(n)'
        OBVIOUS
    <2>1. CASE n = m
        BY <1>0, <1>1, <1>2, <1>3, <2>1, RefineAssumption DEF RowInOrder
    <2>2. CASE n # m
        BY <1>0, <1>2, <2>2 DEF RefineInv, RowInOrder
    <2> QED
        BY <2>1, <2>2
<1>5. \A h \in Refiners : AtWork(h) => job[h].material # m /\ job[h].material \in Materials
    BY JobFacts DEF JobInOrder
<1> QED
    BY <1>0, <1>1, <1>2, <1>4, <1>5

LEMMA Started ==
    ASSUME NEW m \in Materials
    PROVE  /\ Start(m) \in Job /\ Start(m).pc = "get" /\ Start(m).count = 0
           /\ Start(m).code = "none"
BY Zeros DEF Start, Job, Codes

LEMMA CreateStep ==
    ASSUME RefineInv, NEW m \in Materials, NEW g \in Refiners, Create(m, g)
    PROVE  RefineInv'
<1>1. /\ row' \in [Materials -> Row] /\ \A n \in Materials : RowInOrder(n)'
      /\ \A h \in Refiners : AtWork(h) => row'[job[h].material] = row[job[h].material]
    BY InsertKeeps DEF Create
<1>2. /\ job' \in [Refiners -> Job] /\ job'[g] = Start(m)
      /\ \A h \in Refiners : h # g => job'[h] = job[h]
    BY Started, JobFacts DEF Create
<1>3. faults' \in 0 .. MaxFaults /\ blocks' = blocks
    BY JobFacts DEF Create
<1> QED
    BY <1>1, <1>2, <1>3, Started, RowsChange

LEMMA CreateLostStep ==
    ASSUME RefineInv, NEW m \in Materials, CreateLost(m)
    PROVE  RefineInv'
<1>1. /\ row' \in [Materials -> Row] /\ \A n \in Materials : RowInOrder(n)'
      /\ \A h \in Refiners : AtWork(h) => row'[job[h].material] = row[job[h].material]
    BY InsertKeeps DEF CreateLost
<1>2. faults' \in 0 .. MaxFaults /\ blocks' = blocks /\ job' = job /\ job \in [Refiners -> Job]
    BY FaultType DEF CreateLost, RefineInv, TypeOK
<1> QED
    BY <1>1, <1>2, RowsChange

\* The sweep touches only rows whose lease is over.
LEMMA ReclaimKeeps ==
    ASSUME RefineInv, ReclaimRows, blocks' = blocks
    PROVE  /\ row' \in [Materials -> Row] /\ \A n \in Materials : RowInOrder(n)'
           /\ \A h \in Refiners : AtWork(h) => row'[job[h].material] = row[job[h].material]
<1>0. row \in [Materials -> Row] /\ blocks \in [Materials -> Nat]
    BY DEF RefineInv, TypeOK
<1>1. \A n \in Materials \ Stuck : row'[n] = row[n]
    BY DEF ReclaimRows
<1>2. \A r \in Row, status \in Statuses, code \in Codes :
          [r EXCEPT !.status = status, !.code = code, !.held = 0] \in Row
    BY Zeros DEF Row
<1>3. ASSUME NEW n \in Stuck
      PROVE  /\ row'[n] \in Row /\ row'[n].attempts = row[n].attempts
             /\ row'[n].count = row[n].count
             /\ n \in Requeued => row'[n].status = "queued" /\ row'[n].code = "none"
             /\ n \notin Requeued => row'[n].status = "failed" /\ row'[n].code = "lease_expired"
    <2>1. n \in Materials /\ row[n] \in Row
        BY <1>0, <1>3 DEF Stuck
    <2>2. PICK status \in Statuses : status = IF n \in Requeued THEN "queued" ELSE "failed"
        BY DEF Statuses
    <2>3. PICK code \in Codes : code = IF n \in Requeued THEN "none" ELSE "lease_expired"
        BY DEF Codes
    <2>4. row'[n] = [row[n] EXCEPT !.status = status, !.code = code, !.held = 0]
        BY <1>3, <2>1, <2>2, <2>3 DEF ReclaimRows
    <2>5. row'[n] \in Row
        BY <1>2, <2>1, <2>4, ZenonT(30)
    <2>6. /\ row'[n].attempts = row[n].attempts /\ row'[n].count = row[n].count
          /\ row'[n].status = status /\ row'[n].code = code
        BY <2>1, <2>4 DEF Row
    <2> QED
        BY <2>2, <2>3, <2>5, <2>6
<1>4. \A n \in Materials : RowInOrder(n)'
    <2> SUFFICES ASSUME NEW n \in Materials PROVE RowInOrder(n)'
        OBVIOUS
    <2>0. RowInOrder(n) /\ row[n] \in Row /\ row[n].attempts \in 0 .. MaxRefineAttempts
        BY <1>0 DEF RefineInv, Row
    <2>1. CASE n \notin Stuck
        BY <1>1, <2>0, <2>1 DEF RowInOrder
    <2>2. CASE n \in Requeued
        BY <1>3, <2>0, <2>2 DEF RowInOrder, Requeued
    <2>3. CASE n \in Stuck /\ n \notin Requeued
        <3>1. row[n].attempts = MaxRefineAttempts
            BY <2>0, <2>3, RefineAssumption DEF Requeued
        <3> QED
            BY <1>3, <2>0, <2>3, <3>1 DEF RowInOrder
    <2> QED
        BY <2>1, <2>2, <2>3
<1>5. row' \in [Materials -> Row]
    <2>1. \A n \in Materials : row'[n] \in Row
        BY <1>0, <1>1, <1>3
    <2> QED
        BY <2>1 DEF ReclaimRows
<1> QED
    BY <1>1, <1>4, <1>5, WorkingNotStuck, JobFacts

LEMMA ReclaimStep ==
    ASSUME RefineInv, ReclaimExpired
    PROVE  RefineInv'
<1>1. /\ row' \in [Materials -> Row] /\ \A n \in Materials : RowInOrder(n)'
      /\ \A h \in Refiners : AtWork(h) => row'[job[h].material] = row[job[h].material]
    BY ReclaimKeeps DEF ReclaimExpired
<1>2. PICK f \in Injection(Requeued, {g \in Refiners : Idle(g)}) :
         job' = [g \in Refiners |->
                   IF g \in Range(f) THEN Start(CHOOSE m \in Requeued : f[m] = g) ELSE job[g]]
    BY DEF ReclaimExpired
<1>3. ASSUME NEW g \in Refiners, g \in Range(f)
      PROVE  \E m \in Materials : job'[g] = Start(m)
    <2>1. \E m \in Requeued : f[m] = g
        BY <1>2, <1>3 DEF Injection, IsInjective, Range
    <2>2. (CHOOSE m \in Requeued : f[m] = g) \in Materials
        BY <2>1 DEF Requeued, Stuck
    <2> QED
        BY <1>2, <1>3, <2>2
<1>4. \A g \in Refiners : g \notin Range(f) => job'[g] = job[g]
    BY <1>2
<1>5. \A g \in Refiners :
        /\ job'[g] \in Job
        /\ \/ job'[g] = job[g]
           \/ job'[g].pc = "get" /\ job'[g].count = 0 /\ job'[g].code = "none"
    BY <1>3, <1>4, Started, JobFacts
<1>6. job' \in [Refiners -> Job]
    BY <1>2, <1>5
<1>7. faults' \in 0 .. MaxFaults /\ blocks' = blocks
    BY DEF ReclaimExpired, RefineInv, TypeOK
<1> QED
    BY <1>1, <1>5, <1>6, <1>7, RowsChange

LEMMA ReclaimDiesStep ==
    ASSUME RefineInv, ReclaimDies
    PROVE  RefineInv'
<1>1. /\ row' \in [Materials -> Row] /\ \A n \in Materials : RowInOrder(n)'
      /\ \A h \in Refiners : AtWork(h) => row'[job[h].material] = row[job[h].material]
    BY ReclaimKeeps DEF ReclaimDies
<1>2. faults' \in 0 .. MaxFaults /\ blocks' = blocks /\ job' = job /\ job \in [Refiners -> Job]
    BY FaultType DEF ReclaimDies, RefineInv, TypeOK
<1> QED
    BY <1>1, <1>2, RowsChange

LEMMA DeletionStep ==
    ASSUME RefineInv, SoftDeleteAllForUser \/ RestoreDeletedForUser
    PROVE  RefineInv'
<1>0. /\ row \in [Materials -> Row] /\ job \in [Refiners -> Job] /\ faults \in 0 .. MaxFaults
      /\ blocks' = blocks /\ job' = job /\ faults' = faults
    BY DEF RefineInv, TypeOK, SoftDeleteAllForUser, RestoreDeletedForUser
<1>1. \A r \in Row, b \in BOOLEAN : [r EXCEPT !.deleted = b] \in Row
    BY DEF Row
<1>2. \A m \in Materials : \/ row'[m] = row[m]
                           \/ \E b \in BOOLEAN : row'[m] = [row[m] EXCEPT !.deleted = b]
    BY DEF SoftDeleteAllForUser, RestoreDeletedForUser
<1>3. ASSUME NEW m \in Materials
      PROVE  /\ row'[m] \in Row /\ row'[m].status = row[m].status
             /\ row'[m].attempts = row[m].attempts /\ row'[m].held = row[m].held
             /\ row'[m].code = row[m].code /\ row'[m].count = row[m].count
    <2>1. CASE row'[m] = row[m]
        BY <1>0, <2>1
    <2>2. CASE \E b \in BOOLEAN : row'[m] = [row[m] EXCEPT !.deleted = b]
        <3>1. PICK b \in BOOLEAN : row'[m] = [row[m] EXCEPT !.deleted = b]
            BY <2>2
        <3>2. row[m] \in Row
            BY <1>0
        <3>3. row'[m] \in Row
            BY <1>1, <3>1, <3>2
        <3>4. /\ row'[m].status = row[m].status
              /\ row'[m].attempts = row[m].attempts /\ row'[m].held = row[m].held
              /\ row'[m].code = row[m].code /\ row'[m].count = row[m].count
            BY <3>1, <3>2 DEF Row
        <3> QED
            BY <3>3, <3>4
    <2> QED
        BY <1>2, <2>1, <2>2
<1>4. row' \in [Materials -> Row]
    BY <1>3 DEF SoftDeleteAllForUser, RestoreDeletedForUser
<1>5. \A m \in Materials : RowInOrder(m)'
    BY <1>0, <1>3 DEF RefineInv, RowInOrder
<1> QED
    BY <1>0, <1>3, <1>4, <1>5, RowsChange, JobFacts

\* Lease and deadline grow together.
LEMMA TickStep ==
    ASSUME RefineInv, Tick
    PROVE  RefineInv'
<1>0. /\ row \in [Materials -> Row] /\ job \in [Refiners -> Job] /\ blocks' = blocks
      /\ faults' = faults /\ faults \in 0 .. MaxFaults /\ blocks \in [Materials -> Nat]
    BY DEF RefineInv, TypeOK, Tick
<1>1. \A r \in Row, n \in 0 .. Lease : LET new == [r EXCEPT !.held = n] IN
          /\ new \in Row /\ new.status = r.status /\ new.attempts = r.attempts
          /\ new.held = n /\ new.code = r.code /\ new.count = r.count
    BY DEF Row
<1>2. \A r \in Job, n \in 0 .. JobTimeout : LET new == [r EXCEPT !.age = n] IN
          /\ new \in Job /\ new.pc = r.pc /\ new.material = r.material
          /\ new.age = n /\ new.code = r.code /\ new.count = r.count
    BY DEF Job
<1>3. ASSUME NEW m \in Materials
      PROVE  /\ row'[m] \in Row /\ row'[m].status = row[m].status
             /\ row'[m].attempts = row[m].attempts
             /\ row'[m].code = row[m].code /\ row'[m].count = row[m].count
             /\ row'[m].held <= row[m].held + 1
    <2>1. row[m] \in Row /\ row[m].held \in Nat
        BY <1>0, RefineAssumption DEF Row
    <2>2. CASE row[m].status = "processing" /\ row[m].held < Lease
        <3>1. PICK n \in 0 .. Lease : n = row[m].held + 1
            BY <2>1, <2>2, RefineAssumption
        <3>2. row'[m] = [row[m] EXCEPT !.held = n]
            BY <2>2, <3>1 DEF Tick
        <3> QED
            BY <1>1, <2>1, <3>1, <3>2
    <2>3. CASE ~(row[m].status = "processing" /\ row[m].held < Lease)
        BY <2>1, <2>3 DEF Tick
    <2> QED
        BY <2>2, <2>3
<1>4. ASSUME NEW g \in Refiners
      PROVE  /\ job'[g] \in Job /\ job'[g].pc = job[g].pc
             /\ job'[g].material = job[g].material
             /\ job'[g].code = job[g].code /\ job'[g].count = job[g].count
             /\ ~Idle(g) => job'[g].age = job[g].age + 1
    <2>1. job[g] \in Job /\ job[g].age \in Nat
        BY <1>0, RefineAssumption DEF Job
    <2>2. CASE ~Idle(g)
        <3>1. PICK n \in 0 .. JobTimeout : n = job[g].age + 1
            BY <2>1, <2>2, RefineAssumption DEF Tick, Expired
        <3>2. job'[g] = [job[g] EXCEPT !.age = n]
            BY <2>2, <3>1 DEF Tick
        <3> QED
            BY <1>2, <2>1, <3>1, <3>2
    <2>3. CASE Idle(g)
        BY <2>1, <2>3 DEF Tick
    <2> QED
        BY <2>2, <2>3
<1>5. TypeOK'
    <2>1. row' \in [Materials -> Row]
        BY <1>3 DEF Tick
    <2>2. job' \in [Refiners -> Job]
        BY <1>4 DEF Tick
    <2> QED
        BY <1>0, <2>1, <2>2 DEF TypeOK
<1>6. \A m \in Materials : RowInOrder(m)'
    BY <1>0, <1>3 DEF RefineInv, RowInOrder
<1>7. \A g \in Refiners : JobInOrder(g)'
    <2> SUFFICES ASSUME NEW g \in Refiners PROVE JobInOrder(g)'
        OBVIOUS
    <2>0. PICK m \in Materials : m = job[g].material
        BY JobFacts
    <2>1. JobInOrder(g) /\ job'[g].material = m
        BY <1>4, <2>0, JobFacts
    <2>2. row[m].held \in Nat /\ job[g].age \in Nat /\ row'[m].held \in Nat /\ job'[g].age \in Nat
        BY <1>0, <1>3, <1>4, RefineAssumption DEF Row, Job
    <2>3. AtWork(g) => row'[m].held <= job'[g].age
        BY <1>3, <1>4, <2>0, <2>1, <2>2 DEF JobInOrder, AtWork, Idle
    <2>4. AtWork(g)' <=> AtWork(g)
        BY <1>4 DEF AtWork
    <2> QED
        BY <1>0, <1>3, <1>4, <2>0, <2>1, <2>3, <2>4 DEF JobInOrder
<1>8. OneAtWork'
    BY <1>4 DEF RefineInv, OneAtWork, AtWork
<1> QED
    BY <1>5, <1>6, <1>7, <1>8 DEF RefineInv

-----------------------------------------------------------------------------
(* The theorems *)

LEMMA InitRefine == Init => RefineInv
<1> SUFFICES ASSUME Init PROVE RefineInv
    OBVIOUS
<1>1. \A m \in Materials : row[m] = NoRow /\ blocks[m] = 0
    BY DEF Init
<1>2. NoRow \in Row /\ NoRow.status = "absent" /\ NoRow.attempts = 0 /\ NoRow.code = "none"
      /\ NoRow.count = 0
    BY Zeros, RefineAssumption DEF NoRow, Row, Statuses, Codes
<1>3. \A g \in Refiners : job[g] \in Job /\ job[g].pc = "idle" /\ job[g].code = "none"
    BY Zeros DEF Init, Job, Codes
<1>4. TypeOK
    BY <1>1, <1>2, <1>3, RefineAssumption DEF Init, TypeOK
<1>5. \A m \in Materials : RowInOrder(m)
    BY <1>1, <1>2 DEF RowInOrder
<1> QED
    BY <1>3, <1>4, <1>5 DEF RefineInv, JobInOrder, AtWork, OneAtWork

LEMMA NextRefine == RefineInv /\ [Next]_vars => RefineInv'
<1> SUFFICES ASSUME RefineInv, [Next]_vars PROVE RefineInv'
    OBVIOUS
<1>1. CASE UNCHANGED vars
    BY <1>1 DEF vars, RefineInv, TypeOK, RowInOrder, JobInOrder, AtWork, OneAtWork
<1>2. CASE Next
    BY <1>2, CreateLostStep, CreateStep, RefineStepKeeps, CallFailsStep, AnswerLostStep, DiesStep,
       ReclaimStep, ReclaimDiesStep, DeletionStep, TickStep DEF Next
<1> QED
    BY <1>1, <1>2

LEMMA RefineInvariant == Spec => []RefineInv
BY InitRefine, NextRefine, PTL DEF Spec

\* The lease excludes: at most one goroutine is at work on a material, and the row it works on is
\* still its own, because a refine's deadline ends before the sweep may take the row back
\* (refineJobTimeout < DefaultRefineLease), for any number of goroutines, crashes and lost answers.
THEOREM RefineExclusion == Spec => []OneRefiner
<1>1. RefineInv => OneRefiner
    BY DEF RefineInv, OneRefiner, OneAtWork, JobInOrder, Working, AtWork
<1> QED
    BY <1>1, RefineInvariant, PTL

\* No row is claimed more often than MaxRefineAttempts, and none is given up as lease_expired
\* before its attempts are used up (MarkProcessing, ReclaimExpired).
THEOREM RetriesAreExact == Spec => []RetriesExact
<1>1. RefineInv => RetriesExact
    BY RefineAssumption DEF RefineInv, TypeOK, Row, RowInOrder, RetriesExact
<1> QED
    BY <1>1, RefineInvariant, PTL

\* The count a client reads is backed by blocks in the corpus, and a claim saves at most once,
\* although corpus and row are written by two calls that may fail apart (Refine).
THEOREM CountsAreSaved == Spec => []CountedIsSaved
<1>1. RefineInv => CountedIsSaved
    BY DEF RefineInv, RowInOrder, CountedIsSaved
<1> QED
    BY <1>1, RefineInvariant, PTL

\* A settled row is out of everybody's reach: a claim wants it queued, a goroutine and the sweep
\* want it processing, an insert wants it absent.
LEMMA SettledStays ==
    ASSUME TypeOK, Next, NEW m \in Materials, Settled(m)
    PROVE  row'[m].status = row[m].status /\ row'[m].code = row[m].code
<1>0. /\ row \in [Materials -> Row] /\ row[m] \in Row
      /\ row[m].status # "absent" /\ row[m].status # "queued" /\ row[m].status # "processing"
    BY DEF TypeOK, Settled
<1>1. ASSUME NEW n \in Materials, CreateLost(n) \/ \E g \in Refiners : Create(n, g)
      PROVE  row'[m] = row[m]
    BY <1>0, <1>1 DEF CreateLost, Create, InsertMaterial
<1>2. ASSUME NEW g \in Refiners, RefineStep(g) PROVE row'[m] = row[m]
    <2>1. CASE GetMaterial(g) \/ Complete(g) \/ SaveAcceptedBlocks(g) \/ DeadlinePasses(g)
        BY <2>1 DEF GetMaterial, Complete, SaveAcceptedBlocks, DeadlinePasses
    <2>2. CASE Claim(g)
        BY <1>0, <2>2 DEF Claim, CanClaim, MarkProcessing
    <2>3. CASE MarkRefined(g) \/ MarkRefineFailed(g)
        BY <1>0, <2>3 DEF MarkRefined, MarkRefineFailed, Settle
    <2> QED
        BY <1>2, <2>1, <2>2, <2>3 DEF RefineStep
<1>3. ASSUME NEW g \in Refiners, CallFails(g) \/ AnswerLost(g) \/ Dies(g) PROVE row'[m] = row[m]
    BY <1>0, <1>3 DEF CallFails, AnswerLost, Dies, CanClaim, MarkProcessing
<1>4. CASE ReclaimExpired \/ ReclaimDies
    BY <1>0, <1>4 DEF ReclaimExpired, ReclaimDies, ReclaimRows, Stuck
<1>5. CASE SoftDeleteAllForUser \/ RestoreDeletedForUser
    <2>1. \/ row'[m] = row[m] \/ row'[m] = [row[m] EXCEPT !.deleted = TRUE]
          \/ row'[m] = [row[m] EXCEPT !.deleted = FALSE]
        BY <1>5 DEF SoftDeleteAllForUser, RestoreDeletedForUser
    <2> QED
        BY <1>0, <2>1 DEF Row
<1>6. CASE Tick
    BY <1>0, <1>6 DEF Tick
<1> QED
    BY <1>1, <1>2, <1>3, <1>4, <1>5, <1>6 DEF Next

\* A client that polled ready or failed is never told otherwise, whatever goroutines, sweeps,
\* deletions and crashes follow (MarkRefined, MarkRefineFailed, ReclaimExpired).
THEOREM SettledRowsAreFinal == Spec => SettledIsFinal
<1>1. TypeOK /\ [Next]_vars =>
        [\A m \in Materials : row[m].status \in {"ready", "failed"} =>
                                 /\ row'[m].status = row[m].status
                                 /\ row'[m].code = row[m].code]_vars
    BY SettledStays DEF Settled
<1>2. Spec => []TypeOK
    <2>1. RefineInv => TypeOK
        BY DEF RefineInv
    <2> QED
        BY <2>1, RefineInvariant, PTL
<1> QED
    BY <1>1, <1>2, PTL DEF Spec, SettledIsFinal, Settled

=============================================================================
