--------------------------- MODULE BlockLearning ----------------------------
(***************************************************************************)
(* How one learner's phrase blocks are scheduled.  Four writers share a    *)
(* block's ladder (corpus.Schedule): drill judging, the hits the voice     *)
(* gateway reports, check-ins, and edits of the wording, which start it    *)
(* over; an appeal puts a snapshot of it back.  A judge reads the block,   *)
(* waits seconds for a language model, writes absolute values and files a  *)
(* record; no lock spans those steps.  Hits and check-ins are one          *)
(* transaction each.                                                       *)
(*                                                                         *)
(* The blocks have been accepted already.  Their owner, wording and hits   *)
(* are names; favourites, pins and feedback do not touch the ladder.       *)
(***************************************************************************)
EXTENDS Naturals, Sequences, FiniteSets

CONSTANTS
    Blocks, Texts,
    Turns,      \* turns of the learner's sessions that may report hits
    Checkins,   \* check-ins that may be made
    Calls,      \* judge, appeal and edit requests that may run at the same time
    Rounds,     \* rounds that may be asked for at the same time
    Store,      \* "memory", or "mysql", whose ledger has an id column of 36 characters
    PromoteStreak, FailInterval, TrainingInterval, AutomatedInterval, ReviewInterval,
    OverdueWindow, RoundSize, DailyNewBlockLimit, DayLength,
    MaxTime, MaxCalls, MaxFaults,
    MaxOthers,  \* bound on deletions and revivals
    None

ASSUME LearningAssumption ==
    /\ IsFiniteSet(Blocks)
    /\ Store \in {"memory", "mysql"}
    /\ PromoteStreak \in Nat \ {0} /\ DayLength \in Nat \ {0}
    /\ FailInterval \in Nat /\ TrainingInterval \in Nat /\ AutomatedInterval \in Nat
    /\ ReviewInterval \in Nat /\ OverdueWindow \in Nat /\ RoundSize \in Nat
    /\ DailyNewBlockLimit \in Nat
    /\ MaxTime \in Nat /\ MaxCalls \in Nat /\ MaxFaults \in Nat /\ MaxOthers \in Nat

VARIABLES
    now,
    blocks,    \* the phrase_blocks table
    uses,      \* phrase_block_uses: the hits reported
    realUses,  \* phrase_block_real_uses: the uses credited, with their source
    records,   \* drill_records, by id
    call,      \* the requests
    round,     \* the rounds asked for, and what was read for them
    overtaken, \* ghost: blocks that fell behind the back of a judge
    denied,    \* ghost: hits on a live block that the store refused without a fault
    calls, faults, others

vars == <<now, blocks, uses, realUses, records, call, round, overtaken, denied, calls, faults, others>>

-----------------------------------------------------------------------------
States == {"new", "training", "automated"}
Sched == [state : States, streak : Nat, due : Nat]

\* on, run: ghosts, the wording that the ladder was climbed on, and the successes in a row since the
\* last failure or reset.
Block == [live : BOOLEAN, text : Texts, on : Texts, version : Nat, sched : Sched, real : Nat, run : Nat]
Record == [block : Blocks, judged : BOOLEAN, pass : BOOLEAN, prev : Sched, on : Texts,
           said : Texts, at : Nat, appealed : BOOLEAN, run : Nat]
Pcs == {"idle", "judging", "file", "latest", "restore", "stamp", "text", "audit", "reset"}
Call == [pc : Pcs, block : Blocks \union {None}, row : Block \union {None}, pass : BOOLEAN,
         rec : Nat, at : Nat]
\* owed, budget: ghosts, the cards due since the round was asked for, and whether the day's budget of
\* grey cards was spent then.
Card == Blocks \X States
RoundCall == [pc : {"sweep", "count", "primary", "green", "done"}, at : Nat, budget : {"spent", "left"},
              grey : {"in", "out", "uncounted"}, owed : SUBSET Card, cards : SUBSET Card]
NoCall == [pc |-> "idle", block |-> None, row |-> None, pass |-> FALSE, rec |-> 0, at |-> 0]

TypeOK ==
    /\ now \in 0 .. MaxTime
    /\ blocks \in [Blocks -> Block]
    /\ uses \subseteq Turns \X Blocks
    /\ realUses \subseteq ({"hit"} \X Turns \X Blocks) \union ({"checkin"} \X Checkins \X Blocks)
    /\ records \in Seq(Record)
    /\ call \in [Calls -> Call]
    /\ \A c \in Calls :
         /\ call[c].pc \in {"latest", "restore", "stamp"} => call[c].rec \in DOMAIN records
         /\ call[c].pc \in {"judging", "file", "text", "audit", "reset"} =>
              call[c].block \in Blocks /\ call[c].row \in Block
    /\ round \in [Rounds -> RoundCall \union {None}]
    /\ overtaken \subseteq Blocks
    /\ denied \subseteq Turns \X Blocks
    /\ calls \in 0 .. MaxCalls /\ faults \in 0 .. MaxFaults /\ others \in 0 .. MaxOthers

\* nextDueForNew: a block accepted today is due when the day is over.
NewBlock(text) ==
    [live |-> TRUE, text |-> text, on |-> text, version |-> 1,
     sched |-> [state |-> "new", streak |-> 0, due |-> DayLength], real |-> 0, run |-> 0]

Init ==
    /\ now = 0
    /\ \E text \in Texts : blocks = [b \in Blocks |-> NewBlock(text)]
    /\ uses = {} /\ realUses = {} /\ records = <<>> /\ denied = {} /\ overtaken = {}
    /\ round = [r \in Rounds |-> None]
    /\ call = [c \in Calls |-> NoCall]
    /\ calls = 0 /\ faults = 0 /\ others = 0

-----------------------------------------------------------------------------
(* The ladder and the store *)

\* Mutant: a failure resets the streak and leaves the colour.
ApplyJudgeKeepsColour(s, pass, at) ==
    IF ~pass THEN [s EXCEPT !.streak = 0, !.due = at + FailInterval]
    ELSE IF s.state = "automated" THEN [s EXCEPT !.due = at + ReviewInterval]
    ELSE IF s.streak + 1 >= PromoteStreak
         THEN [state |-> "automated", streak |-> s.streak + 1, due |-> at + AutomatedInterval]
         ELSE [state |-> "training", streak |-> s.streak + 1, due |-> at + TrainingInterval]

ApplyJudge(s, pass, at) ==
    IF ~pass THEN [state |-> "training", streak |-> 0, due |-> at + FailInterval]
    ELSE IF s.state = "automated" THEN [s EXCEPT !.due = at + ReviewInterval]
    ELSE IF s.streak + 1 >= PromoteStreak
         THEN [state |-> "automated", streak |-> s.streak + 1, due |-> at + AutomatedInterval]
         ELSE [state |-> "training", streak |-> s.streak + 1, due |-> at + TrainingInterval]

\* Mutant: deleted rows are written.
WritableAlways(b) == b \in Blocks

\* UPDATE ... WHERE deleted_at IS NULL: a deleted row is not found.
Writable(b) == blocks[b].live

UpdateSchedule(b, s, on, run) == blocks' = [blocks EXCEPT ![b].sched = s, ![b].on = on, ![b].run = run]

\* The writeback of one use: the counter, and one success on the ladder.
Credit(row, at) ==
    [row EXCEPT !.real = @ + 1, !.sched = ApplyJudge(row.sched, TRUE, at), !.on = row.text, !.run = @ + 1]

CreditAll(credited, at) ==
    blocks' = [b \in Blocks |-> IF b \in credited THEN Credit(blocks[b], at) ELSE blocks[b]]

\* The ledger's id is composed of two identifiers, one of them 36 characters long, and the column
\* holds 36: MySQL refuses the row and the transaction is rolled back.
Refused(credited) == Store = "mysql" /\ credited # {}

Become(c, row) == call' = [call EXCEPT ![c] = row]
Go(c, pc) == Become(c, [call[c] EXCEPT !.pc = pc])
Return(c) == Become(c, NoCall)

\* The memory store never fails, and does not outlive its process.
CanFault == Store = "mysql" /\ faults < MaxFaults
Faulted == faults' = faults + 1

\* The ladder falls by the hand of c while another judge waits for a verdict on what it read before.
Falls(c, b) ==
    overtaken' = overtaken \union
        {x \in {b} : \E d \in Calls \ {c} : call[d].pc = "judging" /\ call[d].block = x}

\* What most requests leave alone.
Ledgers == <<uses, realUses, denied>>
Begin == calls < MaxCalls /\ calls' = calls + 1

-----------------------------------------------------------------------------
(* POST /drill/judge *)

\* PeekBlock: the row is read before the language model is asked.
Judge(c, b) ==
    /\ call[c].pc = "idle" /\ Begin /\ Writable(b)
    /\ Become(c, [NoCall EXCEPT !.pc = "judging", !.block = b, !.row = blocks[b]])
    /\ UNCHANGED <<now, blocks, Ledgers, records, round, overtaken, faults, others>>

\* The verdict is in: the ladder is applied to the row as it was read.
JudgeVerdict(c, pass) ==
    LET r == call[c] IN
    /\ r.pc = "judging"
    /\ IF Writable(r.block)
       THEN /\ UpdateSchedule(r.block, ApplyJudge(r.row.sched, pass, now), r.row.text,
                              IF pass THEN blocks[r.block].run + 1 ELSE 0)
            /\ IF pass THEN UNCHANGED overtaken ELSE Falls(c, r.block)
            /\ Become(c, [r EXCEPT !.pc = "file", !.pass = pass, !.at = now])
       ELSE UNCHANGED <<blocks, overtaken>> /\ Return(c)
    /\ UNCHANGED <<now, Ledgers, records, round, calls, faults, others>>

Attempt(r, judged, at) ==
    [block |-> r.block, judged |-> judged, pass |-> r.pass, prev |-> r.row.sched, on |-> r.row.on,
     said |-> r.row.text, at |-> at, appealed |-> FALSE, run |-> r.row.run]

JudgeFile(c) ==
    /\ call[c].pc = "file"
    /\ records' = Append(records, Attempt(call[c], TRUE, call[c].at))
    /\ Return(c)
    /\ UNCHANGED <<now, blocks, Ledgers, round, overtaken, calls, faults, others>>

\* A timeout or an answer that does not parse: filed without a verdict.
RecordUnjudged(c) ==
    /\ call[c].pc = "judging"
    /\ records' = Append(records, Attempt(call[c], FALSE, now))
    /\ Return(c)
    /\ UNCHANGED <<now, blocks, Ledgers, round, overtaken, calls, faults, others>>

-----------------------------------------------------------------------------
(* POST /drill/appeal *)

Appeal(c, i) ==
    /\ call[c].pc = "idle" /\ Begin /\ ~records[i].appealed
    /\ Become(c, [NoCall EXCEPT !.rec = i, !.block = records[i].block,
                    !.pc = IF records[i].judged /\ ~records[i].pass THEN "latest" ELSE "stamp"])
    /\ UNCHANGED <<now, blocks, Ledgers, records, round, overtaken, faults, others>>

IsLatestForBlock(i) ==
    \A j \in DOMAIN records : records[j].block = records[i].block => j <= i

AppealLatest(c) ==
    /\ call[c].pc = "latest"
    /\ Go(c, IF IsLatestForBlock(call[c].rec) THEN "restore" ELSE "stamp")
    /\ UNCHANGED <<now, blocks, Ledgers, records, round, overtaken, calls, faults, others>>

\* Mutant: the appealed attempt is made a success.
AppealRestoreAsPass(c) ==
    LET rec == records[call[c].rec] IN
    /\ call[c].pc = "restore"
    /\ IF Writable(rec.block)
       THEN /\ UpdateSchedule(rec.block, ApplyJudge(rec.prev, TRUE, now), rec.on, rec.run)
            /\ Falls(c, rec.block) /\ Go(c, "stamp")
       ELSE UNCHANGED <<blocks, overtaken>> /\ Return(c)
    /\ UNCHANGED <<now, Ledgers, records, round, calls, faults, others>>

\* The ladder goes back to where the attempt found it, and with it what counts as a row of successes.
AppealRestore(c) ==
    LET rec == records[call[c].rec] IN
    /\ call[c].pc = "restore"
    /\ IF Writable(rec.block)
       THEN /\ UpdateSchedule(rec.block, rec.prev, rec.on, rec.run)
            /\ Falls(c, rec.block) /\ Go(c, "stamp")
       ELSE UNCHANGED <<blocks, overtaken>> /\ Return(c)
    /\ UNCHANGED <<now, Ledgers, records, round, calls, faults, others>>

\* MarkAppealed: only the first stamp counts.
AppealStamp(c) ==
    /\ call[c].pc = "stamp"
    /\ records' = [records EXCEPT ![call[c].rec].appealed = TRUE]
    /\ Return(c)
    /\ UNCHANGED <<now, blocks, Ledgers, round, overtaken, calls, faults, others>>

-----------------------------------------------------------------------------
(* PUT /corpus/blocks/:id *)

UpdateBlock(c, b) ==
    /\ call[c].pc = "idle" /\ Begin /\ Writable(b)
    /\ Become(c, [NoCall EXCEPT !.pc = "text", !.block = b, !.row = blocks[b]])
    /\ UNCHANGED <<now, blocks, Ledgers, records, round, overtaken, faults, others>>

\* The new wording is stored and the row read back; an edit that kept the wording ends here.
\* The memory store also puts back the version that was read.
EditText(c, text) ==
    LET r == call[c] b == r.block
        saved == [blocks[b] EXCEPT !.text = text,
                                   !.version = IF Store = "memory" THEN r.row.version ELSE @] IN
    /\ r.pc = "text"
    /\ IF ~Writable(b) THEN UNCHANGED blocks /\ Return(c)
       ELSE /\ blocks' = [blocks EXCEPT ![b] = saved]
            /\ IF text = r.row.text THEN Return(c)
               ELSE Become(c, [r EXCEPT !.pc = "audit", !.row = saved, !.at = now])
    /\ UNCHANGED <<now, Ledgers, records, round, overtaken, calls, faults, others>>

\* SaveBlockEdit; a failure is logged and the edit goes on.
EditAudit(c) ==
    LET r == call[c] IN
    /\ r.pc = "audit"
    /\ \/ Writable(r.block) /\ blocks' = [blocks EXCEPT ![r.block].version = r.row.version + 1]
          /\ UNCHANGED faults
       \/ ~Writable(r.block) /\ UNCHANGED <<blocks, faults>>
       \/ CanFault /\ Faulted /\ UNCHANGED blocks
    /\ Go(c, "reset")
    /\ UNCHANGED <<now, Ledgers, records, round, overtaken, calls, others>>

ResetSchedule(c) ==
    LET r == call[c] b == r.block
        fresh == [state |-> "new", streak |-> 0, due |-> r.at + TrainingInterval] IN
    /\ r.pc = "reset"
    /\ IF Writable(b) THEN UpdateSchedule(b, fresh, blocks[b].text, 0) /\ Falls(c, b)
       ELSE UNCHANGED <<blocks, overtaken>>
    /\ Return(c)
    /\ UNCHANGED <<now, Ledgers, records, round, calls, faults, others>>

\* A store call fails, or the process dies: the request ends where it is.
Fault(c) ==
    /\ call[c].pc # "idle" /\ CanFault /\ Faulted
    /\ Return(c)
    /\ UNCHANGED <<now, blocks, Ledgers, records, round, overtaken, calls, others>>

-----------------------------------------------------------------------------
(* Hits, check-ins, deletion *)

\* POST /internal/v1/voicegateway/hits, one entry per block; a report may come late or twice.
RecordHits(t, hit, at) ==
    LET fresh == {b \in hit : <<t, b>> \notin uses}
        credited == {b \in fresh : Writable(b)} IN
    /\ IF Refused(credited)
       THEN denied' = denied \union ({t} \X credited) /\ UNCHANGED <<blocks, uses, realUses>>
       ELSE /\ uses' = uses \union ({t} \X hit)
            /\ realUses' = realUses \union ({"hit"} \X {t} \X credited)
            /\ CreditAll(credited, at)
            /\ UNCHANGED denied
    /\ UNCHANGED <<now, records, call, round, overtaken, calls, faults, others>>

\* RecordRealUses for a fresh check-in id; a block listed twice finds its row in the ledger.
RecordRealUses(k, listed) ==
    LET credited == {b \in listed : Writable(b) /\ <<"checkin", k, b>> \notin realUses} IN
    /\ \A b \in Blocks : <<"checkin", k, b>> \notin realUses
    /\ IF Refused(credited) THEN UNCHANGED <<blocks, realUses>>
       ELSE /\ realUses' = realUses \union ({"checkin"} \X {k} \X credited)
            /\ CreditAll(credited, now)
    /\ UNCHANGED <<now, uses, denied, records, call, round, overtaken, calls, faults, others>>

SoftDeleteBlock(b) ==
    /\ others < MaxOthers /\ others' = others + 1
    /\ Writable(b) /\ blocks' = [blocks EXCEPT ![b].live = FALSE]
    /\ UNCHANGED <<now, Ledgers, records, call, round, overtaken, calls, faults>>

\* SaveAcceptedBlocks: the phrase is accepted again and the row comes back with its old ladder.
ReviveBlock(b) ==
    /\ others < MaxOthers /\ others' = others + 1
    /\ ~Writable(b) /\ blocks' = [blocks EXCEPT ![b].live = TRUE]
    /\ UNCHANGED <<now, Ledgers, records, call, round, overtaken, calls, faults>>

-----------------------------------------------------------------------------
(* GET /drill/round: four reads and writes of the store at the clock of the request, and no lock    *)
(* over them                                                                                        *)

\* Blocks overdue for longer than the window become due at the time of the request.
Swept(row, at) ==
    IF OverdueWindow > 0 /\ row.live /\ row.sched.due + OverdueWindow < at
    THEN [row EXCEPT !.sched.due = at] ELSE row

Due(states, at) ==
    {card \in Blocks \X states :
        LET row == blocks[card[1]] IN row.live /\ row.sched.state = card[2] /\ row.sched.due <= at}

\* The n candidates that are due first (ties are broken by id, which is not modelled).
Earliest(candidates, n) ==
    {chosen \in SUBSET candidates :
        /\ Cardinality(chosen) = IF Cardinality(candidates) <= n THEN Cardinality(candidates) ELSE n
        /\ \A x \in chosen, y \in candidates \ chosen : blocks[x[1]].sched.due <= blocks[y[1]].sched.due}

CountNewReleasesSince(day) ==
    Cardinality({i \in DOMAIN records : records[i].prev.state = "new" /\ records[i].at >= day})

BudgetSpent(at) ==
    /\ DailyNewBlockLimit > 0
    /\ CountNewReleasesSince((at \div DayLength) * DayLength) >= DailyNewBlockLimit

Primary == {"new", "training"}

AskRound(r) ==
    /\ round[r] # None => round[r].pc = "done"
    /\ round' = [round EXCEPT ![r] =
          [pc |-> "sweep", at |-> now, budget |-> IF BudgetSpent(now) THEN "spent" ELSE "left",
           grey |-> "in", owed |-> Due(Primary, now), cards |-> {}]]
    /\ UNCHANGED <<now, blocks, Ledgers, records, call, overtaken, calls, faults, others>>

\* A failed sweep is logged and the round goes on.
SweepOverdue(r) ==
    /\ round[r] # None /\ round[r].pc = "sweep"
    /\ round' = [round EXCEPT ![r] = [@ EXCEPT !.pc = "count"]]
    /\ \/ blocks' = [b \in Blocks |-> Swept(blocks[b], round[r].at)] /\ UNCHANGED faults
       \/ CanFault /\ Faulted /\ UNCHANGED blocks
    /\ UNCHANGED <<now, Ledgers, records, call, overtaken, calls, others>>

\* So is a failed count, without a cap.
roundOptions(r) ==
    /\ round[r] # None /\ round[r].pc = "count"
    /\ \E grey \in {"in", "out", "uncounted"} :
         /\ round' = [round EXCEPT ![r] = [@ EXCEPT !.pc = "primary", !.grey = grey]]
         /\ CASE grey = "uncounted" -> DailyNewBlockLimit > 0 /\ CanFault /\ Faulted
              [] grey = "out" -> BudgetSpent(round[r].at) /\ UNCHANGED faults
              [] grey = "in" -> ~BudgetSpent(round[r].at) /\ UNCHANGED faults
    /\ UNCHANGED <<now, blocks, Ledgers, records, call, overtaken, calls, others>>

\* Mutant: green blocks are not held back.
ListPrimaryMixed(r) ==
    LET q == round[r] IN
    /\ q # None /\ q.pc = "primary"
    /\ \E first \in Earliest(Due(States, q.at), RoundSize) :
         round' = [round EXCEPT ![r] =
           [q EXCEPT !.pc = IF Cardinality(first) >= RoundSize THEN "done" ELSE "green",
                     !.cards = first, !.owed = @ \intersect Due(Primary, q.at)]]
    /\ UNCHANGED <<now, blocks, Ledgers, records, call, overtaken, calls, faults, others>>

\* SelectBlocksForRound, first ListDueBlocks: yellow blocks, and grey ones within the budget.
ListPrimary(r) ==
    LET q == round[r]
        states == IF q.grey = "out" THEN {"training"} ELSE Primary IN
    /\ q # None /\ q.pc = "primary"
    /\ \E first \in Earliest(Due(states, q.at), RoundSize) :
         round' = [round EXCEPT ![r] =
           [q EXCEPT !.pc = IF Cardinality(first) >= RoundSize THEN "done" ELSE "green",
                     !.cards = first, !.owed = @ \intersect Due(Primary, q.at)]]
    /\ UNCHANGED <<now, blocks, Ledgers, records, call, overtaken, calls, faults, others>>

\* Second ListDueBlocks: green blocks for the places left.  A block that turned green since the first
\* list may be in both.
ListGreen(r) ==
    LET q == round[r] IN
    /\ q # None /\ q.pc = "green"
    /\ \E rest \in Earliest(Due({"automated"}, q.at), RoundSize - Cardinality(q.cards)) :
         round' = [round EXCEPT ![r] =
           [q EXCEPT !.pc = "done", !.cards = @ \union rest, !.owed = @ \intersect Due(Primary, q.at)]]
    /\ UNCHANGED <<now, blocks, Ledgers, records, call, overtaken, calls, faults, others>>

\* Without a list there is no round.
RoundFails(r) ==
    /\ round[r] # None /\ round[r].pc \in {"primary", "green"} /\ CanFault /\ Faulted
    /\ round' = [round EXCEPT ![r] = None]
    /\ UNCHANGED <<now, blocks, Ledgers, records, call, overtaken, calls, others>>

RoundNext ==
    \E r \in Rounds :
        \/ AskRound(r) \/ SweepOverdue(r) \/ roundOptions(r) \/ ListPrimary(r) \/ ListGreen(r) \/ RoundFails(r)

-----------------------------------------------------------------------------
Tick ==
    /\ now < MaxTime /\ now' = now + 1
    /\ UNCHANGED <<blocks, Ledgers, records, call, round, overtaken, calls, faults, others>>

-----------------------------------------------------------------------------
Next ==
    \/ \E c \in Calls :
         \/ \E b \in Blocks : Judge(c, b) \/ UpdateBlock(c, b)
         \/ \E pass \in BOOLEAN : JudgeVerdict(c, pass)
         \/ \E i \in DOMAIN records : Appeal(c, i)
         \/ \E text \in Texts : EditText(c, text)
         \/ JudgeFile(c) \/ RecordUnjudged(c)
         \/ AppealLatest(c) \/ AppealRestore(c) \/ AppealStamp(c)
         \/ EditAudit(c) \/ ResetSchedule(c)
         \/ Fault(c)
    \/ \E t \in Turns, hit \in SUBSET Blocks \ {{}}, at \in 0 .. now : RecordHits(t, hit, at)
    \/ \E k \in Checkins, listed \in SUBSET Blocks \ {{}} : RecordRealUses(k, listed)
    \/ \E b \in Blocks : SoftDeleteBlock(b) \/ ReviveBlock(b)
    \/ RoundNext
    \/ Tick

Spec == Init /\ [][Next]_vars
-----------------------------------------------------------------------------
(* Properties *)

\* A ladder position that ApplyJudge and ResetSchedule can produce.
OnLadder(s) ==
    /\ s.state = "new" => s.streak = 0
    /\ s.state = "training" => s.streak < PromoteStreak
    /\ s.state = "automated" => s.streak >= PromoteStreak

\* Colour and streak agree in every row, and in every snapshot that a judge or a record holds and
\* that may be written back later, whatever happened to the block in between
\* (Judge and Appeal write absolute values read earlier).
LadderConsistent ==
    /\ \A b \in Blocks : OnLadder(blocks[b].sched)
    /\ \A i \in DOMAIN records : OnLadder(records[i].prev)
    /\ \A c \in Calls : call[c].pc \in {"judging", "file"} => OnLadder(call[c].row.sched)

Credited(b) == {u \in realUses : u[3] = b}

\* A streak is no longer than the successes in a row behind it (verdicts, hits, check-ins), whatever
\* updates are lost among them, however late an appeal or a revival comes, unless the block failed, was
\* reset or was rolled back while another judge was waiting for the verdict on an older reading of it
\* (Judge, Appeal, ResetSchedule, RecordHits, RecordRealUses).
StreakBacked == \A b \in Blocks \ overtaken : blocks[b].sched.streak <= blocks[b].run

\* real_use_count is the number of the block's rows in the ledger of credited uses, with hits
\* reported twice, late, or for blocks deleted meanwhile (RecordHits, RecordRealUses).
CountIsLedger == \A b \in Blocks : blocks[b].real = Cardinality(Credited(b))

\* Nothing moves the ladder or the counter of a deleted block, not even a request that read the
\* block while it was live; a block accepted again resumes where it stopped.
DeletedIsFrozen ==
    [][\A b \in Blocks : ~blocks[b].live =>
          blocks'[b].sched = blocks[b].sched /\ blocks'[b].real = blocks[b].real]_vars

\* What a round guarantees although its lists are read one after the other: at most RoundSize cards; a
\* green one only if every yellow block that was yellow and due whenever the request looked is in it
\* too, and every such grey one when grey is let in; and no grey card once the day's budget was spent
\* when the round was asked for, unless the count failed (Round, SelectBlocksForRound).
RoundIsFair ==
    \A r \in Rounds : round[r] # None /\ round[r].pc = "done" =>
        LET q == round[r]
            some(state) == \E card \in q.cards : card[2] = state
        IN  /\ Cardinality(q.cards) <= RoundSize
            /\ some("automated") =>
                 \A card \in q.owed : card[2] = "training" \/ q.grey # "out" => card \in q.cards
            /\ q.budget = "spent" /\ q.grey # "uncounted" => ~some("new")

\* The ledger takes the hits reported for a live block: hits_service.go:53-56, "on first insert of
\* (session_id, turn_id, block_id), applies the PRD 5.2.3 writeback".
HitIsCredited == denied = {}

\* internal/corpus/service.go:179-181: "a green light earned on the old wording would claim fluency
\* in a sentence the learner has never said".  Edits under way are left out.
GreenOnThisWording ==
    \A b \in Blocks :
        \/ \E c \in Calls : call[c].block = b /\ call[c].pc \in {"audit", "reset"}
        \/ blocks[b].live /\ blocks[b].sched.state = "automated" => blocks[b].on = blocks[b].text

\* internal/drill/service.go:333-334: "A newer attempt already moved this block; rolling back to an
\* older snapshot would erase it".
RestoreUndoesItsAttempt ==
    [][\A c \in Calls : call[c].pc = "restore" /\ call'[c].pc = "stamp" =>
          LET rec == records[call[c].rec] IN
          /\ blocks[rec.block].sched.state = "training"
          /\ blocks[rec.block].sched.streak = 0]_vars

\* internal/drill/types.go:34: "DailyNewBlockLimit caps how many grey blocks may enter rounds per
\* UTC day"; already one round may exceed it.
NewBlocksCapped ==
    \A r \in Rounds : round[r] # None /\ DailyNewBlockLimit > 0 /\ round[r].grey # "uncounted" =>
        Cardinality({card \in round[r].cards : card[2] = "new"}) <= DailyNewBlockLimit

\* internal/drill/scheduler.go:25: "up to size due cards: new/training first, then automated".  A block
\* that fails between the two lists is yellow and due, and not in the round.
YellowComesFirst ==
    [][\A r \in Rounds : ListGreen(r) /\ round'[r].cards # round[r].cards =>
          Due({"training"}, round[r].at) \subseteq round[r].cards]_vars

\* internal/corpus/schedule.go:13: "how many consecutive successes turn a block green".
StreakIsConsecutive == \A b \in Blocks : blocks[b].sched.streak <= blocks[b].run
=============================================================================
