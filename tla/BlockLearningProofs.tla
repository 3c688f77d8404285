------------------------ MODULE BlockLearningProofs -------------------------
(***************************************************************************)
(* BlockLearning for all values of the constants: a block's colour agrees  *)
(* with its streak and its streak with the successes behind it, although   *)
(* judges and appeals write back what they read long before; the counter   *)
(* of uses is the ledger's; no request moves a deleted row; rounds are     *)
(* fair although their lists are read one after the other.                 *)
(*                                                                         *)
(* LadderConsistent is inductive with the types and the snapshots in it:   *)
(* what a request or a record holds is a row that was on the ladder when   *)
(* it was read, and that is all a later write needs.  What backs a streak  *)
(* (EInv) is carried by the same snapshots: successes in a row only grow   *)
(* in number while a judge waits, or the block is marked as overtaken.     *)
(* Rounds have an invariant of their own (RInv), which needs of the rest   *)
(* only that records are never taken back.                                 *)
(***************************************************************************)
EXTENDS BlockLearning, FiniteSetTheorems, TLAPS

\* What a step of the ladder returns is a position on the ladder.
LEMMA LadderStep ==
    ASSUME NEW s \in Sched, OnLadder(s), NEW pass \in BOOLEAN, NEW at \in Nat
    PROVE  ApplyJudge(s, pass, at) \in Sched /\ OnLadder(ApplyJudge(s, pass, at))
BY LearningAssumption DEF Sched, States, OnLadder, ApplyJudge

\* The writeback of a use keeps a row's type and its place on the ladder.
LEMMA CreditStep ==
    ASSUME NEW row \in Block, OnLadder(row.sched), NEW at \in Nat
    PROVE  Credit(row, at) \in Block /\ OnLadder(Credit(row, at).sched)
<1>1. row.sched \in Sched /\ row.real + 1 \in Nat /\ row.run + 1 \in Nat /\ row.text \in Texts
  BY DEF Block
<1>2. PICK s : s = ApplyJudge(row.sched, TRUE, at)
  OBVIOUS
<1>3. s \in Sched /\ OnLadder(s)
  BY <1>1, <1>2, LadderStep
<1>4. PICK new : new = Credit(row, at)
  OBVIOUS
<1>5. new = [row EXCEPT !.real = row.real + 1, !.sched = s, !.on = row.text, !.run = row.run + 1]
  BY <1>2, <1>4 DEF Credit
<1>6. PICK n \in Nat, k \in Nat : n = row.real + 1 /\ k = row.run + 1
  BY <1>1
<1>7. new = [row EXCEPT !.real = n, !.sched = s, !.on = row.text, !.run = k]
  BY <1>5, <1>6
<1>8. new \in Block /\ new.sched = s
  BY <1>1, <1>3, <1>7 DEF Block
<1>. QED
  BY <1>3, <1>4, <1>8

\* The rows, without the requests and the records.
Rows == blocks \in [Blocks -> Block] /\ \A b \in Blocks : OnLadder(blocks[b].sched)

LEMMA CreditAllStep ==
    ASSUME Rows, NEW credited, NEW at \in Nat, CreditAll(credited, at)
    PROVE  Rows'
BY CreditStep DEF Rows, CreditAll

\* A sweep moves only due dates.
LEMMA SweepStep ==
    ASSUME NEW row \in Block, OnLadder(row.sched), NEW at \in Nat
    PROVE  Swept(row, at) \in Block /\ OnLadder(Swept(row, at).sched)
BY DEF Swept, Block, Sched, OnLadder

LEMMA UpdateScheduleStep ==
    ASSUME Rows, NEW b \in Blocks, NEW s \in Sched, OnLadder(s), NEW on \in Texts, NEW run \in Nat,
           UpdateSchedule(b, s, on, run)
    PROVE  Rows'
<1>1. \A x \in Blocks : blocks[x] \in Block
  BY DEF Rows
<1>2. blocks' \in [Blocks -> Block]
  BY <1>1 DEF Rows, UpdateSchedule, Block
<1>3. \A x \in Blocks : blocks'[x].sched = IF x = b THEN s ELSE blocks[x].sched
  BY <1>1 DEF Rows, UpdateSchedule, Block
<1>. QED
  BY <1>2, <1>3 DEF Rows

-----------------------------------------------------------------------------
(* The inductive invariant, by kind of state *)

Recs == records \in Seq(Record) /\ \A i \in DOMAIN records : OnLadder(records[i].prev)

\* A request holds what its next step needs: a record's number, or a row that was on the ladder.
Sound(r, ids) ==
    /\ r \in Call
    /\ r.pc \in {"latest", "restore", "stamp"} => r.rec \in ids
    /\ r.pc \in {"judging", "file", "text", "audit", "reset"} => r.block \in Blocks /\ r.row \in Block
    /\ r.pc \in {"judging", "file"} => OnLadder(r.row.sched)

Reqs == call \in [Calls -> Call] /\ \A c \in Calls : Sound(call[c], DOMAIN records)

Rest ==
    /\ now \in 0 .. MaxTime
    /\ uses \subseteq Turns \X Blocks
    /\ realUses \subseteq ({"hit"} \X Turns \X Blocks) \union ({"checkin"} \X Checkins \X Blocks)
    /\ round \in [Rounds -> RoundCall \union {None}]
    /\ overtaken \subseteq Blocks
    /\ denied \subseteq Turns \X Blocks
    /\ calls \in 0 .. MaxCalls /\ faults \in 0 .. MaxFaults /\ others \in 0 .. MaxOthers

IInv == Rows /\ Recs /\ Reqs /\ Rest

\* The invariant is the type invariant and the consistency of the ladder.
LEMMA IInvIsBoth == IInv <=> TypeOK /\ LadderConsistent
BY DEF IInv, Rows, Recs, Reqs, Rest, Sound, TypeOK, LadderConsistent

\* A request moves on; the records it and the others name are still there.
LEMMA BecomeStep ==
    ASSUME Reqs, NEW c \in Calls, NEW r, Become(c, r), Sound(r, DOMAIN records'),
           DOMAIN records \subseteq DOMAIN records'
    PROVE  Reqs'
<1>1. call' = [call EXCEPT ![c] = r] /\ r \in Call
  BY DEF Become, Sound
<1>2. call' \in [Calls -> Call]
  BY <1>1 DEF Reqs
<1>3. \A x \in Calls : Sound(call'[x], DOMAIN records')
  BY <1>1 DEF Reqs, Sound
<1>. QED
  BY <1>2, <1>3 DEF Reqs, Sound

LEMMA ReturnStep ==
    ASSUME Reqs, NEW c \in Calls, Return(c), DOMAIN records \subseteq DOMAIN records'
    PROVE  Reqs'
<1>1. Sound(NoCall, DOMAIN records')
  BY DEF Sound, NoCall, Call, Pcs
<1>. QED
  BY <1>1, BecomeStep DEF Return

\* A filed attempt keeps the snapshot of the row that was judged.
LEMMA AttemptStep ==
    ASSUME Recs, NEW r, Sound(r, DOMAIN records), r.pc \in {"judging", "file"},
           NEW judged \in BOOLEAN, NEW at \in Nat,
           records' = Append(records, Attempt(r, judged, at))
    PROVE  Recs' /\ DOMAIN records \subseteq DOMAIN records'
<1> DEFINE e == Attempt(r, judged, at)
<1>1. r.row \in Block /\ r.block \in Blocks /\ r.pass \in BOOLEAN /\ OnLadder(r.row.sched)
  BY DEF Sound, Call
<1>2. e \in Record /\ e.prev = r.row.sched
  BY <1>1 DEF Attempt, Record, Block
<1>3. /\ records' \in Seq(Record) /\ Len(records') = Len(records) + 1
      /\ \A i \in 1 .. Len(records) : records'[i] = records[i]
      /\ records'[Len(records) + 1] = e
  BY <1>2 DEF Recs
<1>4. \A i \in DOMAIN records' : OnLadder(records'[i].prev)
  <2> SUFFICES ASSUME NEW i \in DOMAIN records' PROVE OnLadder(records'[i].prev)
    OBVIOUS
  <2>1. i \in 1 .. Len(records) \/ i = Len(records) + 1
    BY <1>3 DEF Recs
  <2>2. CASE i \in 1 .. Len(records)
    BY <1>3, <2>2 DEF Recs
  <2>3. CASE i = Len(records) + 1
    BY <1>1, <1>2, <1>3, <2>3
  <2>. QED
    BY <2>1, <2>2, <2>3
<1>. QED
  BY <1>3, <1>4 DEF Recs

LEMMA RowsStay ==
    ASSUME Rows, UNCHANGED blocks PROVE Rows'
BY DEF Rows

LEMMA RecsStay ==
    ASSUME Recs, UNCHANGED records PROVE Recs'
BY DEF Recs

LEMMA ReqsStay ==
    ASSUME Reqs, UNCHANGED <<call, records>> PROVE Reqs'
BY DEF Reqs, Sound

-----------------------------------------------------------------------------
(* One lemma per request: what its steps leave of the invariant *)

LEMMA Numbers == ASSUME Rest PROVE now \in Nat
BY LearningAssumption DEF Rest

\* What a step must show of the clock, the round, the counters and the ghosts.
LEMMA RestStep ==
    ASSUME Rest, UNCHANGED <<uses, realUses, denied>>, now' \in 0 .. MaxTime,
           round' \in [Rounds -> RoundCall \union {None}], overtaken' \subseteq Blocks, calls' \in 0 .. MaxCalls, faults' \in 0 .. MaxFaults,
           others' \in 0 .. MaxOthers
    PROVE  Rest'
BY DEF Rest

\* A step of a request that starts none and meets no fault.
LEMMA RestStay ==
    ASSUME Rest, UNCHANGED <<uses, realUses, denied, now, round, calls, faults, others>>,
           overtaken' \subseteq Blocks
    PROVE  Rest'
BY RestStep DEF Rest

\* A request begins.
LEMMA RestBegin ==
    ASSUME Rest, Begin, UNCHANGED <<uses, realUses, denied, now, round, overtaken, faults, others>>
    PROVE  Rest'
<1>1. calls' \in 0 .. MaxCalls
  BY LearningAssumption DEF Rest, Begin
<1>. QED
  BY <1>1, RestStep DEF Rest

\* A ladder that falls is a block's.
LEMMA FallsStep ==
    ASSUME Rest, NEW c, NEW b \in Blocks, Falls(c, b)
    PROVE  overtaken' \subseteq Blocks
BY DEF Rest, Falls

LEMMA JudgeSteps ==
    ASSUME IInv, NEW c \in Calls,
           \/ \E b \in Blocks : Judge(c, b)
           \/ \E pass \in BOOLEAN : JudgeVerdict(c, pass)
           \/ JudgeFile(c)
           \/ RecordUnjudged(c)
    PROVE  IInv'
<1> USE DEF IInv
<1>1. ASSUME NEW b \in Blocks, Judge(c, b) PROVE IInv'
  <2> DEFINE r == [NoCall EXCEPT !.pc = "judging", !.block = b, !.row = blocks[b]]
  <2>1. blocks[b] \in Block /\ OnLadder(blocks[b].sched)
    BY DEF Rows
  <2>2. Sound(r, DOMAIN records')
    <3>1. ASSUME NEW row \in Block, OnLadder(row.sched)
          PROVE  Sound([NoCall EXCEPT !.pc = "judging", !.block = b, !.row = row], DOMAIN records')
      BY <3>1 DEF Sound, NoCall, Call, Pcs
    <3>. QED
      BY <2>1, <3>1
  <2>3. Become(c, r) /\ UNCHANGED <<blocks, records>>
    BY <1>1 DEF Judge
  <2>4. Reqs'
    BY <2>2, <2>3, BecomeStep
  <2>5. Rest'
    BY <1>1, RestBegin DEF Judge, Ledgers
  <2>. QED
    BY <2>3, <2>4, <2>5, RowsStay, RecsStay
<1>2. ASSUME NEW pass \in BOOLEAN, JudgeVerdict(c, pass) PROVE IInv'
  <2> DEFINE r == call[c]
             s == ApplyJudge(r.row.sched, pass, now)
             q == [r EXCEPT !.pc = "file", !.pass = pass, !.at = now]
  <2>1. /\ r \in Call /\ r.pc = "judging" /\ r.block \in Blocks
        /\ r.row \in Block /\ OnLadder(r.row.sched)
    BY <1>2 DEF JudgeVerdict, Reqs, Sound
  <2>2. /\ r.row.sched \in Sched /\ r.row.text \in Texts /\ now \in Nat
        /\ blocks[r.block].run \in Nat
    BY <2>1, Numbers DEF Block, Rows
  <2>3. s \in Sched /\ OnLadder(s)
    BY <2>1, <2>2, LadderStep
  <2>4. UNCHANGED records
    BY <1>2 DEF JudgeVerdict
  <2>5. CASE Writable(r.block)
    <3>1. PICK run \in Nat : UpdateSchedule(r.block, s, r.row.text, run)
      <4>1. UpdateSchedule(r.block, s, r.row.text, IF pass THEN blocks[r.block].run + 1 ELSE 0)
        BY <1>2, <2>5 DEF JudgeVerdict
      <4>2. PICK n \in Nat : n = IF pass THEN blocks[r.block].run + 1 ELSE 0
        BY <2>2
      <4>. QED
        BY <4>1, <4>2
    <3>6. Become(c, q) /\ overtaken' \subseteq Blocks
      BY <1>2, <2>1, <2>5, FallsStep DEF JudgeVerdict, Rest
    <3>2. Rows'
      BY <3>1, <2>1, <2>2, <2>3, UpdateScheduleStep
    <3>3. Sound(q, DOMAIN records')
      <4>1. q \in Call
        BY <2>1, <2>2 DEF Call, Pcs
      <4>2. q.pc = "file" /\ q.block = r.block /\ q.row = r.row
        BY <2>1 DEF Call
      <4>. QED
        BY <4>1, <4>2, <2>1 DEF Sound
    <3>4. Reqs'
      BY <3>6, <3>3, <2>4, BecomeStep
    <3>5. Rest'
      BY <1>2, <3>6, RestStay DEF JudgeVerdict, Ledgers
    <3>. QED
      BY <3>2, <3>4, <3>5, <2>4, RecsStay
  <2>6. CASE ~Writable(r.block)
    <3>1. UNCHANGED <<blocks, overtaken>> /\ Return(c)
      BY <1>2, <2>6 DEF JudgeVerdict
    <3>2. Rest'
      BY <1>2, <3>1, RestStay DEF JudgeVerdict, Ledgers, Rest
    <3>. QED
      BY <3>1, <3>2, <2>4, RowsStay, RecsStay, ReturnStep
  <2>. QED
    BY <2>5, <2>6
<1>3. ASSUME JudgeFile(c) PROVE IInv'
  <2>1. Sound(call[c], DOMAIN records) /\ call[c].pc = "file" /\ call[c].at \in Nat
    BY <1>3 DEF JudgeFile, Reqs, Sound, Call
  <2>2. Recs' /\ DOMAIN records \subseteq DOMAIN records'
    BY <1>3, <2>1, AttemptStep DEF JudgeFile
  <2>3. Rest'
    BY <1>3, RestStay DEF JudgeFile, Ledgers, Rest
  <2>. QED
    BY <1>3, <2>2, <2>3, RowsStay, ReturnStep DEF JudgeFile
<1>4. ASSUME RecordUnjudged(c) PROVE IInv'
  <2>1. Sound(call[c], DOMAIN records) /\ call[c].pc = "judging" /\ now \in Nat
    BY <1>4, Numbers DEF RecordUnjudged, Reqs
  <2>2. Recs' /\ DOMAIN records \subseteq DOMAIN records'
    BY <1>4, <2>1, AttemptStep DEF RecordUnjudged
  <2>3. Rest'
    BY <1>4, RestStay DEF RecordUnjudged, Ledgers, Rest
  <2>. QED
    BY <1>4, <2>2, <2>3, RowsStay, ReturnStep DEF RecordUnjudged
<1>. QED
  BY <1>1, <1>2, <1>3, <1>4

LEMMA AppealSteps ==
    ASSUME IInv, NEW c \in Calls,
           \/ \E i \in DOMAIN records : Appeal(c, i)
           \/ AppealLatest(c)
           \/ AppealRestore(c)
           \/ AppealStamp(c)
    PROVE  IInv'
<1> USE DEF IInv
<1>1. ASSUME NEW i \in DOMAIN records, Appeal(c, i) PROVE IInv'
  <2>1. records[i].block \in Blocks /\ i \in Nat
    <3>1. records[i] \in Record /\ i \in Nat
      BY DEF Recs
    <3>. QED
      BY <3>1 DEF Record
  <2>2. ASSUME NEW b \in Blocks, NEW pc \in {"latest", "stamp"}
        PROVE  Sound([NoCall EXCEPT !.rec = i, !.block = b, !.pc = pc], DOMAIN records)
    BY <2>1 DEF Sound, NoCall, Call, Pcs
  <2> DEFINE r(pc) == [NoCall EXCEPT !.rec = i, !.block = records[i].block, !.pc = pc]
  <2>3. PICK pc \in {"latest", "stamp"} : Become(c, r(pc))
    <3>1. Become(c, r(IF records[i].judged /\ ~records[i].pass THEN "latest" ELSE "stamp"))
      BY <1>1 DEF Appeal
    <3>2. Become(c, r("latest")) \/ Become(c, r("stamp"))
      BY <3>1, Zenon
    <3>. QED
      BY <3>2
  <2>4. UNCHANGED <<blocks, records>>
    BY <1>1 DEF Appeal
  <2>5. Reqs'
    <3>1. Sound(r(pc), DOMAIN records')
      BY <2>1, <2>2, <2>4
    <3>. QED
      BY <2>3, <2>4, <3>1, BecomeStep
  <2>6. Rest'
    BY <1>1, RestBegin DEF Appeal, Ledgers
  <2>. QED
    BY <2>4, <2>5, <2>6, RowsStay, RecsStay
<1>2. ASSUME NEW pc \in {"restore", "stamp"}, call[c].pc \in {"latest", "restore"}, Go(c, pc),
             UNCHANGED records
      PROVE  Reqs'
  <2> DEFINE r == [call[c] EXCEPT !.pc = pc]
  <2>1. call[c] \in Call /\ call[c].rec \in DOMAIN records
    BY <1>2 DEF Reqs, Sound
  <2>2. r \in Call /\ r.pc = pc /\ r.rec = call[c].rec
    BY <2>1 DEF Call, Pcs
  <2>3. Sound(r, DOMAIN records')
    BY <1>2, <2>1, <2>2 DEF Sound
  <2>. QED
    BY <1>2, <2>3, BecomeStep DEF Go
<1>3. ASSUME AppealLatest(c) PROVE IInv'
  <2>1. UNCHANGED <<blocks, records>> /\ Reqs'
    BY <1>2, <1>3 DEF AppealLatest
  <2>2. Rest'
    BY <1>3, RestStay DEF AppealLatest, Ledgers, Rest
  <2>. QED
    BY <2>1, <2>2, RowsStay, RecsStay
<1>4. ASSUME AppealRestore(c) PROVE IInv'
  <2> DEFINE rec == records[call[c].rec]
  <2>1. rec \in Record /\ OnLadder(rec.prev) /\ call[c].pc = "restore" /\ UNCHANGED records
    BY <1>4 DEF AppealRestore, Reqs, Sound, Recs
  <2>2. rec.block \in Blocks /\ rec.prev \in Sched /\ rec.on \in Texts /\ rec.run \in Nat
    BY <2>1 DEF Record
  <2>3. Rest'
    <3>1. overtaken' \subseteq Blocks
      BY <1>4, <2>2, FallsStep DEF AppealRestore, Rest
    <3>. QED
      BY <1>4, <3>1, RestStay DEF AppealRestore, Ledgers
  <2>4. CASE Writable(rec.block)
    <3>1. UpdateSchedule(rec.block, rec.prev, rec.on, rec.run) /\ Go(c, "stamp")
      BY <1>4, <2>4 DEF AppealRestore
    <3>2. Rows'
      BY <3>1, <2>1, <2>2, UpdateScheduleStep
    <3>3. Reqs'
      BY <3>1, <2>1, <1>2
    <3>. QED
      BY <3>2, <3>3, <2>1, <2>3, RecsStay
  <2>5. CASE ~Writable(rec.block)
    BY <1>4, <2>1, <2>3, <2>5, RowsStay, RecsStay, ReturnStep DEF AppealRestore
  <2>. QED
    BY <2>4, <2>5
<1>5. ASSUME AppealStamp(c) PROVE IInv'
  <2> DEFINE i == call[c].rec
  <2>1. i \in DOMAIN records /\ records[i] \in Record
    BY <1>5 DEF AppealStamp, Reqs, Sound, Recs
  <2>2. records' = [records EXCEPT ![i] = [records[i] EXCEPT !.appealed = TRUE]]
    BY <1>5 DEF AppealStamp
  <2>3. /\ [records[i] EXCEPT !.appealed = TRUE] \in Record
        /\ [records[i] EXCEPT !.appealed = TRUE].prev = records[i].prev
    BY <2>1 DEF Record
  <2>4. Recs' /\ DOMAIN records' = DOMAIN records
    BY <2>1, <2>2, <2>3 DEF Recs
  <2>5. Rest'
    BY <1>5, RestStay DEF AppealStamp, Ledgers, Rest
  <2>. QED
    BY <1>5, <2>4, <2>5, RowsStay, ReturnStep DEF AppealStamp
<1>. QED
  BY <1>1, <1>3, <1>4, <1>5

LEMMA EditSteps ==
    ASSUME IInv, NEW c \in Calls,
           \/ \E b \in Blocks : UpdateBlock(c, b)
           \/ \E text \in Texts : EditText(c, text)
           \/ EditAudit(c)
           \/ ResetSchedule(c)
    PROVE  IInv'
<1> USE DEF IInv
\* A row that changes only in its wording and version stays in its place.
<1>1. ASSUME NEW b \in Blocks, NEW row \in Block, row.sched = blocks[b].sched,
             blocks' = [blocks EXCEPT ![b] = row]
      PROVE  Rows'
  BY <1>1 DEF Rows
<1>2. ASSUME NEW b \in Blocks, UpdateBlock(c, b) PROVE IInv'
  <2>1. blocks[b] \in Block
    BY DEF Rows
  <2>2. ASSUME NEW row \in Block
        PROVE  Sound([NoCall EXCEPT !.pc = "text", !.block = b, !.row = row], DOMAIN records)
    BY DEF Sound, NoCall, Call, Pcs
  <2>3. /\ UNCHANGED <<blocks, records>>
        /\ Become(c, [NoCall EXCEPT !.pc = "text", !.block = b, !.row = blocks[b]])
    BY <1>2 DEF UpdateBlock
  <2>4. Sound([NoCall EXCEPT !.pc = "text", !.block = b, !.row = blocks[b]], DOMAIN records')
    BY <2>1, <2>2, <2>3
  <2>5. Reqs'
    BY <2>3, <2>4, BecomeStep
  <2>6. Rest'
    BY <1>2, RestBegin DEF UpdateBlock, Ledgers
  <2>. QED
    BY <2>3, <2>5, <2>6, RowsStay, RecsStay
<1>3. ASSUME NEW text \in Texts, EditText(c, text) PROVE IInv'
  <2> DEFINE r == call[c]
             b == r.block
             saved == [blocks[b] EXCEPT !.text = text,
                                        !.version = IF Store = "memory" THEN r.row.version ELSE @]
             q == [r EXCEPT !.pc = "audit", !.row = saved, !.at = now]
  <2>1. /\ r \in Call /\ r.pc = "text" /\ b \in Blocks /\ r.row \in Block
        /\ blocks[b] \in Block /\ now \in Nat
    BY <1>3, Numbers DEF EditText, Reqs, Sound, Rows
  <2>2. saved \in Block /\ saved.sched = blocks[b].sched
    <3>1. ASSUME NEW n \in Nat
          PROVE  /\ [blocks[b] EXCEPT !.text = text, !.version = n] \in Block
                 /\ [blocks[b] EXCEPT !.text = text, !.version = n].sched = blocks[b].sched
      BY <2>1 DEF Block
    <3>2. (IF Store = "memory" THEN r.row.version ELSE blocks[b].version) \in Nat
      BY <2>1 DEF Block
    <3>. QED
      BY <3>1, <3>2
  <2>3. UNCHANGED records /\ Rest'
    BY <1>3, RestStay DEF EditText, Ledgers, Rest
  <2>4. CASE ~Writable(b)
    BY <1>3, <2>3, <2>4, RowsStay, RecsStay, ReturnStep DEF EditText
  <2>5. CASE Writable(b)
    <3>1. blocks' = [blocks EXCEPT ![b] = saved] /\ (Return(c) \/ Become(c, q))
      BY <1>3, <2>5 DEF EditText
    <3>2. Rows'
      BY <3>1, <2>1, <2>2, <1>1
    <3>3. Sound(q, DOMAIN records')
      <4>1. ASSUME NEW row \in Block
            PROVE  Sound([r EXCEPT !.pc = "audit", !.row = row, !.at = now], DOMAIN records')
        BY <2>1 DEF Sound, Call, Pcs
      <4>. QED
        BY <4>1, <2>2
    <3>4. Reqs'
      BY <3>1, <3>3, <2>3, BecomeStep, ReturnStep
    <3>. QED
      BY <3>2, <3>4, <2>3, RecsStay
  <2>. QED
    BY <2>4, <2>5
<1>4. ASSUME EditAudit(c) PROVE IInv'
  <2> DEFINE r == call[c]
             q == [r EXCEPT !.pc = "reset"]
  <2>1. /\ r \in Call /\ r.pc = "audit" /\ r.block \in Blocks /\ r.row \in Block
        /\ blocks[r.block] \in Block
    BY <1>4 DEF EditAudit, Reqs, Sound, Rows
  <2>2. UNCHANGED records /\ Become(c, q)
    BY <1>4 DEF EditAudit, Go
  <2>3. Sound(q, DOMAIN records')
    BY <2>1 DEF Sound, Call, Pcs
  <2>4. Reqs'
    BY <2>2, <2>3, BecomeStep
  <2>5. Rows'
    <3>1. CASE UNCHANGED blocks
      BY <3>1, RowsStay
    <3>2. CASE blocks' = [blocks EXCEPT ![r.block].version = r.row.version + 1]
      <4> DEFINE row == [blocks[r.block] EXCEPT !.version = r.row.version + 1]
      <4>1. row \in Block /\ row.sched = blocks[r.block].sched
        BY <2>1 DEF Block
      <4>2. blocks' = [blocks EXCEPT ![r.block] = row]
        BY <3>2
      <4>. QED
        BY <4>1, <4>2, <2>1, <1>1
    <3>. QED
      BY <1>4, <3>1, <3>2 DEF EditAudit
  <2>6. faults' \in 0 .. MaxFaults
    BY <1>4, LearningAssumption DEF EditAudit, Rest, CanFault, Faulted
  <2>7. Rest'
    BY <1>4, <2>6, RestStep DEF EditAudit, Ledgers, Rest
  <2>. QED
    BY <2>2, <2>4, <2>5, <2>7, RecsStay
<1>5. ASSUME ResetSchedule(c) PROVE IInv'
  <2> DEFINE r == call[c]
             fresh == [state |-> "new", streak |-> 0, due |-> r.at + TrainingInterval]
  <2>1. /\ r.at \in Nat /\ r.block \in Blocks /\ blocks[r.block].text \in Texts
    BY <1>5 DEF ResetSchedule, Reqs, Sound, Rows, Call, Block
  <2>2. fresh \in Sched /\ OnLadder(fresh)
    BY <2>1, LearningAssumption DEF Sched, States, OnLadder
  <2>3. Rows'
    BY <1>5, <2>1, <2>2, UpdateScheduleStep, RowsStay DEF ResetSchedule
  <2>4. Rest'
    <3>1. overtaken' \subseteq Blocks
      BY <1>5, <2>1, FallsStep DEF ResetSchedule, Rest
    <3>. QED
      BY <1>5, <3>1, RestStay DEF ResetSchedule, Ledgers
  <2>. QED
    BY <1>5, <2>3, <2>4, RecsStay, ReturnStep DEF ResetSchedule
<1>. QED
  BY <1>2, <1>3, <1>4, <1>5

\* Reports of uses: the ledgers grow by what was reported.
LEMMA UseSteps ==
    ASSUME IInv,
           \/ \E u \in Turns, hit \in SUBSET Blocks, at \in 0 .. now : RecordHits(u, hit, at)
           \/ \E k \in Checkins, listed \in SUBSET Blocks : RecordRealUses(k, listed)
    PROVE  IInv'
<1> USE DEF IInv
<1>0. now \in Nat
  BY Numbers
<1>1. ASSUME NEW u \in Turns, NEW hit \in SUBSET Blocks, NEW at \in 0 .. now, RecordHits(u, hit, at)
      PROVE  IInv'
  <2> DEFINE credited == {b \in {x \in hit : <<u, x>> \notin uses} : Writable(b)}
  <2>1. UNCHANGED <<call, records, now, round, overtaken, calls, faults, others>>
    BY <1>1 DEF RecordHits
  <2>2. at \in Nat /\ credited \subseteq Blocks
    BY <1>0
  <2>3. CASE Refused(credited)
    <3>1. /\ denied' = denied \union ({u} \X credited)
          /\ UNCHANGED <<blocks, uses, realUses>>
      BY <1>1, <2>3 DEF RecordHits
    <3>2. denied' \subseteq Turns \X Blocks
      BY <3>1, <2>2 DEF Rest
    <3>3. Rest'
      BY <2>1, <3>1, <3>2 DEF Rest
    <3>. QED
      BY <2>1, <3>1, <3>3, RowsStay, RecsStay, ReqsStay
  <2>4. CASE ~Refused(credited)
    <3>1. /\ uses' = uses \union ({u} \X hit)
          /\ realUses' = realUses \union ({"hit"} \X {u} \X credited)
          /\ CreditAll(credited, at)
          /\ UNCHANGED denied
      BY <1>1, <2>4 DEF RecordHits
    <3>2. Rows'
      BY <3>1, <2>2, CreditAllStep
    <3>3. uses' \subseteq Turns \X Blocks
      BY <3>1 DEF Rest
    <3>4. {"hit"} \X {u} \X credited \subseteq {"hit"} \X Turns \X Blocks
      BY <2>2
    <3>5. realUses' \subseteq ({"hit"} \X Turns \X Blocks) \union ({"checkin"} \X Checkins \X Blocks)
      BY <3>1, <3>4 DEF Rest
    <3>6. Rest'
      BY <2>1, <3>1, <3>3, <3>5 DEF Rest
    <3>. QED
      BY <2>1, <3>2, <3>6, RecsStay, ReqsStay
  <2>. QED
    BY <2>3, <2>4
<1>2. ASSUME NEW k \in Checkins, NEW listed \in SUBSET Blocks, RecordRealUses(k, listed) PROVE IInv'
  <2> DEFINE credited == {b \in listed : Writable(b) /\ <<"checkin", k, b>> \notin realUses}
  <2>1. UNCHANGED <<call, records, now, uses, denied, round, overtaken, calls, faults, others>>
    BY <1>2 DEF RecordRealUses
  <2>2. credited \subseteq Blocks
    OBVIOUS
  <2>3. CASE Refused(credited)
    <3>1. UNCHANGED <<blocks, realUses>>
      BY <1>2, <2>3 DEF RecordRealUses
    <3>. QED
      BY <2>1, <3>1, RowsStay, RecsStay, ReqsStay, RestStay DEF Rest
  <2>4. CASE ~Refused(credited)
    <3>1. /\ realUses' = realUses \union ({"checkin"} \X {k} \X credited)
          /\ CreditAll(credited, now)
      BY <1>2, <2>4 DEF RecordRealUses
    <3>2. Rows'
      BY <3>1, <1>0, CreditAllStep
    <3>3. {"checkin"} \X {k} \X credited \subseteq {"checkin"} \X Checkins \X Blocks
      BY <2>2
    <3>4. realUses' \subseteq ({"hit"} \X Turns \X Blocks) \union ({"checkin"} \X Checkins \X Blocks)
      BY <3>1, <3>3 DEF Rest
    <3>5. Rest'
      BY <2>1, <3>4 DEF Rest
    <3>. QED
      BY <2>1, <3>2, <3>5, RecsStay, ReqsStay
  <2>. QED
    BY <2>3, <2>4
<1>. QED
  BY <1>1, <1>2

\* The lists of a round hold cards.
LEMMA DueIsCards ==
    ASSUME NEW states \in SUBSET States, NEW at PROVE Due(states, at) \subseteq Card
BY DEF Due, Card

\* What each step of a round leaves of it.
LEMMA RoundSteps ==
    ASSUME IInv, RoundNext
    PROVE  /\ round' \in [Rounds -> RoundCall \union {None}]
           /\ faults' \in 0 .. MaxFaults
           /\ UNCHANGED <<now, uses, realUses, denied, records, call, overtaken, calls, others>>
           /\ UNCHANGED blocks \/ \E at \in Nat : blocks' = [b \in Blocks |-> Swept(blocks[b], at)]
<1>0. /\ round \in [Rounds -> RoundCall \union {None}] /\ now \in Nat /\ faults \in 0 .. MaxFaults
      /\ CanFault /\ Faulted => faults' \in 0 .. MaxFaults
  BY Numbers, LearningAssumption DEF IInv, Rest, CanFault, Faulted
<1>1. ASSUME NEW r \in Rounds, NEW q \in RoundCall \union {None}, round' = [round EXCEPT ![r] = q]
      PROVE  round' \in [Rounds -> RoundCall \union {None}]
  BY <1>0, <1>1
<1>2. \A at : Due(Primary, at) \subseteq Card /\ Due({"training"}, at) \subseteq Card
                /\ Due({"automated"}, at) \subseteq Card
  BY DueIsCards DEF Primary, States
<1>3. ASSUME NEW r \in Rounds, AskRound(r) PROVE round' \in [Rounds -> RoundCall \union {None}]
  <2>1. \A budget \in {"spent", "left"}, owed \in SUBSET Card :
          [pc |-> "sweep", at |-> now, budget |-> budget, grey |-> "in", owed |-> owed, cards |-> {}]
            \in RoundCall
    BY <1>0 DEF RoundCall
  <2>2. [pc |-> "sweep", at |-> now, budget |-> IF BudgetSpent(now) THEN "spent" ELSE "left",
         grey |-> "in", owed |-> Due(Primary, now), cards |-> {}] \in RoundCall
    BY <1>2, <2>1
  <2>. QED
    BY <1>1, <1>3, <2>2 DEF AskRound
<1>4. ASSUME NEW r \in Rounds, SweepOverdue(r)
      PROVE  /\ round' \in [Rounds -> RoundCall \union {None}] /\ faults' \in 0 .. MaxFaults
             /\ UNCHANGED blocks \/ \E at \in Nat : blocks' = [b \in Blocks |-> Swept(blocks[b], at)]
  <2>1. round[r] \in RoundCall
    BY <1>0, <1>4 DEF SweepOverdue
  <2>2. [round[r] EXCEPT !.pc = "count"] \in RoundCall /\ round[r].at \in Nat
    BY <2>1 DEF RoundCall
  <2>. QED
    BY <1>0, <1>1, <1>4, <2>2 DEF SweepOverdue
<1>5. ASSUME NEW r \in Rounds, roundOptions(r)
      PROVE  round' \in [Rounds -> RoundCall \union {None}] /\ faults' \in 0 .. MaxFaults
  <2>1. round[r] \in RoundCall
    BY <1>0, <1>5 DEF roundOptions
  <2>2. PICK grey \in {"in", "out", "uncounted"} :
          /\ round' = [round EXCEPT ![r] = [round[r] EXCEPT !.pc = "primary", !.grey = grey]]
          /\ (CanFault /\ Faulted) \/ UNCHANGED faults
    BY <1>5 DEF roundOptions
  <2>3. [round[r] EXCEPT !.pc = "primary", !.grey = grey] \in RoundCall
    BY <2>1 DEF RoundCall
  <2>. QED
    BY <1>0, <1>1, <2>2, <2>3
<1>6. ASSUME NEW q \in RoundCall, NEW pc \in {"green", "done"}, NEW cards \in SUBSET Card,
             NEW owed \in SUBSET Card
      PROVE  [q EXCEPT !.pc = pc, !.cards = cards, !.owed = owed] \in RoundCall
  BY DEF RoundCall
<1>7. ASSUME NEW r \in Rounds, ListPrimary(r) PROVE round' \in [Rounds -> RoundCall \union {None}]
  <2> DEFINE q == round[r]
             states == IF q.grey = "out" THEN {"training"} ELSE Primary
  <2>1. q \in RoundCall /\ q.owed \subseteq Card
    BY <1>0, <1>7 DEF ListPrimary, RoundCall
  <2>2. PICK first \in Earliest(Due(states, q.at), RoundSize) :
          round' = [round EXCEPT ![r] =
            [q EXCEPT !.pc = IF Cardinality(first) >= RoundSize THEN "done" ELSE "green",
                      !.cards = first, !.owed = @ \intersect Due(Primary, q.at)]]
    BY <1>7 DEF ListPrimary
  <2>3. first \subseteq Card /\ q.owed \intersect Due(Primary, q.at) \in SUBSET Card
    BY <1>2, <2>1 DEF Earliest
  <2>4. PICK pc \in {"green", "done"} : pc = IF Cardinality(first) >= RoundSize THEN "done" ELSE "green"
    OBVIOUS
  <2>5. round' = [round EXCEPT ![r] =
          [q EXCEPT !.pc = pc, !.cards = first, !.owed = q.owed \intersect Due(Primary, q.at)]]
    BY <2>2, <2>4
  <2>6. [q EXCEPT !.pc = pc, !.cards = first, !.owed = q.owed \intersect Due(Primary, q.at)] \in RoundCall
    BY <1>6, <2>1, <2>3
  <2>. QED
    BY <1>1, <2>5, <2>6
<1>8. ASSUME NEW r \in Rounds, ListGreen(r) PROVE round' \in [Rounds -> RoundCall \union {None}]
  <2> DEFINE q == round[r]
  <2>1. q \in RoundCall /\ q.owed \subseteq Card /\ q.cards \subseteq Card
    BY <1>0, <1>8 DEF ListGreen, RoundCall
  <2>2. PICK rest \in Earliest(Due({"automated"}, q.at), RoundSize - Cardinality(q.cards)) :
          round' = [round EXCEPT ![r] =
            [q EXCEPT !.pc = "done", !.cards = q.cards \union rest,
                      !.owed = q.owed \intersect Due(Primary, q.at)]]
    BY <1>8 DEF ListGreen
  <2>3. q.cards \union rest \in SUBSET Card /\ q.owed \intersect Due(Primary, q.at) \in SUBSET Card
    BY <1>2, <2>1 DEF Earliest
  <2>4. [q EXCEPT !.pc = "done", !.cards = q.cards \union rest,
                  !.owed = q.owed \intersect Due(Primary, q.at)] \in RoundCall
    BY <1>6, <2>1, <2>3
  <2>. QED
    BY <1>1, <2>2, <2>4
<1>9. ASSUME NEW r \in Rounds, RoundFails(r)
      PROVE  round' \in [Rounds -> RoundCall \union {None}] /\ faults' \in 0 .. MaxFaults
  BY <1>0, <1>1, <1>9 DEF RoundFails
<1>10. PICK r \in Rounds : \/ AskRound(r) \/ SweepOverdue(r) \/ roundOptions(r)
                           \/ ListPrimary(r) \/ ListGreen(r) \/ RoundFails(r)
  BY DEF RoundNext
<1>11. UNCHANGED <<now, uses, realUses, denied, records, call, overtaken, calls, others>>
  BY <1>10 DEF AskRound, SweepOverdue, roundOptions, ListPrimary, ListGreen, RoundFails, Ledgers
<1>12. SweepOverdue(r) \/ UNCHANGED blocks
  BY <1>10 DEF AskRound, roundOptions, ListPrimary, ListGreen, RoundFails
<1>13. SweepOverdue(r) \/ roundOptions(r) \/ RoundFails(r) \/ UNCHANGED faults
  BY <1>10 DEF AskRound, ListPrimary, ListGreen
<1>. QED
  BY <1>0, <1>3, <1>4, <1>5, <1>7, <1>8, <1>9, <1>10, <1>11, <1>12, <1>13

\* Deletion, revival, rounds, faults and time leave the ladder where it is.
LEMMA OtherSteps ==
    ASSUME IInv,
           \/ \E b \in Blocks : SoftDeleteBlock(b) \/ ReviveBlock(b)
           \/ RoundNext
           \/ \E c \in Calls : Fault(c)
           \/ Tick
    PROVE  IInv'
<1> USE DEF IInv
<1>1. ASSUME NEW b \in Blocks, SoftDeleteBlock(b) \/ ReviveBlock(b) PROVE IInv'
  <2>1. PICK live \in BOOLEAN : blocks' = [blocks EXCEPT ![b].live = live]
    BY <1>1 DEF SoftDeleteBlock, ReviveBlock
  <2>2. \A x \in Blocks : blocks[x] \in Block
    BY DEF Rows
  <2>3. /\ [blocks[b] EXCEPT !.live = live] \in Block
        /\ [blocks[b] EXCEPT !.live = live].sched = blocks[b].sched
    BY <2>2 DEF Block
  <2>4. Rows'
    BY <2>1, <2>3 DEF Rows
  <2>5. others' \in 0 .. MaxOthers
    BY <1>1, LearningAssumption DEF SoftDeleteBlock, ReviveBlock, Rest
  <2>6. UNCHANGED <<call, records, now, uses, realUses, denied, round, overtaken, calls, faults>>
    BY <1>1 DEF SoftDeleteBlock, ReviveBlock, Ledgers
  <2>7. Rest'
    BY <2>5, <2>6, RestStep DEF Rest
  <2>. QED
    BY <2>4, <2>6, <2>7, RecsStay, ReqsStay
<1>2. ASSUME RoundNext PROVE IInv'
  <2>1. Rest'
    BY <1>2, RoundSteps, RestStep DEF Rest
  <2>2. Rows'
    BY <1>2, RoundSteps, RowsStay, SweepStep DEF Rows
  <2>. QED
    BY <1>2, <2>1, <2>2, RoundSteps, RecsStay, ReqsStay
<1>3. ASSUME NEW c \in Calls, Fault(c) PROVE IInv'
  <2>1. faults' \in 0 .. MaxFaults
    BY <1>3, LearningAssumption DEF Fault, CanFault, Faulted, Rest
  <2>2. /\ UNCHANGED <<blocks, records, now, uses, realUses, denied, round, overtaken, calls, others>>
        /\ Return(c)
    BY <1>3 DEF Fault, Ledgers
  <2>3. Rest'
    BY <2>1, <2>2, RestStep DEF Rest
  <2>. QED
    BY <2>2, <2>3, RowsStay, RecsStay, ReturnStep
<1>4. ASSUME Tick PROVE IInv'
  <2>1. now' \in 0 .. MaxTime
    BY <1>4, LearningAssumption DEF Tick, Rest
  <2>2. UNCHANGED <<blocks, records, call, uses, realUses, denied, round, overtaken, calls, faults,
                    others>>
    BY <1>4 DEF Tick, Ledgers
  <2>3. Rest'
    BY <2>1, <2>2, RestStep DEF Rest
  <2>. QED
    BY <2>2, <2>3, RowsStay, RecsStay, ReqsStay
<1>. QED
  BY <1>1, <1>2, <1>3, <1>4

-----------------------------------------------------------------------------
LEMMA IInvInit == Init => IInv
<1> SUFFICES ASSUME Init PROVE IInv
  OBVIOUS
<1>1. PICK text \in Texts : blocks = [b \in Blocks |-> NewBlock(text)]
  BY DEF Init
<1>2. NewBlock(text) \in Block /\ OnLadder(NewBlock(text).sched)
  BY LearningAssumption DEF NewBlock, Block, Sched, States, OnLadder
<1>3. Rows
  BY <1>1, <1>2 DEF Rows
<1>4. Recs /\ DOMAIN records = {}
  BY DEF Init, Recs
<1>5. Sound(NoCall, DOMAIN records)
  BY DEF Sound, NoCall, Call, Pcs
<1>6. Reqs
  BY <1>5 DEF Init, Reqs, Sound
<1>7. Rest
  BY LearningAssumption DEF Init, Rest
<1>. QED
  BY <1>3, <1>4, <1>6, <1>7 DEF IInv

LEMMA IInvNext == IInv /\ [Next]_vars => IInv'
<1> SUFFICES ASSUME IInv, [Next]_vars PROVE IInv'
  OBVIOUS
<1>1. CASE UNCHANGED vars
  <2>1. UNCHANGED <<blocks, records, call>>
    BY <1>1 DEF vars
  <2>2. Rest'
    BY <1>1 DEF IInv, Rest, vars
  <2>. QED
    BY <2>1, <2>2, RowsStay, RecsStay, ReqsStay DEF IInv
<1>2. CASE Next
  BY <1>2, JudgeSteps, AppealSteps, EditSteps, UseSteps, OtherSteps DEF Next
<1>. QED
  BY <1>1, <1>2

\* Every variable keeps its type in every reachable state, for any number of blocks and requests.
THEOREM LearningTypeCorrect == Spec => []TypeOK
<1>1. IInv => TypeOK
  BY IInvIsBoth
<1>. QED
  BY <1>1, IInvInit, IInvNext, PTL DEF Spec

\* Colour and streak agree in every row and in every snapshot that may be written back, for any
\* promotion streak and intervals, whatever judges, appeals, hits, edits, deletions and sweeps
\* interleave (corpus.Schedule, drill Judge and Appeal).
THEOREM LadderIsConsistent == Spec => []LadderConsistent
<1>1. IInv => LadderConsistent
  BY IInvIsBoth
<1>. QED
  BY <1>1, IInvInit, IInvNext, PTL DEF Spec

-----------------------------------------------------------------------------
(* Deleted rows *)

Frozen ==
    \A b \in Blocks : ~blocks[b].live =>
        blocks'[b].sched = blocks[b].sched /\ blocks'[b].real = blocks[b].real

LEMMA FrozenStay == ASSUME UNCHANGED blocks PROVE Frozen
BY DEF Frozen

LEMMA FrozenUpdate ==
    ASSUME Rows, NEW b \in Blocks, Writable(b), NEW s, NEW on, NEW run, UpdateSchedule(b, s, on, run)
    PROVE  Frozen
BY DEF Rows, Frozen, Writable, UpdateSchedule

LEMMA FrozenRow ==
    ASSUME Rows, NEW b \in Blocks, NEW row, blocks' = [blocks EXCEPT ![b] = row],
           row.sched = blocks[b].sched, row.real = blocks[b].real
    PROVE  Frozen
BY DEF Rows, Frozen

LEMMA FrozenCredit ==
    ASSUME NEW credited, \A b \in credited : Writable(b), NEW at, CreditAll(credited, at)
    PROVE  Frozen
BY DEF CreditAll, Frozen, Writable

\* Every write to a row finds it live, or leaves its ladder and its counter alone.
LEMMA FrozenNext == IInv /\ [Next]_vars => Frozen
<1> SUFFICES ASSUME IInv, [Next]_vars PROVE Frozen
  OBVIOUS
<1>0. Rows /\ \A b \in Blocks : blocks[b] \in Block
  BY DEF IInv, Rows
<1>1. CASE UNCHANGED vars
  BY <1>1, FrozenStay DEF vars
<1>2. ASSUME NEW c \in Calls, NEW pass \in BOOLEAN, JudgeVerdict(c, pass) PROVE Frozen
  <2>1. call[c].block \in Blocks
    BY <1>2 DEF IInv, Reqs, Sound, JudgeVerdict
  <2>. QED
    BY <1>0, <1>2, <2>1, FrozenStay, FrozenUpdate DEF JudgeVerdict
<1>3. ASSUME NEW c \in Calls, AppealRestore(c) PROVE Frozen
  <2>1. records[call[c].rec] \in Record
    BY <1>3 DEF IInv, Reqs, Recs, Sound, AppealRestore
  <2>2. records[call[c].rec].block \in Blocks
    BY <2>1 DEF Record
  <2>. QED
    BY <1>0, <1>3, <2>2, FrozenStay, FrozenUpdate DEF AppealRestore
<1>4. ASSUME NEW c \in Calls, NEW text \in Texts, EditText(c, text) PROVE Frozen
  <2> DEFINE b == call[c].block
             n == IF Store = "memory" THEN call[c].row.version ELSE blocks[b].version
             saved == [blocks[b] EXCEPT !.text = text, !.version = n]
  <2>1. b \in Blocks /\ blocks[b] \in Block
    BY <1>0, <1>4 DEF IInv, Reqs, Sound, EditText
  <2>2. saved.sched = blocks[b].sched /\ saved.real = blocks[b].real
    BY <2>1 DEF Block
  <2>3. UNCHANGED blocks \/ blocks' = [blocks EXCEPT ![b] = saved]
    BY <1>4 DEF EditText
  <2>. QED
    BY <1>0, <2>1, <2>2, <2>3, FrozenStay, FrozenRow
<1>5. ASSUME NEW c \in Calls, EditAudit(c) PROVE Frozen
  <2> DEFINE b == call[c].block
             saved == [blocks[b] EXCEPT !.version = call[c].row.version + 1]
  <2>1. b \in Blocks /\ blocks[b] \in Block
    BY <1>0, <1>5 DEF IInv, Reqs, Sound, EditAudit
  <2>2. saved.sched = blocks[b].sched /\ saved.real = blocks[b].real
    BY <2>1 DEF Block
  <2>3. UNCHANGED blocks \/ blocks' = [blocks EXCEPT ![b] = saved]
    BY <1>5 DEF EditAudit
  <2>. QED
    BY <1>0, <2>1, <2>2, <2>3, FrozenStay, FrozenRow
<1>6. ASSUME NEW c \in Calls, ResetSchedule(c) PROVE Frozen
  <2>1. call[c].block \in Blocks
    BY <1>6 DEF IInv, Reqs, Sound, ResetSchedule
  <2>. QED
    BY <1>0, <1>6, <2>1, FrozenStay, FrozenUpdate DEF ResetSchedule
<1>7. ASSUME NEW u \in Turns, NEW hit \in SUBSET Blocks, NEW at \in 0 .. now, RecordHits(u, hit, at)
      PROVE  Frozen
  <2> DEFINE credited == {b \in {x \in hit : <<u, x>> \notin uses} : Writable(b)}
  <2>1. UNCHANGED blocks \/ CreditAll(credited, at)
    BY <1>7 DEF RecordHits
  <2>. QED
    BY <2>1, FrozenStay, FrozenCredit
<1>8. ASSUME NEW k \in Checkins, NEW listed \in SUBSET Blocks, RecordRealUses(k, listed)
      PROVE  Frozen
  <2> DEFINE credited == {b \in listed : Writable(b) /\ <<"checkin", k, b>> \notin realUses}
  <2>1. UNCHANGED blocks \/ CreditAll(credited, now)
    BY <1>8 DEF RecordRealUses
  <2>. QED
    BY <2>1, FrozenStay, FrozenCredit
<1>9. ASSUME NEW b \in Blocks, SoftDeleteBlock(b) \/ ReviveBlock(b) PROVE Frozen
  <2>1. PICK live \in BOOLEAN : blocks' = [blocks EXCEPT ![b] = [blocks[b] EXCEPT !.live = live]]
    BY <1>9 DEF SoftDeleteBlock, ReviveBlock
  <2>2. /\ [blocks[b] EXCEPT !.live = live].sched = blocks[b].sched
        /\ [blocks[b] EXCEPT !.live = live].real = blocks[b].real
    BY <1>0 DEF Block
  <2>. QED
    BY <1>0, <2>1, <2>2, FrozenRow
<1>10. ASSUME RoundNext PROVE Frozen
  <2>1. UNCHANGED blocks \/ \E at \in Nat : blocks' = [b \in Blocks |-> Swept(blocks[b], at)]
    BY <1>10, RoundSteps
  <2>2. ASSUME NEW at \in Nat, blocks' = [b \in Blocks |-> Swept(blocks[b], at)] PROVE Frozen
    BY <2>2 DEF Frozen, Swept
  <2>. QED
    BY <2>1, <2>2, FrozenStay
<1>11. CASE Next
  <2>1. CASE \E c \in Calls :
               \/ \E b \in Blocks : Judge(c, b) \/ UpdateBlock(c, b)
               \/ \E i \in DOMAIN records : Appeal(c, i)
               \/ JudgeFile(c) \/ RecordUnjudged(c)
               \/ AppealLatest(c) \/ AppealStamp(c) \/ Fault(c)
    BY <2>1, FrozenStay DEF Judge, UpdateBlock, Appeal, JudgeFile, RecordUnjudged, AppealLatest,
                            AppealStamp, Fault
  <2>2. CASE Tick
    BY <2>2, FrozenStay DEF Tick
  <2>. QED
    BY <1>2, <1>3, <1>4, <1>5, <1>6, <1>7, <1>8, <1>9, <1>10, <1>11, <2>1, <2>2 DEF Next
<1>. QED
  BY <1>1, <1>11

\* No request moves the ladder or the counter of a deleted block, for any number of blocks and
\* requests: each write of the store finds its row live (UPDATE ... WHERE deleted_at IS NULL).
THEOREM DeletedStaysFrozen == Spec => DeletedIsFrozen
<1>1. IInv /\ [Next]_vars => [\A b \in Blocks : ~blocks[b].live =>
          blocks'[b].sched = blocks[b].sched /\ blocks'[b].real = blocks[b].real]_vars
  BY FrozenNext DEF Frozen
<1>. QED
  BY <1>1, IInvInit, IInvNext, PTL DEF Spec, DeletedIsFrozen

-----------------------------------------------------------------------------
(* The ledger of uses, and the row of successes behind a streak *)

\* A hit that was credited was reported, which keeps a second report from being credited.
LedgerInOrder ==
    /\ \A b \in Blocks : IsFiniteSet(Credited(b))
    /\ \A t \in Turns, b \in Blocks : <<"hit", t, b>> \in realUses => <<t, b>> \in uses

\* A snapshot that an appeal may write back was backed when it was read.
RecsBacked ==
    \A i \in DOMAIN records : records[i].block \in overtaken \/ records[i].prev.streak <= records[i].run

\* So was the row a judge has read; and while the judge waits the successes in a row behind it only
\* grow in number, or the block is overtaken.
Holds(r) ==
    r.pc \in {"judging", "file"} =>
        \/ r.block \in overtaken
        \/ /\ r.row.sched.streak <= r.row.run
           /\ r.pc = "judging" => r.row.sched.streak <= blocks[r.block].run

ReqsBacked == \A c \in Calls : Holds(call[c])

EInv == LedgerInOrder /\ CountIsLedger /\ StreakBacked /\ RecsBacked /\ ReqsBacked

\* A set of uses counts each use once.
LEMMA CreditedSize ==
    ASSUME LedgerInOrder, NEW b \in Blocks
    PROVE  IsFiniteSet(Credited(b)) /\ Cardinality(Credited(b)) \in Nat
BY FS_CardinalityType DEF LedgerInOrder

\* Uses of other blocks do not count, and a new use of the block counts once.
LEMMA CreditedGrows ==
    ASSUME LedgerInOrder, NEW kind, NEW x, NEW credited \in SUBSET Blocks,
           \A b \in credited : <<kind, x, b>> \notin realUses,
           realUses' = realUses \union ({kind} \X {x} \X credited),
           NEW b \in Blocks
    PROVE  /\ IsFiniteSet(Credited(b)')
           /\ Cardinality(Credited(b)') = Cardinality(Credited(b)) + (IF b \in credited THEN 1 ELSE 0)
<1>1. \A u \in {kind} \X {x} \X credited : u = <<kind, x, u[3]>> /\ u[3] \in credited
  OBVIOUS
<1>2. \A y \in credited : <<kind, x, y>> \in {kind} \X {x} \X credited /\ <<kind, x, y>>[3] = y
  OBVIOUS
<1>3. CASE b \in credited
  <2>1. Credited(b)' = Credited(b) \union {<<kind, x, b>>}
    BY <1>1, <1>2, <1>3 DEF Credited
  <2>2. <<kind, x, b>> \notin Credited(b)
    BY <1>3 DEF Credited
  <2>. QED
    BY <1>3, <2>1, <2>2, CreditedSize, FS_AddElement
<1>4. CASE b \notin credited
  <2>1. Credited(b)' = Credited(b)
    BY <1>1, <1>4 DEF Credited
  <2>. QED
    BY <1>4, <2>1, CreditedSize
<1>. QED
  BY <1>3, <1>4

\* A step that credits no use leaves the ledger and the counters.
LEMMA QuietLedger ==
    ASSUME EInv, UNCHANGED <<uses, realUses>>, \A b \in Blocks : blocks'[b].real = blocks[b].real
    PROVE  LedgerInOrder' /\ CountIsLedger'
<1>1. \A b \in Blocks : Credited(b)' = Credited(b)
  BY DEF Credited
<1>. QED
  BY <1>1 DEF EInv, LedgerInOrder, CountIsLedger

\* What a step owes the requests ds that do not move with it: no run falls behind a judge's back
\* without the block being marked.
Steady(ds) ==
    /\ overtaken \subseteq overtaken'
    /\ \A d \in ds : call[d].pc = "judging" =>
         call[d].block \in overtaken' \/ blocks[call[d].block].run <= blocks'[call[d].block].run

LEMMA RowNumbers ==
    ASSUME Rows, NEW b \in Blocks
    PROVE  blocks[b].sched.streak \in Nat /\ blocks[b].run \in Nat /\ blocks[b].real \in Nat
<1>1. blocks[b] \in Block
  BY DEF Rows
<1>. QED
  BY <1>1 DEF Block, Sched

LEMMA RecsBackedStay ==
    ASSUME RecsBacked, UNCHANGED records, overtaken \subseteq overtaken'
    PROVE  RecsBacked'
BY DEF RecsBacked

LEMMA HoldsStays ==
    ASSUME Rows, Rows', ReqsBacked, NEW ds \in SUBSET Calls, Steady(ds), NEW x \in ds,
           Sound(call[x], DOMAIN records), call'[x] = call[x]
    PROVE  Holds(call[x])'
<1>1. PICK r : r = call[x]
  OBVIOUS
<1>2. Sound(r, DOMAIN records) /\ Holds(r)
  BY <1>1 DEF ReqsBacked
<1> SUFFICES ASSUME r.pc \in {"judging", "file"}, r.block \notin overtaken'
             PROVE  /\ r.row.sched.streak <= r.row.run
                    /\ r.pc = "judging" => r.row.sched.streak <= blocks'[r.block].run
  BY <1>1 DEF Holds
<1>3. r.block \in Blocks /\ r.row \in Block
  BY <1>2 DEF Sound
<1>4. r.row.sched.streak \in Nat
  BY <1>3 DEF Block, Sched
<1>5. PICK b \in Blocks : b = r.block
  BY <1>3
<1>6. b \notin overtaken
  BY <1>5 DEF Steady
<1>7. /\ r.row.sched.streak <= r.row.run
      /\ r.pc = "judging" => r.row.sched.streak <= blocks[b].run
  BY <1>2, <1>5, <1>6 DEF Holds
<1>8. r.pc = "judging" => blocks[b].run <= blocks'[b].run
  BY <1>1, <1>5 DEF Steady
<1>9. blocks[b].run \in Nat /\ blocks'[b].run \in Nat
  <2>1. blocks[b] \in Block /\ blocks'[b] \in Block
    BY DEF Rows
  <2>. QED
    BY <2>1 DEF Block
<1>. QED
  BY <1>4, <1>5, <1>7, <1>8, <1>9

LEMMA ReqsBackedStay ==
    ASSUME Rows, Rows', Reqs, ReqsBacked, UNCHANGED call, Steady(Calls)
    PROVE  ReqsBacked'
<1>1. ASSUME NEW x \in Calls PROVE Holds(call[x])'
  BY HoldsStays DEF Reqs
<1>. QED
  BY <1>1 DEF ReqsBacked

\* One request moves on to r.
LEMMA ReqsBackedBecome ==
    ASSUME Rows, Rows', Reqs, ReqsBacked, NEW c \in Calls, NEW r, Become(c, r),
           r.pc \in {"judging", "file"} =>
             \/ r.block \in overtaken'
             \/ /\ r.row.sched.streak <= r.row.run
                /\ r.pc = "judging" => r.row.sched.streak <= blocks'[r.block].run,
           Steady(Calls \ {c})
    PROVE  ReqsBacked'
<1>1. call'[c] = r /\ \A x \in Calls : x # c => call'[x] = call[x]
  BY DEF Become, Reqs
<1>2. ASSUME NEW x \in Calls PROVE Holds(call[x])'
  <2>1. CASE x = c
    BY <1>1, <2>1 DEF Holds
  <2>2. CASE x # c
    <3>1. PICK ds \in SUBSET Calls : ds = Calls \ {c}
      OBVIOUS
    <3>2. x \in ds /\ Steady(ds)
      BY <2>2, <3>1
    <3>. QED
      BY <1>1, <2>2, <3>2, HoldsStays DEF Reqs
  <2>. QED
    BY <2>1, <2>2
<1>. QED
  BY <1>2 DEF ReqsBacked

LEMMA ReqsBackedReturn ==
    ASSUME Rows, Rows', Reqs, ReqsBacked, NEW c \in Calls, Return(c), Steady(Calls \ {c})
    PROVE  ReqsBacked'
<1>1. NoCall.pc = "idle"
  BY DEF NoCall
<1>. QED
  BY <1>1, ReqsBackedBecome DEF Return

\* A step that credits nothing and moves no streak.
Unmoved ==
    /\ UNCHANGED <<uses, realUses, overtaken>>
    /\ \A b \in Blocks : /\ blocks'[b].real = blocks[b].real /\ blocks'[b].run = blocks[b].run
                         /\ blocks'[b].sched.streak = blocks[b].sched.streak

LEMMA UnmovedStep ==
    ASSUME IInv, EInv, Unmoved
    PROVE  /\ LedgerInOrder' /\ CountIsLedger' /\ StreakBacked'
           /\ Steady(Calls) /\ \A c \in Calls : Steady(Calls \ {c})
<1>1. LedgerInOrder' /\ CountIsLedger'
  BY QuietLedger DEF Unmoved
<1>2. StreakBacked'
  BY DEF EInv, StreakBacked, Unmoved
<1>3. ASSUME NEW d \in Calls, call[d].pc = "judging"
      PROVE  blocks[call[d].block].run <= blocks'[call[d].block].run
  <2>1. PICK b \in Blocks : b = call[d].block
    BY <1>3 DEF IInv, Reqs, Sound
  <2>2. blocks[b].run \in Nat
    BY RowNumbers DEF IInv
  <2>. QED
    BY <2>1, <2>2 DEF Unmoved
<1>. QED
  BY <1>1, <1>2, <1>3 DEF Steady, Unmoved

\* What a schedule update changes in the rows.
LEMMA UpdateScheduleRows ==
    ASSUME Rows, NEW b \in Blocks, NEW s \in Sched, NEW on \in Texts, NEW run \in Nat,
           UpdateSchedule(b, s, on, run)
    PROVE  \A x \in Blocks : /\ blocks'[x].real = blocks[x].real
                             /\ blocks'[x].sched = IF x = b THEN s ELSE blocks[x].sched
                             /\ blocks'[x].run = IF x = b THEN run ELSE blocks[x].run
<1>1. \A x \in Blocks : blocks[x] \in Block
  BY DEF Rows
<1>. QED
  BY <1>1 DEF Rows, UpdateSchedule, Block

\* Request c writes a ladder that is backed: the run grows, or the fall is marked.
LEMMA WriteStep ==
    ASSUME IInv, EInv, UNCHANGED <<uses, realUses>>, NEW c \in Calls,
           NEW b \in Blocks, NEW s \in Sched, NEW on \in Texts, NEW run \in Nat,
           UpdateSchedule(b, s, on, run),
           b \in overtaken \/ s.streak <= run,
           Falls(c, b) \/ (UNCHANGED overtaken /\ blocks[b].run <= run)
    PROVE  LedgerInOrder' /\ CountIsLedger' /\ StreakBacked' /\ Steady(Calls \ {c})
<1>0. \A x \in Blocks : /\ blocks'[x].real = blocks[x].real
                        /\ blocks'[x].sched = IF x = b THEN s ELSE blocks[x].sched
                        /\ blocks'[x].run = IF x = b THEN run ELSE blocks[x].run
  BY UpdateScheduleRows DEF IInv
<1>1. LedgerInOrder' /\ CountIsLedger'
  BY <1>0, QuietLedger
<1>2. overtaken \subseteq overtaken'
  BY DEF Falls
<1>3. ASSUME NEW x \in Blocks, x \notin overtaken' PROVE blocks'[x].sched.streak <= blocks'[x].run
  <2>1. CASE x = b
    BY <1>0, <1>2, <1>3, <2>1
  <2>2. CASE x # b
    BY <1>0, <1>2, <1>3, <2>2 DEF EInv, StreakBacked
  <2>. QED
    BY <2>1, <2>2
<1>4. ASSUME NEW d \in Calls, d # c, call[d].pc = "judging", call[d].block \notin overtaken'
      PROVE  blocks[call[d].block].run <= blocks'[call[d].block].run
  <2>1. PICK x \in Blocks : x = call[d].block
    BY <1>4 DEF IInv, Reqs, Sound
  <2>2. blocks[x].run \in Nat
    BY RowNumbers DEF IInv
  <2>3. CASE x # b
    BY <1>0, <2>1, <2>2, <2>3
  <2>4. CASE x = b
    <3>1. ~Falls(c, b)
      BY <1>4, <2>1, <2>4 DEF Falls
    <3>. QED
      BY <1>0, <2>1, <2>4, <3>1
  <2>. QED
    BY <2>3, <2>4
<1>. QED
  BY <1>1, <1>2, <1>3, <1>4 DEF StreakBacked, Steady

\* A success adds one to the streak, a confirmation none; a failure ends it.
LEMMA LadderStreak ==
    ASSUME NEW s \in Sched, NEW at \in Nat
    PROVE  /\ ApplyJudge(s, TRUE, at).streak <= s.streak + 1
           /\ ApplyJudge(s, FALSE, at).streak = 0
BY LearningAssumption DEF Sched, ApplyJudge

\* A filed attempt takes over the snapshot of its request.
LEMMA AttemptBacked ==
    ASSUME IInv, EInv, overtaken \subseteq overtaken', NEW c \in Calls,
           call[c].pc \in {"judging", "file"}, NEW judged \in BOOLEAN, NEW at \in Nat,
           records' = Append(records, Attempt(call[c], judged, at))
    PROVE  RecsBacked'
<1> DEFINE r == call[c]
           e == Attempt(r, judged, at)
<1>1. r.row \in Block /\ r.block \in Blocks /\ r.pass \in BOOLEAN
  BY DEF IInv, Reqs, Sound, Call
<1>2. e \in Record /\ e.prev = r.row.sched /\ e.block = r.block /\ e.run = r.row.run
  BY <1>1 DEF Attempt, Record, Block
<1>3. /\ DOMAIN records' = 1 .. Len(records) + 1
      /\ \A i \in 1 .. Len(records) : records'[i] = records[i] /\ i \in DOMAIN records
      /\ records'[Len(records) + 1] = e
  BY <1>2 DEF IInv, Recs
<1>4. e.block \in overtaken \/ e.prev.streak <= e.run
  BY <1>2 DEF EInv, ReqsBacked, Holds
<1>5. \A i \in DOMAIN records' : i \in 1 .. Len(records) \/ i = Len(records) + 1
  BY <1>3 DEF IInv, Recs
<1>6. \A i \in DOMAIN records' :
        records'[i].block \in overtaken \/ records'[i].prev.streak <= records'[i].run
  <2>1. \A i \in DOMAIN records :
          records[i].block \in overtaken \/ records[i].prev.streak <= records[i].run
    BY DEF EInv, RecsBacked
  <2> HIDE DEF e, r
  <2>. QED
    BY <1>3, <1>4, <1>5, <2>1
<1>. QED
  BY <1>6 DEF RecsBacked

LEMMA JudgeBacked ==
    ASSUME IInv, IInv', EInv, NEW c \in Calls,
           \/ \E b \in Blocks : Judge(c, b)
           \/ \E pass \in BOOLEAN : JudgeVerdict(c, pass)
           \/ JudgeFile(c)
           \/ RecordUnjudged(c)
    PROVE  EInv'
<1>0. Rows /\ Rows' /\ Recs /\ Reqs /\ Rest /\ RecsBacked /\ ReqsBacked /\ StreakBacked
  BY DEF IInv, EInv
<1>1. ASSUME NEW b \in Blocks, Judge(c, b) PROVE EInv'
  <2> DEFINE r == [NoCall EXCEPT !.pc = "judging", !.block = b, !.row = blocks[b]]
  <2>1. UNCHANGED <<blocks, uses, realUses, overtaken, records>> /\ Become(c, r)
    BY <1>1 DEF Judge, Ledgers
  <2>2. LedgerInOrder' /\ CountIsLedger' /\ StreakBacked' /\ Steady(Calls \ {c})
    BY <2>1, UnmovedStep DEF Unmoved
  <2>3. r.block = b /\ r.row = blocks[b]
    BY DEF NoCall
  <2>4. b \in overtaken' \/ blocks[b].sched.streak <= blocks[b].run
    BY <1>0, <2>1 DEF StreakBacked
  <2>5. ReqsBacked'
    BY <1>0, <2>1, <2>2, <2>3, <2>4, ReqsBackedBecome
  <2>. QED
    BY <1>0, <2>1, <2>2, <2>5, RecsBackedStay DEF EInv
<1>2. ASSUME NEW pass \in BOOLEAN, JudgeVerdict(c, pass) PROVE EInv'
  <2> DEFINE r == call[c]
             q == [r EXCEPT !.pc = "file", !.pass = pass, !.at = now]
  <2>1. /\ r \in Call /\ r.pc = "judging" /\ r.block \in Blocks /\ r.row \in Block
        /\ UNCHANGED <<records, uses, realUses>>
    BY <1>0, <1>2 DEF JudgeVerdict, Reqs, Sound, Ledgers
  <2>2. CASE ~Writable(r.block)
    <3>1. UNCHANGED <<blocks, overtaken>> /\ Return(c)
      BY <1>2, <2>2 DEF JudgeVerdict
    <3>2. LedgerInOrder' /\ CountIsLedger' /\ StreakBacked' /\ Steady(Calls \ {c})
      BY <2>1, <3>1, UnmovedStep DEF Unmoved
    <3>. QED
      BY <1>0, <2>1, <3>1, <3>2, RecsBackedStay, ReqsBackedReturn DEF EInv
  <2>3. CASE Writable(r.block)
    <3>1. PICK b \in Blocks : b = r.block
      BY <2>1
    <3>2. PICK old \in Sched : old = r.row.sched
      BY <2>1 DEF Block
    <3>3. PICK on \in Texts : on = r.row.text
      BY <2>1 DEF Block
    <3>4. now \in Nat /\ blocks[b].run \in Nat /\ old.streak \in Nat
      BY <1>0, Numbers, RowNumbers DEF Sched
    <3>5. PICK run \in Nat : run = IF pass THEN blocks[b].run + 1 ELSE 0
      BY <3>4
    <3>6. PICK s : s = ApplyJudge(old, pass, now)
      OBVIOUS
    <3>7. s \in Sched /\ s.streak \in Nat
      <4>1. OnLadder(old)
        BY <1>0, <2>1, <3>2 DEF Reqs, Sound
      <4>2. s \in Sched
        BY <3>4, <3>6, <4>1, LadderStep
      <4>. QED
        BY <4>2 DEF Sched
    <3>8. /\ UpdateSchedule(b, s, on, run) /\ Become(c, q)
          /\ IF pass THEN UNCHANGED overtaken ELSE Falls(c, b)
      BY <1>2, <2>3, <3>1, <3>2, <3>3, <3>5, <3>6 DEF JudgeVerdict
    <3>9. b \in overtaken \/ (old.streak <= r.row.run /\ old.streak <= blocks[b].run)
      BY <1>0, <2>1, <3>1, <3>2 DEF ReqsBacked, Holds
    <3>10. /\ b \in overtaken \/ s.streak <= run
           /\ Falls(c, b) \/ (UNCHANGED overtaken /\ blocks[b].run <= run)
      <4>1. CASE pass = TRUE
        <5>1. run = blocks[b].run + 1 /\ UNCHANGED overtaken /\ s.streak <= old.streak + 1
          BY <3>4, <3>5, <3>6, <3>8, <4>1, LadderStreak
        <5>. QED
          BY <3>4, <3>7, <3>9, <5>1
      <4>2. CASE pass = FALSE
        <5>1. run = 0 /\ Falls(c, b) /\ s.streak = 0
          BY <3>4, <3>5, <3>6, <3>8, <4>2, LadderStreak
        <5>. QED
          BY <5>1
      <4>. QED
        BY <4>1, <4>2
    <3>11. LedgerInOrder' /\ CountIsLedger' /\ StreakBacked' /\ Steady(Calls \ {c})
      BY <2>1, <3>7, <3>8, <3>10, WriteStep
    <3>12. q.block = b /\ q.row = r.row /\ q.pc = "file"
      BY <2>1, <3>1 DEF Call
    <3>13. q.block \in overtaken' \/ q.row.sched.streak <= q.row.run
      BY <3>2, <3>9, <3>11, <3>12 DEF Steady
    <3>14. ReqsBacked'
      BY <1>0, <3>8, <3>11, <3>12, <3>13, ReqsBackedBecome
    <3>. QED
      BY <1>0, <2>1, <3>11, <3>14, RecsBackedStay DEF EInv, Steady
  <2>. QED
    BY <2>2, <2>3
<1>3. ASSUME JudgeFile(c) \/ RecordUnjudged(c) PROVE EInv'
  <2>1. /\ UNCHANGED <<blocks, uses, realUses, overtaken>> /\ Return(c)
        /\ call[c].pc \in {"judging", "file"}
    BY <1>3 DEF JudgeFile, RecordUnjudged, Ledgers
  <2>2. LedgerInOrder' /\ CountIsLedger' /\ StreakBacked' /\ Steady(Calls \ {c})
    BY <2>1, UnmovedStep DEF Unmoved
  <2>3. PICK judged \in BOOLEAN, at \in Nat : records' = Append(records, Attempt(call[c], judged, at))
    <3>1. now \in Nat /\ call[c].at \in Nat
      BY <1>0, Numbers DEF Reqs, Call
    <3>. QED
      BY <1>3, <3>1 DEF JudgeFile, RecordUnjudged
  <2>4. RecsBacked'
    BY <2>1, <2>3, AttemptBacked
  <2>. QED
    BY <1>0, <2>1, <2>2, <2>4, ReqsBackedReturn DEF EInv
<1>. QED
  BY <1>1, <1>2, <1>3

LEMMA AppealBacked ==
    ASSUME IInv, IInv', EInv, NEW c \in Calls,
           \/ \E i \in DOMAIN records : Appeal(c, i)
           \/ AppealLatest(c)
           \/ AppealRestore(c)
           \/ AppealStamp(c)
    PROVE  EInv'
<1>0. Rows /\ Rows' /\ Recs /\ Reqs /\ Rest /\ RecsBacked /\ ReqsBacked /\ StreakBacked
  BY DEF IInv, EInv
<1>1. ASSUME NEW r, Become(c, r), r.pc \notin {"judging", "file"}, Steady(Calls \ {c}) PROVE ReqsBacked'
  BY <1>0, <1>1, ReqsBackedBecome
<1>2. ASSUME NEW pc \in {"restore", "stamp"}, Go(c, pc), Steady(Calls \ {c}) PROVE ReqsBacked'
  <2>1. [call[c] EXCEPT !.pc = pc].pc = pc
    BY <1>0 DEF Reqs, Call
  <2>. QED
    BY <1>1, <1>2, <2>1 DEF Go
<1>3. ASSUME NEW i \in DOMAIN records, Appeal(c, i) PROVE EInv'
  <2> DEFINE r(pc) == [NoCall EXCEPT !.rec = i, !.block = records[i].block, !.pc = pc]
  <2>1. UNCHANGED <<blocks, uses, realUses, overtaken, records>>
    BY <1>3 DEF Appeal, Ledgers
  <2>2. LedgerInOrder' /\ CountIsLedger' /\ StreakBacked' /\ Steady(Calls \ {c})
    BY <2>1, UnmovedStep DEF Unmoved
  <2>3. PICK pc \in {"latest", "stamp"} : Become(c, r(pc))
    <3>1. Become(c, r(IF records[i].judged /\ ~records[i].pass THEN "latest" ELSE "stamp"))
      BY <1>3 DEF Appeal
    <3>2. Become(c, r("latest")) \/ Become(c, r("stamp"))
      BY <3>1, Zenon
    <3>. QED
      BY <3>2
  <2>4. r(pc).pc = pc
    BY DEF NoCall
  <2>5. ReqsBacked'
    BY <1>1, <2>2, <2>3, <2>4
  <2>. QED
    BY <1>0, <2>1, <2>2, <2>5, RecsBackedStay DEF EInv
<1>4. ASSUME AppealLatest(c) PROVE EInv'
  <2>1. UNCHANGED <<blocks, uses, realUses, overtaken, records>>
    BY <1>4 DEF AppealLatest, Ledgers
  <2>2. LedgerInOrder' /\ CountIsLedger' /\ StreakBacked' /\ Steady(Calls \ {c})
    BY <2>1, UnmovedStep DEF Unmoved
  <2>3. ReqsBacked'
    BY <1>2, <1>4, <2>2 DEF AppealLatest
  <2>. QED
    BY <1>0, <2>1, <2>2, <2>3, RecsBackedStay DEF EInv
<1>5. ASSUME AppealRestore(c) PROVE EInv'
  <2> DEFINE rec == records[call[c].rec]
  <2>1. /\ rec \in Record /\ call[c].rec \in DOMAIN records
        /\ UNCHANGED <<records, uses, realUses>>
    BY <1>0, <1>5 DEF AppealRestore, Reqs, Sound, Recs, Ledgers
  <2>2. CASE ~Writable(rec.block)
    <3>1. UNCHANGED <<blocks, overtaken>> /\ Return(c)
      BY <1>5, <2>2 DEF AppealRestore
    <3>2. LedgerInOrder' /\ CountIsLedger' /\ StreakBacked' /\ Steady(Calls \ {c})
      BY <2>1, <3>1, UnmovedStep DEF Unmoved
    <3>. QED
      BY <1>0, <2>1, <3>1, <3>2, RecsBackedStay, ReqsBackedReturn DEF EInv
  <2>3. CASE Writable(rec.block)
    <3>1. PICK b \in Blocks : b = rec.block
      BY <2>1 DEF Record
    <3>2. PICK s \in Sched : s = rec.prev
      BY <2>1 DEF Record
    <3>3. PICK on \in Texts, run \in Nat : on = rec.on /\ run = rec.run
      BY <2>1 DEF Record
    <3>4. UpdateSchedule(b, s, on, run) /\ Falls(c, b) /\ Go(c, "stamp")
      BY <1>5, <2>3, <3>1, <3>2, <3>3 DEF AppealRestore
    <3>5. b \in overtaken \/ s.streak <= run
      BY <1>0, <2>1, <3>1, <3>2, <3>3 DEF RecsBacked
    <3>6. LedgerInOrder' /\ CountIsLedger' /\ StreakBacked' /\ Steady(Calls \ {c})
      BY <2>1, <3>4, <3>5, WriteStep
    <3>7. ReqsBacked'
      BY <1>2, <3>4, <3>6
    <3>. QED
      BY <1>0, <2>1, <3>6, <3>7, RecsBackedStay DEF EInv, Steady
  <2>. QED
    BY <2>2, <2>3
<1>6. ASSUME AppealStamp(c) PROVE EInv'
  <2> DEFINE i == call[c].rec
  <2>1. UNCHANGED <<blocks, uses, realUses, overtaken>> /\ Return(c)
    BY <1>6 DEF AppealStamp, Ledgers
  <2>2. LedgerInOrder' /\ CountIsLedger' /\ StreakBacked' /\ Steady(Calls \ {c})
    BY <2>1, UnmovedStep DEF Unmoved
  <2>3. i \in DOMAIN records /\ records[i] \in Record
    BY <1>0, <1>6 DEF AppealStamp, Reqs, Sound, Recs
  <2>4. records' = [records EXCEPT ![i] = [records[i] EXCEPT !.appealed = TRUE]]
    BY <1>6 DEF AppealStamp
  <2>5. /\ [records[i] EXCEPT !.appealed = TRUE].prev = records[i].prev
        /\ [records[i] EXCEPT !.appealed = TRUE].block = records[i].block
        /\ [records[i] EXCEPT !.appealed = TRUE].run = records[i].run
    BY <2>3 DEF Record
  <2>6. \A j \in DOMAIN records' : /\ j \in DOMAIN records /\ records'[j].prev = records[j].prev
                                   /\ records'[j].block = records[j].block
                                   /\ records'[j].run = records[j].run
    BY <1>0, <2>3, <2>4, <2>5 DEF Recs
  <2>7. RecsBacked'
    BY <1>0, <2>1, <2>6 DEF RecsBacked
  <2>. QED
    BY <1>0, <2>1, <2>2, <2>7, ReqsBackedReturn DEF EInv
<1>. QED
  BY <1>3, <1>4, <1>5, <1>6

LEMMA EditBacked ==
    ASSUME IInv, IInv', EInv, NEW c \in Calls,
           \/ \E b \in Blocks : UpdateBlock(c, b)
           \/ \E text \in Texts : EditText(c, text)
           \/ EditAudit(c)
           \/ ResetSchedule(c)
    PROVE  EInv'
<1>0. /\ Rows /\ Rows' /\ Recs /\ Reqs /\ Rest /\ RecsBacked /\ ReqsBacked /\ StreakBacked
      /\ \A b \in Blocks : blocks[b] \in Block
  BY DEF IInv, EInv, Rows
<1>1. ASSUME NEW r, Become(c, r), r.pc \notin {"judging", "file"}, Steady(Calls \ {c}) PROVE ReqsBacked'
  BY <1>0, <1>1, ReqsBackedBecome
<1>2. ASSUME NEW b \in Blocks, NEW row, row.sched = blocks[b].sched, row.real = blocks[b].real,
             row.run = blocks[b].run, blocks' = [blocks EXCEPT ![b] = row],
             UNCHANGED <<uses, realUses, overtaken>>
      PROVE  LedgerInOrder' /\ CountIsLedger' /\ StreakBacked' /\ Steady(Calls \ {c})
  <2>1. \A x \in Blocks : /\ blocks'[x].sched = blocks[x].sched /\ blocks'[x].real = blocks[x].real
                          /\ blocks'[x].run = blocks[x].run
    BY <1>0, <1>2 DEF Rows
  <2>2. Unmoved
    BY <1>2, <2>1 DEF Unmoved
  <2>. QED
    BY <2>2, UnmovedStep
<1>3. ASSUME NEW b \in Blocks, UpdateBlock(c, b) PROVE EInv'
  <2> DEFINE r == [NoCall EXCEPT !.pc = "text", !.block = b, !.row = blocks[b]]
  <2>1. UNCHANGED <<blocks, uses, realUses, overtaken, records>> /\ Become(c, r)
    BY <1>3 DEF UpdateBlock, Ledgers
  <2>2. LedgerInOrder' /\ CountIsLedger' /\ StreakBacked' /\ Steady(Calls \ {c})
    BY <2>1, UnmovedStep DEF Unmoved
  <2>3. r.pc = "text"
    BY DEF NoCall
  <2>4. ReqsBacked'
    BY <1>1, <2>1, <2>2, <2>3
  <2>. QED
    BY <1>0, <2>1, <2>2, <2>4, RecsBackedStay DEF EInv, Steady
<1>4. ASSUME NEW text \in Texts, EditText(c, text) PROVE EInv'
  <2> DEFINE r == call[c]
             b == r.block
             n == IF Store = "memory" THEN r.row.version ELSE blocks[b].version
             saved == [blocks[b] EXCEPT !.text = text, !.version = n]
             q == [r EXCEPT !.pc = "audit", !.row = saved, !.at = now]
  <2>1. b \in Blocks /\ blocks[b] \in Block /\ r \in Call
    BY <1>0, <1>4 DEF Reqs, Sound, EditText
  <2>2. saved.sched = blocks[b].sched /\ saved.real = blocks[b].real /\ saved.run = blocks[b].run
    BY <2>1 DEF Block
  <2>3. UNCHANGED <<records, uses, realUses, overtaken>>
    BY <1>4 DEF EditText, Ledgers
  <2>4. UNCHANGED blocks \/ blocks' = [blocks EXCEPT ![b] = saved]
    BY <1>4 DEF EditText
  <2>5. LedgerInOrder' /\ CountIsLedger' /\ StreakBacked' /\ Steady(Calls \ {c})
    <3>1. PICK row : row = saved
      OBVIOUS
    <3>2. row.sched = blocks[b].sched /\ row.real = blocks[b].real /\ row.run = blocks[b].run
      BY <2>2, <3>1
    <3>3. UNCHANGED blocks \/ blocks' = [blocks EXCEPT ![b] = row]
      BY <2>4, <3>1
    <3>. QED
      BY <1>2, <2>1, <2>3, <3>2, <3>3, UnmovedStep DEF Unmoved
  <2>6. Return(c) \/ Become(c, q)
    BY <1>4 DEF EditText
  <2>7. q.pc = "audit"
    BY <2>1 DEF Call
  <2>8. ReqsBacked'
    BY <1>0, <1>1, <2>5, <2>6, <2>7, ReqsBackedReturn
  <2>. QED
    BY <1>0, <2>3, <2>5, <2>8, RecsBackedStay DEF EInv, Steady
<1>5. ASSUME EditAudit(c) PROVE EInv'
  <2> DEFINE b == call[c].block
             saved == [blocks[b] EXCEPT !.version = call[c].row.version + 1]
             q == [call[c] EXCEPT !.pc = "reset"]
  <2>1. b \in Blocks /\ blocks[b] \in Block /\ call[c] \in Call
    BY <1>0, <1>5 DEF Reqs, Sound, EditAudit
  <2>2. saved.sched = blocks[b].sched /\ saved.real = blocks[b].real /\ saved.run = blocks[b].run
    BY <2>1 DEF Block
  <2>3. UNCHANGED <<records, uses, realUses, overtaken>> /\ Become(c, q)
    BY <1>5 DEF EditAudit, Ledgers, Go
  <2>4. UNCHANGED blocks \/ blocks' = [blocks EXCEPT ![b] = saved]
    BY <1>5 DEF EditAudit
  <2>5. LedgerInOrder' /\ CountIsLedger' /\ StreakBacked' /\ Steady(Calls \ {c})
    BY <1>2, <2>1, <2>2, <2>3, <2>4, UnmovedStep DEF Unmoved
  <2>6. q.pc = "reset"
    BY <2>1 DEF Call
  <2>7. ReqsBacked'
    BY <1>1, <2>3, <2>5, <2>6
  <2>. QED
    BY <1>0, <2>3, <2>5, <2>7, RecsBackedStay DEF EInv, Steady
<1>6. ASSUME ResetSchedule(c) PROVE EInv'
  <2> DEFINE b == call[c].block
             fresh == [state |-> "new", streak |-> 0, due |-> call[c].at + TrainingInterval]
  <2>1. b \in Blocks /\ blocks[b].text \in Texts /\ call[c].at \in Nat
    BY <1>0, <1>6 DEF ResetSchedule, Reqs, Sound, Call, Block
  <2>2. fresh \in Sched /\ fresh.streak = 0
    BY <2>1, LearningAssumption DEF Sched, States
  <2>3. UNCHANGED <<records, uses, realUses>> /\ Return(c)
    BY <1>6 DEF ResetSchedule, Ledgers
  <2>4. \/ UNCHANGED <<blocks, overtaken>>
        \/ UpdateSchedule(b, fresh, blocks[b].text, 0) /\ Falls(c, b)
    BY <1>6 DEF ResetSchedule
  <2>5. LedgerInOrder' /\ CountIsLedger' /\ StreakBacked' /\ Steady(Calls \ {c})
    <3>1. PICK s \in Sched : s = fresh
      BY <2>2
    <3>2. PICK on \in Texts, run \in Nat : on = blocks[b].text /\ run = 0
      BY <2>1
    <3>3. s.streak <= run
      BY <2>2, <3>1, <3>2
    <3>4. CASE UNCHANGED <<blocks, overtaken>>
      BY <2>3, <3>4, UnmovedStep DEF Unmoved
    <3>5. CASE UpdateSchedule(b, s, on, run) /\ Falls(c, b)
      BY <2>1, <2>3, <3>3, <3>5, WriteStep
    <3>. QED
      BY <2>4, <3>1, <3>2, <3>4, <3>5
  <2>. QED
    BY <1>0, <2>3, <2>5, RecsBackedStay, ReqsBackedReturn DEF EInv, Steady
<1>. QED
  BY <1>3, <1>4, <1>5, <1>6

\* Crediting a set of blocks adds one use to the ledger of each, one to its counter, and at most one
\* to its streak and exactly one to its run.
LEMMA CreditBacked ==
    ASSUME IInv, IInv', EInv, NEW kind, NEW x, NEW credited \in SUBSET Blocks, NEW at \in Nat,
           \A b \in credited : <<kind, x, b>> \notin realUses,
           realUses' = realUses \union ({kind} \X {x} \X credited),
           CreditAll(credited, at), UNCHANGED <<call, records, overtaken>>
    PROVE  /\ \A b \in Blocks : IsFiniteSet(Credited(b)')
           /\ CountIsLedger' /\ StreakBacked' /\ RecsBacked' /\ ReqsBacked'
<1>0. /\ Rows /\ Rows' /\ Recs /\ Reqs /\ Rest /\ LedgerInOrder /\ CountIsLedger /\ RecsBacked /\ ReqsBacked
      /\ StreakBacked
  BY DEF IInv, EInv
<1> DEFINE new(b) == IF b \in credited THEN 1 ELSE 0
<1>1. ASSUME NEW b \in Blocks
      PROVE  /\ IsFiniteSet(Credited(b)')
             /\ Cardinality(Credited(b)) \in Nat
             /\ Cardinality(Credited(b)') = Cardinality(Credited(b)) + new(b)
  BY <1>0, CreditedGrows, CreditedSize
<1>4. ASSUME NEW b \in Blocks
      PROVE  /\ blocks[b].real \in Nat /\ blocks'[b].real = blocks[b].real + new(b)
             /\ blocks[b].sched.streak \in Nat /\ blocks'[b].sched.streak \in Nat
             /\ blocks'[b].sched.streak <= blocks[b].sched.streak + new(b)
             /\ blocks[b].run \in Nat /\ blocks'[b].run = blocks[b].run + new(b)
  <2>1. blocks[b] \in Block /\ OnLadder(blocks[b].sched)
    BY <1>0 DEF Rows
  <2>2. /\ blocks[b].real \in Nat /\ blocks[b].sched \in Sched /\ blocks[b].sched.streak \in Nat
        /\ blocks[b].run \in Nat
    BY <2>1 DEF Block, Sched
  <2>3. CASE b \notin credited
    <3>1. blocks'[b] = blocks[b]
      BY <2>3 DEF CreditAll
    <3>. QED
      BY <2>2, <2>3, <3>1
  <2>4. CASE b \in credited
    <3>1. blocks'[b] = Credit(blocks[b], at)
      BY <2>4 DEF CreditAll
    <3>2. PICK s : s = ApplyJudge(blocks[b].sched, TRUE, at)
      OBVIOUS
    <3>3. s \in Sched /\ s.streak <= blocks[b].sched.streak + 1
      BY <2>1, <2>2, <3>2, LadderStep, LadderStreak
    <3>4. PICK n \in Nat, k \in Nat : n = blocks[b].real + 1 /\ k = blocks[b].run + 1
      BY <2>2
    <3>5. blocks'[b] = [blocks[b] EXCEPT !.real = n, !.sched = s, !.on = blocks[b].text, !.run = k]
      BY <3>1, <3>2, <3>4 DEF Credit
    <3>6. blocks'[b].real = n /\ blocks'[b].sched = s /\ blocks'[b].run = k
      BY <2>1, <3>5 DEF Block
    <3>7. s.streak \in Nat
      BY <3>3 DEF Sched
    <3>. QED
      BY <2>2, <2>4, <3>3, <3>4, <3>6, <3>7
  <2>. QED
    BY <2>3, <2>4
<1>5. CountIsLedger'
  <2>1. ASSUME NEW b \in Blocks PROVE blocks'[b].real = Cardinality(Credited(b)')
    <3>1. blocks[b].real = Cardinality(Credited(b))
      BY <1>0 DEF CountIsLedger
    <3>. QED
      BY <1>1, <1>4, <3>1
  <2>. QED
    BY <2>1 DEF CountIsLedger
<1>6. StreakBacked'
  <2>1. ASSUME NEW b \in Blocks, b \notin overtaken' PROVE blocks'[b].sched.streak <= blocks'[b].run
    <3>1. blocks[b].sched.streak <= blocks[b].run
      BY <1>0, <2>1 DEF StreakBacked
    <3>. QED
      BY <1>4, <3>1
  <2>. QED
    BY <2>1 DEF StreakBacked
<1>7. Steady(Calls)
  <2>1. ASSUME NEW d \in Calls, call[d].pc = "judging"
        PROVE  blocks[call[d].block].run <= blocks'[call[d].block].run
    <3>1. PICK b \in Blocks : b = call[d].block
      BY <1>0, <2>1 DEF Reqs, Sound
    <3>. QED
      BY <1>4, <3>1
  <2>. QED
    BY <2>1 DEF Steady
<1>. QED
  BY <1>0, <1>1, <1>5, <1>6, <1>7, RecsBackedStay, ReqsBackedStay

\* Reports of uses: what was reported before is not credited again.
LEMMA UseBacked ==
    ASSUME IInv, IInv', EInv,
           \/ \E u \in Turns, hit \in SUBSET Blocks, at \in 0 .. now : RecordHits(u, hit, at)
           \/ \E k \in Checkins, listed \in SUBSET Blocks : RecordRealUses(k, listed)
    PROVE  EInv'
<1>0. /\ Rows /\ Rows' /\ Recs /\ Reqs /\ Rest /\ LedgerInOrder /\ RecsBacked /\ ReqsBacked
      /\ now \in Nat
  BY Numbers DEF IInv, EInv
<1>1. ASSUME UNCHANGED <<blocks, uses, realUses, overtaken, records, call>> PROVE EInv'
  BY <1>0, <1>1, UnmovedStep, RecsBackedStay, ReqsBackedStay DEF EInv, Unmoved
<1>2. ASSUME NEW u \in Turns, NEW hit \in SUBSET Blocks, NEW at \in 0 .. now, RecordHits(u, hit, at)
      PROVE  EInv'
  <2> DEFINE credited == {b \in {y \in hit : <<u, y>> \notin uses} : Writable(b)}
  <2>1. UNCHANGED <<call, records, overtaken>>
    BY <1>2 DEF RecordHits
  <2>2. at \in Nat /\ credited \in SUBSET Blocks
    BY <1>0
  <2>3. CASE Refused(credited)
    BY <1>1, <1>2, <2>1, <2>3 DEF RecordHits
  <2>4. CASE ~Refused(credited)
    <3>1. /\ uses' = uses \union ({u} \X hit)
          /\ realUses' = realUses \union ({"hit"} \X {u} \X credited)
          /\ CreditAll(credited, at)
      BY <1>2, <2>4 DEF RecordHits
    <3>2. \A b \in credited : <<"hit", u, b>> \notin realUses
      BY <1>0, <2>2 DEF LedgerInOrder
    <3>3. /\ \A b \in Blocks : IsFiniteSet(Credited(b)')
          /\ CountIsLedger' /\ StreakBacked' /\ RecsBacked' /\ ReqsBacked'
      <4>1. PICK cs \in SUBSET Blocks : cs = credited
        BY <2>2
      <4>. QED
        BY <2>1, <2>2, <3>1, <3>2, <4>1, CreditBacked
    <3>4. ASSUME NEW t \in Turns, NEW b \in Blocks, <<"hit", t, b>> \in realUses'
          PROVE  <<t, b>> \in uses'
      <4>1. CASE <<"hit", t, b>> \in realUses
        BY <1>0, <3>1, <4>1 DEF LedgerInOrder
      <4>2. CASE <<"hit", t, b>> \in {"hit"} \X {u} \X credited
        <5>1. t = u /\ b \in hit
          BY <4>2
        <5>. QED
          BY <3>1, <5>1
      <4>. QED
        BY <3>1, <3>4, <4>1, <4>2
    <3>. QED
      BY <3>3, <3>4 DEF EInv, LedgerInOrder
  <2>. QED
    BY <2>3, <2>4
<1>3. ASSUME NEW k \in Checkins, NEW listed \in SUBSET Blocks, RecordRealUses(k, listed) PROVE EInv'
  <2> DEFINE credited == {b \in listed : Writable(b) /\ <<"checkin", k, b>> \notin realUses}
  <2>1. UNCHANGED <<call, records, overtaken, uses>>
    BY <1>3 DEF RecordRealUses
  <2>2. CASE Refused(credited)
    BY <1>1, <1>3, <2>1, <2>2 DEF RecordRealUses
  <2>3. CASE ~Refused(credited)
    <3>1. /\ realUses' = realUses \union ({"checkin"} \X {k} \X credited)
          /\ CreditAll(credited, now)
      BY <1>3, <2>3 DEF RecordRealUses
    <3>2. PICK cs \in SUBSET Blocks : cs = credited
      OBVIOUS
    <3>3. \A b \in cs : <<"checkin", k, b>> \notin realUses
      BY <3>2
    <3>4. /\ \A b \in Blocks : IsFiniteSet(Credited(b)')
          /\ CountIsLedger' /\ StreakBacked' /\ RecsBacked' /\ ReqsBacked'
      BY <1>0, <2>1, <3>1, <3>2, <3>3, CreditBacked
    <3>5. ASSUME NEW t \in Turns, NEW b \in Blocks, <<"hit", t, b>> \in realUses'
          PROVE  <<t, b>> \in uses'
      <4>1. <<"hit", t, b>> \notin {"checkin"} \X {k} \X credited
        OBVIOUS
      <4>. QED
        BY <1>0, <2>1, <3>1, <3>5, <4>1 DEF LedgerInOrder
    <3>. QED
      BY <3>4, <3>5 DEF EInv, LedgerInOrder
  <2>. QED
    BY <2>2, <2>3
<1>. QED
  BY <1>2, <1>3

\* Deletion, revival, rounds, faults and time move no streak.
LEMMA OtherBacked ==
    ASSUME IInv, IInv', EInv,
           \/ \E b \in Blocks : SoftDeleteBlock(b) \/ ReviveBlock(b)
           \/ RoundNext
           \/ \E c \in Calls : Fault(c)
           \/ Tick
    PROVE  EInv'
<1>0. /\ Rows /\ Rows' /\ Recs /\ Reqs /\ Rest /\ RecsBacked /\ ReqsBacked
      /\ \A b \in Blocks : blocks[b] \in Block
  BY DEF IInv, EInv, Rows
<1>2. ASSUME UNCHANGED <<uses, realUses, overtaken, records, call>>,
             \A x \in Blocks : /\ blocks'[x].sched.streak = blocks[x].sched.streak
                               /\ blocks'[x].real = blocks[x].real /\ blocks'[x].run = blocks[x].run
      PROVE  EInv'
  BY <1>0, <1>2, UnmovedStep, RecsBackedStay, ReqsBackedStay DEF EInv, Unmoved
<1>3. ASSUME NEW b \in Blocks, SoftDeleteBlock(b) \/ ReviveBlock(b) PROVE EInv'
  <2>1. PICK live \in BOOLEAN : blocks' = [blocks EXCEPT ![b] = [blocks[b] EXCEPT !.live = live]]
    BY <1>3 DEF SoftDeleteBlock, ReviveBlock
  <2>2. /\ [blocks[b] EXCEPT !.live = live].sched = blocks[b].sched
        /\ [blocks[b] EXCEPT !.live = live].real = blocks[b].real
        /\ [blocks[b] EXCEPT !.live = live].run = blocks[b].run
    BY <1>0 DEF Block
  <2>3. \A x \in Blocks : /\ blocks'[x].sched = blocks[x].sched /\ blocks'[x].real = blocks[x].real
                          /\ blocks'[x].run = blocks[x].run
    BY <1>0, <2>1, <2>2 DEF Rows
  <2>4. UNCHANGED <<uses, realUses, overtaken, records, call>>
    BY <1>3 DEF SoftDeleteBlock, ReviveBlock, Ledgers
  <2>. QED
    BY <1>2, <2>3, <2>4
<1>4. ASSUME RoundNext PROVE EInv'
  <2>1. ASSUME NEW row \in Block, NEW at \in Nat
        PROVE  /\ Swept(row, at).sched.streak = row.sched.streak /\ Swept(row, at).real = row.real
               /\ Swept(row, at).run = row.run
    BY DEF Swept, Block, Sched
  <2>2. /\ UNCHANGED blocks \/ \E at \in Nat : blocks' = [b \in Blocks |-> Swept(blocks[b], at)]
        /\ UNCHANGED <<uses, realUses, overtaken, records, call>>
    BY <1>4, RoundSteps
  <2>3. \A x \in Blocks : /\ blocks'[x].sched.streak = blocks[x].sched.streak
                          /\ blocks'[x].real = blocks[x].real /\ blocks'[x].run = blocks[x].run
    BY <1>0, <2>1, <2>2
  <2>. QED
    BY <1>2, <2>2, <2>3
<1>5. ASSUME NEW c \in Calls, Fault(c) PROVE EInv'
  <2>1. UNCHANGED <<blocks, records, uses, realUses, overtaken>> /\ Return(c)
    BY <1>5 DEF Fault, Ledgers
  <2>. QED
    BY <1>0, <2>1, UnmovedStep, RecsBackedStay, ReqsBackedReturn DEF EInv, Unmoved
<1>6. ASSUME Tick PROVE EInv'
  BY <1>2, <1>6 DEF Tick, Ledgers
<1>. QED
  BY <1>3, <1>4, <1>5, <1>6

LEMMA EInvInit == Init => EInv
<1> SUFFICES ASSUME Init PROVE EInv
  OBVIOUS
<1>1. PICK text \in Texts : blocks = [b \in Blocks |-> NewBlock(text)]
  BY DEF Init
<1>2. NewBlock(text).sched.streak = 0 /\ NewBlock(text).real = 0 /\ NewBlock(text).run = 0
  BY DEF NewBlock
<1>3. ASSUME NEW b \in Blocks
      PROVE  /\ IsFiniteSet(Credited(b)) /\ Cardinality(Credited(b)) = 0
             /\ blocks[b].sched.streak = 0 /\ blocks[b].real = 0 /\ blocks[b].run = 0
  <2>1. Credited(b) = {}
    BY DEF Init, Credited
  <2>. QED
    BY <1>1, <1>2, <2>1, FS_EmptySet DEF Init
<1>4. LedgerInOrder /\ CountIsLedger /\ StreakBacked
  BY <1>3 DEF Init, LedgerInOrder, CountIsLedger, StreakBacked
<1>5. RecsBacked
  BY DEF Init, RecsBacked
<1>6. ReqsBacked
  BY DEF Init, ReqsBacked, Holds, NoCall
<1>. QED
  BY <1>4, <1>5, <1>6 DEF EInv

LEMMA EInvNext == IInv /\ EInv /\ [Next]_vars => EInv'
<1> SUFFICES ASSUME IInv, EInv, [Next]_vars PROVE EInv'
  OBVIOUS
<1>1. CASE UNCHANGED vars
  <2>1. UNCHANGED <<blocks, records, call, uses, realUses, overtaken>>
    BY <1>1 DEF vars
  <2>2. IInv'
    BY IInvNext
  <2>. QED
    BY <2>1, <2>2, UnmovedStep, RecsBackedStay, ReqsBackedStay DEF IInv, EInv, Unmoved
<1>2. CASE Next
  <2>1. IInv'
    BY IInvNext
  <2>. QED
    BY <1>2, <2>1, JudgeBacked, AppealBacked, EditBacked, UseBacked, OtherBacked DEF Next
<1>. QED
  BY <1>1, <1>2

\* A streak is never longer than the successes in a row behind it, for any number of judges, appeals
\* and edits that write back what they read earlier and hits and check-ins that are lost among them or
\* reported twice, as long as no block fails, is reset or is rolled back behind the back of a waiting
\* judge (Judge, Appeal, ResetSchedule, RecordHits, RecordRealUses).
THEOREM StreaksAreBacked == Spec => []StreakBacked
<1>1. EInv => StreakBacked
  BY DEF EInv
<1>. QED
  BY <1>1, IInvInit, IInvNext, EInvInit, EInvNext, PTL DEF Spec

\* real_use_count is the number of the block's rows in the ledger of credited uses, whatever is
\* reported again or late, deleted, revived or written back (RecordHits, RecordRealUses).
THEOREM CountsAreTheLedger == Spec => []CountIsLedger
<1>1. EInv => CountIsLedger
  BY DEF EInv
<1>. QED
  BY <1>1, IInvInit, IInvNext, EInvInit, EInvNext, PTL DEF Spec

-----------------------------------------------------------------------------
(* Rounds *)

\* What is true of a round from one store call to the next.  The cards owed only become fewer, the
\* records only more, so what the first list and the count have settled stays settled.
FairRound(q) ==
    /\ Cardinality(q.cards) <= RoundSize
    /\ (\E card \in q.cards : card[2] = "automated") =>
         \A card \in q.owed : card[2] = "training" \/ q.grey # "out" => card \in q.cards
    /\ q.budget = "spent" /\ q.grey # "uncounted" => ~ \E card \in q.cards : card[2] = "new"

HalfRound(q) ==
    /\ Cardinality(q.cards) < RoundSize
    /\ \A card \in q.cards : card[2] # "automated" /\ (q.grey = "out" => card[2] # "new")
    /\ \A card \in q.owed : card[2] = "training" \/ q.grey # "out" => card \in q.cards

Kept(q) ==
    /\ q.pc \in {"sweep", "count"} => (q.budget = "spent" => BudgetSpent(q.at))
    /\ q.pc \in {"primary", "green"} => (q.budget = "spent" => q.grey # "in")
    /\ q.pc = "green" => HalfRound(q)
    /\ q.pc = "done" => FairRound(q)

RInv == \A r \in Rounds : round[r] # None => Kept(round[r])

\* No attempt is unfiled, and none is filed with another date or another ladder.
RecsGrow ==
    /\ DOMAIN records \subseteq DOMAIN records'
    /\ \A i \in DOMAIN records : records'[i].prev = records[i].prev /\ records'[i].at = records[i].at

LEMMA RecsGrowNext == IInv /\ [Next]_vars => RecsGrow
<1> SUFFICES ASSUME IInv, [Next]_vars PROVE RecsGrow
  OBVIOUS
<1>1. ASSUME UNCHANGED records PROVE RecsGrow
  BY <1>1 DEF RecsGrow
<1>2. ASSUME NEW c \in Calls, JudgeFile(c) \/ RecordUnjudged(c) PROVE RecsGrow
  <2>1. PICK e : records' = Append(records, e)
    BY <1>2 DEF JudgeFile, RecordUnjudged
  <2>2. records \in Seq(Record)
    BY DEF IInv, Recs
  <2>3. DOMAIN records = 1 .. Len(records) /\ DOMAIN records' = 1 .. Len(records) + 1
    BY <2>1, <2>2
  <2>4. \A i \in 1 .. Len(records) : records'[i] = records[i]
    BY <2>1, <2>2
  <2>. QED
    BY <2>2, <2>3, <2>4 DEF RecsGrow
<1>3. ASSUME NEW c \in Calls, AppealStamp(c) PROVE RecsGrow
  <2> DEFINE i == call[c].rec
  <2>1. i \in DOMAIN records /\ records[i] \in Record /\ records \in Seq(Record)
    BY <1>3 DEF AppealStamp, IInv, Reqs, Sound, Recs
  <2>2. records' = [records EXCEPT ![i] = [records[i] EXCEPT !.appealed = TRUE]]
    BY <1>3 DEF AppealStamp
  <2>3. /\ [records[i] EXCEPT !.appealed = TRUE].prev = records[i].prev
        /\ [records[i] EXCEPT !.appealed = TRUE].at = records[i].at
    BY <2>1 DEF Record
  <2>. QED
    BY <2>1, <2>2, <2>3 DEF RecsGrow
<1>4. CASE UNCHANGED vars
  BY <1>1, <1>4 DEF vars
<1>5. CASE Next
  <2>1. RoundNext => UNCHANGED records
    BY RoundSteps
  <2>2. CASE \E c \in Calls :
               \/ \E b \in Blocks : Judge(c, b) \/ UpdateBlock(c, b)
               \/ \E pass \in BOOLEAN : JudgeVerdict(c, pass)
               \/ \E i \in DOMAIN records : Appeal(c, i)
               \/ \E text \in Texts : EditText(c, text)
               \/ AppealLatest(c) \/ AppealRestore(c) \/ EditAudit(c) \/ ResetSchedule(c) \/ Fault(c)
    BY <1>1, <2>2 DEF Judge, UpdateBlock, JudgeVerdict, Appeal, EditText, AppealLatest, AppealRestore,
                      EditAudit, ResetSchedule, Fault
  <2>3. CASE \/ \E t \in Turns, hit \in SUBSET Blocks \ {{}}, at \in 0 .. now : RecordHits(t, hit, at)
             \/ \E k \in Checkins, listed \in SUBSET Blocks \ {{}} : RecordRealUses(k, listed)
             \/ \E b \in Blocks : SoftDeleteBlock(b) \/ ReviveBlock(b)
             \/ Tick
    BY <1>1, <2>3 DEF RecordHits, RecordRealUses, SoftDeleteBlock, ReviveBlock, Tick
  <2>. QED
    BY <1>1, <1>2, <1>3, <1>5, <2>1, <2>2, <2>3 DEF Next
<1>. QED
  BY <1>4, <1>5

\* A budget that is spent stays spent for the day.
LEMMA SpentStays ==
    ASSUME IInv, IInv', RecsGrow, NEW at \in Nat, BudgetSpent(at)
    PROVE  BudgetSpent(at)'
<1>1. PICK day : day = (at \div DayLength) * DayLength
  OBVIOUS
<1> DEFINE released == {i \in DOMAIN records : records[i].prev.state = "new" /\ records[i].at >= day}
           later == {i \in DOMAIN records' : records'[i].prev.state = "new" /\ records'[i].at >= day}
<1>2. released \subseteq later
  BY DEF RecsGrow
<1>3. IsFiniteSet(later)
  <2>1. records' \in Seq(Record)
    BY DEF IInv, Recs
  <2>2. DOMAIN records' = 1 .. Len(records') /\ Len(records') \in Nat
    BY <2>1
  <2>3. IsFiniteSet(1 .. Len(records'))
    BY <2>2, FS_Interval
  <2>4. later \subseteq 1 .. Len(records')
    BY <2>2
  <2>. QED
    BY <2>3, <2>4, FS_Subset
<1>4. IsFiniteSet(released) /\ Cardinality(released) <= Cardinality(later)
  BY <1>2, <1>3, FS_Subset
<1>5. Cardinality(released) \in Nat /\ Cardinality(later) \in Nat
  BY <1>3, <1>4, FS_CardinalityType
<1>6. DailyNewBlockLimit > 0 /\ Cardinality(released) >= DailyNewBlockLimit
  BY <1>1 DEF BudgetSpent, CountNewReleasesSince
<1>7. Cardinality(later) >= DailyNewBlockLimit
  BY <1>4, <1>5, <1>6, LearningAssumption
<1>. QED
  BY <1>1, <1>6, <1>7 DEF BudgetSpent, CountNewReleasesSince

\* A round that no step of its own has touched.
LEMMA KeptStays ==
    ASSUME IInv, IInv', RecsGrow, NEW q \in RoundCall, Kept(q)
    PROVE  Kept(q)'
<1>1. q.at \in Nat
  BY DEF RoundCall
<1>2. BudgetSpent(q.at) => BudgetSpent(q.at)'
  BY <1>1, SpentStays
<1>. QED
  BY <1>2 DEF Kept, HalfRound, FairRound

LEMMA CardsAreFinite == \A cards \in SUBSET Card : IsFiniteSet(cards)
<1>1. IsFiniteSet(States)
  <2>1. IsFiniteSet({"new"}) /\ IsFiniteSet({"training"}) /\ IsFiniteSet({"automated"})
    BY FS_Singleton
  <2>2. IsFiniteSet({"new"} \union {"training"})
    BY <2>1, FS_Union
  <2>3. IsFiniteSet({"new"} \union {"training"} \union {"automated"})
    BY <2>1, <2>2, FS_Union
  <2>4. States = {"new"} \union {"training"} \union {"automated"}
    BY DEF States
  <2>. QED
    BY <2>3, <2>4
<1>2. IsFiniteSet(Blocks \X States)
  BY <1>1, FS_Product, LearningAssumption
<1>. QED
  BY <1>2, FS_Subset DEF Card

\* The n cards that are due first are at most n, and all there are when they are fewer.
LEMMA EarliestSize ==
    ASSUME NEW candidates \in SUBSET Card, NEW n \in Nat, NEW chosen \in Earliest(candidates, n)
    PROVE  /\ chosen \subseteq candidates /\ IsFiniteSet(chosen)
           /\ Cardinality(chosen) \in Nat /\ Cardinality(chosen) <= n
           /\ Cardinality(chosen) < n => chosen = candidates
<1>1. /\ chosen \in SUBSET candidates
      /\ Cardinality(chosen) = IF Cardinality(candidates) <= n THEN Cardinality(candidates) ELSE n
  BY DEF Earliest
<1>2. IsFiniteSet(candidates)
  BY CardsAreFinite
<1>3. IsFiniteSet(chosen) /\ (Cardinality(candidates) = Cardinality(chosen) => candidates = chosen)
  BY <1>1, <1>2, FS_Subset
<1>4. Cardinality(chosen) \in Nat /\ Cardinality(candidates) \in Nat
  BY <1>2, <1>3, FS_CardinalityType
<1>. QED
  BY <1>1, <1>3, <1>4

\* The first list: what it leaves out is not owed, unless it has filled the round.
LEMMA PrimaryKept ==
    ASSUME IInv, NEW r \in Rounds, round[r] # None, Kept(round[r]), ListPrimary(r)
    PROVE  Kept(round[r])'
<1>0. PICK q \in RoundCall : q = round[r]
  BY DEF IInv, Rest
<1>1. q.pc = "primary" /\ (q.budget = "spent" => q.grey # "in")
  BY <1>0 DEF ListPrimary, Kept
<1> DEFINE states == IF q.grey = "out" THEN {"training"} ELSE Primary
<1>2. PICK first \in Earliest(Due(states, q.at), RoundSize) :
        round' = [round EXCEPT ![r] =
          [q EXCEPT !.pc = IF Cardinality(first) >= RoundSize THEN "done" ELSE "green",
                    !.cards = first, !.owed = q.owed \intersect Due(Primary, q.at)]]
  BY <1>0 DEF ListPrimary
<1>3. PICK p : p = round'[r]
  OBVIOUS
<1>4. /\ p.pc = IF Cardinality(first) >= RoundSize THEN "done" ELSE "green"
      /\ p.cards = first /\ p.owed = q.owed \intersect Due(Primary, q.at)
      /\ p.budget = q.budget /\ p.grey = q.grey
  <2>1. p = [q EXCEPT !.pc = IF Cardinality(first) >= RoundSize THEN "done" ELSE "green",
                      !.cards = first, !.owed = q.owed \intersect Due(Primary, q.at)]
    BY <1>2, <1>3 DEF IInv, Rest
  <2>. QED
    BY <2>1 DEF RoundCall
<1>5. Due(states, q.at) \in SUBSET Card
  BY DueIsCards DEF Primary, States
<1>6. /\ first \subseteq Due(states, q.at)
      /\ Cardinality(first) \in Nat /\ Cardinality(first) <= RoundSize
      /\ Cardinality(first) < RoundSize => first = Due(states, q.at)
  <2>1. PICK candidates \in SUBSET Card : candidates = Due(states, q.at)
    BY <1>5
  <2>2. first \in Earliest(candidates, RoundSize)
    BY <2>1
  <2>. QED
    BY <2>1, <2>2, EarliestSize, LearningAssumption
<1>7. \A card \in first : card[2] # "automated" /\ (q.grey = "out" => card[2] # "new")
  <2>1. \A card \in Due(states, q.at) : card[2] \in states
    BY DEF Due
  <2>. QED
    BY <1>6, <2>1 DEF Primary
<1>8. \A card \in Due(Primary, q.at) : card[2] = "training" \/ q.grey # "out" => card \in Due(states, q.at)
  BY DEF Due, Primary
<1>9. CASE Cardinality(first) < RoundSize
  <2>1. p.pc = "green"
    BY <1>4, <1>6, <1>9, LearningAssumption
  <2>2. HalfRound(p)
    BY <1>4, <1>6, <1>7, <1>8, <1>9 DEF HalfRound
  <2>. QED
    BY <1>1, <1>3, <1>4, <2>1, <2>2 DEF Kept, HalfRound
<1>10. CASE Cardinality(first) >= RoundSize
  <2>1. p.pc = "done"
    BY <1>4, <1>10
  <2>2. p.budget = "spent" /\ p.grey # "uncounted" => p.grey = "out"
    BY <1>0, <1>1, <1>4 DEF RoundCall
  <2>3. FairRound(p)
    BY <1>4, <1>6, <1>7, <2>2 DEF FairRound
  <2>. QED
    BY <1>3, <2>1, <2>3 DEF Kept, FairRound
<1>. QED
  BY <1>6, <1>9, <1>10, LearningAssumption

\* The second list fills the places that are left with green cards.
LEMMA GreenKept ==
    ASSUME IInv, NEW r \in Rounds, round[r] # None, Kept(round[r]), ListGreen(r)
    PROVE  Kept(round[r])'
<1>0. PICK q \in RoundCall : q = round[r]
  BY DEF IInv, Rest
<1>1. q.pc = "green" /\ (q.budget = "spent" => q.grey # "in") /\ HalfRound(q)
  BY <1>0 DEF ListGreen, Kept
<1>2. PICK rest \in Earliest(Due({"automated"}, q.at), RoundSize - Cardinality(q.cards)) :
        round' = [round EXCEPT ![r] =
          [q EXCEPT !.pc = "done", !.cards = q.cards \union rest,
                    !.owed = q.owed \intersect Due(Primary, q.at)]]
  BY <1>0 DEF ListGreen
<1>3. PICK p : p = round'[r]
  OBVIOUS
<1>4. /\ p.pc = "done" /\ p.cards = q.cards \union rest
      /\ p.owed = q.owed \intersect Due(Primary, q.at)
      /\ p.budget = q.budget /\ p.grey = q.grey
  <2>1. p = [q EXCEPT !.pc = "done", !.cards = q.cards \union rest,
                      !.owed = q.owed \intersect Due(Primary, q.at)]
    BY <1>2, <1>3 DEF IInv, Rest
  <2>. QED
    BY <2>1 DEF RoundCall
<1>5. IsFiniteSet(q.cards) /\ Cardinality(q.cards) \in Nat /\ Cardinality(q.cards) < RoundSize
  <2>1. q.cards \in SUBSET Card
    BY DEF RoundCall
  <2>2. IsFiniteSet(q.cards)
    BY <2>1, CardsAreFinite
  <2>. QED
    BY <1>1, <2>2, FS_CardinalityType DEF HalfRound
<1>6. PICK n \in Nat : n = RoundSize - Cardinality(q.cards)
  BY <1>5, LearningAssumption
<1>7. PICK candidates \in SUBSET Card : candidates = Due({"automated"}, q.at)
  BY DueIsCards DEF States
<1>8. /\ rest \subseteq candidates /\ IsFiniteSet(rest)
      /\ Cardinality(rest) \in Nat /\ Cardinality(rest) <= n
  <2>1. rest \in Earliest(candidates, n)
    BY <1>6, <1>7
  <2>. QED
    BY <2>1, EarliestSize
<1>9. Cardinality(q.cards \union rest) <= RoundSize
  <2>1. IsFiniteSet(q.cards \cap rest)
    BY <1>5, FS_Subset
  <2>2. Cardinality(q.cards \cap rest) \in Nat
    BY <2>1, FS_CardinalityType
  <2>3. Cardinality(q.cards \union rest)
          = Cardinality(q.cards) + Cardinality(rest) - Cardinality(q.cards \cap rest)
    BY <1>5, <1>8, FS_Union
  <2>. QED
    BY <1>5, <1>6, <1>8, <2>2, <2>3, LearningAssumption
<1>10. \A card \in rest : card[2] = "automated"
  BY <1>7, <1>8 DEF Due
<1>11. q.budget = "spent" /\ q.grey # "uncounted" => q.grey = "out"
  BY <1>1 DEF RoundCall
<1>12. FairRound(p)
  BY <1>1, <1>4, <1>9, <1>10, <1>11 DEF FairRound, HalfRound
<1>. QED
  BY <1>3, <1>4, <1>12 DEF Kept, FairRound

\* The steps before the lists: asking, sweeping and counting.
LEMMA CountKept ==
    ASSUME IInv, NEW r \in Rounds, AskRound(r) \/ (round[r] # None /\ Kept(round[r])
                                                     /\ (SweepOverdue(r) \/ roundOptions(r)))
    PROVE  Kept(round[r])'
<1>0. round \in [Rounds -> RoundCall \union {None}]
  BY DEF IInv, Rest
<1>1. CASE AskRound(r)
  <2>1. PICK p : p = round'[r]
    OBVIOUS
  <2>2. p.pc = "sweep" /\ p.at = now /\ p.budget = IF BudgetSpent(now) THEN "spent" ELSE "left"
    BY <1>0, <1>1, <2>1 DEF AskRound
  <2>3. UNCHANGED records
    BY <1>1 DEF AskRound
  <2>4. p.budget = "spent" => BudgetSpent(p.at)
    BY <2>2
  <2>5. p.budget = "spent" => BudgetSpent(p.at)'
    BY <2>3, <2>4 DEF BudgetSpent, CountNewReleasesSince
  <2>. QED
    BY <2>1, <2>2, <2>5 DEF Kept
<1>2. CASE round[r] # None /\ Kept(round[r]) /\ SweepOverdue(r)
  <2>1. PICK q \in RoundCall : q = round[r]
    BY <1>0, <1>2
  <2>2. PICK p : p = round'[r]
    OBVIOUS
  <2>3. p = [q EXCEPT !.pc = "count"] /\ UNCHANGED records /\ q.pc = "sweep"
    BY <1>0, <1>2, <2>1, <2>2 DEF SweepOverdue
  <2>4. p.pc = "count" /\ p.at = q.at /\ p.budget = q.budget
    BY <2>3 DEF RoundCall
  <2>5. p.budget = "spent" => BudgetSpent(p.at)
    BY <1>2, <2>1, <2>3, <2>4 DEF Kept
  <2>6. p.budget = "spent" => BudgetSpent(p.at)'
    BY <2>3, <2>5 DEF BudgetSpent, CountNewReleasesSince
  <2>. QED
    BY <2>2, <2>4, <2>6 DEF Kept
<1>3. CASE round[r] # None /\ Kept(round[r]) /\ roundOptions(r)
  <2>1. PICK q \in RoundCall : q = round[r]
    BY <1>0, <1>3
  <2>2. PICK grey \in {"in", "out", "uncounted"} :
          /\ round' = [round EXCEPT ![r] = [q EXCEPT !.pc = "primary", !.grey = grey]]
          /\ grey = "in" => ~BudgetSpent(q.at)
    BY <1>3, <2>1 DEF roundOptions
  <2>3. PICK p : p = round'[r]
    OBVIOUS
  <2>4. p = [q EXCEPT !.pc = "primary", !.grey = grey] /\ q.pc = "count"
    BY <1>0, <1>3, <2>1, <2>2, <2>3 DEF roundOptions
  <2>5. p.pc = "primary" /\ p.grey = grey /\ p.budget = q.budget
    BY <2>4 DEF RoundCall
  <2>6. q.budget = "spent" => BudgetSpent(q.at)
    BY <1>3, <2>1, <2>4 DEF Kept
  <2>. QED
    BY <2>2, <2>3, <2>5, <2>6 DEF Kept
<1>. QED
  BY <1>1, <1>2, <1>3

LEMMA RInvNext == IInv /\ RInv /\ [Next]_vars => RInv'
<1> SUFFICES ASSUME IInv, RInv, [Next]_vars PROVE RInv'
  OBVIOUS
<1>0. IInv' /\ RecsGrow /\ round \in [Rounds -> RoundCall \union {None}]
  BY IInvNext, RecsGrowNext DEF IInv, Rest
<1>1. ASSUME NEW x \in Rounds, round'[x] = round[x], round[x] # None PROVE Kept(round[x])'
  <2>1. PICK q \in RoundCall : q = round[x]
    BY <1>0, <1>1
  <2>2. Kept(q)'
    BY <1>0, <1>1, <2>1, KeptStays DEF RInv
  <2>. QED
    BY <1>1, <2>1, <2>2 DEF Kept, HalfRound, FairRound
<1>2. CASE UNCHANGED round
  BY <1>1, <1>2 DEF RInv
<1>3. CASE RoundNext
  <2>1. PICK r \in Rounds : \/ AskRound(r) \/ SweepOverdue(r) \/ roundOptions(r)
                            \/ ListPrimary(r) \/ ListGreen(r) \/ RoundFails(r)
    BY <1>3 DEF RoundNext
  <2>2. \A x \in Rounds : x # r => round'[x] = round[x]
    BY <1>0, <2>1 DEF AskRound, SweepOverdue, roundOptions, ListPrimary, ListGreen, RoundFails
  <2>3. ASSUME round'[r] # None PROVE Kept(round[r])'
    <3>1. ~RoundFails(r)
      BY <1>0, <2>3 DEF RoundFails
    <3>2. SweepOverdue(r) \/ roundOptions(r) \/ ListPrimary(r) \/ ListGreen(r) =>
            round[r] # None /\ Kept(round[r])
      BY DEF SweepOverdue, roundOptions, ListPrimary, ListGreen, RInv
    <3>. QED
      BY <2>1, <3>1, <3>2, PrimaryKept, GreenKept, CountKept
  <2>4. ASSUME NEW x \in Rounds, round'[x] # None PROVE Kept(round[x])'
    <3>1. CASE x = r
      BY <2>3, <2>4, <3>1
    <3>2. CASE x # r
      BY <1>1, <2>2, <2>4, <3>2
    <3>. QED
      BY <3>1, <3>2
  <2>. QED
    BY <2>4 DEF RInv
<1>4. RoundNext \/ UNCHANGED round
  BY DEF Next, vars, Judge, JudgeVerdict, JudgeFile, RecordUnjudged, Appeal, AppealLatest,
         AppealRestore, AppealStamp, UpdateBlock, EditText, EditAudit, ResetSchedule, Fault,
         RecordHits, RecordRealUses, SoftDeleteBlock, ReviveBlock, Tick
<1>. QED
  BY <1>2, <1>3, <1>4

\* For any number of blocks, requests and concurrent rounds, whatever judges, appeals, edits and hits
\* do between the four store calls of a round: it holds at most RoundSize cards, a green one only if
\* every yellow one that was due all along is in it, and no grey one if the day's budget was spent
\* before it was asked for and could be counted (Round, SelectBlocksForRound).
THEOREM RoundsAreFair == Spec => []RoundIsFair
<1>1. Init => RInv
  BY DEF Init, RInv
<1>2. RInv => RoundIsFair
  BY DEF RInv, Kept, FairRound, RoundIsFair
<1>. QED
  BY <1>1, <1>2, IInvInit, IInvNext, RInvNext, PTL DEF Spec

=============================================================================
