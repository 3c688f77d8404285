------------------------ MODULE PrivacyCascadeProofs ------------------------
(***************************************************************************)
(* Deletion and undeletion for any wipers of any number of statements, any *)
(* number of overlapping requests and any number of faults: what a request *)
(* that ran by itself has achieved when it answers.                        *)
(***************************************************************************)
EXTENDS PrivacyCascade, TLAPS

\* Where a request stands in its program.
InOrder(r) ==
    /\ r.pc \in {"wipe", "hard", "mark", "tokens", "tombs", "undo"} => r.op = "delete"
    /\ r.pc \in {"restore", "clear", "untomb", "audit"} => r.op = "undelete"
    /\ r.pc \in {"wipe", "undo", "restore"} => r.at \in DOMAIN Wipers /\ r.stmt \in DOMAIN Wipers[r.at]
    /\ r.pc \in {"hard", "mark"} => r.at = Len(Wipers) + 1
    /\ r.pc = "get" => r.at = 0 /\ r.stmt = 1
    /\ r.pc = "hard" => r.stmt \in DOMAIN Hard
    /\ r.pc = "undo" => r.bad >= 1 /\ r.at < r.failed
    /\ r.pc \in {"get", "wipe", "hard", "mark"} => r.bad = 0

\* The statements of wiper i before the one at hand are over.
Over(r, i, j) == i < r.at \/ (i = r.at /\ j < r.stmt)
\* restoreWipers goes the other way round.
GivenBack(r, i, j) == (r.at < i /\ i < r.failed) \/ (i = r.at /\ j < r.stmt)

Hides(r, rws) ==
    /\ r.pc = "wipe" => \A i \in DOMAIN Wipers : \A j \in DOMAIN Wipers[i] :
                           Over(r, i, j) => rws[Wipers[i][j]] # "live"
    /\ r.pc \in {"hard", "mark", "tokens", "tombs"} => \A k \in SoftKinds : rws[k] # "live"
    /\ r.pc = "hard" => \A j \in DOMAIN Hard : j < r.stmt => rws[Hard[j]] # "live"
    /\ r.pc \in {"mark", "tokens", "tombs"} => \A k \in HardKinds : rws[k] # "live"

Shows(r, rws) ==
    /\ r.pc = "restore" => \A i \in DOMAIN Wipers : \A j \in DOMAIN Wipers[i] :
                              Over(r, i, j) => rws[Wipers[i][j]] # "hidden"
    /\ r.pc \in {"clear", "untomb", "audit"} => \A k \in SoftKinds : rws[k] # "hidden"

Undoes(r, rws) ==
    r.pc = "undo" /\ r.bad = 1 =>
    \A i \in DOMAIN Wipers : \A j \in DOMAIN Wipers[i] :
        GivenBack(r, i, j) => rws[Wipers[i][j]] # "hidden"

Marks(r, u, t) ==
    /\ r.pc \in {"tokens", "tombs"} => u.status = "deleted"
    /\ r.pc \in {"untomb", "audit"} => u.status = "active"
    /\ r.pc = "audit" => t = {}

\* What a request that ran by itself has done so far.
Done(r, rws, u, t) ==
    r.alone /\ r.pc # "idle" => Hides(r, rws) /\ Shows(r, rws) /\ Undoes(r, rws) /\ Marks(r, u, t)

\* A request is by itself as long as no other one is under way.
AloneIsAlone == \A c, d \in Calls : c # d /\ call[c].alone /\ Busy(c) => ~Busy(d)

CascadeInv ==
    /\ TypeOK
    /\ \A c \in Calls : InOrder(call[c]) /\ call[c].bad <= faults
    /\ AloneIsAlone
    /\ \A c \in Calls : Done(call[c], rows, user, tombs)

-----------------------------------------------------------------------------
(* The constants *)

LEMMA WipersAreNamed ==
    /\ Len(Wipers) \in Nat \ {0} /\ DOMAIN Wipers = 1 .. Len(Wipers)
    /\ \A i \in DOMAIN Wipers :
         /\ Len(Wipers[i]) \in Nat \ {0} /\ DOMAIN Wipers[i] = 1 .. Len(Wipers[i])
         /\ \A j \in DOMAIN Wipers[i] : Wipers[i][j] \in SoftKinds
    /\ \A k \in SoftKinds : \E i \in DOMAIN Wipers : \E j \in DOMAIN Wipers[i] : k = Wipers[i][j]
<1>1. Wipers \in Seq(Seq(SoftKinds) \ {<<>>}) /\ Wipers # <<>>
  BY CascadeAssumption
<1>2. \A i \in DOMAIN Wipers : Wipers[i] \in Seq(SoftKinds) /\ Wipers[i] # <<>>
  BY <1>1
<1>3. \A k \in SoftKinds : \E i \in DOMAIN Wipers : \E j \in DOMAIN Wipers[i] : k = Wipers[i][j]
  BY DEF SoftKinds, ToSet
<1> QED
  BY <1>1, <1>2, <1>3, SMTT(30)

LEMMA HardIsNamed ==
    /\ Len(Hard) \in Nat \ {0} /\ DOMAIN Hard = 1 .. Len(Hard)
    /\ \A j \in DOMAIN Hard : Hard[j] \in HardKinds
    /\ \A k \in HardKinds : \E j \in DOMAIN Hard : k = Hard[j]
<1>1. Hard \in Seq(HardKinds) /\ Hard # <<>>
  BY CascadeAssumption
<1>2. \A k \in HardKinds : \E j \in DOMAIN Hard : k = Hard[j]
  BY DEF HardKinds, ToSet
<1> QED
  BY <1>1, <1>2

-----------------------------------------------------------------------------
(* One step of one request *)

DataTyped ==
    /\ user \in [status : {"active", "deleted"}, age : 0 .. Window + 1]
    /\ token \in BOOLEAN
    /\ rows \in [Kinds -> RowStates]
    /\ \A k \in SoftKinds : rows[k] # "gone"
    /\ tombs \in SUBSET (Kinds \union {"users"})
    /\ faults \in 0 .. MaxFaults /\ calls \in 0 .. MaxCalls

\* A request that moves on leaves the others as they are, and none of them is by itself.
LEMMA OneMoves ==
    ASSUME CascadeInv, NEW c \in Calls, NEW r \in Call, Busy(c),
           call' = [call EXCEPT ![c] = r], DataTyped', faults <= faults',
           InOrder(r), r.bad <= faults', r.alone => call[c].alone,
           Done(r, rows', user', tombs')
    PROVE  CascadeInv'
<1> USE DEF Busy
<1>1. call \in [Calls -> Call] /\ faults \in Nat /\ faults' \in Nat
  BY DEF CascadeInv, TypeOK, DataTyped
<1>2. call' \in [Calls -> Call] /\ call'[c] = r /\ \A d \in Calls : d # c => call'[d] = call[d]
  BY <1>1
<1>3. TypeOK'
  BY <1>2 DEF DataTyped, TypeOK
<1>4. \A d \in Calls : InOrder(call'[d]) /\ call'[d].bad <= faults'
  <2>1. \A d \in Calls : call[d].bad \in Nat /\ call[d].bad <= faults /\ InOrder(call[d])
    BY <1>1 DEF CascadeInv, Call
  <2> QED
    BY <1>1, <1>2, <2>1
<1>5. \A d \in Calls : d # c => ~(call[d].alone /\ Busy(d))
  BY DEF CascadeInv, AloneIsAlone
<1>6. AloneIsAlone'
  <2> SUFFICES ASSUME NEW d \in Calls, NEW e \in Calls, d # e, call'[d].alone, call'[d].pc # "idle"
               PROVE  call'[e].pc = "idle"
    BY DEF AloneIsAlone
  <2>1. d = c
    BY <1>2, <1>5
  <2>2. call[c].alone
    BY <1>2, <2>1
  <2> QED
    BY <1>2, <2>1, <2>2 DEF CascadeInv, AloneIsAlone
<1>7. \A d \in Calls : Done(call'[d], rows', user', tombs')
  <2> SUFFICES ASSUME NEW d \in Calls PROVE Done(call'[d], rows', user', tombs')
    OBVIOUS
  <2>1. CASE d = c
    BY <1>2, <2>1
  <2>2. CASE d # c
    BY <1>2, <1>5, <2>2 DEF Done
  <2> QED
    BY <2>1, <2>2
<1> QED
  BY <1>3, <1>4, <1>6, <1>7 DEF CascadeInv

\* Where a request stands, before it moves.
LEMMA Standing ==
    ASSUME CascadeInv, NEW c \in Calls
    PROVE  /\ call[c] \in Call /\ InOrder(call[c]) /\ call[c].bad \in 0 .. faults
           /\ Done(call[c], rows, user, tombs)
           /\ DataTyped /\ faults \in 0 .. MaxFaults
           /\ MaxFaults \in Nat /\ MaxCalls \in Nat /\ Window \in Nat
<1>1. call \in [Calls -> Call]
  BY DEF CascadeInv, TypeOK
<1>2. call[c].bad \in Nat /\ call[c].bad <= faults
  BY <1>1, CascadeAssumption DEF CascadeInv, Call
<1> QED
  BY <1>1, <1>2, CascadeAssumption DEF CascadeInv, TypeOK, DataTyped

LEMMA AnswersIdle ==
    ASSUME NEW reply \in Replies, CascadeInv
    PROVE  /\ Answered(reply) \in Call /\ InOrder(Answered(reply)) /\ Answered(reply).bad = 0
           /\ ~Answered(reply).alone /\ Answered(reply).pc = "idle"
<1>1. 0 \in 0 .. Len(Wipers) + 1 /\ 0 \in 0 .. MaxFaults /\ 1 \in Nat \ {0}
  BY WipersAreNamed, CascadeAssumption
<1>2. NoCall \in Call
  BY <1>1 DEF Call, Pcs, NoCall, Replies
<1>3. Answered(reply) \in Call
  BY <1>2 DEF Answered, Call
<1>4. Answered(reply).bad = 0 /\ ~Answered(reply).alone /\ Answered(reply).pc = "idle"
  BY DEF Answered, NoCall
<1> QED
  BY <1>3, <1>4 DEF InOrder

LEMMA Leaves ==
    ASSUME CascadeInv, NEW c \in Calls, NEW reply \in Replies, Busy(c),
           call' = [call EXCEPT ![c] = Answered(reply)], DataTyped', faults <= faults'
    PROVE  CascadeInv'
<1>1. Answered(reply).bad <= faults'
  BY AnswersIdle, CascadeAssumption DEF DataTyped
<1>2. Done(Answered(reply), rows', user', tombs')
  BY AnswersIdle DEF Done
<1> QED
  BY <1>1, <1>2, AnswersIdle, OneMoves

-----------------------------------------------------------------------------
(* The statements *)

LEMMA SoftDeleteHides ==
    ASSUME DataTyped, NEW k \in SoftKinds, rows' = SoftDelete(k)
    PROVE  /\ rows' \in [Kinds -> RowStates] /\ (\A s \in SoftKinds : rows'[s] # "gone")
           /\ rows'[k] # "live"
           /\ \A s \in Kinds : rows[s] # "live" => rows'[s] # "live"
  BY DEF DataTyped, SoftDelete, RowStates, Kinds

LEMMA RestoreShows ==
    ASSUME DataTyped, NEW k \in SoftKinds, rows' = Restore(k)
    PROVE  /\ rows' \in [Kinds -> RowStates] /\ (\A s \in SoftKinds : rows'[s] # "gone")
           /\ rows'[k] # "hidden"
           /\ \A s \in Kinds : rows[s] # "hidden" => rows'[s] # "hidden"
  BY DEF DataTyped, Restore, RowStates, Kinds

LEMMA HardDeleteHides ==
    ASSUME DataTyped, NEW k \in HardKinds, rows' = HardDelete(k)
    PROVE  /\ rows' \in [Kinds -> RowStates] /\ (\A s \in SoftKinds : rows'[s] # "gone")
           /\ rows'[k] # "live"
           /\ \A s \in Kinds : rows[s] # "live" => rows'[s] # "live"
<1>1. k \notin SoftKinds
  BY CascadeAssumption
<1> QED
  BY <1>1 DEF DataTyped, HardDelete, RowStates, Kinds

LEMMA StatementIsSoft ==
    ASSUME NEW c \in Calls, call[c].at \in DOMAIN Wipers, call[c].stmt \in DOMAIN Wipers[call[c].at]
    PROVE  Statement(c) \in SoftKinds
  BY WipersAreNamed DEF Statement

\* A statement of a wiper is over: the next one, the next wiper, or what comes after them.
LEMMA StatementsInTurn ==
    ASSUME CascadeInv, NEW c \in Calls, NEW atEnd \in Pcs,
           call[c].pc \in {"wipe", "restore"}, NEW n, n = NextStatement(c, atEnd)
    PROVE  /\ n \in Call
           /\ n.op = call[c].op /\ n.hit = call[c].hit /\ n.failed = call[c].failed
           /\ n.alone = call[c].alone /\ n.bad = call[c].bad
           /\ \/ n.pc = call[c].pc /\ n.at \in DOMAIN Wipers /\ n.stmt \in DOMAIN Wipers[n.at]
              \/ n.pc = atEnd /\ n.at = Len(Wipers) + 1 /\ n.stmt = 1
           /\ \A i \in DOMAIN Wipers : \A j \in DOMAIN Wipers[i] :
                (n.pc = atEnd /\ n.at = Len(Wipers) + 1) \/ Over(n, i, j) =>
                Over(call[c], i, j) \/ (i = call[c].at /\ j = call[c].stmt)
<1> DEFINE r == call[c]
<1>1. r \in Call /\ r.at \in DOMAIN Wipers /\ r.stmt \in DOMAIN Wipers[r.at]
  BY Standing DEF InOrder
<1>2. /\ Len(Wipers) \in Nat \ {0} /\ DOMAIN Wipers = 1 .. Len(Wipers)
      /\ \A i \in DOMAIN Wipers : Len(Wipers[i]) \in Nat \ {0} /\ DOMAIN Wipers[i] = 1 .. Len(Wipers[i])
  BY WipersAreNamed
<1>3. r.at \in Nat /\ r.stmt \in Nat /\ r.at <= Len(Wipers) /\ r.stmt <= Len(Wipers[r.at])
  BY <1>1, <1>2
<1>4. CASE ~LastStatement(c)
  <2>1. n = [r EXCEPT !.stmt = @ + 1]
    BY <1>4 DEF NextStatement
  <2>2. r.stmt + 1 \in DOMAIN Wipers[r.at]
    BY <1>1, <1>2, <1>3, <1>4 DEF LastStatement
  <2>3. n \in Call
    <3>1. r.stmt + 1 \in Nat \ {0}
      BY <1>3
    <3> HIDE DEF r
    <3>2. n = [r EXCEPT !.stmt = r.stmt + 1]
      BY <2>1
    <3> QED
      BY <1>1, <3>1, <3>2 DEF Call
  <2>4. /\ n.at = r.at /\ n.stmt = r.stmt + 1 /\ n.pc = r.pc /\ n.op = r.op /\ n.hit = r.hit
        /\ n.failed = r.failed /\ n.alone = r.alone /\ n.bad = r.bad
    BY <1>1, <2>1 DEF Call
  <2>5. n.at # Len(Wipers) + 1
    BY <1>2, <1>3, <2>4
  <2>6. \A i \in DOMAIN Wipers : \A j \in DOMAIN Wipers[i] :
          Over(n, i, j) => Over(r, i, j) \/ (i = r.at /\ j = r.stmt)
    BY <1>2, <1>3, <2>4 DEF Over
  <2> QED
    BY <1>1, <2>2, <2>3, <2>4, <2>5, <2>6
<1>5. CASE LastStatement(c) /\ r.at < Len(Wipers)
  <2>1. n = [r EXCEPT !.at = @ + 1, !.stmt = 1]
    BY <1>5 DEF NextStatement
  <2>2. r.at + 1 \in DOMAIN Wipers /\ 1 \in DOMAIN Wipers[r.at + 1] /\ r.at + 1 \in 0 .. Len(Wipers) + 1
    BY <1>2, <1>3, <1>5
  <2>3. n \in Call
    <3>1. 1 \in Nat \ {0}
      OBVIOUS
    <3> HIDE DEF r
    <3>2. r.at + 1 \in 0 .. Len(Wipers) + 1 /\ r \in Call
      BY <1>1, <2>2
    <3> QED
      BY <2>1, <3>1, <3>2 DEF Call
  <2>4. /\ n.at = r.at + 1 /\ n.stmt = 1 /\ n.pc = r.pc /\ n.op = r.op /\ n.hit = r.hit
        /\ n.failed = r.failed /\ n.alone = r.alone /\ n.bad = r.bad
    BY <1>1, <2>1 DEF Call
  <2>5. n.at # Len(Wipers) + 1
    BY <1>2, <1>3, <1>5, <2>4
  <2>6. \A i \in DOMAIN Wipers : \A j \in DOMAIN Wipers[i] :
          Over(n, i, j) => Over(r, i, j) \/ (i = r.at /\ j = r.stmt)
    BY <1>2, <1>3, <1>5, <2>4 DEF Over, LastStatement
  <2> QED
    BY <2>2, <2>3, <2>4, <2>5, <2>6
<1>6. CASE LastStatement(c) /\ ~(r.at < Len(Wipers))
  <2>1. n = [r EXCEPT !.pc = atEnd, !.at = @ + 1, !.stmt = 1]
    BY <1>6 DEF NextStatement
  <2>2. r.at = Len(Wipers) /\ r.at + 1 \in 0 .. Len(Wipers) + 1
    BY <1>2, <1>3, <1>6
  <2>3. n \in Call
    <3>1. 1 \in Nat \ {0}
      OBVIOUS
    <3> HIDE DEF r
    <3>2. r.at + 1 \in 0 .. Len(Wipers) + 1 /\ r \in Call
      BY <1>1, <2>2
    <3> QED
      BY <2>1, <3>1, <3>2 DEF Call
  <2>4. /\ n.at = Len(Wipers) + 1 /\ n.stmt = 1 /\ n.pc = atEnd /\ n.op = r.op /\ n.hit = r.hit
        /\ n.failed = r.failed /\ n.alone = r.alone /\ n.bad = r.bad
    BY <1>1, <2>1, <2>2 DEF Call
  <2>5. \A i \in DOMAIN Wipers : \A j \in DOMAIN Wipers[i] :
          Over(r, i, j) \/ (i = r.at /\ j = r.stmt)
    BY <1>2, <1>3, <1>6, <2>2 DEF Over, LastStatement
  <2> QED
    BY <2>3, <2>4, <2>5
<1> QED
  BY <1>4, <1>5, <1>6

LEMMA WipeKeeps ==
    ASSUME CascadeInv, NEW c \in Calls, Wipe(c)
    PROVE  CascadeInv'
<1> DEFINE r == call[c]
           k == Statement(c)
           n == NextStatement(c, "hard")
           q == [n EXCEPT !.hit = IF rows[k] = "live" THEN @ \union {k} ELSE @]
<1>1. /\ r.pc = "wipe" /\ rows' = SoftDelete(k) /\ call' = [call EXCEPT ![c] = q]
      /\ UNCHANGED <<user, token, tombs, faults, calls>>
  BY DEF Wipe
<1>2. r \in Call /\ InOrder(r) /\ Done(r, rows, user, tombs) /\ DataTyped /\ r.bad \in 0 .. faults
      /\ faults \in Nat
  BY Standing
<1>3. k \in SoftKinds
  BY <1>1, <1>2, StatementIsSoft DEF InOrder
<1>4. /\ n \in Call
      /\ n.op = r.op /\ n.hit = r.hit /\ n.failed = r.failed /\ n.alone = r.alone /\ n.bad = r.bad
      /\ \/ n.pc = r.pc /\ n.at \in DOMAIN Wipers /\ n.stmt \in DOMAIN Wipers[n.at]
         \/ n.pc = "hard" /\ n.at = Len(Wipers) + 1 /\ n.stmt = 1
      /\ \A i \in DOMAIN Wipers : \A j \in DOMAIN Wipers[i] :
           (n.pc = "hard" /\ n.at = Len(Wipers) + 1) \/ Over(n, i, j) =>
           Over(r, i, j) \/ (i = r.at /\ j = r.stmt)
  <2> HIDE DEF n
  <2>1. "hard" \in Pcs /\ n = NextStatement(c, "hard")
    BY DEF Pcs, n
  <2> QED
    BY <1>1, <2>1, StatementsInTurn
<1>5. /\ rows' \in [Kinds -> RowStates] /\ (\A s \in SoftKinds : rows'[s] # "gone")
      /\ rows'[k] # "live"
      /\ \A s \in Kinds : rows[s] # "live" => rows'[s] # "live"
  BY <1>1, <1>2, <1>3, SoftDeleteHides
<1>6. DataTyped'
  BY <1>1, <1>2, <1>5 DEF DataTyped
<1> HIDE DEF n, k
<1>7. /\ q \in Call /\ q.pc = n.pc /\ q.op = r.op /\ q.at = n.at /\ q.stmt = n.stmt /\ q.bad = r.bad
      /\ q.alone = r.alone
  BY <1>3, <1>4 DEF Call, Kinds
<1> HIDE DEF q
<1>8. r.op = "delete" /\ r.bad = 0
  BY <1>1, <1>2 DEF InOrder
<1>9. InOrder(q)
  <2>1. 1 \in DOMAIN Hard
    BY HardIsNamed
  <2> QED
    BY <1>1, <1>4, <1>7, <1>8, <2>1 DEF InOrder
<1>10. ASSUME r.alone
       PROVE  \A i \in DOMAIN Wipers : \A j \in DOMAIN Wipers[i] :
                Over(r, i, j) \/ (i = r.at /\ j = r.stmt) => rows'[Wipers[i][j]] # "live"
  <2>1. Hides(r, rows)
    BY <1>1, <1>2, <1>10 DEF Done
  <2>2. k = Wipers[r.at][r.stmt]
    BY DEF k, Statement
  <2>3. \A i \in DOMAIN Wipers : \A j \in DOMAIN Wipers[i] : Wipers[i][j] \in Kinds
    BY WipersAreNamed DEF Kinds
  <2> QED
    BY <1>1, <1>5, <2>1, <2>2, <2>3 DEF Hides
<1>11. Done(q, rows', user', tombs')
  <2> SUFFICES ASSUME r.alone PROVE Hides(q, rows') /\ Shows(q, rows') /\ Undoes(q, rows') /\ Marks(q, user', tombs')
    BY <1>7 DEF Done
  <2>1. CASE n.pc = "wipe"
    <3>1. \A i \in DOMAIN Wipers : \A j \in DOMAIN Wipers[i] :
            Over(q, i, j) => rows'[Wipers[i][j]] # "live"
      BY <1>4, <1>7, <1>10 DEF Over
    <3> QED
      BY <1>7, <2>1, <3>1 DEF Hides, Shows, Undoes, Marks
  <2>2. CASE n.pc = "hard"
    <3>1. n.at = Len(Wipers) + 1 /\ n.stmt = 1
      BY <1>1, <1>4, <2>2
    <3>2. \A s \in SoftKinds : rows'[s] # "live"
      BY <1>4, <1>10, <2>2, <3>1, WipersAreNamed
    <3>3. \A j \in DOMAIN Hard : ~(j < q.stmt)
      BY <1>7, <3>1, HardIsNamed
    <3> QED
      BY <1>7, <2>2, <3>2, <3>3 DEF Hides, Shows, Undoes, Marks
  <2> QED
    BY <1>1, <1>4, <2>1, <2>2
<1> QED
  <2>1. Busy(c) /\ q.bad <= faults' /\ faults <= faults'
    BY <1>1, <1>2, <1>7 DEF Busy
  <2> QED
    BY <1>1, <1>6, <1>7, <1>9, <1>11, <2>1, OneMoves

LEMMA RestoreRowsKeeps ==
    ASSUME CascadeInv, NEW c \in Calls, RestoreRows(c)
    PROVE  CascadeInv'
<1> DEFINE r == call[c]
           k == Statement(c)
           q == NextStatement(c, "clear")
<1>1. /\ r.pc = "restore" /\ rows' = Restore(k) /\ call' = [call EXCEPT ![c] = q]
      /\ UNCHANGED <<user, token, tombs, faults, calls>>
  BY DEF RestoreRows
<1>2. r \in Call /\ InOrder(r) /\ Done(r, rows, user, tombs) /\ DataTyped /\ r.bad \in 0 .. faults
      /\ faults \in Nat
  BY Standing
<1>3. k \in SoftKinds
  BY <1>1, <1>2, StatementIsSoft DEF InOrder
<1> HIDE DEF q
<1>4. /\ q \in Call
      /\ q.op = r.op /\ q.hit = r.hit /\ q.failed = r.failed /\ q.alone = r.alone /\ q.bad = r.bad
      /\ \/ q.pc = r.pc /\ q.at \in DOMAIN Wipers /\ q.stmt \in DOMAIN Wipers[q.at]
         \/ q.pc = "clear" /\ q.at = Len(Wipers) + 1 /\ q.stmt = 1
      /\ \A i \in DOMAIN Wipers : \A j \in DOMAIN Wipers[i] :
           (q.pc = "clear" /\ q.at = Len(Wipers) + 1) \/ Over(q, i, j) =>
           Over(r, i, j) \/ (i = r.at /\ j = r.stmt)
  <2>1. "clear" \in Pcs /\ q = NextStatement(c, "clear")
    BY DEF Pcs, q
  <2> QED
    BY <1>1, <2>1, StatementsInTurn
<1>5. /\ rows' \in [Kinds -> RowStates] /\ (\A s \in SoftKinds : rows'[s] # "gone")
      /\ rows'[k] # "hidden"
      /\ \A s \in Kinds : rows[s] # "hidden" => rows'[s] # "hidden"
  BY <1>1, <1>2, <1>3, RestoreShows
<1>6. DataTyped'
  BY <1>1, <1>2, <1>5 DEF DataTyped
<1> HIDE DEF k
<1>8. r.op = "undelete"
  BY <1>1, <1>2 DEF InOrder
<1>9. InOrder(q)
  BY <1>1, <1>4, <1>8 DEF InOrder
<1>10. ASSUME r.alone
       PROVE  \A i \in DOMAIN Wipers : \A j \in DOMAIN Wipers[i] :
                Over(r, i, j) \/ (i = r.at /\ j = r.stmt) => rows'[Wipers[i][j]] # "hidden"
  <2>1. Shows(r, rows)
    BY <1>1, <1>2, <1>10 DEF Done
  <2>2. k = Wipers[r.at][r.stmt]
    BY DEF k, Statement
  <2>3. \A i \in DOMAIN Wipers : \A j \in DOMAIN Wipers[i] : Wipers[i][j] \in Kinds
    BY WipersAreNamed DEF Kinds
  <2> QED
    BY <1>1, <1>5, <2>1, <2>2, <2>3 DEF Shows
<1>11. Done(q, rows', user', tombs')
  <2> SUFFICES ASSUME r.alone PROVE Hides(q, rows') /\ Shows(q, rows') /\ Undoes(q, rows') /\ Marks(q, user', tombs')
    BY <1>4 DEF Done
  <2>1. CASE q.pc = "restore"
    <3>1. \A i \in DOMAIN Wipers : \A j \in DOMAIN Wipers[i] :
            Over(q, i, j) => rows'[Wipers[i][j]] # "hidden"
      BY <1>4, <1>10
    <3> QED
      BY <2>1, <3>1 DEF Hides, Shows, Undoes, Marks
  <2>2. CASE q.pc = "clear"
    <3>1. q.at = Len(Wipers) + 1
      BY <1>1, <1>4, <2>2
    <3>2. \A s \in SoftKinds : rows'[s] # "hidden"
      BY <1>4, <1>10, <2>2, <3>1, WipersAreNamed
    <3> QED
      BY <2>2, <3>2 DEF Hides, Shows, Undoes, Marks
  <2> QED
    BY <1>1, <1>4, <2>1, <2>2
<1> QED
  <2>1. Busy(c) /\ q.bad <= faults' /\ faults <= faults'
    BY <1>1, <1>2, <1>4 DEF Busy
  <2> QED
    BY <1>1, <1>4, <1>6, <1>9, <1>11, <2>1, OneMoves

LEMMA DeleteKeeps ==
    ASSUME CascadeInv, NEW c \in Calls, Delete(c)
    PROVE  CascadeInv'
<1> DEFINE r == call[c]
           k == Hard[r.stmt]
           pc == IF r.stmt < Len(Hard) THEN "hard" ELSE "mark"
           stmt == IF r.stmt < Len(Hard) THEN r.stmt + 1 ELSE 1
           hit == IF rows[k] = "live" THEN r.hit \union {k} ELSE r.hit
           q == [r EXCEPT !.pc = pc, !.stmt = stmt, !.hit = hit]
<1>2. r \in Call /\ InOrder(r) /\ Done(r, rows, user, tombs) /\ DataTyped /\ r.bad \in 0 .. faults
      /\ faults \in Nat
  BY Standing
<1>1. /\ r.pc = "hard" /\ rows' = HardDelete(k) /\ call' = [call EXCEPT ![c] = q]
      /\ UNCHANGED <<user, token, tombs, faults, calls>>
  <2>1. call \in [Calls -> Call]
    BY DEF CascadeInv, TypeOK
  <2> QED
    BY <2>1 DEF Delete, Call
<1>3. r.stmt \in DOMAIN Hard /\ k \in HardKinds /\ r.stmt \in 1 .. Len(Hard) /\ Len(Hard) \in Nat
  BY <1>1, <1>2, HardIsNamed DEF InOrder
<1>4. pc \in Pcs /\ stmt \in Nat \ {0} /\ hit \in SUBSET Kinds /\ (pc = "hard" => stmt \in DOMAIN Hard)
  BY <1>2, <1>3, HardIsNamed DEF Pcs, Call, Kinds
<1>5. /\ rows' \in [Kinds -> RowStates] /\ (\A s \in SoftKinds : rows'[s] # "gone")
      /\ rows'[k] # "live"
      /\ \A s \in Kinds : rows[s] # "live" => rows'[s] # "live"
  BY <1>1, <1>2, <1>3, HardDeleteHides
<1>6. DataTyped'
  BY <1>1, <1>2, <1>5 DEF DataTyped
<1>7. /\ q \in Call /\ q.pc = pc /\ q.stmt = stmt /\ q.op = r.op /\ q.at = r.at /\ q.bad = r.bad
      /\ q.alone = r.alone
  <2> HIDE DEF pc, stmt, hit, r
  <2> QED
    BY <1>2, <1>4 DEF Call
<1>8. r.op = "delete" /\ r.bad = 0 /\ r.at = Len(Wipers) + 1
  BY <1>1, <1>2 DEF InOrder
<1> HIDE DEF q
<1>9. InOrder(q)
  BY <1>4, <1>7, <1>8 DEF InOrder
<1>10. Done(q, rows', user', tombs')
  <2> SUFFICES ASSUME r.alone PROVE Hides(q, rows') /\ Shows(q, rows') /\ Undoes(q, rows') /\ Marks(q, user', tombs')
    BY <1>7 DEF Done
  <2>1. Hides(r, rows)
    BY <1>1, <1>2 DEF Done
  <2>2. \A s \in SoftKinds : rows'[s] # "live"
    BY <1>1, <1>5, <2>1 DEF Hides, Kinds
  <2>3. \A j \in DOMAIN Hard : j <= r.stmt => rows'[Hard[j]] # "live"
    <3> SUFFICES ASSUME NEW j \in DOMAIN Hard, j <= r.stmt PROVE rows'[Hard[j]] # "live"
      OBVIOUS
    <3>1. Hard[j] \in Kinds /\ j \in Nat
      BY HardIsNamed DEF Kinds
    <3>2. CASE j < r.stmt
      BY <1>1, <1>5, <2>1, <3>1, <3>2 DEF Hides
    <3>3. CASE j = r.stmt
      BY <1>5, <3>3
    <3> QED
      BY <1>3, <3>1, <3>2, <3>3
  <2>4. \A j \in DOMAIN Hard : pc = "hard" /\ j < stmt => j <= r.stmt
    BY <1>3, HardIsNamed
  <2>5. pc = "mark" => \A s \in HardKinds : rows'[s] # "live"
    <3>1. pc = "mark" => \A j \in DOMAIN Hard : j <= r.stmt
      BY <1>3, HardIsNamed
    <3> QED
      BY <2>3, <3>1, HardIsNamed
  <2>6. pc \in {"hard", "mark"}
    OBVIOUS
  <2> HIDE DEF pc, stmt
  <2> QED
    BY <1>7, <2>2, <2>3, <2>4, <2>5, <2>6 DEF Hides, Shows, Undoes, Marks
<1> QED
  <2>1. Busy(c) /\ q.bad <= faults' /\ faults <= faults'
    BY <1>1, <1>2, <1>7 DEF Busy
  <2> QED
    BY <1>1, <1>6, <1>7, <1>9, <1>10, <2>1, OneMoves

\* Steps that only move on: after the wipers of a deletion, and after the restores of an undeletion.
LEMMA GoesOn ==
    ASSUME CascadeInv, NEW c \in Calls, NEW pc \in {"tokens", "tombs", "untomb", "audit"},
           call' = [call EXCEPT ![c].pc = pc], rows' = rows, DataTyped', faults <= faults',
           pc \in {"tokens", "tombs"} => call[c].pc \in {"mark", "tokens"},
           pc \in {"untomb", "audit"} => call[c].pc \in {"clear", "untomb"},
           call[c].alone => Marks([pc |-> pc], user', tombs')
    PROVE  CascadeInv'
<1> DEFINE r == call[c]
           q == [r EXCEPT !.pc = pc]
<1>1. r \in Call /\ InOrder(r) /\ Done(r, rows, user, tombs) /\ r.bad \in 0 .. faults /\ faults \in Nat
  BY Standing
<1>2. call' = [call EXCEPT ![c] = q]
  BY DEF CascadeInv, TypeOK
<1>3. pc \in Pcs /\ Busy(c)
  BY DEF Pcs, Busy
<1>4. q \in Call /\ q.pc = pc /\ q.op = r.op /\ q.at = r.at /\ q.stmt = r.stmt /\ q.bad = r.bad /\ q.alone = r.alone
  <2> HIDE DEF r
  <2> QED
    BY <1>1, <1>3 DEF Call
<1> HIDE DEF q
<1>5. InOrder(q)
  BY <1>1, <1>4 DEF InOrder
<1>6. Done(q, rows', user', tombs')
  <2> SUFFICES ASSUME r.alone PROVE Hides(q, rows') /\ Shows(q, rows') /\ Undoes(q, rows') /\ Marks(q, user', tombs')
    BY <1>4 DEF Done
  <2>1. Hides(r, rows) /\ Shows(r, rows) /\ Marks([pc |-> pc], user', tombs')
    BY <1>1, <1>3 DEF Done, Busy
  <2> QED
    BY <1>4, <2>1 DEF Hides, Shows, Undoes, Marks
<1> QED
  <2>1. q.bad <= faults' /\ faults' \in Nat
    BY <1>1, <1>4, CascadeAssumption DEF DataTyped
  <2> QED
    BY <1>2, <1>3, <1>4, <1>5, <1>6, <2>1, OneMoves

LEMMA Marked ==
    ASSUME DataTyped, MarkDeleted
    PROVE  user' \in [status : {"active", "deleted"}, age : 0 .. Window + 1] /\ user'.status = "deleted"
  BY CascadeAssumption DEF DataTyped, MarkDeleted

LEMMA Cleared ==
    ASSUME DataTyped, ClearDeleted
    PROVE  user' \in [status : {"active", "deleted"}, age : 0 .. Window + 1] /\ user'.status = "active"
  BY CascadeAssumption DEF DataTyped, ClearDeleted

LEMMA FinishKeeps ==
    ASSUME CascadeInv, NEW c \in Calls,
           \/ MarkUserDeleted(c) \/ DeleteRefreshTokens(c) \/ InsertTombstones(c)
           \/ ClearUserDeleted(c) \/ DeleteTombstones(c) \/ InsertAudit(c)
    PROVE  CascadeInv'
<1>1. call[c] \in Call /\ Done(call[c], rows, user, tombs) /\ DataTyped /\ faults \in Nat
  BY Standing
<1>2. CASE MarkUserDeleted(c)
  <2>1. DataTyped' /\ user'.status = "deleted"
    BY <1>1, <1>2, Marked DEF MarkUserDeleted, DataTyped
  <2>3. call[c].pc = "mark" /\ call' = [call EXCEPT ![c].pc = "tokens"] /\ rows' = rows /\ faults <= faults'
    BY <1>1, <1>2 DEF MarkUserDeleted, Goto
  <2>4. call[c].alone => Marks([pc |-> "tokens"], user', tombs')
    BY <2>1 DEF Marks
  <2> QED
    BY <2>1, <2>3, <2>4, GoesOn
<1>3. CASE DeleteRefreshTokens(c)
  <2>1. DataTyped'
    BY <1>1, <1>3 DEF DeleteRefreshTokens, DataTyped
  <2>2. call[c].alone => user'.status = "deleted"
    BY <1>1, <1>3 DEF DeleteRefreshTokens, Done, Marks
  <2>3. call[c].pc = "tokens" /\ call' = [call EXCEPT ![c].pc = "tombs"] /\ rows' = rows /\ faults <= faults'
    BY <1>1, <1>3 DEF DeleteRefreshTokens, Goto
  <2>4. call[c].alone => Marks([pc |-> "tombs"], user', tombs')
    BY <2>2 DEF Marks
  <2> QED
    BY <2>1, <2>3, <2>4, GoesOn
<1>4. CASE InsertTombstones(c)
  <2>1. DataTyped'
    BY <1>1, <1>4 DEF InsertTombstones, DataTyped, Call
  <2>2. Busy(c) /\ call' = [call EXCEPT ![c] = Answered("ok")] /\ faults <= faults' /\ "ok" \in Replies
    BY <1>1, <1>4 DEF InsertTombstones, Answer, Busy, Replies
  <2> QED
    BY <2>1, <2>2, Leaves
<1>5. CASE ClearUserDeleted(c)
  <2>1. DataTyped' /\ user'.status = "active"
    BY <1>1, <1>5, Cleared DEF ClearUserDeleted, DataTyped
  <2>3. call[c].pc = "clear" /\ call' = [call EXCEPT ![c].pc = "untomb"] /\ rows' = rows /\ faults <= faults'
    BY <1>1, <1>5 DEF ClearUserDeleted, Goto
  <2>4. call[c].alone => Marks([pc |-> "untomb"], user', tombs')
    BY <2>1 DEF Marks
  <2> QED
    BY <2>1, <2>3, <2>4, GoesOn
<1>6. CASE DeleteTombstones(c)
  <2>1. DataTyped'
    BY <1>1, <1>6 DEF DeleteTombstones, DataTyped
  <2>2. call[c].alone => user'.status = "active"
    BY <1>1, <1>6 DEF DeleteTombstones, Done, Marks
  <2>3. call[c].pc = "untomb" /\ call' = [call EXCEPT ![c].pc = "audit"] /\ rows' = rows /\ faults <= faults'
    BY <1>1, <1>6 DEF DeleteTombstones, Goto
  <2>4. call[c].alone => Marks([pc |-> "audit"], user', tombs')
    BY <1>6, <2>2 DEF Marks, DeleteTombstones
  <2> QED
    BY <2>1, <2>3, <2>4, GoesOn
<1>7. CASE InsertAudit(c)
  <2>1. DataTyped'
    BY <1>1, <1>7 DEF InsertAudit, DataTyped
  <2>2. Busy(c) /\ call' = [call EXCEPT ![c] = Answered("ok")] /\ faults <= faults' /\ "ok" \in Replies
    BY <1>1, <1>7 DEF InsertAudit, Answer, Busy, Replies
  <2> QED
    BY <2>1, <2>2, Leaves
<1> QED
  BY <1>2, <1>3, <1>4, <1>5, <1>6, <1>7

\* The first read of a request: it answers, or it begins with the first statement.
LEMMA GetUserKeeps ==
    ASSUME CascadeInv, NEW c \in Calls, DeleteGetUser(c) \/ UndeleteGetUser(c)
    PROVE  CascadeInv'
<1> DEFINE r == call[c]
<1>1. r \in Call /\ InOrder(r) /\ Done(r, rows, user, tombs) /\ DataTyped /\ r.bad \in 0 .. faults
      /\ faults \in Nat
  BY Standing
<1>2. r.pc = "get" /\ UNCHANGED <<user, token, rows, tombs, faults, calls>> /\ Busy(c)
  BY DEF DeleteGetUser, UndeleteGetUser, Busy
<1>3. DataTyped'
  BY <1>1, <1>2 DEF DataTyped
<1>4. CASE \E reply \in Replies : call' = [call EXCEPT ![c] = Answered(reply)]
  <2>1. PICK reply \in Replies : call' = [call EXCEPT ![c] = Answered(reply)]
    BY <1>4
  <2>2. faults <= faults'
    BY <1>1, <1>2
  <2> QED
    BY <1>2, <1>3, <2>1, <2>2, Leaves
<1>5. ASSUME NEW pc \in {"wipe", "restore"}, call' = [call EXCEPT ![c].pc = pc, ![c].at = 1],
             pc = "wipe" => r.op = "delete", pc = "restore" => r.op = "undelete"
      PROVE  CascadeInv'
  <2> DEFINE q == [r EXCEPT !.pc = pc, !.at = 1]
  <2>1. call' = [call EXCEPT ![c] = q]
    BY <1>5 DEF CascadeInv, TypeOK
  <2>2. pc \in Pcs /\ 1 \in 0 .. Len(Wipers) + 1
    BY WipersAreNamed DEF Pcs
  <2>3. q \in Call /\ q.pc = pc /\ q.op = r.op /\ q.at = 1 /\ q.stmt = r.stmt /\ q.bad = r.bad /\ q.alone = r.alone
    <3> HIDE DEF r
    <3> QED
      BY <1>1, <2>2 DEF Call
  <2>4. r.stmt = 1 /\ r.bad = 0
    BY <1>1, <1>2 DEF InOrder
  <2> HIDE DEF q
  <2>5. InOrder(q)
    BY <1>5, <2>3, <2>4, WipersAreNamed DEF InOrder
  <2>6. \A i \in DOMAIN Wipers : \A j \in DOMAIN Wipers[i] : ~Over(q, i, j)
    BY <2>3, <2>4, WipersAreNamed DEF Over
  <2>7. Done(q, rows', user', tombs')
    BY <2>3, <2>6 DEF Done, Hides, Shows, Undoes, Marks
  <2>8. q.bad <= faults' /\ faults <= faults'
    BY <1>1, <1>2, <2>3
  <2> QED
    BY <1>2, <1>3, <2>1, <2>3, <2>5, <2>7, <2>8, OneMoves
<1> QED
  BY <1>4, <1>5 DEF DeleteGetUser, UndeleteGetUser, Answer, Replies

-----------------------------------------------------------------------------
(* The compensation, and the faults that lead to it *)

LEMMA UndoKeeps ==
    ASSUME CascadeInv, NEW c \in Calls, Undo(c)
    PROVE  CascadeInv'
<1> DEFINE r == call[c]
           k == Statement(c)
<1>1. /\ r.pc = "undo" /\ rows' = Restore(k) /\ Busy(c)
      /\ call' = [call EXCEPT ![c] = IF LastStatement(c) THEN Undone(c) ELSE [r EXCEPT !.stmt = @ + 1]]
      /\ UNCHANGED <<user, token, tombs, faults, calls>>
  BY DEF Undo, Busy
<1>2. r \in Call /\ InOrder(r) /\ Done(r, rows, user, tombs) /\ DataTyped /\ r.bad \in 0 .. faults
      /\ faults \in Nat
  BY Standing
<1>3. /\ k \in SoftKinds /\ r.at \in DOMAIN Wipers /\ r.stmt \in DOMAIN Wipers[r.at]
      /\ r.op = "delete" /\ r.bad >= 1 /\ r.at < r.failed
  BY <1>1, <1>2, StatementIsSoft DEF InOrder
<1>4. /\ rows' \in [Kinds -> RowStates] /\ (\A s \in SoftKinds : rows'[s] # "gone")
      /\ rows'[k] # "hidden"
      /\ \A s \in Kinds : rows[s] # "hidden" => rows'[s] # "hidden"
  BY <1>1, <1>2, <1>3, RestoreShows
<1>5. DataTyped' /\ faults <= faults'
  BY <1>1, <1>2, <1>4 DEF DataTyped
<1>6. /\ Len(Wipers) \in Nat \ {0} /\ DOMAIN Wipers = 1 .. Len(Wipers)
      /\ \A i \in DOMAIN Wipers : Len(Wipers[i]) \in Nat \ {0} /\ DOMAIN Wipers[i] = 1 .. Len(Wipers[i])
  BY WipersAreNamed
<1>7. r.at \in Nat /\ r.stmt \in Nat /\ r.failed \in Nat /\ r.at <= Len(Wipers) /\ r.stmt <= Len(Wipers[r.at])
  BY <1>2, <1>3, <1>6 DEF Call
<1> HIDE DEF k
\* What this statement and those before it gave back.
<1>8. ASSUME r.alone, r.bad = 1
      PROVE  \A i \in DOMAIN Wipers : \A j \in DOMAIN Wipers[i] :
               GivenBack(r, i, j) \/ (i = r.at /\ j = r.stmt) => rows'[Wipers[i][j]] # "hidden"
  <2>1. Undoes(r, rows)
    BY <1>1, <1>2, <1>8 DEF Done
  <2>2. k = Wipers[r.at][r.stmt]
    BY DEF k, Statement
  <2>3. \A i \in DOMAIN Wipers : \A j \in DOMAIN Wipers[i] : Wipers[i][j] \in Kinds
    BY WipersAreNamed DEF Kinds
  <2> QED
    BY <1>1, <1>4, <1>8, <2>1, <2>2, <2>3 DEF Undoes
<1>9. ASSUME NEW q \in Call, call' = [call EXCEPT ![c] = q], q.pc = "undo", q.op = r.op, q.bad = r.bad,
             q.failed = r.failed, q.alone = r.alone, q.at < q.failed,
             q.at \in DOMAIN Wipers, q.stmt \in DOMAIN Wipers[q.at],
             \A i \in DOMAIN Wipers : \A j \in DOMAIN Wipers[i] :
               GivenBack(q, i, j) => GivenBack(r, i, j) \/ (i = r.at /\ j = r.stmt)
      PROVE  CascadeInv'
  <2>1. InOrder(q)
    BY <1>3, <1>9 DEF InOrder
  <2>2. Done(q, rows', user', tombs')
    BY <1>8, <1>9 DEF Done, Hides, Shows, Undoes, Marks
  <2>3. q.bad <= faults'
    BY <1>1, <1>2, <1>9
  <2> QED
    BY <1>1, <1>5, <1>9, <2>1, <2>2, <2>3, OneMoves
<1>10. CASE ~LastStatement(c)
  <2> DEFINE q == [r EXCEPT !.stmt = r.stmt + 1]
  <2>1. call' = [call EXCEPT ![c] = q]
    BY <1>1, <1>10
  <2>2. r.stmt + 1 \in Nat \ {0} /\ r.stmt + 1 \in DOMAIN Wipers[r.at]
    BY <1>3, <1>6, <1>7, <1>10 DEF LastStatement
  <2>3. /\ q \in Call /\ q.stmt = r.stmt + 1 /\ q.at = r.at /\ q.pc = r.pc /\ q.op = r.op
        /\ q.bad = r.bad /\ q.failed = r.failed /\ q.alone = r.alone
    <3> HIDE DEF r
    <3> QED
      BY <1>2, <2>2 DEF Call
  <2> HIDE DEF q
  <2>4. \A i \in DOMAIN Wipers : \A j \in DOMAIN Wipers[i] :
          GivenBack(q, i, j) => GivenBack(r, i, j) \/ (i = r.at /\ j = r.stmt)
    BY <1>6, <1>7, <2>3 DEF GivenBack
  <2> QED
    BY <1>1, <1>3, <1>9, <2>1, <2>2, <2>3, <2>4
<1>11. CASE LastStatement(c) /\ r.at = 1
  <2>1. call' = [call EXCEPT ![c] = Answered("error")] /\ "error" \in Replies
    BY <1>1, <1>11 DEF Undone, Replies
  <2> QED
    BY <1>1, <1>5, <2>1, Leaves
<1>12. CASE LastStatement(c) /\ r.at # 1
  <2> DEFINE q == [r EXCEPT !.at = r.at - 1, !.stmt = 1]
  <2>1. call' = [call EXCEPT ![c] = q]
    BY <1>1, <1>12 DEF Undone
  <2>2. /\ r.at - 1 \in 0 .. Len(Wipers) + 1 /\ 1 \in Nat \ {0} /\ r.at - 1 \in DOMAIN Wipers
        /\ 1 \in DOMAIN Wipers[r.at - 1] /\ r.at - 1 < r.failed
    <3> HIDE DEF r
    <3>1. r.at - 1 \in 1 .. Len(Wipers) /\ r.at - 1 < r.failed
      BY <1>3, <1>6, <1>7, <1>12
    <3>2. 1 \in DOMAIN Wipers[r.at - 1]
      BY <1>6, <3>1
    <3> QED
      BY <1>6, <3>1, <3>2
  <2>3. /\ q \in Call /\ q.stmt = 1 /\ q.at = r.at - 1 /\ q.pc = r.pc /\ q.op = r.op
        /\ q.bad = r.bad /\ q.failed = r.failed /\ q.alone = r.alone
    <3> HIDE DEF r
    <3> QED
      BY <1>2, <2>2 DEF Call
  <2> HIDE DEF q
  <2>4. \A i \in DOMAIN Wipers : \A j \in DOMAIN Wipers[i] :
          GivenBack(q, i, j) => GivenBack(r, i, j) \/ (i = r.at /\ j = r.stmt)
    BY <1>6, <1>7, <1>12, <2>3 DEF GivenBack, LastStatement
  <2> QED
    BY <1>1, <1>3, <1>9, <2>1, <2>2, <2>3, <2>4
<1> QED
  BY <1>10, <1>11, <1>12

\* Whatever the statement did before it failed, its error path keeps the invariant.
LEMMA ErrorPathKeeps ==
    ASSUME CascadeInv, NEW c \in Calls, Fault, call[c].pc \notin {"idle", "tombs"},
           call' = [call EXCEPT ![c] = ErrorPath(c)], DataTyped',
           call[c].pc = "tokens" => UNCHANGED <<rows, user>>
    PROVE  CascadeInv'
<1> DEFINE r == call[c]
<1>1. r \in Call /\ InOrder(r) /\ Done(r, rows, user, tombs) /\ DataTyped /\ r.bad \in 0 .. faults
      /\ faults \in Nat /\ MaxFaults \in Nat
  BY Standing
<1>2. faults' = faults + 1 /\ faults <= faults' /\ faults' \in 0 .. MaxFaults /\ Busy(c)
  BY <1>1 DEF Fault, Busy, DataTyped
<1>3. /\ Len(Wipers) \in Nat \ {0} /\ DOMAIN Wipers = 1 .. Len(Wipers)
      /\ \A i \in DOMAIN Wipers : Len(Wipers[i]) \in Nat \ {0} /\ DOMAIN Wipers[i] = 1 .. Len(Wipers[i])
  BY WipersAreNamed
<1>4. r.at \in 0 .. Len(Wipers) + 1 /\ r.bad \in Nat /\ r.bad + 1 \in 0 .. MaxFaults /\ r.failed \in Nat
  BY <1>1, <1>2, <1>3 DEF Call
<1>5. CASE ErrorPath(c) = Answered("error")
  BY <1>2, <1>5, Leaves DEF Replies
<1>6. CASE r.pc \in {"wipe", "hard", "mark"} /\ ErrorPath(c) # Answered("error")
  <2> DEFINE q == [r EXCEPT !.pc = "undo", !.at = r.at - 1, !.stmt = 1, !.failed = r.at, !.bad = r.bad + 1]
  <2>1. ErrorPath(c) = Compensate(c, r.at)
    BY <1>6 DEF ErrorPath
  <2>2. ~(r.at < 2) /\ ErrorPath(c) = q
    BY <1>6, <2>1 DEF Compensate
  <2>3. /\ r.at - 1 \in 0 .. Len(Wipers) + 1 /\ 1 \in Nat \ {0} /\ r.at - 1 \in DOMAIN Wipers
        /\ 1 \in DOMAIN Wipers[r.at - 1] /\ "undo" \in Pcs
    BY <1>3, <1>4, <2>2 DEF Pcs
  <2>4. /\ q \in Call /\ q.stmt = 1 /\ q.at = r.at - 1 /\ q.pc = "undo" /\ q.op = r.op
        /\ q.bad = r.bad + 1 /\ q.failed = r.at /\ q.alone = r.alone
    <3> HIDE DEF r
    <3> QED
      BY <1>1, <1>4, <2>3 DEF Call
  <2> HIDE DEF q
  <2>5. InOrder(q)
    BY <1>1, <1>4, <1>6, <2>3, <2>4 DEF InOrder
  <2>6. \A i \in DOMAIN Wipers : \A j \in DOMAIN Wipers[i] : ~GivenBack(q, i, j)
    BY <1>3, <1>4, <2>4 DEF GivenBack
  <2>7. Done(q, rows', user', tombs')
    BY <2>4, <2>6 DEF Done, Hides, Shows, Undoes, Marks
  <2>8. q.bad <= faults' /\ call' = [call EXCEPT ![c] = q]
    BY <1>1, <1>2, <2>2, <2>4
  <2> QED
    BY <1>2, <2>4, <2>5, <2>7, <2>8, OneMoves
<1>7. CASE r.pc = "tokens"
  <2>1. ErrorPath(c) = [call[c] EXCEPT !.pc = "tombs"]
    BY <1>7 DEF ErrorPath
  <2>2. call' = [call EXCEPT ![c].pc = "tombs"]
    BY <2>1 DEF CascadeInv, TypeOK
  <2>3. r.alone => user'.status = "deleted"
    BY <1>1, <1>7 DEF Done, Marks
  <2>4. r.alone => Marks([pc |-> "tombs"], user', tombs')
    BY <2>3 DEF Marks
  <2> QED
    BY <1>2, <1>7, <2>2, <2>4, GoesOn
<1>8. CASE r.pc = "undo" /\ r.at > 1
  <2> DEFINE q == [r EXCEPT !.at = r.at - 1, !.stmt = 1, !.bad = r.bad + 1]
  <2>1. ErrorPath(c) = [Undone(c) EXCEPT !.bad = @ + 1]
    BY <1>8 DEF ErrorPath
  <2>2. Undone(c) = [r EXCEPT !.at = r.at - 1, !.stmt = 1]
    BY <1>4, <1>8 DEF Undone
  <2>3. /\ r.at - 1 \in 0 .. Len(Wipers) + 1 /\ 1 \in Nat \ {0} /\ r.at - 1 \in DOMAIN Wipers
        /\ 1 \in DOMAIN Wipers[r.at - 1]
    <3>1. r.at \in DOMAIN Wipers
      BY <1>1, <1>8 DEF InOrder
    <3> HIDE DEF r
    <3>2. r.at - 1 \in 1 .. Len(Wipers)
      BY <1>3, <1>8, <3>1
    <3>3. 1 \in DOMAIN Wipers[r.at - 1]
      BY <1>3, <3>2
    <3> QED
      BY <1>3, <3>2, <3>3
  <2>4. ErrorPath(c) = q
    <3> HIDE DEF r
    <3> QED
      BY <1>1, <2>1, <2>2 DEF Call
  <2>5. /\ q \in Call /\ q.stmt = 1 /\ q.at = r.at - 1 /\ q.pc = r.pc /\ q.op = r.op
        /\ q.bad = r.bad + 1 /\ q.failed = r.failed /\ q.alone = r.alone
    <3> HIDE DEF r
    <3> QED
      BY <1>1, <1>4, <2>3 DEF Call
  <2> HIDE DEF q
  <2>6. InOrder(q) /\ q.bad # 1
    BY <1>1, <1>4, <1>8, <2>3, <2>5 DEF InOrder
  <2>7. Done(q, rows', user', tombs')
    BY <1>8, <2>5, <2>6 DEF Done, Hides, Shows, Undoes, Marks
  <2>8. q.bad <= faults' /\ call' = [call EXCEPT ![c] = q]
    BY <1>1, <1>2, <2>4, <2>5
  <2> QED
    BY <1>2, <2>5, <2>6, <2>7, <2>8, OneMoves
<1>9. CASE r.pc \notin {"wipe", "hard", "mark", "tokens"} /\ ~(r.pc = "undo" /\ r.at > 1)
  <2>1. ErrorPath(c) = Answered("error")
    BY <1>9 DEF ErrorPath
  <2> QED
    BY <1>5, <2>1
<1> QED
  BY <1>5, <1>6, <1>7, <1>8, <1>9

LEMMA FaultsKeep ==
    ASSUME CascadeInv, NEW c \in Calls,
           StatementFails(c) \/ AnswerLost(c) \/ TombstonesLost(c) \/ Dies(c)
    PROVE  CascadeInv'
<1> DEFINE r == call[c]
<1>1. r \in Call /\ InOrder(r) /\ DataTyped /\ faults \in 0 .. MaxFaults /\ MaxFaults \in Nat
  BY Standing
<1>2. Fault /\ faults' \in 0 .. MaxFaults /\ faults <= faults' /\ calls' = calls
  BY <1>1 DEF StatementFails, AnswerLost, TombstonesLost, Dies, Fault
<1>3. CASE StatementFails(c)
  <2>1. DataTyped'
    BY <1>1, <1>2, <1>3 DEF StatementFails, DataTyped
  <2> QED
    BY <1>2, <1>3, <2>1, ErrorPathKeeps DEF StatementFails
<1>4. CASE AnswerLost(c)
  <2>1. /\ rows' \in [Kinds -> RowStates] /\ (\A s \in SoftKinds : rows'[s] # "gone")
        /\ user' \in [status : {"active", "deleted"}, age : 0 .. Window + 1]
        /\ tombs' \in SUBSET (Kinds \union {"users"})
    <3>1. CASE call[c].pc = "wipe" /\ rows' = SoftDelete(Statement(c)) /\ UNCHANGED <<user, tombs>>
      <4>1. Statement(c) \in SoftKinds
        BY <1>1, <3>1, StatementIsSoft DEF InOrder
      <4> QED
        BY <1>1, <3>1, <4>1, SoftDeleteHides DEF DataTyped
    <3>2. CASE call[c].pc = "hard" /\ rows' = HardDelete(Hard[call[c].stmt]) /\ UNCHANGED <<user, tombs>>
      <4>1. Hard[call[c].stmt] \in HardKinds
        BY <1>1, <3>2, HardIsNamed DEF InOrder
      <4> QED
        BY <1>1, <3>2, <4>1, HardDeleteHides DEF DataTyped
    <3>3. CASE MarkDeleted /\ UNCHANGED <<rows, tombs>>
      BY <1>1, <3>3, Marked DEF DataTyped
    <3>4. CASE /\ call[c].pc \in {"undo", "restore"} /\ rows' = Restore(Statement(c))
               /\ UNCHANGED <<user, tombs>>
      <4>1. Statement(c) \in SoftKinds
        BY <1>1, <3>4, StatementIsSoft DEF InOrder
      <4> QED
        BY <1>1, <3>4, <4>1, RestoreShows DEF DataTyped
    <3>5. CASE ClearDeleted /\ UNCHANGED <<rows, tombs>>
      BY <1>1, <3>5, Cleared DEF DataTyped
    <3>6. CASE tombs' = {} /\ UNCHANGED <<user, rows>>
      BY <1>1, <3>6 DEF DataTyped
    <3> QED
      BY <1>4, <3>1, <3>2, <3>3, <3>4, <3>5, <3>6 DEF AnswerLost
  <2>2. DataTyped'
    BY <1>1, <1>2, <1>4, <2>1 DEF AnswerLost, DataTyped
  <2>3. call[c].pc \notin {"idle", "tombs", "tokens"}
    BY <1>4 DEF AnswerLost
  <2> QED
    BY <1>2, <1>4, <2>2, <2>3, ErrorPathKeeps DEF AnswerLost
<1>5. CASE TombstonesLost(c)
  <2>1. DataTyped'
    BY <1>1, <1>2, <1>5 DEF TombstonesLost, DataTyped, Call
  <2>2. Busy(c) /\ call' = [call EXCEPT ![c] = Answered("ok")] /\ "ok" \in Replies
    BY <1>5 DEF TombstonesLost, Answer, Busy, Replies
  <2> QED
    BY <1>2, <2>1, <2>2, Leaves
<1>6. CASE Dies(c)
  <2>1. DataTyped'
    BY <1>1, <1>2, <1>6 DEF Dies, DataTyped
  <2>2. NoCall = Answered("none") /\ "none" \in Replies
    BY DEF NoCall, Answered, Replies
  <2>3. Busy(c) /\ call' = [call EXCEPT ![c] = Answered("none")]
    BY <1>6, <2>2 DEF Dies
  <2> QED
    BY <1>2, <2>1, <2>2, <2>3, Leaves
<1> QED
  BY <1>3, <1>4, <1>5, <1>6

-----------------------------------------------------------------------------
(* The other traffic, and the invariant *)

\* A request that is disturbed keeps its place and promises nothing.
LEMMA DisturbedKeeps ==
    ASSUME CascadeInv, NEW d \in Calls
    PROVE  /\ Disturbed[d] \in Call /\ InOrder(Disturbed[d]) /\ Disturbed[d].bad = call[d].bad
           /\ ~Disturbed[d].alone /\ Disturbed[d].pc = call[d].pc
<1> DEFINE r == call[d]
           q == [r EXCEPT !.alone = FALSE]
<1>1. r \in Call /\ InOrder(r)
  BY Standing
<1>2. Disturbed[d] = q
  BY DEF Disturbed
<1>3. q \in Call
  <2>1. FALSE \in BOOLEAN
    OBVIOUS
  <2> HIDE DEF r
  <2> QED
    BY <1>1, <2>1 DEF Call
<1>4. ~q.alone
  <2> HIDE DEF r
  <2> QED
    BY <1>1 DEF Call
<1>5. /\ q.pc = r.pc /\ q.op = r.op /\ q.at = r.at /\ q.stmt = r.stmt /\ q.bad = r.bad /\ q.failed = r.failed
  <2> HIDE DEF r
  <2> QED
    BY <1>1 DEF Call
<1> HIDE DEF q
<1>6. InOrder(q)
  BY <1>1, <1>5 DEF InOrder
<1> QED
  BY <1>2, <1>3, <1>4, <1>5, <1>6

LEMMA WriteRowKeeps ==
    ASSUME CascadeInv, NEW k \in Kinds, WriteRow(k)
    PROVE  CascadeInv'
<1>1. /\ rows' = [rows EXCEPT ![k] = "live"] /\ call' = Disturbed
      /\ UNCHANGED <<user, token, tombs, faults, calls>>
  BY DEF WriteRow
<1>2. DOMAIN Disturbed = Calls /\ Disturbed = [c \in Calls |-> Disturbed[c]]
  BY DEF Disturbed
<1>3. Disturbed \in [Calls -> Call]
  BY <1>2, DisturbedKeeps
<1>4. TypeOK'
  BY <1>1, <1>3 DEF CascadeInv, TypeOK, RowStates
<1>5. \A c \in Calls : InOrder(call'[c]) /\ call'[c].bad <= faults'
  BY <1>1, DisturbedKeeps DEF CascadeInv
<1>6. \A c \in Calls : ~call'[c].alone
  BY <1>1, DisturbedKeeps
<1> QED
  BY <1>4, <1>5, <1>6 DEF CascadeInv, AloneIsAlone, Done

LEMMA BeginKeeps ==
    ASSUME CascadeInv, NEW c \in Calls, NEW op \in {"delete", "undelete"}, Begin(c, op)
    PROVE  CascadeInv'
<1> DEFINE alone == \A e \in Calls \ {c} : ~Busy(e)
           q == [NoCall EXCEPT !.op = op, !.pc = "get", !.alone = alone]
<1>1. /\ call' = [d \in Calls |-> IF d = c THEN q ELSE Disturbed[d]]
      /\ calls < MaxCalls /\ calls' = calls + 1
      /\ UNCHANGED <<user, token, rows, tombs, faults>>
  BY DEF Begin
<1>2. 0 \in 0 .. Len(Wipers) + 1 /\ 0 \in 0 .. MaxFaults /\ 1 \in Nat \ {0} /\ "get" \in Pcs /\ "idle" \in Pcs
  BY WipersAreNamed, CascadeAssumption DEF Pcs
<1>3. alone \in BOOLEAN
  OBVIOUS
<1>4. q.alone => alone
  <2> HIDE DEF alone
  <2> QED
    BY DEF NoCall
<1>5. q \in Call /\ q.op = op /\ q.pc = "get" /\ q.at = 0 /\ q.stmt = 1 /\ q.bad = 0
  <2> HIDE DEF alone
  <2>1. NoCall \in Call
    BY <1>2 DEF NoCall, Call, Replies
  <2>2. q \in Call
    BY <1>2, <1>3, <2>1 DEF Call
  <2> QED
    BY <2>2 DEF NoCall
<1> HIDE DEF q
<1>6. InOrder(q) /\ faults \in Nat
  BY <1>5, CascadeAssumption DEF InOrder, CascadeInv, TypeOK
<1>7. \A d \in Calls : d # c => call'[d] = Disturbed[d]
  BY <1>1
<1>8. call'[c] = q
  BY <1>1
<1>9. call' \in [Calls -> Call]
  BY <1>1, <1>5, DisturbedKeeps
<1>10. TypeOK'
  BY <1>1, <1>9, CascadeAssumption DEF CascadeInv, TypeOK
<1>11. \A d \in Calls : InOrder(call'[d]) /\ call'[d].bad <= faults'
  BY <1>1, <1>5, <1>6, <1>7, <1>8, DisturbedKeeps DEF CascadeInv
<1>12. \A d \in Calls : d # c => ~call'[d].alone /\ call'[d].pc = call[d].pc
  BY <1>7, DisturbedKeeps
<1>13. AloneIsAlone'
  BY <1>4, <1>8, <1>12 DEF AloneIsAlone, Busy
<1>14. Done(q, rows', user', tombs')
  BY <1>5 DEF Done, Hides, Shows, Undoes, Marks
<1>15. \A d \in Calls : Done(call'[d], rows', user', tombs')
  BY <1>8, <1>12, <1>14 DEF Done
<1> QED
  BY <1>10, <1>11, <1>13, <1>15 DEF CascadeInv

LEMMA ClockKeeps ==
    ASSUME CascadeInv, SignIn \/ Tick
    PROVE  CascadeInv'
<1>1. /\ UNCHANGED <<rows, tombs, call, faults, calls>>
      /\ token' \in BOOLEAN /\ user' \in [status : {"active", "deleted"}, age : 0 .. Window + 1]
      /\ user'.status = user.status
  <2>1. CASE SignIn
    BY <2>1 DEF SignIn, CascadeInv, TypeOK
  <2>2. CASE Tick
    <3>1. user.age \in 0 .. Window + 1 /\ user.age <= Window /\ Window \in Nat
      BY <2>2, CascadeAssumption DEF Tick, CascadeInv, TypeOK
    <3>2. user.age + 1 \in 0 .. Window + 1
      BY <3>1
    <3>3. user' \in [status : {"active", "deleted"}, age : 0 .. Window + 1] /\ user'.status = user.status
      BY <2>2, <3>2 DEF Tick, CascadeInv, TypeOK
    <3> QED
      BY <2>2, <3>3 DEF Tick, CascadeInv, TypeOK
  <2> QED
    BY <2>1, <2>2
<1>2. TypeOK' /\ AloneIsAlone'
  BY <1>1 DEF CascadeInv, TypeOK, AloneIsAlone, Busy
<1>3. \A c \in Calls : Marks(call[c], user, tombs) => Marks(call[c], user', tombs')
  BY <1>1 DEF Marks
<1>4. \A c \in Calls : Done(call'[c], rows', user', tombs')
  BY <1>1, <1>3 DEF CascadeInv, Done
<1> QED
  BY <1>1, <1>2, <1>4 DEF CascadeInv

LEMMA CascadeStarts == Init => CascadeInv
<1> SUFFICES ASSUME Init PROVE CascadeInv
  OBVIOUS
<1>1. 0 \in 0 .. Len(Wipers) + 1 /\ 0 \in 0 .. MaxFaults /\ 0 \in 0 .. MaxCalls /\ 0 \in 0 .. Window + 1
      /\ 1 \in Nat \ {0}
  BY WipersAreNamed, CascadeAssumption
<1>2. NoCall \in Call /\ NoCall.pc = "idle" /\ NoCall.bad = 0
  BY <1>1 DEF NoCall, Call, Pcs, Replies
<1>3. TypeOK
  BY <1>1, <1>2 DEF Init, TypeOK, RowStates, Kinds
<1>4. \A c \in Calls : call[c] = NoCall
  BY DEF Init
<1>5. InOrder(NoCall)
  BY <1>2 DEF InOrder
<1> QED
  BY <1>2, <1>3, <1>4, <1>5 DEF Init, CascadeInv, AloneIsAlone, Busy, Done

LEMMA CascadeStays == CascadeInv /\ [Next]_vars => CascadeInv'
<1> SUFFICES ASSUME CascadeInv, [Next]_vars PROVE CascadeInv'
  OBVIOUS
<1>1. ASSUME NEW k \in Kinds, WriteRow(k) PROVE CascadeInv'
  BY <1>1, WriteRowKeeps
<1>2. CASE SignIn \/ Tick
  BY <1>2, ClockKeeps
<1>3. ASSUME NEW c \in Calls, DeleteCall(c) \/ UndeleteCall(c) PROVE CascadeInv'
  BY <1>3, BeginKeeps DEF DeleteCall, UndeleteCall
<1>4. ASSUME NEW c \in Calls, CallStep(c) PROVE CascadeInv'
  BY <1>4, GetUserKeeps, WipeKeeps, DeleteKeeps, FinishKeeps, UndoKeeps, RestoreRowsKeeps DEF CallStep
<1>5. ASSUME NEW c \in Calls, StatementFails(c) \/ AnswerLost(c) \/ TombstonesLost(c) \/ Dies(c)
      PROVE  CascadeInv'
  BY <1>5, FaultsKeep
<1>6. CASE UNCHANGED vars
  <2>1. TypeOK' /\ AloneIsAlone'
    BY <1>6 DEF vars, CascadeInv, TypeOK, AloneIsAlone, Busy
  <2> QED
    BY <1>6, <2>1 DEF vars, CascadeInv
<1> QED
  BY <1>1, <1>2, <1>3, <1>4, <1>5, <1>6 DEF Next

(* The types, the places of the requests and what a request by itself has  *)
(* done so far hold in every state, whatever failed or died before.        *)
THEOREM CascadeTypeCorrect == Spec => []TypeOK
<1>1. CascadeInv => TypeOK
  BY DEF CascadeInv
<1> QED
  BY <1>1, CascadeStarts, CascadeStays, PTL DEF Spec

-----------------------------------------------------------------------------
(* What an answer means *)

\* A request ends with a step of its own.
LEMMA EndsByItself ==
    ASSUME CascadeInv, [Next]_vars, NEW c \in Calls, Busy(c), call'[c].pc = "idle"
    PROVE  CallStep(c) \/ StatementFails(c) \/ AnswerLost(c) \/ TombstonesLost(c) \/ Dies(c)
<1>1. call \in [Calls -> Call]
  BY DEF CascadeInv, TypeOK
<1>2. ASSUME NEW k \in Kinds, WriteRow(k) PROVE FALSE
  BY <1>2, DisturbedKeeps DEF WriteRow, Busy
<1>3. CASE SignIn \/ Tick \/ UNCHANGED vars
  BY <1>3 DEF SignIn, Tick, vars, Busy
<1>4. ASSUME NEW d \in Calls, DeleteCall(d) \/ UndeleteCall(d) PROVE FALSE
  <2>1. PICK op \in {"delete", "undelete"} : Begin(d, op)
    BY <1>4 DEF DeleteCall, UndeleteCall
  <2>2. d # c
    BY <2>1 DEF Begin
  <2>3. call'[c] = Disturbed[c]
    BY <2>1, <2>2 DEF Begin
  <2> QED
    BY <2>3, DisturbedKeeps DEF Busy
<1>5. ASSUME NEW d \in Calls, d # c, CallStep(d) PROVE FALSE
  <2>1. call'[c] = call[c]
    BY <1>1, <1>5 DEF CallStep, DeleteGetUser, Wipe, Delete, MarkUserDeleted, DeleteRefreshTokens,
      InsertTombstones, Undo, UndeleteGetUser, RestoreRows, ClearUserDeleted, DeleteTombstones,
      InsertAudit, Answer, Goto
  <2> QED
    BY <2>1 DEF Busy
<1>6. ASSUME NEW d \in Calls, d # c,
             StatementFails(d) \/ AnswerLost(d) \/ TombstonesLost(d) \/ Dies(d)
      PROVE  FALSE
  BY <1>1, <1>6 DEF StatementFails, AnswerLost, TombstonesLost, Dies, Answer, Busy
<1> QED
  BY <1>2, <1>3, <1>4, <1>5, <1>6 DEF Next

LEMMA SaysOk ==
    ASSUME CascadeInv, [Next]_vars, NEW c \in Calls, Busy(c), call'[c].pc = "idle", call'[c].reply = "ok"
    PROVE  InsertTombstones(c) \/ TombstonesLost(c) \/ InsertAudit(c)
<1>1. call \in [Calls -> Call]
  BY DEF CascadeInv, TypeOK
<1>2. \A reply \in {"error", "already", "refused"} : Answered(reply).reply # "ok"
  BY DEF Answered, NoCall
<1>3. NoCall.reply # "ok"
  BY DEF NoCall
<1>4. ~DeleteGetUser(c) /\ ~UndeleteGetUser(c)
  <2>1. ASSUME NEW q, call' = [call EXCEPT ![c] = q] PROVE call'[c] = q
    BY <1>1, <2>1
  <2>2. ASSUME NEW pc \in {"wipe", "restore"}, call' = [call EXCEPT ![c].pc = pc, ![c].at = 1] PROVE FALSE
    BY <1>1, <2>2 DEF Call
  <2> QED
    BY <1>2, <2>1, <2>2 DEF DeleteGetUser, UndeleteGetUser, Answer
<1>5. ASSUME NEW n \in Call, n.pc # "idle", call' = [call EXCEPT ![c] = n] PROVE FALSE
  BY <1>1, <1>5
<1>6. ~Wipe(c) /\ ~RestoreRows(c)
  <2>1. ASSUME NEW atEnd \in {"hard", "clear"}, call[c].pc \in {"wipe", "restore"}
        PROVE  NextStatement(c, atEnd) \in Call /\ NextStatement(c, atEnd).pc # "idle"
    <3>1. atEnd \in Pcs
      BY DEF Pcs
    <3>2. PICK n : n = NextStatement(c, atEnd)
      OBVIOUS
    <3> QED
      BY <2>1, <3>1, <3>2, StatementsInTurn
  <2>2. ~RestoreRows(c)
    BY <1>5, <2>1 DEF RestoreRows
  <2>3. ASSUME Wipe(c) PROVE FALSE
    <3> DEFINE n == NextStatement(c, "hard")
               k == Statement(c)
               q == [n EXCEPT !.hit = IF rows[k] = "live" THEN @ \union {k} ELSE @]
    <3>1. call' = [call EXCEPT ![c] = q] /\ n \in Call /\ n.pc # "idle"
      BY <2>1, <2>3 DEF Wipe
    <3> HIDE DEF n
    <3>2. q.pc = n.pc
      BY <3>1 DEF Call
    <3> QED
      BY <1>1, <3>1, <3>2
  <2> QED
    BY <2>2, <2>3
<1>7. ~Delete(c)
  BY <1>1 DEF Delete, Call
<1>8. ~MarkUserDeleted(c) /\ ~DeleteRefreshTokens(c) /\ ~ClearUserDeleted(c) /\ ~DeleteTombstones(c)
  BY <1>1 DEF MarkUserDeleted, DeleteRefreshTokens, ClearUserDeleted, DeleteTombstones, Goto, Call
<1>9. ASSUME Undo(c) PROVE FALSE
  <2>1. call'[c] = IF LastStatement(c) THEN Undone(c) ELSE [call[c] EXCEPT !.stmt = @ + 1]
    BY <1>1, <1>9 DEF Undo
  <2>2. call[c] \in Call /\ call[c].pc = "undo"
    BY <1>1, <1>9 DEF Undo
  <2> QED
    BY <1>2, <2>1, <2>2 DEF Undone, Call
<1>10. ASSUME StatementFails(c) \/ AnswerLost(c) PROVE FALSE
  <2>1. call'[c] = ErrorPath(c)
    BY <1>1, <1>10 DEF StatementFails, AnswerLost
  <2>2. call[c] \in Call
    BY <1>1
  <2>3. CASE call[c].pc \in {"wipe", "hard", "mark"}
    BY <1>2, <2>1, <2>2, <2>3 DEF ErrorPath, Compensate, Call
  <2>4. CASE call[c].pc = "tokens"
    BY <2>1, <2>2, <2>4 DEF ErrorPath, Call
  <2>5. CASE call[c].pc = "undo" /\ call[c].at > 1
    <3>1. call'[c] = [Undone(c) EXCEPT !.bad = @ + 1]
      BY <2>1, <2>5 DEF ErrorPath
    <3>2. Undone(c) = [call[c] EXCEPT !.at = @ - 1, !.stmt = 1]
      BY <2>2, <2>5, WipersAreNamed DEF Undone, Call
    <3>3. call'[c].pc = "undo"
      BY <2>2, <2>5, <3>1, <3>2 DEF Call
    <3> QED
      BY <3>3
  <2>6. CASE ~(call[c].pc \in {"wipe", "hard", "mark", "tokens"}) /\ ~(call[c].pc = "undo" /\ call[c].at > 1)
    BY <1>2, <2>1, <2>6 DEF ErrorPath
  <2> QED
    BY <2>3, <2>4, <2>5, <2>6
<1>11. ~Dies(c)
  BY <1>1, <1>3 DEF Dies
<1> QED
  BY <1>4, <1>6, <1>7, <1>8, <1>9, <1>10, <1>11, EndsByItself DEF CallStep

(* A deletion that says it succeeded, and beside which nothing ran, leaves *)
(* no live row of any kind and the account marked, for any wipers, any     *)
(* number of earlier deletions that failed half way, and any crash         *)
(* (DeleteAllData).                                                        *)
THEOREM DeletionsAreComplete == Spec => DeletedIsOutOfSight
<1>1. CascadeInv /\ [Next]_vars =>
        [\A c \in Calls : Answers(c, "delete", "ok") =>
           /\ \A k \in Kinds : rows'[k] # "live"
           /\ user'.status = "deleted"]_vars
  <2> SUFFICES ASSUME CascadeInv, [Next]_vars, NEW c \in Calls, Answers(c, "delete", "ok")
               PROVE  (\A k \in Kinds : rows'[k] # "live") /\ user'.status = "deleted"
    OBVIOUS
  <2>1. /\ Busy(c) /\ call[c].op = "delete" /\ call[c].alone
        /\ call'[c].pc = "idle" /\ call'[c].reply = "ok"
    BY DEF Answers
  <2>2. InOrder(call[c]) /\ Done(call[c], rows, user, tombs)
    BY Standing
  <2>3. ~InsertAudit(c)
    BY <2>1, <2>2 DEF InsertAudit, InOrder
  <2>4. call[c].pc = "tombs" /\ UNCHANGED <<rows, user>>
    BY <2>1, <2>3, SaysOk DEF InsertTombstones, TombstonesLost
  <2> QED
    BY <2>1, <2>2, <2>4 DEF Done, Hides, Marks, Kinds
<1> QED
  BY <1>1, CascadeStarts, CascadeStays, PTL DEF Spec, DeletedIsOutOfSight

(* An undeletion that says it succeeded, and beside which nothing ran, has *)
(* brought back every row that deletions keep, has the account active and  *)
(* no tombstone left (UndeleteUser).                                       *)
THEOREM UndeletionsAreComplete == Spec => UndeletedIsBack
<1>1. CascadeInv /\ [Next]_vars =>
        [\A c \in Calls : Answers(c, "undelete", "ok") =>
           /\ \A k \in SoftKinds : rows'[k] # "hidden"
           /\ user'.status = "active" /\ tombs' = {}]_vars
  <2> SUFFICES ASSUME CascadeInv, [Next]_vars, NEW c \in Calls, Answers(c, "undelete", "ok")
               PROVE  /\ \A k \in SoftKinds : rows'[k] # "hidden"
                      /\ user'.status = "active" /\ tombs' = {}
    OBVIOUS
  <2>1. /\ Busy(c) /\ call[c].op = "undelete" /\ call[c].alone
        /\ call'[c].pc = "idle" /\ call'[c].reply = "ok"
    BY DEF Answers
  <2>2. InOrder(call[c]) /\ Done(call[c], rows, user, tombs)
    BY Standing
  <2>3. ~InsertTombstones(c) /\ ~TombstonesLost(c)
    BY <2>1, <2>2 DEF InsertTombstones, TombstonesLost, InOrder
  <2>4. call[c].pc = "audit" /\ UNCHANGED <<rows, user, tombs>>
    BY <2>1, <2>3, SaysOk DEF InsertAudit
  <2> QED
    BY <2>1, <2>2, <2>4 DEF Done, Shows, Marks
<1> QED
  BY <1>1, CascadeStarts, CascadeStays, PTL DEF Spec, UndeletedIsBack

(* A deletion that met one failure and beside which nothing ran has given  *)
(* back the rows of every wiper before the one that failed, whichever      *)
(* statement, mark or hard deletion it was (restoreWipers).                *)
THEOREM FailuresAreCompensated == Spec => FailureIsCompensated
<1>1. CascadeInv /\ [Next]_vars =>
        [\A c \in Calls :
           (Answers(c, "delete", "error") /\ call[c].pc = "undo" /\ FaultsOf(c) = 1) =>
           \A i \in 1 .. call[c].failed - 1 :
               \A k \in ToSet(Wipers[i]) : rows'[k] # "hidden"]_vars
  <2> SUFFICES ASSUME CascadeInv, [Next]_vars, NEW c \in Calls,
                      Answers(c, "delete", "error"), call[c].pc = "undo", FaultsOf(c) = 1,
                      NEW i \in 1 .. call[c].failed - 1, NEW k \in ToSet(Wipers[i])
               PROVE  rows'[k] # "hidden"
    OBVIOUS
  <2> DEFINE r == call[c]
  <2>1. Busy(c) /\ r.alone /\ call'[c].pc = "idle"
    BY DEF Answers
  <2>2. /\ r \in Call /\ InOrder(r) /\ Done(r, rows, user, tombs) /\ DataTyped /\ r.bad \in 0 .. faults
        /\ faults \in Nat
    BY Standing
  <2>3. /\ r.at \in DOMAIN Wipers /\ r.stmt \in DOMAIN Wipers[r.at] /\ r.bad >= 1
    BY <2>2 DEF InOrder
  <2>4. ~Fault
    <3>1. Fault => faults' = faults + 1
      BY DEF Fault
    <3> QED
      BY <2>2, <2>3, <3>1 DEF FaultsOf
  <2>5. CallStep(c)
    BY <2>1, <2>4, EndsByItself DEF StatementFails, AnswerLost, TombstonesLost, Dies
  <2>6. Undo(c) /\ faults' = faults /\ r.bad = 1
    <3>1. Undo(c)
      BY <2>5 DEF CallStep, DeleteGetUser, Wipe, Delete, MarkUserDeleted, DeleteRefreshTokens,
        InsertTombstones, UndeleteGetUser, RestoreRows, ClearUserDeleted, DeleteTombstones, InsertAudit
    <3>2. faults' = faults
      BY <3>1 DEF Undo
    <3> QED
      BY <2>2, <3>1, <3>2 DEF FaultsOf
  <2>7. LastStatement(c) /\ r.at = 1
    <3>1. call'[c] = IF LastStatement(c) THEN Undone(c) ELSE [r EXCEPT !.stmt = @ + 1]
      BY <2>6 DEF Undo, CascadeInv, TypeOK
    <3> QED
      BY <2>1, <2>2, <3>1 DEF Undone, Call
  <2>8. /\ Len(Wipers) \in Nat \ {0} /\ DOMAIN Wipers = 1 .. Len(Wipers)
        /\ \A w \in DOMAIN Wipers :
             Len(Wipers[w]) \in Nat \ {0} /\ DOMAIN Wipers[w] = 1 .. Len(Wipers[w])
    BY WipersAreNamed
  <2>9. i \in DOMAIN Wipers /\ i \in Nat /\ i < r.failed /\ i >= 1
    BY <2>2, <2>8 DEF Call
  <2>10. PICK j \in DOMAIN Wipers[i] : k = Wipers[i][j]
    BY DEF ToSet
  <2>11. GivenBack(r, i, j) \/ (i = r.at /\ j = r.stmt)
    BY <2>7, <2>8, <2>9 DEF GivenBack, LastStatement
  <2>12. Undoes(r, rows) /\ Statement(c) = Wipers[r.at][r.stmt] /\ Statement(c) \in SoftKinds
    BY <2>1, <2>2, <2>3, StatementIsSoft DEF Done, Busy, Statement
  <2>13. /\ rows'[Statement(c)] # "hidden"
         /\ \A s \in Kinds : rows[s] # "hidden" => rows'[s] # "hidden"
    BY <2>2, <2>6, <2>12, RestoreShows DEF Undo
  <2>14. k \in Kinds
    BY <2>9, <2>10, WipersAreNamed DEF Kinds
  <2> QED
    BY <2>6, <2>9, <2>10, <2>11, <2>12, <2>13, <2>14 DEF Undoes
<1> QED
  BY <1>1, CascadeStarts, CascadeStays, PTL DEF Spec, FailureIsCompensated

=============================================================================
