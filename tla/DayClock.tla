------------------------------- MODULE DayClock -----------------------------
(***************************************************************************)
(* What the parts of a practice day share: the clock their stamps come     *)
(* from, how a list is put in order, and the bounds of an instance.  A     *)
(* behaviour has a few requests of the kinds of one mix; the instance      *)
(* explores every mix it is given.                                         *)
(***************************************************************************)
EXTENDS Naturals, Sequences, FiniteSets

CONSTANTS
    DayLength,    \* clock ticks in a UTC day
    Mixes,        \* which kinds of requests meet, and how many requests, faults and ticks there are
    MaxNow,
    None          \* no request, no row

ASSUME DayAssumption ==
    /\ DayLength \in Nat \ {0} /\ MaxNow \in Nat
    /\ \A m \in Mixes : m.until \in 0 .. MaxNow /\ m.requests \in Nat /\ m.faults \in Nat

VARIABLES
    now,
    mix,      \* the mix of this behaviour
    spent,    \* requests and timers served so far
    faults    \* database or network errors so far

clockVars == <<now, mix, spent, faults>>

ClockTypeOK == mix \in Mixes /\ now \in 0 .. mix.until /\ spent \in 0 .. mix.requests /\ faults \in 0 .. mix.faults

ClockInit == now = 0 /\ mix \in Mixes /\ spent = 0 /\ faults = 0

\* utcDate
utcDate(t) == t \div DayLength

\* ORDER BY, and sort.Slice: of the members of a finite set, the one at place k has k - 1 before it.
Ordered(S, before(_, _)) ==
    [k \in 1 .. Cardinality(S) |-> CHOOSE i \in S : Cardinality({j \in S : before(j, i)}) = k - 1]

\* LIMIT
First(n, s) == SubSeq(s, 1, IF Len(s) < n THEN Len(s) ELSE n)

Spend(kind) ==
    kind \in mix.kinds /\ spent < mix.requests /\ spent' = spent + 1 /\ UNCHANGED <<now, mix, faults>>
Fault == faults < mix.faults /\ faults' = faults + 1 /\ UNCHANGED <<now, mix, spent>>
Tick == now < mix.until /\ now' = now + 1 /\ UNCHANGED <<mix, spent, faults>>
=============================================================================
