--------------------------- MODULE AccountsProofs ---------------------------
(***************************************************************************)
(* Identities, credentials and merges: one refresh token per user, unique  *)
(* keys that a merge never runs into, rows that stay with the parties of a *)
(* merge, and merges that are complete, for any number of users, devices,  *)
(* kinds of rows, requests and faults.                                     *)
(***************************************************************************)
EXTENDS Accounts, FiniteSetTheorems, TLAPS

\* A merged row has given its device away; a registered account has a device by a merge only.
UserInOrder(u) ==
    /\ ~Bound(u) => users[u].device = None /\ users[u].email = None
    /\ users[u].status = "merged" <=> users[u].into # None
    /\ users[u].into # None => users[u].guest /\ users[u].device = None
    /\ ~users[u].guest /\ users[u].device # None => \E g \in Users : users[g].into = u

\* The unique keys on device and e-mail hold, for rows of every status.
KeysAreUnique ==
    \A u, v \in Users : u # v =>
        /\ users[u].device # None => users[u].device # users[v].device
        /\ users[u].email # None => users[u].email # users[v].email

RowInOrder(k, u) ==
    LET o == rows[<<k, u>>] IN
    o # None => /\ Bound(u) /\ Bound(o)
                /\ o # u => users[u].guest /\ ~users[o].guest

OneToken(u) == \A s, t \in tokens[u] : s = t

CallInOrder(c) ==
    LET r == call[c] IN
    /\ Busy(c) => r.reply = "none" /\ r.id # 0
    /\ r.pc \in {"user", "issue"} => r.user \in Users
    /\ r.pc \in {"user", "create", "reget", "issue"} => r.op # "merge"
    /\ Busy(c) /\ r.op = "guest" => r.email = None
    /\ Busy(c) /\ r.op \notin {"guest", "merge"} => r.device = None
    /\ Busy(c) /\ r.op = "merge" => r.user \in Users /\ r.device \in Devices
    /\ r.pc \in {"holder", "move", "tokens", "merge", "clean"} =>
         r.op = "merge" /\ Bound(r.user) /\ ~users[r.user].guest
    /\ r.pc \in {"move", "tokens", "merge"} =>
         /\ r.holder \in Users /\ Bound(r.holder) /\ users[r.holder].guest
         /\ users[r.holder].into = None => users[r.holder].device = r.device
    /\ r.pc \in {"get", "holder"} => r.at = 1
    /\ r.pc = "move" => r.at <= Len(Moved)
    /\ r.pc \in {"tokens", "merge"} => r.at = Len(Moved) + 1
    /\ r.pc = "reget" /\ ~r.bad => DuplicateDevice(r.device) \/ MergedTwice

\* What a merge that nothing interferes with has done so far.
AloneInOrder(c) ==
    LET r == call[c] IN
    Busy(c) /\ r.alone =>
        /\ \A d \in Calls \ {c} : ~Busy(d)
        /\ r.pc \in {"move", "tokens", "merge"} =>
             \A i \in 1 .. r.at - 1, u \in Users : rows[<<Moved[i], u>>] # r.holder
        /\ r.pc = "merge" => tokens[r.holder] = {}

AccountInv ==
    /\ TypeOK
    /\ \A u \in Users : UserInOrder(u) /\ OneToken(u)
    /\ KeysAreUnique
    /\ \A k \in Kinds, u \in Users : RowInOrder(k, u)
    /\ \A c \in Calls : CallInOrder(c) /\ AloneInOrder(c)

-----------------------------------------------------------------------------
(* How a step may change a request *)

LEMMA CallType ==
    ASSUME TypeOK, NEW c \in Calls
    PROVE  call \in [Calls -> Call] /\ call[c] \in Call
BY DEF TypeOK

LEMMA Wired == Len(Moved) \in Nat \ {0} /\ 1 \in 1 .. Len(Moved) + 1
BY AccountAssumption

\* A request goes on and keeps what it was asked for.
Onward(c, pc, user, holder, at, bad) ==
    /\ call' \in [Calls -> Call]
    /\ \A d \in Calls : d # c => call'[d] = call[d]
    /\ call'[c].op = call[c].op /\ call'[c].id = call[c].id
    /\ call'[c].device = call[c].device /\ call'[c].email = call[c].email
    /\ call'[c].alone = call[c].alone /\ call'[c].reply = call[c].reply
    /\ call'[c].pc = pc /\ call'[c].user = user /\ call'[c].holder = holder
    /\ call'[c].at = at /\ call'[c].bad = bad

LEMMA Goes ==
    ASSUME TypeOK, NEW c \in Calls, NEW pc \in Pcs,
           Goto(c, pc)
    PROVE  Onward(c, pc, call[c].user, call[c].holder, call[c].at, call[c].bad)
<1>1. call \in [Calls -> Call] /\ call[c] \in Call
    BY CallType
<1>2. \A r \in Call : [r EXCEPT !.pc = pc] \in Call
    BY DEF Call
<1>3. call'[c] = [call[c] EXCEPT !.pc = pc]
    BY <1>1 DEF Goto
<1>4. call'[c] \in Call
    BY <1>1, <1>2, <1>3
<1>5. call' \in [Calls -> Call] /\ \A d \in Calls : d # c => call'[d] = call[d]
    BY <1>1, <1>4 DEF Goto
<1>6. /\ call'[c].op = call[c].op /\ call'[c].id = call[c].id
      /\ call'[c].device = call[c].device /\ call'[c].email = call[c].email
      /\ call'[c].alone = call[c].alone /\ call'[c].reply = call[c].reply
    BY <1>1, <1>3 DEF Call
<1>7. /\ call'[c].pc = pc /\ call'[c].user = call[c].user
      /\ call'[c].holder = call[c].holder /\ call'[c].at = call[c].at
      /\ call'[c].bad = call[c].bad
    BY <1>1, <1>3 DEF Call
<1> QED
    BY <1>5, <1>6, <1>7 DEF Onward

LEMMA GoesAs ==
    ASSUME TypeOK, NEW c \in Calls, NEW pc \in Pcs, NEW u \in Users,
           call' = [call EXCEPT ![c].pc = pc, ![c].user = u]
    PROVE  Onward(c, pc, u, call[c].holder, call[c].at, call[c].bad)
<1>1. call \in [Calls -> Call] /\ call[c] \in Call
    BY CallType
<1>2. \A r \in Call : [r EXCEPT !.pc = pc, !.user = u] \in Call
    BY DEF Call
<1>3. call'[c] = [call[c] EXCEPT !.pc = pc, !.user = u]
    BY <1>1
<1>4. call'[c] \in Call
    BY <1>1, <1>2, <1>3
<1>5. call' \in [Calls -> Call] /\ \A d \in Calls : d # c => call'[d] = call[d]
    BY <1>1, <1>4
<1>6. /\ call'[c].op = call[c].op /\ call'[c].id = call[c].id
      /\ call'[c].device = call[c].device /\ call'[c].email = call[c].email
      /\ call'[c].alone = call[c].alone /\ call'[c].reply = call[c].reply
    BY <1>1, <1>3 DEF Call
<1>7. /\ call'[c].pc = pc /\ call'[c].user = u
      /\ call'[c].holder = call[c].holder /\ call'[c].at = call[c].at
      /\ call'[c].bad = call[c].bad
    BY <1>1, <1>3 DEF Call
<1> QED
    BY <1>5, <1>6, <1>7 DEF Onward

LEMMA GoesFor ==
    ASSUME TypeOK, NEW c \in Calls, NEW pc \in Pcs, NEW h \in Users,
           call' = [call EXCEPT ![c].pc = pc, ![c].holder = h]
    PROVE  Onward(c, pc, call[c].user, h, call[c].at, call[c].bad)
<1>1. call \in [Calls -> Call] /\ call[c] \in Call
    BY CallType
<1>2. \A r \in Call : [r EXCEPT !.pc = pc, !.holder = h] \in Call
    BY DEF Call
<1>3. call'[c] = [call[c] EXCEPT !.pc = pc, !.holder = h]
    BY <1>1
<1>4. call'[c] \in Call
    BY <1>1, <1>2, <1>3
<1>5. call' \in [Calls -> Call] /\ \A d \in Calls : d # c => call'[d] = call[d]
    BY <1>1, <1>4
<1>6. /\ call'[c].op = call[c].op /\ call'[c].id = call[c].id
      /\ call'[c].device = call[c].device /\ call'[c].email = call[c].email
      /\ call'[c].alone = call[c].alone /\ call'[c].reply = call[c].reply
    BY <1>1, <1>3 DEF Call
<1>7. /\ call'[c].pc = pc /\ call'[c].user = call[c].user
      /\ call'[c].holder = h /\ call'[c].at = call[c].at
      /\ call'[c].bad = call[c].bad
    BY <1>1, <1>3 DEF Call
<1> QED
    BY <1>5, <1>6, <1>7 DEF Onward

LEMMA GoesBy ==
    ASSUME TypeOK, NEW c \in Calls, NEW pc \in Pcs, NEW i \in 1 .. Len(Moved) + 1,
           call' = [call EXCEPT ![c].at = i, ![c].pc = pc]
    PROVE  Onward(c, pc, call[c].user, call[c].holder, i, call[c].bad)
<1>1. call \in [Calls -> Call] /\ call[c] \in Call
    BY CallType
<1>2. \A r \in Call : [r EXCEPT !.at = i, !.pc = pc] \in Call
    BY DEF Call
<1>3. call'[c] = [call[c] EXCEPT !.at = i, !.pc = pc]
    BY <1>1
<1>4. call'[c] \in Call
    BY <1>1, <1>2, <1>3
<1>5. call' \in [Calls -> Call] /\ \A d \in Calls : d # c => call'[d] = call[d]
    BY <1>1, <1>4
<1>6. /\ call'[c].op = call[c].op /\ call'[c].id = call[c].id
      /\ call'[c].device = call[c].device /\ call'[c].email = call[c].email
      /\ call'[c].alone = call[c].alone /\ call'[c].reply = call[c].reply
    BY <1>1, <1>3 DEF Call
<1>7. /\ call'[c].pc = pc /\ call'[c].user = call[c].user
      /\ call'[c].holder = call[c].holder /\ call'[c].at = i
      /\ call'[c].bad = call[c].bad
    BY <1>1, <1>3 DEF Call
<1> QED
    BY <1>5, <1>6, <1>7 DEF Onward

LEMMA GoesBad ==
    ASSUME TypeOK, NEW c \in Calls, NEW pc \in Pcs,
           call' = [call EXCEPT ![c].pc = pc, ![c].bad = TRUE]
    PROVE  Onward(c, pc, call[c].user, call[c].holder, call[c].at, TRUE)
<1>1. call \in [Calls -> Call] /\ call[c] \in Call
    BY CallType
<1>2. \A r \in Call : [r EXCEPT !.pc = pc, !.bad = TRUE] \in Call
    BY DEF Call
<1>3. call'[c] = [call[c] EXCEPT !.pc = pc, !.bad = TRUE]
    BY <1>1
<1>4. call'[c] \in Call
    BY <1>1, <1>2, <1>3
<1>5. call' \in [Calls -> Call] /\ \A d \in Calls : d # c => call'[d] = call[d]
    BY <1>1, <1>4
<1>6. /\ call'[c].op = call[c].op /\ call'[c].id = call[c].id
      /\ call'[c].device = call[c].device /\ call'[c].email = call[c].email
      /\ call'[c].alone = call[c].alone /\ call'[c].reply = call[c].reply
    BY <1>1, <1>3 DEF Call
<1>7. /\ call'[c].pc = pc /\ call'[c].user = call[c].user
      /\ call'[c].holder = call[c].holder /\ call'[c].at = call[c].at
      /\ call'[c].bad = TRUE
    BY <1>1, <1>3 DEF Call
<1> QED
    BY <1>5, <1>6, <1>7 DEF Onward

LEMMA NoCallType == NoCall \in Call
<1>1. NoCall.id \in 0 .. MaxCalls /\ NoCall.at \in 1 .. Len(Moved) + 1
    BY Wired, AccountAssumption DEF NoCall
<1> QED
    BY <1>1, Wired, AccountAssumption DEF NoCall, Call, Ops, Pcs, Replies

LEMMA Answers ==
    ASSUME TypeOK, NEW c \in Calls, NEW reply \in Replies, Answer(c, reply)
    PROVE  /\ call' \in [Calls -> Call]
           /\ \A d \in Calls : d # c => call'[d] = call[d]
           /\ call'[c].pc = "idle" /\ call'[c].reply = reply
<1>1. call \in [Calls -> Call] /\ call[c] \in Call /\ call[c].op \in Ops
    BY CallType DEF Call
<1>2. \A r \in Call, op \in Ops : [r EXCEPT !.op = op, !.reply = reply] \in Call
    BY DEF Call
<1>3. call'[c] = [NoCall EXCEPT !.op = call[c].op, !.reply = reply]
    BY <1>1 DEF Answer
<1>4. call'[c] \in Call
    BY <1>1, <1>2, <1>3, NoCallType
<1>5. call'[c].pc = "idle" /\ call'[c].reply = reply
    BY <1>3 DEF NoCall
<1> QED
    BY <1>1, <1>4, <1>5 DEF Answer

-----------------------------------------------------------------------------
(* What a step of one request leaves to the others *)

\* Identities are not taken back: a row stays what it is, and a guest keeps its device until
\* it is merged.
Evolves ==
    /\ \A u \in Users : Bound(u) =>
         /\ Bound(u)' /\ users'[u].guest = users[u].guest
         /\ users[u].guest /\ users'[u].into = None =>
              users[u].into = None /\ users'[u].device = users[u].device
    /\ \A d \in Devices \union {None} : DuplicateDevice(d) => DuplicateDevice(d)' \/ MergedTwice'
    /\ MergedTwice => MergedTwice'

CountersType ==
    faults' \in 0 .. MaxFaults /\ calls' \in 0 .. MaxCalls /\ others' \in 0 .. MaxOthers

LEMMA EvolvesSame == users' = users => Evolves
BY DEF Evolves, Bound, DuplicateDevice, MergedTwice

SameRequest(d) ==
    /\ call'[d].op = call[d].op /\ call'[d].pc = call[d].pc /\ call'[d].id = call[d].id
    /\ call'[d].user = call[d].user /\ call'[d].device = call[d].device
    /\ call'[d].email = call[d].email /\ call'[d].holder = call[d].holder
    /\ call'[d].at = call[d].at /\ call'[d].bad = call[d].bad
    /\ call'[d].reply = call[d].reply

LEMMA OthersKeep ==
    ASSUME AccountInv, Evolves, NEW d \in Calls, SameRequest(d)
    PROVE  CallInOrder(d)'
<1>1. CallInOrder(d) /\ call[d] \in Call
    BY DEF AccountInv, TypeOK
<1>2. call[d].user \in Users \union {None} /\ call[d].device \in Devices \union {None}
    BY <1>1 DEF Call
<1>3. Busy(d)' = Busy(d)
    BY DEF Busy, SameRequest
<1>4. call[d].pc = "reget" /\ ~call[d].bad => DuplicateDevice(call[d].device)' \/ MergedTwice'
    BY <1>1, <1>2 DEF CallInOrder, Evolves, SameRequest
<1>5. call[d].pc \in {"holder", "move", "tokens", "merge", "clean"} =>
        /\ call[d].op = "merge" /\ call[d].user \in Users
        /\ Bound(call[d].user)' /\ ~users'[call[d].user].guest
    BY <1>1, <1>2 DEF CallInOrder, Evolves, Busy, SameRequest
<1>6. call[d].pc \in {"move", "tokens", "merge"} =>
        /\ call[d].holder \in Users /\ Bound(call[d].holder)' /\ users'[call[d].holder].guest
        /\ users'[call[d].holder].into = None => users'[call[d].holder].device = call[d].device
    BY <1>1 DEF CallInOrder, Evolves, SameRequest
<1> QED
    BY <1>1, <1>3, <1>4, <1>5, <1>6 DEF CallInOrder, DuplicateDevice, SameRequest

LEMMA StepBy ==
    ASSUME AccountInv, NEW c \in Calls, Busy(c),
           call' \in [Calls -> Call], \A d \in Calls : d # c => call'[d] = call[d],
           users' \in [Users -> User], tokens' \in [Users -> SUBSET (1 .. MaxCalls)],
           rows' \in [Kinds \X Users -> Users \union {None}], CountersType,
           \A u \in Users : UserInOrder(u)' /\ OneToken(u)',
           KeysAreUnique', \A k \in Kinds, u \in Users : RowInOrder(k, u)',
           Evolves, CallInOrder(c)', AloneInOrder(c)'
    PROVE  AccountInv'
<1>1. TypeOK'
    BY DEF TypeOK, CountersType
<1>2. \A d \in Calls : CallInOrder(d)'
    BY OthersKeep DEF SameRequest
<1>3. ASSUME NEW d \in Calls, d # c PROVE AloneInOrder(d)'
    <2>1. AloneInOrder(d) /\ call'[d] = call[d] /\ c \in Calls \ {d}
        BY <1>3 DEF AccountInv
    <2>2. ~(Busy(d) /\ call[d].alone)
        BY <2>1 DEF AloneInOrder
    <2> QED
        BY <2>1, <2>2 DEF AloneInOrder, Busy
<1> QED
    BY <1>1, <1>2, <1>3 DEF AccountInv

\* A step of a request that writes no table.
LEMMA ReadBy ==
    ASSUME AccountInv, NEW c \in Calls, Busy(c), users' = users, tokens' = tokens, rows' = rows,
           CountersType,
           call' \in [Calls -> Call], \A d \in Calls : d # c => call'[d] = call[d],
           CallInOrder(c)', AloneInOrder(c)'
    PROVE  AccountInv'
<1>1. /\ users' \in [Users -> User] /\ tokens' \in [Users -> SUBSET (1 .. MaxCalls)]
      /\ rows' \in [Kinds \X Users -> Users \union {None}]
    BY DEF AccountInv, TypeOK
<1>2. \A u \in Users : UserInOrder(u)' /\ OneToken(u)'
    BY DEF AccountInv, UserInOrder, OneToken, Bound
<1>3. KeysAreUnique' /\ \A k \in Kinds, u \in Users : RowInOrder(k, u)'
    BY DEF AccountInv, KeysAreUnique, RowInOrder, Bound
<1> QED
    BY <1>1, <1>2, <1>3, EvolvesSame, StepBy

LEMMA IdleInOrder ==
    ASSUME NEW c \in Calls, call'[c].pc = "idle"
    PROVE  CallInOrder(c)' /\ AloneInOrder(c)'
BY DEF CallInOrder, AloneInOrder, Busy

LEMMA ReadAnswers ==
    ASSUME AccountInv, NEW c \in Calls, Busy(c), users' = users, tokens' = tokens, rows' = rows,
           CountersType, NEW reply \in Replies, Answer(c, reply)
    PROVE  AccountInv'
<1>1. /\ call' \in [Calls -> Call] /\ \A d \in Calls : d # c => call'[d] = call[d]
      /\ call'[c].pc = "idle"
    BY Answers DEF AccountInv
<1> QED
    BY <1>1, IdleInOrder, ReadBy

\* A request that does not merge goes on.
LEMMA ReadGoes ==
    ASSUME AccountInv, NEW c \in Calls, Busy(c), users' = users, tokens' = tokens, rows' = rows,
           CountersType, NEW pc \in {"user", "create", "reget", "issue"},
           NEW user, NEW holder, NEW at, NEW bad,
           Onward(c, pc, user, holder, at, bad), call[c].op # "merge",
           pc \in {"user", "issue"} => user \in Users,
           pc = "reget" /\ ~bad => DuplicateDevice(call[c].device)
    PROVE  AccountInv'
<1>1. /\ call' \in [Calls -> Call] /\ \A d \in Calls : d # c => call'[d] = call[d]
      /\ Busy(c)' /\ CallInOrder(c) /\ AloneInOrder(c)
    BY DEF Onward, Busy, AccountInv
<1>2. CallInOrder(c)'
    BY <1>1 DEF CallInOrder, Onward, DuplicateDevice, MergedTwice, Bound
<1>3. AloneInOrder(c)'
    BY <1>1 DEF AloneInOrder, Onward, Busy
<1> QED
    BY <1>1, <1>2, <1>3, ReadBy

-----------------------------------------------------------------------------
(* Signing in *)

LEMMA Unchanged ==
    ASSUME AccountInv, faults' = faults, calls' = calls, others' = others
    PROVE  CountersType
BY DEF AccountInv, TypeOK, CountersType

LEMMA SignInGetStep ==
    ASSUME AccountInv, NEW c \in Calls, SignInGet(c)
    PROVE  AccountInv'
<1>1. /\ TypeOK /\ Busy(c) /\ call[c].op # "merge"
      /\ users' = users /\ tokens' = tokens /\ rows' = rows /\ CountersType
    BY Unchanged DEF AccountInv, SignInGet, Busy
<1>2. \/ Goto(c, "create")
      \/ \E reply \in Replies : Answer(c, reply)
      \/ \E u \in Users, pc \in {"issue", "user"} :
            call' = [call EXCEPT ![c].pc = pc, ![c].user = u]
    <2>1. \E S \in SUBSET Users :
            \/ S = {} /\ Goto(c, "create")
            \/ S = {} /\ Answer(c, "rejected")
            \/ \E u \in S : \/ Answer(c, "conflict") \/ Answer(c, "rejected")
                            \/ call' = [call EXCEPT ![c].pc = "issue", ![c].user = u]
                            \/ call' = [call EXCEPT ![c].pc = "user", ![c].user = u]
        <3> DEFINE found == CASE call[c].op = "guest" -> ActiveByDevice(call[c].device)
                              [] call[c].op \in {"register", "login"} -> ActiveByEmail(call[c].email)
                              [] call[c].op = "refresh" -> {u \in Users : call[c].token \in tokens[u]}
                              [] OTHER -> {}
        <3>1. found \in SUBSET Users
            BY DEF ActiveByDevice, ActiveByEmail
        <3>2. \/ found = {} /\ Goto(c, "create")
              \/ found = {} /\ Answer(c, "rejected")
              \/ \E u \in found : \/ Answer(c, "conflict") \/ Answer(c, "rejected")
                              \/ call' = [call EXCEPT ![c].pc = "issue", ![c].user = u]
                              \/ call' = [call EXCEPT ![c].pc = "user", ![c].user = u]
            BY DEF SignInGet
        <3> HIDE DEF found
        <3> QED
            BY <3>1, <3>2
    <2> QED
        BY <2>1 DEF Replies
<1>3. CASE Goto(c, "create")
    <2>1. Onward(c, "create", call[c].user, call[c].holder, call[c].at, call[c].bad)
        BY <1>1, <1>3, Goes DEF Pcs
    <2> QED
        BY <1>1, <2>1, ReadGoes
<1>4. ASSUME NEW reply \in Replies, Answer(c, reply) PROVE AccountInv'
    BY <1>1, <1>4, ReadAnswers
<1>5. ASSUME NEW u \in Users, NEW pc \in {"issue", "user"},
             call' = [call EXCEPT ![c].pc = pc, ![c].user = u]
      PROVE  AccountInv'
    <2>1. Onward(c, pc, u, call[c].holder, call[c].at, call[c].bad)
        BY <1>1, <1>5, GoesAs DEF Pcs
    <2> QED
        BY <1>1, <2>1, ReadGoes
<1> QED
    BY <1>2, <1>3, <1>4, <1>5

LEMMA RefreshGetUserStep ==
    ASSUME AccountInv, NEW c \in Calls, RefreshGetUser(c)
    PROVE  AccountInv'
<1>1. /\ TypeOK /\ Busy(c) /\ call[c].op # "merge" /\ call[c].user \in Users
      /\ users' = users /\ tokens' = tokens /\ rows' = rows /\ CountersType
    BY Unchanged DEF AccountInv, RefreshGetUser, Busy, CallInOrder
<1>2. CASE Goto(c, "issue")
    <2>1. Onward(c, "issue", call[c].user, call[c].holder, call[c].at, call[c].bad)
        BY <1>1, <1>2, Goes DEF Pcs
    <2> QED
        BY <1>1, <2>1, ReadGoes
<1>3. CASE Answer(c, "rejected")
    BY <1>1, <1>3, ReadAnswers DEF Replies
<1> QED
    BY <1>2, <1>3 DEF RefreshGetUser

LEMMA GuestGetAgainStep ==
    ASSUME AccountInv, NEW c \in Calls, GuestGetAgain(c)
    PROVE  AccountInv'
<1>1. /\ TypeOK /\ Busy(c) /\ call[c].op # "merge"
      /\ users' = users /\ tokens' = tokens /\ rows' = rows /\ CountersType
    BY Unchanged DEF AccountInv, GuestGetAgain, Busy, CallInOrder
<1>2. CASE Answer(c, "error")
    BY <1>1, <1>2, ReadAnswers DEF Replies
<1>3. ASSUME NEW u \in Users, call' = [call EXCEPT ![c].pc = "issue", ![c].user = u]
      PROVE  AccountInv'
    <2>1. Onward(c, "issue", u, call[c].holder, call[c].at, call[c].bad)
        BY <1>1, <1>3, GoesAs DEF Pcs
    <2> QED
        BY <1>1, <2>1, ReadGoes
<1> QED
    BY <1>2, <1>3 DEF GuestGetAgain, ActiveByDevice

\* A step of a request that writes tokens only.
LEMMA TokensBy ==
    ASSUME AccountInv, NEW c \in Calls, Busy(c), users' = users, rows' = rows, CountersType,
           tokens' \in [Users -> SUBSET (1 .. MaxCalls)], \A u \in Users : OneToken(u)',
           call' \in [Calls -> Call], \A d \in Calls : d # c => call'[d] = call[d],
           CallInOrder(c)', AloneInOrder(c)'
    PROVE  AccountInv'
<1>1. users' \in [Users -> User] /\ rows' \in [Kinds \X Users -> Users \union {None}]
    BY DEF AccountInv, TypeOK
<1>2. \A u \in Users : UserInOrder(u)'
    BY DEF AccountInv, UserInOrder, Bound
<1>3. KeysAreUnique' /\ \A k \in Kinds, u \in Users : RowInOrder(k, u)'
    BY DEF AccountInv, KeysAreUnique, RowInOrder, Bound
<1> QED
    BY <1>1, <1>2, <1>3, EvolvesSame, StepBy

LEMMA Tokens ==
    ASSUME AccountInv, NEW u \in Users, NEW T \in SUBSET (1 .. MaxCalls), \A s, t \in T : s = t,
           tokens' = [tokens EXCEPT ![u] = T]
    PROVE  tokens' \in [Users -> SUBSET (1 .. MaxCalls)] /\ \A v \in Users : OneToken(v)'
<1>1. tokens \in [Users -> SUBSET (1 .. MaxCalls)]
    BY DEF AccountInv, TypeOK
<1>2. tokens' \in [Users -> SUBSET (1 .. MaxCalls)]
    BY <1>1
<1> QED
    BY <1>1, <1>2 DEF AccountInv, OneToken

LEMMA IssueSessionStep ==
    ASSUME AccountInv, NEW c \in Calls, IssueSession(c)
    PROVE  AccountInv'
<1>1. /\ TypeOK /\ Busy(c) /\ call[c].user \in Users /\ call[c].id # 0 /\ call[c] \in Call
      /\ users' = users /\ rows' = rows /\ CountersType
    BY Unchanged DEF AccountInv, TypeOK, IssueSession, Busy, CallInOrder
<1>2. call[c].id \in 1 .. MaxCalls
    BY <1>1, AccountAssumption DEF Call
<1>3. tokens' \in [Users -> SUBSET (1 .. MaxCalls)] /\ \A v \in Users : OneToken(v)'
    BY <1>1, <1>2, Tokens, ZenonT(30) DEF IssueSession, ReplaceRefreshToken
<1>4. /\ call' \in [Calls -> Call] /\ \A d \in Calls : d # c => call'[d] = call[d]
      /\ call'[c].pc = "idle"
    BY <1>1, Answers DEF IssueSession, Replies
<1> QED
    BY <1>1, <1>3, <1>4, IdleInOrder, TokensBy

\* A new identity does not disturb the ones there are.
LEMMA Creates ==
    ASSUME AccountInv, NEW c \in Calls, Busy(c), call[c].op # "merge",
           ~DuplicateDevice(call[c].device), ~DuplicateEmail(call[c].email),
           NEW u \in Users, ~Bound(u), CreateUser(u, NewIdentity(c)), rows' = rows
    PROVE  /\ users' \in [Users -> User] /\ \A v \in Users : UserInOrder(v)'
           /\ KeysAreUnique' /\ \A k \in Kinds, v \in Users : RowInOrder(k, v)'
           /\ Evolves
<1>0. /\ users \in [Users -> User] /\ call[c] \in Call /\ CallInOrder(c)
      /\ \A v \in Users : UserInOrder(v)
    BY DEF AccountInv, TypeOK
<1>1. PICK guest \in BOOLEAN : guest <=> call[c].op = "guest"
    OBVIOUS
<1>2. /\ NewIdentity(c) \in User /\ NewIdentity(c).status = "active"
      /\ (NewIdentity(c).guest <=> guest) /\ NewIdentity(c).device = call[c].device
      /\ NewIdentity(c).email = call[c].email /\ NewIdentity(c).into = None
    <2>1. NewIdentity(c) = [NoUser EXCEPT !.status = "active", !.guest = guest,
                                 !.device = call[c].device, !.email = call[c].email]
        BY <1>1, Zenon DEF NewIdentity
    <2>2. call[c].device \in Devices \union {None} /\ call[c].email \in Emails \union {None}
        BY <1>0 DEF Call
    <2> QED
        BY <2>1, <2>2 DEF NoUser, User
<1>3. /\ users'[u] = NewIdentity(c) /\ \A v \in Users : v # u => users'[v] = users[v]
      /\ users' \in [Users -> User]
    BY <1>0, <1>2 DEF CreateUser
<1>4. users[u].device = None /\ users[u].email = None /\ users[u].into = None
    BY <1>0 DEF UserInOrder, Bound
<1>5. \A v \in Users : UserInOrder(v)'
    <2> SUFFICES ASSUME NEW v \in Users PROVE UserInOrder(v)'
        OBVIOUS
    <2>1. CASE v = u
        <3>1. ~users'[u].guest => users'[u].device = None
            BY <1>0, <1>1, <1>2, <1>3 DEF CallInOrder
        <3> QED
            BY <1>2, <1>3, <2>1, <3>1 DEF UserInOrder, Bound
    <2>2. CASE v # u
        <3>1. \A g \in Users : users[g].into = v => users'[g].into = v
            BY <1>3, <1>4, AccountAssumption
        <3>2. UserInOrder(v) /\ users'[v] = users[v]
            BY <1>0, <1>3, <2>2
        <3> QED
            BY <3>1, <3>2 DEF UserInOrder, Bound
    <2> QED
        BY <2>1, <2>2
<1>6. KeysAreUnique'
    <2>1. \A v \in Users : v # u =>
            /\ call[c].device # None => users[v].device # call[c].device
            /\ call[c].email # None => users[v].email # call[c].email
        BY <1>0, AccountAssumption DEF DuplicateDevice, DuplicateEmail, UserInOrder
    <2> QED
        BY <1>2, <1>3, <2>1 DEF AccountInv, KeysAreUnique
<1>7. \A k \in Kinds, v \in Users : RowInOrder(k, v)'
    <2> SUFFICES ASSUME NEW k \in Kinds, NEW v \in Users, rows[<<k, v>>] # None
                 PROVE  RowInOrder(k, v)'
        BY DEF RowInOrder
    <2>1. RowInOrder(k, v) /\ rows[<<k, v>>] \in Users
        BY DEF AccountInv, TypeOK
    <2>2. users'[v] = users[v] /\ users'[rows[<<k, v>>]] = users[rows[<<k, v>>]]
        BY <1>3, <2>1 DEF RowInOrder
    <2> QED
        BY <2>1, <2>2 DEF RowInOrder, Bound
<1>8. Evolves
    <2>1. \A v \in Users : Bound(v) => users'[v] = users[v]
        BY <1>3
    <2>2. MergedTwice => MergedTwice'
        BY <1>3, <1>4, AccountAssumption DEF MergedTwice
    <2> QED
        BY <2>1, <2>2 DEF Evolves, Bound, DuplicateDevice
<1> QED
    BY <1>3, <1>5, <1>6, <1>7, <1>8

LEMMA CreateIdentityStep ==
    ASSUME AccountInv, NEW c \in Calls, CreateIdentity(c)
    PROVE  AccountInv'
<1>1. /\ TypeOK /\ Busy(c) /\ call[c].op # "merge" /\ CallInOrder(c) /\ AloneInOrder(c)
      /\ tokens' = tokens /\ rows' = rows /\ CountersType
    BY Unchanged DEF AccountInv, CreateIdentity, Busy, CallInOrder
<1>2. CASE DuplicateDevice(call[c].device) /\ Goto(c, "reget") /\ users' = users
    <2>1. Onward(c, "reget", call[c].user, call[c].holder, call[c].at, call[c].bad)
        BY <1>1, <1>2, Goes DEF Pcs
    <2> QED
        BY <1>1, <1>2, <2>1, ReadGoes
<1>3. CASE Answer(c, "error") /\ users' = users
    BY <1>1, <1>3, ReadAnswers DEF Replies
<1>4. ASSUME ~DuplicateDevice(call[c].device), ~DuplicateEmail(call[c].email),
             NEW u \in Users, ~Bound(u), CreateUser(u, NewIdentity(c)),
             call' = [call EXCEPT ![c].pc = "issue", ![c].user = u]
      PROVE  AccountInv'
    <2>1. Onward(c, "issue", u, call[c].holder, call[c].at, call[c].bad)
        BY <1>1, <1>4, GoesAs DEF Pcs
    <2>2. /\ users' \in [Users -> User] /\ \A v \in Users : UserInOrder(v)'
          /\ KeysAreUnique' /\ \A k \in Kinds, v \in Users : RowInOrder(k, v)'
          /\ Evolves
        BY <1>1, <1>4, Creates
    <2>3. /\ tokens' \in [Users -> SUBSET (1 .. MaxCalls)] /\ \A v \in Users : OneToken(v)'
          /\ rows' \in [Kinds \X Users -> Users \union {None}]
        BY <1>1 DEF AccountInv, TypeOK, OneToken
    <2>4. CallInOrder(c)'
        BY <1>1, <1>4, <2>1 DEF CallInOrder, Onward, Busy
    <2>5. AloneInOrder(c)'
        BY <1>1, <2>1 DEF AloneInOrder, Onward, Busy
    <2>6. call' \in [Calls -> Call] /\ \A d \in Calls : d # c => call'[d] = call[d]
        BY <2>1 DEF Onward
    <2> QED
        BY <1>1, <2>2, <2>3, <2>4, <2>5, <2>6, StepBy
<1> QED
    BY <1>2, <1>3, <1>4 DEF CreateIdentity

-----------------------------------------------------------------------------
(* Merging *)

LEMMA MergeGetUserStep ==
    ASSUME AccountInv, NEW c \in Calls, MergeGetUser(c)
    PROVE  AccountInv'
<1>1. /\ TypeOK /\ Busy(c) /\ CallInOrder(c) /\ AloneInOrder(c) /\ call[c].user \in Users
      /\ users' = users /\ tokens' = tokens /\ rows' = rows /\ CountersType
    BY Unchanged DEF AccountInv, MergeGetUser, Busy, CallInOrder
<1>2. CASE Answer(c, "refused")
    BY <1>1, <1>2, ReadAnswers DEF Replies
<1>3. CASE ~users[call[c].user].guest /\ Active(call[c].user) /\ Goto(c, "holder")
    <2>1. Onward(c, "holder", call[c].user, call[c].holder, call[c].at, call[c].bad)
        BY <1>1, <1>3, Goes DEF Pcs
    <2>2. CallInOrder(c)'
        BY <1>1, <1>3, <2>1 DEF CallInOrder, Onward, Busy, MergeGetUser, Bound, Active
    <2>3. AloneInOrder(c)'
        BY <1>1, <2>1 DEF AloneInOrder, Onward, Busy
    <2> QED
        BY <1>1, <2>1, <2>2, <2>3, ReadBy DEF Onward
<1> QED
    BY <1>2, <1>3 DEF MergeGetUser

LEMMA MergeGetHolderStep ==
    ASSUME AccountInv, NEW c \in Calls, MergeGetHolder(c)
    PROVE  AccountInv'
<1>1. /\ TypeOK /\ Busy(c) /\ CallInOrder(c) /\ AloneInOrder(c) /\ call[c].user \in Users
      /\ call[c].pc = "holder" /\ call[c].op = "merge"
      /\ users' = users /\ tokens' = tokens /\ rows' = rows /\ CountersType
    BY Unchanged DEF AccountInv, MergeGetHolder, Busy, CallInOrder
<1>2. ASSUME NEW reply \in {"refused", "conflict"}, Answer(c, reply) PROVE AccountInv'
    BY <1>1, <1>2, ReadAnswers DEF Replies
<1>3. CASE Goto(c, "clean")
    <2>1. Onward(c, "clean", call[c].user, call[c].holder, call[c].at, call[c].bad)
        BY <1>1, <1>3, Goes DEF Pcs
    <2>2. CallInOrder(c)'
        BY <1>1, <2>1 DEF CallInOrder, Onward, Busy, Bound
    <2>3. AloneInOrder(c)'
        BY <1>1, <2>1 DEF AloneInOrder, Onward, Busy
    <2> QED
        BY <1>1, <2>1, <2>2, <2>3, ReadBy DEF Onward
<1>4. ASSUME NEW h \in Users, Active(h), users[h].device = call[c].device, users[h].guest,
             call' = [call EXCEPT ![c].pc = "move", ![c].holder = h]
      PROVE  AccountInv'
    <2>1. Onward(c, "move", call[c].user, h, call[c].at, call[c].bad)
        BY <1>1, <1>4, GoesFor DEF Pcs
    <2>2. call[c].at = 1 /\ 1 <= Len(Moved)
        BY <1>1, Wired DEF CallInOrder
    <2>3. CallInOrder(c)'
        BY <1>1, <1>4, <2>1, <2>2 DEF CallInOrder, Onward, Busy, Bound, Active
    <2>4. AloneInOrder(c)'
        BY <1>1, <2>1, <2>2 DEF AloneInOrder, Onward, Busy
    <2> QED
        BY <1>1, <2>1, <2>3, <2>4, ReadBy DEF Onward
<1> QED
    BY <1>2, <1>3, <1>4 DEF MergeGetHolder, ActiveByDevice

LEMMA MergeAgainStep ==
    ASSUME AccountInv, NEW c \in Calls, MergeAgain(c)
    PROVE  AccountInv'
<1>1. TypeOK /\ Busy(c) /\ users' = users /\ rows' = rows /\ CountersType
    BY Unchanged DEF AccountInv, MergeAgain, Busy
<1>2. /\ call' \in [Calls -> Call] /\ \A d \in Calls : d # c => call'[d] = call[d]
      /\ call'[c].pc = "idle"
    BY <1>1, Answers DEF MergeAgain, Replies
<1>3. CASE tokens' = tokens
    BY <1>1, <1>2, <1>3, IdleInOrder, ReadBy
<1>4. ASSUME NEW g \in Users, DeleteRefreshTokensForUser(g) PROVE AccountInv'
    <2>1. tokens' \in [Users -> SUBSET (1 .. MaxCalls)] /\ \A v \in Users : OneToken(v)'
        BY <1>4, Tokens DEF DeleteRefreshTokensForUser
    <2> QED
        BY <1>1, <1>2, <2>1, IdleInOrder, TokensBy
<1> QED
    BY <1>3, <1>4 DEF MergeAgain

LEMMA MergeDeleteTokensStep ==
    ASSUME AccountInv, NEW c \in Calls, MergeDeleteTokens(c)
    PROVE  AccountInv'
<1>0. CallInOrder(c) /\ AloneInOrder(c)
    BY DEF AccountInv
<1>1. /\ TypeOK /\ Busy(c) /\ CallInOrder(c) /\ AloneInOrder(c) /\ call[c].holder \in Users
      /\ call[c].pc = "tokens" /\ users' = users /\ rows' = rows /\ CountersType
    BY <1>0, Unchanged DEF AccountInv, MergeDeleteTokens, Busy, CallInOrder
<1>2. /\ tokens' \in [Users -> SUBSET (1 .. MaxCalls)] /\ \A v \in Users : OneToken(v)'
      /\ tokens'[call[c].holder] = {}
    <2>1. PICK g \in Users : g = call[c].holder
        BY <1>1
    <2>2. tokens' = [tokens EXCEPT ![g] = {}]
        BY <2>1 DEF MergeDeleteTokens, DeleteRefreshTokensForUser
    <2>3. tokens' \in [Users -> SUBSET (1 .. MaxCalls)] /\ \A v \in Users : OneToken(v)'
        BY <2>2, Tokens
    <2>4. tokens'[g] = {}
        BY <1>1, <2>2 DEF TypeOK
    <2> QED
        BY <2>1, <2>3, <2>4
<1>3. Onward(c, "merge", call[c].user, call[c].holder, call[c].at, call[c].bad)
    BY <1>1, Goes DEF MergeDeleteTokens, Pcs
<1>4. CallInOrder(c)'
    BY <1>1, <1>3 DEF CallInOrder, Onward, Busy, Bound
<1>5. AloneInOrder(c)'
    BY <1>1, <1>2, <1>3 DEF AloneInOrder, Onward, Busy
<1> QED
    BY <1>1, <1>2, <1>3, <1>4, <1>5, TokensBy DEF Onward

\* The rows of one kind change hands, from the guest to the account.
LEMMA Reassigns ==
    ASSUME AccountInv, NEW k \in Kinds, NEW g \in Users, NEW a \in Users, Bound(g), Bound(a),
           users[g].guest, ~users[a].guest, Reassign(k, g, a), users' = users
    PROVE  /\ rows' \in [Kinds \X Users -> Users \union {None}]
           /\ \A j \in Kinds, u \in Users :
                rows'[<<j, u>>] = IF j = k /\ rows[<<j, u>>] = g THEN a ELSE rows[<<j, u>>]
           /\ \A j \in Kinds, u \in Users : RowInOrder(j, u)'
<1>1. rows \in [Kinds \X Users -> Users \union {None}]
    BY DEF AccountInv, TypeOK
<1>2. \A j \in Kinds, u \in Users :
        rows'[<<j, u>>] = IF j = k /\ rows[<<j, u>>] = g THEN a ELSE rows[<<j, u>>]
    <2> SUFFICES ASSUME NEW j \in Kinds, NEW u \in Users
                 PROVE  rows'[<<j, u>>] = IF j = k /\ rows[<<j, u>>] = g THEN a
                                          ELSE rows[<<j, u>>]
        OBVIOUS
    <2>1. <<j, u>> \in DOMAIN rows /\ <<j, u>>[1] = j
        BY <1>1
    <2>2. <<j, u>> \in Owned(k, g) <=> j = k /\ rows[<<j, u>>] = g
        BY <2>1 DEF Owned
    <2> QED
        BY <2>1, <2>2 DEF Reassign
<1>3. rows' \in [Kinds \X Users -> Users \union {None}]
    BY <1>1 DEF Reassign
<1>4. ASSUME NEW j \in Kinds, NEW u \in Users PROVE RowInOrder(j, u)'
    <2>1. RowInOrder(j, u)
        BY DEF AccountInv
    <2>2. CASE j = k /\ rows[<<j, u>>] = g
        <3>1. u = g
            BY <2>1, <2>2, AccountAssumption DEF RowInOrder
        <3>2. rows'[<<j, u>>] = a
            BY <1>2, <2>2
        <3> QED
            BY <3>1, <3>2 DEF RowInOrder, Bound
    <2>3. CASE ~(j = k /\ rows[<<j, u>>] = g)
        <3>1. rows'[<<j, u>>] = rows[<<j, u>>]
            BY <1>2, <2>3
        <3> QED
            BY <2>1, <3>1 DEF RowInOrder, Bound
    <2> QED
        BY <2>2, <2>3
<1> QED
    BY <1>2, <1>3, <1>4

LEMMA KindAt ==
    ASSUME NEW i \in 1 .. Len(Moved)
    PROVE  Moved[i] \in Kinds
BY AccountAssumption

LEMMA ReassignFromGuestStep ==
    ASSUME AccountInv, NEW c \in Calls, ReassignFromGuest(c)
    PROVE  AccountInv'
<1>1. /\ TypeOK /\ Busy(c) /\ CallInOrder(c) /\ AloneInOrder(c) /\ call[c] \in Call
      /\ call[c].pc = "move" /\ users' = users /\ tokens' = tokens /\ CountersType
    BY Unchanged, CallType DEF AccountInv, ReassignFromGuest, Busy
<1>2. PICK g \in Users, a \in Users, i \in 1 .. Len(Moved) :
        /\ g = call[c].holder /\ a = call[c].user /\ i = call[c].at
        /\ Bound(g) /\ users[g].guest /\ Bound(a) /\ ~users[a].guest /\ g # a
    BY <1>1, Wired DEF CallInOrder, Call
<1>3. CASE Answer(c, "error") /\ rows' = rows
    BY <1>1, <1>3, ReadAnswers DEF Replies
<1>4. CASE /\ Reassign(Moved[i], g, a)
           /\ call' = [call EXCEPT ![c].at = i + 1,
                                   ![c].pc = IF i < Len(Moved) THEN "move" ELSE "tokens"]
    <2>1. PICK pc \in {"move", "tokens"} : pc = IF i < Len(Moved) THEN "move" ELSE "tokens"
        OBVIOUS
    <2>2. Onward(c, pc, a, g, i + 1, call[c].bad)
        <3>1. i + 1 \in 1 .. Len(Moved) + 1 /\ pc \in Pcs
            BY Wired DEF Pcs
        <3> QED
            BY <1>1, <1>2, <1>4, <2>1, <3>1, GoesBy
    <2>3. /\ rows' \in [Kinds \X Users -> Users \union {None}]
          /\ \A j \in Kinds, u \in Users :
               rows'[<<j, u>>] = IF j = Moved[i] /\ rows[<<j, u>>] = g THEN a ELSE rows[<<j, u>>]
          /\ \A j \in Kinds, u \in Users : RowInOrder(j, u)'
        <3>1. PICK k \in Kinds : k = Moved[i]
            BY KindAt
        <3>2. /\ Reassign(k, g, a) /\ users' = users
              /\ Bound(g) /\ Bound(a) /\ users[g].guest /\ ~users[a].guest
            BY <1>1, <1>2, <1>4, <3>1
        <3>3. /\ rows' \in [Kinds \X Users -> Users \union {None}]
              /\ \A j \in Kinds, u \in Users :
                   rows'[<<j, u>>] = IF j = k /\ rows[<<j, u>>] = g THEN a ELSE rows[<<j, u>>]
              /\ \A j \in Kinds, u \in Users : RowInOrder(j, u)'
            BY <3>2, Reassigns
        <3> QED
            BY <3>1, <3>3
    <2>4. CallInOrder(c)'
        BY <1>1, <1>2, <2>1, <2>2, Wired DEF CallInOrder, Onward, Busy, Bound
    <2>5. AloneInOrder(c)'
        <3> SUFFICES ASSUME Busy(c)', call'[c].alone PROVE AloneInOrder(c)'
            BY DEF AloneInOrder
        <3>1. call[c].alone /\ call'[c].holder = g /\ call'[c].at = i + 1
            BY <2>2 DEF Onward
        <3>2. \A d \in Calls \ {c} : ~Busy(d)'
            BY <1>1, <2>2, <3>1 DEF AloneInOrder, Onward, Busy
        <3>3. \A n \in 1 .. i, u \in Users : rows'[<<Moved[n], u>>] # g
            <4> SUFFICES ASSUME NEW n \in 1 .. i, NEW u \in Users
                         PROVE  rows'[<<Moved[n], u>>] # g
                OBVIOUS
            <4>1. n \in 1 .. Len(Moved) /\ Moved[n] \in Kinds
                BY KindAt, Wired
            <4>2. n = i \/ rows[<<Moved[n], u>>] # g
                BY <1>1, <1>2, <3>1, Wired DEF AloneInOrder
            <4> QED
                BY <1>2, <2>3, <4>1, <4>2
        <3>4. (i + 1) - 1 = i
            OBVIOUS
        <3>5. call'[c].pc # "merge"
            BY <2>1, <2>2 DEF Onward
        <3> QED
            BY <3>1, <3>2, <3>3, <3>4, <3>5 DEF AloneInOrder
    <2>6. /\ users' \in [Users -> User] /\ tokens' \in [Users -> SUBSET (1 .. MaxCalls)]
          /\ \A u \in Users : UserInOrder(u)' /\ OneToken(u)'
        BY <1>1 DEF AccountInv, TypeOK, UserInOrder, OneToken, Bound
    <2>7. KeysAreUnique'
        BY <1>1 DEF AccountInv, KeysAreUnique
    <2>8. call' \in [Calls -> Call] /\ \A d \in Calls : d # c => call'[d] = call[d]
        BY <2>2 DEF Onward
    <2> QED
        BY <1>1, <2>3, <2>4, <2>5, <2>6, <2>7, <2>8, EvolvesSame, StepBy
<1> QED
    BY <1>2, <1>3, <1>4 DEF ReassignFromGuest

\* The transaction of a merge: the device goes from the guest to the account, which has no rival
\* for it, and only a device the account had before becomes free.
LEMMA Marks ==
    ASSUME AccountInv, NEW g \in Users, NEW a \in Users, NEW d \in Devices, CanMerge(g, a),
           ~users[a].guest, users[g].device = d, MarkMerged(g, a, d), rows' = rows
    PROVE  /\ users' \in [Users -> User] /\ \A v \in Users : UserInOrder(v)'
           /\ KeysAreUnique' /\ \A k \in Kinds, v \in Users : RowInOrder(k, v)'
           /\ Evolves /\ users'[g].status = "merged" /\ users'[a].device = d
<1>0. /\ users \in [Users -> User] /\ \A v \in Users : UserInOrder(v) /\ users[v] \in User
      /\ g # a /\ Active(g) /\ Active(a) /\ users[g].guest /\ d # None
    BY AccountAssumption DEF AccountInv, TypeOK, CanMerge
<1>1. /\ users'[g] = [users[g] EXCEPT !.device = None, !.status = "merged", !.into = a]
      /\ users'[a] = [users[a] EXCEPT !.device = d]
      /\ \A v \in Users : v # g /\ v # a => users'[v] = users[v]
    BY <1>0 DEF MarkMerged
<1>2. /\ users'[g].device = None /\ users'[g].status = "merged" /\ users'[g].into = a
      /\ users'[g].guest = users[g].guest /\ users'[g].email = users[g].email
    BY <1>0, <1>1 DEF User
<1>3. /\ users'[a].device = d /\ users'[a].status = users[a].status
      /\ users'[a].guest = users[a].guest /\ users'[a].email = users[a].email
      /\ users'[a].into = users[a].into
    BY <1>0, <1>1 DEF User
<1>4. users' \in [Users -> User]
    <2>1. \A r \in User : /\ [r EXCEPT !.device = None, !.status = "merged", !.into = a] \in User
                          /\ [r EXCEPT !.device = d] \in User
        BY DEF User
    <2>2. \A v \in Users : users'[v] \in User
        <3>1. users'[g] \in User
            BY <1>0, <1>1, <2>1, ZenonT(30)
        <3>2. users'[a] \in User
            BY <1>0, <1>1, <2>1, ZenonT(30)
        <3> QED
            BY <1>0, <1>1, <3>1, <3>2
    <2> QED
        BY <1>0, <2>2 DEF MarkMerged
<1>5. users[g].into = None /\ users[a].into = None /\ a # None
    BY <1>0, AccountAssumption DEF UserInOrder, Active
<1>6. \A h, v \in Users : users[h].into = v => users'[h].into = v /\ h # g
    BY <1>1, <1>2, <1>3, <1>5, AccountAssumption
<1>7. \A v \in Users : UserInOrder(v)'
    <2> SUFFICES ASSUME NEW v \in Users PROVE UserInOrder(v)'
        OBVIOUS
    <2>1. CASE v = g
        BY <1>0, <1>2, <1>5, <2>1 DEF UserInOrder, Bound
    <2>2. CASE v = a
        BY <1>0, <1>2, <1>3, <1>5, <2>2 DEF UserInOrder, Bound, Active
    <2>3. CASE v # g /\ v # a
        <3>1. UserInOrder(v) /\ users'[v] = users[v]
            BY <1>0, <1>1, <2>3
        <3> QED
            BY <1>6, <3>1 DEF UserInOrder, Bound
    <2> QED
        BY <2>1, <2>2, <2>3
<1>8. KeysAreUnique'
    <2>1. \A v \in Users : v # g => users[v].device # d
        BY <1>0 DEF AccountInv, KeysAreUnique
    <2>2. \A v \in Users : users'[v].email = users[v].email
        BY <1>1, <1>2, <1>3
    <2>3. \A v \in Users : v # a => users'[v].device # d
        BY <1>0, <1>1, <1>2, <2>1, ZenonT(30)
    <2>4. \A v \in Users : v # a => users'[v].device \in {users[v].device, None}
        BY <1>1, <1>2
    <2>5. ASSUME NEW u \in Users, NEW v \in Users, u # v
          PROVE  users'[u].device # None => users'[u].device # users'[v].device
        <3>1. CASE u = a \/ v = a
            BY <1>3, <2>3, <2>5, <3>1
        <3>2. CASE u # a /\ v # a
            BY <2>4, <2>5, <3>2 DEF AccountInv, KeysAreUnique
        <3> QED
            BY <3>1, <3>2
    <2> QED
        BY <2>2, <2>5 DEF AccountInv, KeysAreUnique
<1>9. \A v \in Users : /\ Bound(v) => Bound(v)' /\ users'[v].guest = users[v].guest
    BY <1>0, <1>1, <1>2, <1>3 DEF Bound, Active
<1>10. \A k \in Kinds, v \in Users : RowInOrder(k, v)'
    <2> SUFFICES ASSUME NEW k \in Kinds, NEW v \in Users, rows[<<k, v>>] # None
                 PROVE  RowInOrder(k, v)'
        BY DEF RowInOrder
    <2>1. RowInOrder(k, v) /\ rows[<<k, v>>] \in Users
        BY DEF AccountInv, TypeOK
    <2> QED
        BY <1>9, <2>1 DEF RowInOrder
<1>11. MergedTwice => MergedTwice'
    BY <1>6 DEF MergedTwice
<1>12. ASSUME NEW x \in Devices \union {None}, DuplicateDevice(x)
       PROVE  DuplicateDevice(x)' \/ MergedTwice'
    <2>1. PICK v \in Users : Bound(v) /\ users[v].device = x /\ x # None
        BY <1>12 DEF DuplicateDevice
    <2>2. CASE v = g
        BY <1>0, <1>3, <1>9, <2>1, <2>2 DEF DuplicateDevice, Bound, Active
    <2>3. CASE v = a
        <3>1. PICK h \in Users : users[h].into = a
            BY <1>0, <2>1, <2>3 DEF UserInOrder
        <3>2. users'[h].into = a /\ users'[g].into = a /\ h # g
            BY <1>2, <1>6, <3>1
        <3> QED
            BY <3>2 DEF MergedTwice
    <2>4. CASE v # g /\ v # a
        BY <1>1, <2>1, <2>4 DEF DuplicateDevice, Bound
    <2> QED
        BY <2>2, <2>3, <2>4
<1>13. \A v \in Users : users[v].guest /\ users'[v].into = None =>
          users[v].into = None /\ users'[v].device = users[v].device
    BY <1>0, <1>1, <1>2, <1>5
<1> QED
    BY <1>2, <1>3, <1>4, <1>7, <1>8, <1>9, <1>10, <1>11, <1>12, <1>13 DEF Evolves

\* Whichever way the request that marks a merge ends.
LEMMA MarkEnds ==
    ASSUME AccountInv, NEW c \in Calls, call[c].pc = "merge",
           CanMerge(call[c].holder, call[c].user),
           MarkMerged(call[c].holder, call[c].user, call[c].device),
           tokens' = tokens, rows' = rows, CountersType,
           call' \in [Calls -> Call], \A d \in Calls : d # c => call'[d] = call[d],
           call'[c].pc = "idle"
    PROVE  AccountInv'
<1>1. Busy(c) /\ CallInOrder(c)
    BY DEF AccountInv, Busy
<1>2. PICK g \in Users, a \in Users, d \in Devices :
        /\ g = call[c].holder /\ a = call[c].user /\ d = call[c].device
        /\ ~users[a].guest /\ (users[g].into = None => users[g].device = d)
    BY <1>1 DEF CallInOrder
<1>3. CanMerge(g, a) /\ MarkMerged(g, a, d)
    BY <1>2
<1>4. UserInOrder(g)
    BY DEF AccountInv
<1>5. users[g].device = d
    BY <1>2, <1>3, <1>4 DEF CanMerge, Active, UserInOrder
<1>6. /\ users' \in [Users -> User] /\ \A v \in Users : UserInOrder(v)'
      /\ KeysAreUnique' /\ \A k \in Kinds, v \in Users : RowInOrder(k, v)'
      /\ Evolves
    BY <1>2, <1>3, <1>5, Marks
<1>7. /\ tokens' \in [Users -> SUBSET (1 .. MaxCalls)] /\ \A v \in Users : OneToken(v)'
      /\ rows' \in [Kinds \X Users -> Users \union {None}]
    BY DEF AccountInv, TypeOK, OneToken
<1> QED
    BY <1>1, <1>6, <1>7, IdleInOrder, StepBy

LEMMA MergeMarkStep ==
    ASSUME AccountInv, NEW c \in Calls, MergeMark(c)
    PROVE  AccountInv'
<1>1. TypeOK /\ Busy(c) /\ tokens' = tokens /\ rows' = rows /\ CountersType /\ call[c].pc = "merge"
    BY Unchanged DEF AccountInv, MergeMark, Busy
<1>2. CASE Answer(c, "error") /\ users' = users
    BY <1>1, <1>2, ReadAnswers DEF Replies
<1>3. CASE /\ CanMerge(call[c].holder, call[c].user) /\ Answer(c, "ok")
           /\ MarkMerged(call[c].holder, call[c].user, call[c].device)
    <2>1. /\ call' \in [Calls -> Call] /\ \A d \in Calls : d # c => call'[d] = call[d]
          /\ call'[c].pc = "idle"
        BY <1>1, <1>3, Answers DEF Replies
    <2> QED
        BY <1>1, <1>3, <2>1, MarkEnds
<1> QED
    BY <1>2, <1>3 DEF MergeMark

-----------------------------------------------------------------------------
(* Requests that begin, and everything that is not a request *)

\* A request is on its own no longer.
LEMMA Disturbs ==
    ASSUME TypeOK, NEW d \in Calls, call'[d] = Disturbed[d]
    PROVE  call'[d] \in Call /\ SameRequest(d) /\ ~call'[d].alone
<1>1. call[d] \in Call
    BY CallType
<1>2. call'[d] = [call[d] EXCEPT !.alone = FALSE]
    BY DEF Disturbed
<1>3. \A r \in Call : [r EXCEPT !.alone = FALSE] \in Call
    BY DEF Call
<1>4. call'[d] \in Call
    BY <1>1, <1>2, <1>3
<1>5. /\ call'[d].op = call[d].op /\ call'[d].pc = call[d].pc /\ call'[d].id = call[d].id
      /\ call'[d].user = call[d].user /\ call'[d].device = call[d].device
      /\ call'[d].email = call[d].email
    BY <1>1, <1>2 DEF Call
<1>6. /\ call'[d].holder = call[d].holder
      /\ call'[d].at = call[d].at /\ call'[d].bad = call[d].bad
      /\ call'[d].reply = call[d].reply /\ call'[d].alone = FALSE
    BY <1>1, <1>2 DEF Call
<1> QED
    BY <1>4, <1>5, <1>6 DEF SameRequest

LEMMA DisturbingStep ==
    ASSUME AccountInv, call' = Disturbed,
           users' \in [Users -> User], tokens' \in [Users -> SUBSET (1 .. MaxCalls)],
           rows' \in [Kinds \X Users -> Users \union {None}], CountersType,
           \A u \in Users : UserInOrder(u)' /\ OneToken(u)',
           KeysAreUnique', \A k \in Kinds, u \in Users : RowInOrder(k, u)', Evolves
    PROVE  AccountInv'
<1>1. \A d \in Calls : call'[d] \in Call /\ SameRequest(d) /\ ~call'[d].alone
    BY Disturbs DEF AccountInv
<1>2. call' \in [Calls -> Call]
    BY <1>1 DEF Disturbed
<1>3. TypeOK'
    BY <1>2 DEF TypeOK, CountersType
<1>4. \A d \in Calls : CallInOrder(d)' /\ AloneInOrder(d)'
    BY <1>1, OthersKeep DEF AloneInOrder
<1> QED
    BY <1>3, <1>4 DEF AccountInv

\* What a client can ask for.
Request(r) ==
    /\ r \in Call /\ r.reply = "none" /\ r.at = 1
    /\ r.op = "guest" => r.email = None
    /\ r.op \notin {"guest", "merge"} => r.device = None
    /\ r.op = "merge" => r.user \in Users /\ r.device \in Devices

LEMMA BeginStep ==
    ASSUME AccountInv, NEW c \in Calls, NEW r, Request(r), Begin(c, r)
    PROVE  AccountInv'
<1>0. /\ users' = users /\ tokens' = tokens /\ rows' = rows /\ TypeOK /\ r \in Call
      /\ calls \in 0 .. MaxCalls /\ calls + 1 \in 0 .. MaxCalls /\ calls + 1 # 0
    <2>1. calls \in 0 .. MaxCalls /\ calls < MaxCalls
        BY DEF Begin, AccountInv, TypeOK
    <2>2. calls + 1 \in 0 .. MaxCalls /\ calls + 1 # 0
        BY <2>1, AccountAssumption
    <2> QED
        BY <2>1, <2>2 DEF Begin, AccountInv, Request
<1>1. PICK alone \in BOOLEAN : alone <=> \A e \in Calls \ {c} : ~Busy(e)
    OBVIOUS
<1>2. PICK n \in 0 .. MaxCalls : n = calls + 1 /\ n # 0
    BY <1>0
<1>3. call'[c] = [r EXCEPT !.pc = "get", !.id = n, !.alone = alone]
    <2>1. call'[c] = [r EXCEPT !.pc = "get", !.id = calls + 1,
                               !.alone = \A e \in Calls \ {c} : ~Busy(e)]
        BY DEF Begin
    <2>2. alone = \A e \in Calls \ {c} : ~Busy(e)
        BY <1>1, Zenon
    <2> QED
        BY <1>2, <2>1, <2>2, Zenon
<1>4. call'[c] \in Call
    <2>1. \A q \in Call : [q EXCEPT !.pc = "get", !.id = n, !.alone = alone] \in Call
        BY DEF Call, Pcs
    <2> QED
        BY <1>0, <1>3, <2>1
<1>5. /\ call'[c].pc = "get" /\ call'[c].id = n /\ call'[c].alone = alone
      /\ call'[c].op = r.op /\ call'[c].user = r.user /\ call'[c].device = r.device
      /\ call'[c].email = r.email /\ call'[c].at = r.at /\ call'[c].reply = r.reply
    BY <1>0, <1>3 DEF Call
<1>6. \A d \in Calls : d # c => call'[d] = Disturbed[d]
    BY DEF Begin
<1>7. \A d \in Calls : d # c => call'[d] \in Call /\ SameRequest(d) /\ ~call'[d].alone
    BY <1>0, <1>6, Disturbs
<1>8. TypeOK'
    <2>1. call' \in [Calls -> Call]
        BY <1>4, <1>7 DEF Begin
    <2> QED
        BY <1>0, <2>1 DEF Begin, TypeOK
<1>9. CallInOrder(c)' /\ Busy(c)'
    BY <1>2, <1>5 DEF CallInOrder, Request, Busy
<1>10. AloneInOrder(c)'
    BY <1>1, <1>5, <1>7 DEF AloneInOrder, Busy, SameRequest
<1>11. \A d \in Calls : CallInOrder(d)' /\ AloneInOrder(d)'
    BY <1>0, <1>7, <1>9, <1>10, EvolvesSame, OthersKeep DEF AloneInOrder
<1>12. \A u \in Users : UserInOrder(u)' /\ OneToken(u)'
    BY <1>0 DEF AccountInv, UserInOrder, OneToken, Bound
<1>13. KeysAreUnique' /\ \A k \in Kinds, u \in Users : RowInOrder(k, u)'
    BY <1>0 DEF AccountInv, KeysAreUnique, RowInOrder, Bound
<1> QED
    BY <1>8, <1>11, <1>12, <1>13 DEF AccountInv

LEMMA RequestsBegin ==
    ASSUME AccountInv, NEW c \in Calls,
           \/ \E d \in Devices : IssueGuest(c, d) \/ \E u \in Users : Merge(c, u, d)
           \/ \E e \in Emails : RegisterEmail(c, e) \/ LoginEmail(c, e)
           \/ \E t \in 1 .. MaxCalls : Refresh(c, t)
    PROVE  AccountInv'
<1>0. /\ \A r \in Call, op \in Ops, d \in Devices : [r EXCEPT !.op = op, !.device = d] \in Call
      /\ \A r \in Call, op \in Ops, e \in Emails : [r EXCEPT !.op = op, !.email = e] \in Call
    BY DEF Call
<1>1. ASSUME NEW d \in Devices, IssueGuest(c, d) PROVE AccountInv'
    <2>1. Request([NoCall EXCEPT !.op = "guest", !.device = d])
        BY <1>0, NoCallType DEF Request, NoCall, Ops
    <2> QED
        BY <1>1, <2>1, BeginStep DEF IssueGuest
<1>2. ASSUME NEW d \in Devices, NEW u \in Users, Merge(c, u, d) PROVE AccountInv'
    <2>1. \A r \in Call : [r EXCEPT !.op = "merge", !.user = u, !.device = d] \in Call
        BY DEF Call, Ops
    <2>2. Request([NoCall EXCEPT !.op = "merge", !.user = u, !.device = d])
        BY <2>1, NoCallType DEF Request, NoCall
    <2> QED
        BY <1>2, <2>2, BeginStep DEF Merge
<1>3. ASSUME NEW e \in Emails, NEW op \in {"register", "login"},
             Begin(c, [NoCall EXCEPT !.op = op, !.email = e])
      PROVE  AccountInv'
    <2>1. Request([NoCall EXCEPT !.op = op, !.email = e])
        BY <1>0, NoCallType DEF Request, NoCall, Ops
    <2> QED
        BY <1>3, <2>1, BeginStep
<1>4. ASSUME NEW t \in 1 .. MaxCalls, Refresh(c, t) PROVE AccountInv'
    <2>0. t \in 0 .. MaxCalls
        OBVIOUS
    <2>1. \A r \in Call : [r EXCEPT !.op = "refresh", !.token = t] \in Call
        BY <2>0 DEF Call, Ops
    <2>2. Request([NoCall EXCEPT !.op = "refresh", !.token = t])
        BY <2>1, NoCallType DEF Request, NoCall
    <2> QED
        BY <1>4, <2>2, BeginStep DEF Refresh
<1> QED
    BY <1>1, <1>2, <1>3, <1>4 DEF RegisterEmail, LoginEmail

\* A deletion and its undoing touch the status only.
LEMMA Restatus ==
    ASSUME AccountInv, NEW u \in Users, NEW status \in {"active", "deleted"},
           users[u].status \in {"active", "deleted"},
           users' = [users EXCEPT ![u].status = status], rows' = rows
    PROVE  /\ users' \in [Users -> User] /\ \A v \in Users : UserInOrder(v)'
           /\ KeysAreUnique' /\ \A k \in Kinds, v \in Users : RowInOrder(k, v)'
           /\ Evolves
<1>0. users \in [Users -> User] /\ users[u] \in User /\ UserInOrder(u)
    BY DEF AccountInv, TypeOK
<1>1. users'[u] = [users[u] EXCEPT !.status = status]
    BY <1>0
<1>2. users'[u] \in User
    <2>1. \A r \in User : [r EXCEPT !.status = status] \in User
        BY DEF User
    <2> QED
        BY <1>0, <1>1, <2>1
<1>3. /\ users'[u].status = status /\ users'[u].guest = users[u].guest
      /\ users'[u].device = users[u].device /\ users'[u].email = users[u].email
      /\ users'[u].into = users[u].into
    BY <1>0, <1>1 DEF User
<1>4. users' \in [Users -> User] /\ \A v \in Users : v # u => users'[v] = users[v]
    BY <1>0, <1>2
<1>5. \A v \in Users :
        /\ users'[v].guest = users[v].guest /\ users'[v].device = users[v].device
        /\ users'[v].email = users[v].email /\ users'[v].into = users[v].into
        /\ Bound(v)' = Bound(v)
    BY <1>3, <1>4 DEF Bound
<1>6. \A v \in Users : UserInOrder(v)'
    <2> SUFFICES ASSUME NEW v \in Users PROVE UserInOrder(v)'
        OBVIOUS
    <2>1. UserInOrder(v)
        BY DEF AccountInv
    <2>2. users'[v].status = "merged" <=> users[v].status = "merged"
        BY <1>3, <1>4
    <2> QED
        BY <1>5, <2>1, <2>2 DEF UserInOrder
<1>7. KeysAreUnique'
    BY <1>5 DEF AccountInv, KeysAreUnique
<1>8. \A k \in Kinds, v \in Users : RowInOrder(k, v)'
    <2> SUFFICES ASSUME NEW k \in Kinds, NEW v \in Users, rows[<<k, v>>] # None
                 PROVE  RowInOrder(k, v)'
        BY DEF RowInOrder
    <2>1. RowInOrder(k, v) /\ rows[<<k, v>>] \in Users
        BY DEF AccountInv, TypeOK
    <2> QED
        BY <1>5, <2>1 DEF RowInOrder
<1>9. Evolves
    <2>1. \A d : DuplicateDevice(d) => DuplicateDevice(d)'
        BY <1>5 DEF DuplicateDevice
    <2>2. MergedTwice => MergedTwice'
        BY <1>5 DEF MergedTwice
    <2> QED
        BY <1>5, <2>1, <2>2 DEF Evolves
<1> QED
    BY <1>4, <1>6, <1>7, <1>8, <1>9

LEMMA OtherCounts ==
    ASSUME AccountInv, Other
    PROVE  CountersType
<1>1. others \in 0 .. MaxOthers /\ others < MaxOthers /\ others' = others + 1
    BY DEF AccountInv, TypeOK, Other
<1>2. others' \in 0 .. MaxOthers
    BY <1>1, AccountAssumption
<1> QED
    BY <1>2 DEF AccountInv, TypeOK, Other, CountersType

LEMMA FaultCounts ==
    ASSUME AccountInv, Fault
    PROVE  CountersType
<1>1. faults \in 0 .. MaxFaults /\ faults < MaxFaults /\ faults' = faults + 1
    BY DEF AccountInv, TypeOK, Fault
<1>2. faults' \in 0 .. MaxFaults
    BY <1>1, AccountAssumption
<1> QED
    BY <1>2 DEF AccountInv, TypeOK, Fault, CountersType

LEMMA DeletionStep ==
    ASSUME AccountInv, NEW u \in Users, DeleteAccount(u) \/ UndeleteAccount(u)
    PROVE  AccountInv'
<1>1. PICK status \in {"active", "deleted"} :
        /\ users[u].status \in {"active", "deleted"}
        /\ users' = [users EXCEPT ![u].status = status] /\ rows' = rows
        /\ call' = Disturbed /\ Other
    BY DEF DeleteAccount, UndeleteAccount, Active
<1>2. /\ users' \in [Users -> User] /\ \A v \in Users : UserInOrder(v)'
      /\ KeysAreUnique' /\ \A k \in Kinds, v \in Users : RowInOrder(k, v)'
      /\ Evolves
    BY <1>1, Restatus
<1>3. tokens' \in [Users -> SUBSET (1 .. MaxCalls)] /\ \A v \in Users : OneToken(v)'
    <2>1. CASE tokens' = tokens
        BY <2>1 DEF AccountInv, TypeOK, OneToken
    <2>2. CASE DeleteRefreshTokensForUser(u)
        BY <2>2, Tokens DEF DeleteRefreshTokensForUser
    <2> QED
        BY <2>1, <2>2 DEF DeleteAccount, UndeleteAccount
<1>4. rows' \in [Kinds \X Users -> Users \union {None}] /\ CountersType
    BY <1>1, OtherCounts DEF AccountInv, TypeOK
<1> QED
    BY <1>1, <1>2, <1>3, <1>4, DisturbingStep

LEMMA WriteRowStep ==
    ASSUME AccountInv, NEW u \in Users, NEW k \in Kinds, WriteRow(k, u)
    PROVE  AccountInv'
<1>1. /\ rows \in [Kinds \X Users -> Users \union {None}] /\ Bound(u)
      /\ users' = users /\ tokens' = tokens /\ call' = Disturbed /\ CountersType
    BY OtherCounts DEF AccountInv, TypeOK, WriteRow, Active, Bound
<1>2. /\ rows' \in [Kinds \X Users -> Users \union {None}]
      /\ \A j \in Kinds, v \in Users :
           rows'[<<j, v>>] = IF j = k /\ v = u THEN u ELSE rows[<<j, v>>]
    BY <1>1 DEF WriteRow
<1>3. \A j \in Kinds, v \in Users : RowInOrder(j, v)'
    <2> SUFFICES ASSUME NEW j \in Kinds, NEW v \in Users PROVE RowInOrder(j, v)'
        OBVIOUS
    <2>1. CASE j = k /\ v = u
        BY <1>1, <1>2, <2>1 DEF RowInOrder, Bound
    <2>2. CASE ~(j = k /\ v = u)
        <3>1. rows'[<<j, v>>] = rows[<<j, v>>] /\ RowInOrder(j, v)
            BY <1>2, <2>2 DEF AccountInv
        <3> QED
            BY <1>1, <3>1 DEF RowInOrder, Bound
    <2> QED
        BY <2>1, <2>2
<1>4. /\ users' \in [Users -> User] /\ tokens' \in [Users -> SUBSET (1 .. MaxCalls)]
      /\ KeysAreUnique' /\ Evolves
    BY <1>1, EvolvesSame DEF AccountInv, TypeOK, KeysAreUnique
<1>5. \A v \in Users : UserInOrder(v)' /\ OneToken(v)'
    BY <1>1 DEF AccountInv, UserInOrder, OneToken, Bound
<1> QED
    BY <1>1, <1>2, <1>3, <1>4, <1>5, DisturbingStep

LEMMA StoreFailsStep ==
    ASSUME AccountInv, NEW c \in Calls, StoreFails(c)
    PROVE  AccountInv'
<1>1. /\ TypeOK /\ Busy(c) /\ users' = users /\ tokens' = tokens /\ rows' = rows /\ CountersType
    BY FaultCounts DEF AccountInv, StoreFails
<1>2. CASE /\ call[c].op = "guest" /\ call[c].pc = "create"
           /\ call' = [call EXCEPT ![c].pc = "reget", ![c].bad = TRUE]
    <2>1. Onward(c, "reget", call[c].user, call[c].holder, call[c].at, TRUE)
        BY <1>1, <1>2, GoesBad DEF Pcs
    <2> QED
        BY <1>1, <1>2, <2>1, ReadGoes
<1>3. ASSUME NEW reply \in {"already", "error"}, Answer(c, reply) PROVE AccountInv'
    BY <1>1, <1>3, ReadAnswers DEF Replies
<1> QED
    BY <1>2, <1>3 DEF StoreFails

LEMMA DiesStep ==
    ASSUME AccountInv, NEW c \in Calls, Dies(c)
    PROVE  AccountInv'
<1>1. TypeOK /\ Busy(c) /\ CountersType /\ tokens' = tokens /\ rows' = rows
    BY FaultCounts DEF AccountInv, Dies
<1>2. /\ call' \in [Calls -> Call] /\ \A d \in Calls : d # c => call'[d] = call[d]
      /\ call'[c] = NoCall
    BY <1>1, NoCallType, CallType DEF Dies
<1>3. call'[c].pc = "idle"
    BY <1>2 DEF NoCall
<1>4. CASE users' = users
    BY <1>1, <1>2, <1>3, <1>4, IdleInOrder, ReadBy
<1>5. CASE /\ call[c].pc = "merge" /\ CanMerge(call[c].holder, call[c].user)
           /\ MarkMerged(call[c].holder, call[c].user, call[c].device)
    BY <1>1, <1>2, <1>3, <1>5, MarkEnds
<1> QED
    BY <1>4, <1>5 DEF Dies

LEMMA CallStepKeeps ==
    ASSUME AccountInv, NEW c \in Calls, CallStep(c)
    PROVE  AccountInv'
BY SignInGetStep, RefreshGetUserStep, CreateIdentityStep, GuestGetAgainStep, IssueSessionStep,
   MergeGetUserStep, MergeGetHolderStep, MergeAgainStep, ReassignFromGuestStep,
   MergeDeleteTokensStep, MergeMarkStep DEF CallStep

LEMMA InitAccounts == Init => AccountInv
<1> SUFFICES ASSUME Init PROVE AccountInv
    OBVIOUS
<1>0. PICK known \in SUBSET Users : \E email \in Injection(known, Emails) :
        users = [u \in Users |->
                    IF u \in known THEN [NoUser EXCEPT !.status = "active", !.email = email[u]]
                    ELSE NoUser]
    BY DEF Init
<1>1. PICK email \in Injection(known, Emails) :
        users = [u \in Users |->
                    IF u \in known THEN [NoUser EXCEPT !.status = "active", !.email = email[u]]
                    ELSE NoUser]
    BY <1>0
<1>2. email \in [known -> Emails] /\ \A u, v \in known : u # v => email[u] # email[v]
    BY <1>1 DEF Injection, IsInjective
<1>3. /\ NoUser \in User /\ NoUser.status = "absent" /\ NoUser.device = None
      /\ NoUser.email = None /\ NoUser.into = None /\ NoUser.guest = FALSE
    BY DEF NoUser, User
<1>4. \A u \in Users : users[u] = IF u \in known
                                  THEN [NoUser EXCEPT !.status = "active", !.email = email[u]]
                                  ELSE NoUser
    BY <1>1
<1>5. ASSUME NEW u \in Users
      PROVE  /\ users[u] \in User /\ users[u].device = None /\ users[u].into = None
             /\ users[u].status = IF u \in known THEN "active" ELSE "absent"
             /\ users[u].email = IF u \in known THEN email[u] ELSE None
    <2>1. CASE u \in known
        BY <1>2, <1>4, <2>1 DEF NoUser, User
    <2>2. CASE u \notin known
        BY <1>3, <1>4, <2>2
    <2> QED
        BY <2>1, <2>2
<1>6. TypeOK
    <2>1. users \in [Users -> User]
        BY <1>1, <1>5
    <2>2. call \in [Calls -> Call]
        BY NoCallType DEF Init
    <2>3. faults \in 0 .. MaxFaults /\ calls \in 0 .. MaxCalls /\ others \in 0 .. MaxOthers
        <3>1. faults = 0 /\ calls = 0 /\ others = 0
            BY DEF Init
        <3> QED
            BY <3>1, AccountAssumption
    <2>4. /\ tokens \in [Users -> SUBSET (1 .. MaxCalls)]
          /\ rows \in [Kinds \X Users -> Users \union {None}]
        BY DEF Init
    <2> QED
        BY <2>1, <2>2, <2>3, <2>4 DEF TypeOK
<1>7. \A u \in Users : UserInOrder(u) /\ OneToken(u)
    BY <1>5 DEF Init, UserInOrder, OneToken, Bound
<1>8. KeysAreUnique
    BY <1>2, <1>5 DEF KeysAreUnique
<1>9. \A k \in Kinds, u \in Users : RowInOrder(k, u)
    BY DEF Init, RowInOrder
<1>10. \A c \in Calls : call[c].pc = "idle"
    BY DEF Init, NoCall
<1>11. \A c \in Calls : CallInOrder(c) /\ AloneInOrder(c)
    BY <1>10 DEF CallInOrder, AloneInOrder, Busy
<1> QED
    BY <1>6, <1>7, <1>8, <1>9, <1>11 DEF AccountInv

LEMMA NextAccounts == AccountInv /\ [Next]_vars => AccountInv'
<1> SUFFICES ASSUME AccountInv, [Next]_vars PROVE AccountInv'
    OBVIOUS
<1>1. CASE UNCHANGED vars
    BY <1>1 DEF vars, AccountInv, TypeOK, UserInOrder, OneToken, KeysAreUnique, RowInOrder,
       CallInOrder, AloneInOrder, Bound, Busy, DuplicateDevice, MergedTwice
<1>2. ASSUME NEW c \in Calls, CallStep(c) \/ StoreFails(c) \/ Dies(c) PROVE AccountInv'
    BY <1>2, CallStepKeeps, StoreFailsStep, DiesStep
<1>3. ASSUME NEW u \in Users, DeleteAccount(u) \/ UndeleteAccount(u) PROVE AccountInv'
    BY <1>3, DeletionStep
<1>4. ASSUME NEW u \in Users, NEW k \in Kinds, WriteRow(k, u) PROVE AccountInv'
    BY <1>4, WriteRowStep
<1> QED
    BY <1>1, <1>2, <1>3, <1>4, RequestsBegin DEF Next

LEMMA AccountInvariant == Spec => []AccountInv
BY InitAccounts, NextAccounts, PTL DEF Spec

-----------------------------------------------------------------------------
(* What follows *)

\* The unique keys on device and e-mail hold in every row whatever its status, although look-ups
\* see active rows only and a merge moves a device without looking at the key (MarkMerged).
THEOREM KeysHold == Spec => []KeysAreUnique
<1>1. AccountInv => KeysAreUnique
    BY DEF AccountInv
<1> QED
    BY <1>1, AccountInvariant, PTL

\* A row belongs to who wrote it or, when a guest wrote it, to a registered account: merges that
\* race, fail half way or die move rows to nobody else (ReassignFromGuest).
THEOREM RowsStay == Spec => []RowsStayInTheFamily
<1>1. AccountInv => RowsStayInTheFamily
    BY DEF AccountInv, RowInOrder, RowsStayInTheFamily
<1> QED
    BY <1>1, AccountInvariant, PTL

\* A request that is being served and is not the one that steps shows no reply.
LEMMA ReplyIsNew ==
    ASSUME AccountInv, [Next]_vars, NEW c \in Calls, Busy(c), call'[c].reply # "none"
    PROVE  CallStep(c) \/ (StoreFails(c) /\ faults' # faults)
<1>1. CallInOrder(c) /\ call[c].reply = "none" /\ TypeOK /\ faults \in 0 .. MaxFaults
    BY DEF AccountInv, CallInOrder, TypeOK
<1>2. CASE UNCHANGED vars
    BY <1>1, <1>2 DEF vars
<1>3. ASSUME NEW d \in Calls, d # c,
             CallStep(d) \/ StoreFails(d) \/ Dies(d)
      PROVE  FALSE
    <2>1. \A reply : Answer(d, reply) => call'[c] = call[c]
        BY <1>1, <1>3 DEF Answer, TypeOK
    <2>2. \A pc : Goto(d, pc) => call'[c] = call[c]
        BY <1>1, <1>3 DEF Goto, TypeOK
    <2>3. call'[c] = call[c]
        <3>1. CASE StoreFails(d) \/ Dies(d)
            BY <1>1, <1>3, <2>1, <3>1 DEF StoreFails, Dies, TypeOK
        <3>2. CASE SignInGet(d) \/ RefreshGetUser(d) \/ CreateIdentity(d) \/ GuestGetAgain(d)
                   \/ IssueSession(d)
            BY <1>1, <1>3, <2>1, <2>2, <3>2
               DEF SignInGet, RefreshGetUser, CreateIdentity, GuestGetAgain, IssueSession, TypeOK
        <3>3. CASE MergeGetUser(d) \/ MergeGetHolder(d) \/ MergeAgain(d) \/ ReassignFromGuest(d)
                   \/ MergeDeleteTokens(d) \/ MergeMark(d)
            BY <1>1, <1>3, <2>1, <2>2, <3>3
               DEF MergeGetUser, MergeGetHolder, MergeAgain, ReassignFromGuest,
                   MergeDeleteTokens, MergeMark, TypeOK
        <3> QED
            BY <1>3, <3>1, <3>2, <3>3 DEF CallStep
    <2> QED
        BY <1>1, <2>3
<1>4. ASSUME call'[c] = Disturbed[c] PROVE FALSE
    <2>1. call'[c].reply = call[c].reply
        BY <1>1, <1>4, Disturbs DEF SameRequest
    <2> QED
        BY <1>1, <2>1
<1>5. ASSUME NEW d \in Calls, NEW r, Begin(d, r) PROVE FALSE
    <2>1. d # c
        BY <1>5 DEF Begin
    <2> QED
        BY <1>4, <1>5, <2>1 DEF Begin
<1>6. ASSUME Dies(c) PROVE FALSE
    BY <1>1, <1>6 DEF Dies, NoCall, TypeOK
<1>7. StoreFails(c) => faults' # faults
    BY <1>1 DEF StoreFails, Fault
<1>8. ASSUME NEW u \in Users, \/ DeleteAccount(u) \/ UndeleteAccount(u)
                              \/ \E k \in Kinds : WriteRow(k, u)
      PROVE  FALSE
    BY <1>4, <1>8 DEF DeleteAccount, UndeleteAccount, WriteRow
<1> QED
    BY <1>2, <1>3, <1>5, <1>6, <1>7, <1>8
       DEF Next, IssueGuest, Merge, RegisterEmail, LoginEmail, Refresh

\* When a merge that nothing interfered with is answered, no row of the kinds that merges move is
\* left with the guest, the device is the account's, and the guest has no token; failed and dead
\* attempts before do not matter (Merge).
THEOREM MergesAreComplete == Spec => MergeIsComplete
<1>1. ASSUME AccountInv, [Next]_vars, NEW c \in Calls,
             call[c].alone, call[c].pc = "merge", call'[c].reply = "ok"
      PROVE  /\ \A k \in Kinds : \A r \in DOMAIN rows : r[1] = k => rows'[r] # call[c].holder
             /\ users'[call[c].holder].status = "merged"
             /\ users'[call[c].user].device = call[c].device
             /\ tokens'[call[c].holder] = {}
    <2>0. /\ Busy(c) /\ CallInOrder(c) /\ AloneInOrder(c) /\ TypeOK
          /\ rows \in [Kinds \X Users -> Users \union {None}]
        BY <1>1 DEF AccountInv, TypeOK, Busy
    <2>1. CallStep(c) \/ StoreFails(c)
        BY <1>1, <2>0, ReplyIsNew
    <2>2. ~StoreFails(c)
        BY <1>1, <2>0, Answers DEF StoreFails, Replies
    <2>3. MergeMark(c)
        BY <1>1, <2>1, <2>2 DEF CallStep, SignInGet, RefreshGetUser, CreateIdentity, GuestGetAgain,
           IssueSession, MergeGetUser, MergeGetHolder, MergeAgain, ReassignFromGuest,
           MergeDeleteTokens
    <2>4. /\ CanMerge(call[c].holder, call[c].user)
          /\ MarkMerged(call[c].holder, call[c].user, call[c].device)
          /\ tokens' = tokens /\ rows' = rows
        BY <1>1, <2>0, <2>3, Answers DEF MergeMark, Replies
    <2>5. PICK g \in Users, a \in Users, d \in Devices :
            /\ g = call[c].holder /\ a = call[c].user /\ d = call[c].device
            /\ ~users[a].guest /\ (users[g].into = None => users[g].device = d)
        BY <1>1, <2>0 DEF CallInOrder
    <2>6. UserInOrder(g) /\ CanMerge(g, a) /\ MarkMerged(g, a, d)
        BY <1>1, <2>4, <2>5 DEF AccountInv
    <2>7. users[g].device = d
        BY <2>5, <2>6 DEF CanMerge, Active, UserInOrder
    <2>8. users'[g].status = "merged" /\ users'[a].device = d
        BY <1>1, <2>4, <2>5, <2>6, <2>7, Marks
    <2>9. \A k \in Kinds, u \in Users : rows[<<k, u>>] # g
        <3> SUFFICES ASSUME NEW k \in Kinds, NEW u \in Users PROVE rows[<<k, u>>] # g
            OBVIOUS
        <3>1. PICK i \in 1 .. Len(Moved) : k = Moved[i]
            BY AccountAssumption DEF Kinds, ToSet
        <3>2. i \in 1 .. call[c].at - 1
            BY <1>1, <2>0, Wired DEF CallInOrder
        <3> QED
            BY <1>1, <2>0, <2>5, <3>1, <3>2 DEF AloneInOrder
    <2>10. \A r \in DOMAIN rows : rows[r] # g
        BY <2>0, <2>9
    <2> QED
        BY <1>1, <2>0, <2>4, <2>5, <2>8, <2>10 DEF AloneInOrder
<1>2. AccountInv /\ [Next]_vars =>
        [\A c \in Calls :
         (call[c].op = "merge" /\ call[c].alone /\ call[c].pc = "merge" /\ call'[c].reply = "ok") =>
         LET g == call[c].holder  a == call[c].user IN
         /\ \A k \in Kinds : {r \in DOMAIN rows : r[1] = k /\ rows'[r] = g} = {}
         /\ users'[g].status = "merged" /\ users'[a].device = call[c].device
         /\ tokens'[g] = {}]_vars
    BY <1>1
<1> QED
    BY <1>2, AccountInvariant, PTL DEF Spec, MergeIsComplete

\* A guest's request fails only when the store does, when the device's row belongs to a deleted
\* account, or when the account that held the device has moved on to another (IssueGuest).
THEOREM GuestsAreServed == Spec => GuestIsServed
<1>1. ASSUME AccountInv, [Next]_vars, NEW c \in Calls, call[c].op = "guest", Busy(c),
             call'[c].reply = "error", faults' = faults, ~call[c].bad
      PROVE  \/ \E u \in Users : users[u].device = call[c].device /\ users[u].status = "deleted"
             \/ MergedTwice
    <2>0. CallInOrder(c) /\ call[c].email = None /\ TypeOK
        BY <1>1 DEF AccountInv, CallInOrder
    <2>1. CallStep(c)
        BY <1>1, ReplyIsNew
    <2>2. \A reply \in Replies : Answer(c, reply) => call'[c].reply = reply
        BY <2>0, Answers
    <2>3. \A pc \in Pcs : Goto(c, pc) => call'[c].reply = call[c].reply
        BY <2>0, Goes DEF Onward
    <2>4. \A pc \in Pcs, u \in Users :
            call' = [call EXCEPT ![c].pc = pc, ![c].user = u] => call'[c].reply = call[c].reply
        BY <2>0, GoesAs DEF Onward
    <2>5. call[c].reply # "error" /\ ~DuplicateEmail(call[c].email)
        BY <1>1, <2>0 DEF CallInOrder, DuplicateEmail
    <2>6. call[c].pc \notin {"holder", "move", "tokens", "merge", "clean"}
        BY <1>1, <2>0 DEF CallInOrder
    <2>7. ~SignInGet(c)
        <3>1. SUFFICES ASSUME SignInGet(c) PROVE FALSE
            OBVIOUS
        <3>2. ActiveByDevice(call[c].device) \in SUBSET Users
            BY DEF ActiveByDevice
        <3> QED
            BY <1>1, <2>2, <2>3, <2>4, <2>5, <3>1, <3>2 DEF SignInGet, Replies, Pcs
    <2>8. ~CreateIdentity(c)
        BY <1>1, <2>2, <2>3, <2>4, <2>5 DEF CreateIdentity, Replies, Pcs
    <2>9. ~IssueSession(c) /\ ~RefreshGetUser(c) /\ ~MergeGetUser(c)
        BY <1>1, <2>2 DEF IssueSession, RefreshGetUser, MergeGetUser, Replies
    <2>10. GuestGetAgain(c)
        BY <2>1, <2>6, <2>7, <2>8, <2>9 DEF CallStep, MergeGetHolder, MergeAgain,
           ReassignFromGuest, MergeDeleteTokens, MergeMark
    <2>11. ActiveByDevice(call[c].device) = {}
        BY <1>1, <2>4, <2>5, <2>10 DEF GuestGetAgain, ActiveByDevice, Pcs
    <2>12. DuplicateDevice(call[c].device) \/ MergedTwice
        BY <1>1, <2>0, <2>10 DEF GuestGetAgain, CallInOrder
    <2>13. ASSUME NEW u \in Users, Bound(u), users[u].device = call[c].device, call[c].device # None
           PROVE  users[u].status = "deleted"
        <3>1. UserInOrder(u) /\ users[u] \in User
            BY <1>1 DEF AccountInv, TypeOK
        <3>2. users[u].status \in {"absent", "active", "merged", "deleted"}
            BY <3>1 DEF User
        <3> QED
            BY <2>11, <2>13, <3>1, <3>2 DEF UserInOrder, ActiveByDevice, Active, Bound
    <2> QED
        BY <2>12, <2>13 DEF DuplicateDevice
<1>2. AccountInv /\ [Next]_vars =>
        [\A c \in Calls :
           (call[c].op = "guest" /\ call[c].pc # "idle" /\ call'[c].reply = "error"
              /\ faults' = faults /\ ~call[c].bad) =>
           \/ \E u \in Users : users[u].device = call[c].device /\ users[u].status = "deleted"
           \/ \E a, g, h \in Users : g # h /\ users[g].into = a /\ users[h].into = a]_vars
    BY <1>1 DEF Busy, MergedTwice
<1> QED
    BY <1>2, AccountInvariant, PTL DEF Spec, GuestIsServed, Busy, MergedTwice

=============================================================================
