------------------------------ MODULE Accounts ------------------------------
(***************************************************************************)
(* Identities (internal/account, Service): guests bound to a device,       *)
(* registered accounts, refresh tokens, and the merge of a guest into a    *)
(* registered account, which moves the guest's rows module by module and   *)
(* then takes over its device.                                             *)
(*                                                                         *)
(* Every store call is a step.  Unique keys on device and e-mail hold for  *)
(* all rows of the users table, the deleted ones too, while look-ups see   *)
(* active rows only.                                                       *)
(***************************************************************************)
EXTENDS Naturals, Sequences, FiniteSets, SequencesExt

CONSTANTS
    Users,      \* identities that can be created
    Devices, Emails,
    Moved,      \* kinds of rows a merge moves, in the order of the reassigners
    OnePerUser, \* kinds with a unique key on the owner (daily reads of one day)
    Calls,      \* requests that may run at the same time
    MaxCalls, MaxFaults,
    MaxOthers,  \* bound on rows written, deletions and undeletions
    None

Kinds == ToSet(Moved)

ASSUME AccountAssumption ==
    /\ Moved \in Seq(Kinds) /\ Moved # <<>> /\ OnePerUser \subseteq Kinds
    /\ MaxCalls \in Nat /\ MaxFaults \in Nat /\ MaxOthers \in Nat
    /\ None \notin Users \union Devices \union Emails

VARIABLES
    users,   \* the users table
    tokens,  \* the auth_tokens table: stored refresh tokens by user
    rows,    \* owner of the rows that a user once wrote
    call,    \* the requests
    faults,
    calls,   \* requests so far; names the token a request issues
    others   \* what else happened so far

vars == <<users, tokens, rows, call, faults, calls, others>>

-----------------------------------------------------------------------------
User == [status : {"absent", "active", "merged", "deleted"}, guest : BOOLEAN,
         device : Devices \union {None}, email : Emails \union {None},
         into : Users \union {None}]
NoUser == [status |-> "absent", guest |-> FALSE, device |-> None, email |-> None, into |-> None]

Ops == {"none", "guest", "register", "login", "refresh", "merge"}
Pcs == {"idle", "get", "user", "create", "reget", "issue", "holder", "move", "tokens", "merge",
        "clean"}
Replies == {"none", "ok", "already", "conflict", "rejected", "refused", "error"}

\* user: who signs in, or who merges; holder: the guest found; at: the reassigner at work.
Call == [op : Ops, pc : Pcs, id : 0 .. MaxCalls, user : Users \union {None},
         device : Devices \union {None}, email : Emails \union {None}, token : 0 .. MaxCalls,
         holder : Users \union {None}, at : 1 .. Len(Moved) + 1, alone : BOOLEAN,
         bad : BOOLEAN, reply : Replies]
NoCall == [op |-> "none", pc |-> "idle", id |-> 0, user |-> None, device |-> None,
           email |-> None, token |-> 0, holder |-> None, at |-> 1, alone |-> FALSE,
           bad |-> FALSE, reply |-> "none"]

TypeOK ==
    /\ users \in [Users -> User]
    /\ tokens \in [Users -> SUBSET (1 .. MaxCalls)]
    /\ rows \in [Kinds \X Users -> Users \union {None}]
    /\ call \in [Calls -> Call]
    /\ faults \in 0 .. MaxFaults /\ calls \in 0 .. MaxCalls /\ others \in 0 .. MaxOthers

\* Some accounts were registered before.
Init ==
    /\ \E known \in SUBSET Users : \E email \in Injection(known, Emails) :
         users = [u \in Users |->
                    IF u \in known THEN [NoUser EXCEPT !.status = "active", !.email = email[u]]
                    ELSE NoUser]
    /\ tokens = [u \in Users |-> {}]
    /\ rows = [r \in Kinds \X Users |-> None]
    /\ call = [c \in Calls |-> NoCall]
    /\ faults = 0 /\ calls = 0 /\ others = 0

-----------------------------------------------------------------------------
(* Store *)

Active(u) == users[u].status = "active"
ActiveByDevice(d) == {u \in Users : Active(u) /\ users[u].device = d}
ActiveByEmail(e) == {u \in Users : Active(u) /\ users[u].email = e}
Bound(u) == users[u].status # "absent"

\* Unique keys do not look at the status.
DuplicateDevice(d) == d # None /\ \E u \in Users : Bound(u) /\ users[u].device = d
DuplicateEmail(e) == e # None /\ \E u \in Users : Bound(u) /\ users[u].email = e

CreateUser(u, row) == users' = [users EXCEPT ![u] = row]

ReplaceRefreshToken(u, t) == tokens' = [tokens EXCEPT ![u] = {t}]

DeleteRefreshTokensForUser(u) == tokens' = [tokens EXCEPT ![u] = {}]

\* One transaction; it fails unless both accounts are still what they were.
CanMerge(g, a) == Active(g) /\ users[g].guest /\ Active(a)

MarkMerged(g, a, d) ==
    users' = [users EXCEPT ![g].device = None, ![g].status = "merged", ![g].into = a,
                           ![a].device = d]

Owned(k, u) == {r \in DOMAIN rows : r[1] = k /\ rows[r] = u}
Collides(k, g, a) == k \in OnePerUser /\ Owned(k, g) # {} /\ Owned(k, a) # {}
Reassign(k, g, a) == rows' = [r \in DOMAIN rows |-> IF r \in Owned(k, g) THEN a ELSE rows[r]]

-----------------------------------------------------------------------------
(* Requests *)

Busy(c) == call[c].pc # "idle"
Disturbed == [c \in Calls |-> [call[c] EXCEPT !.alone = FALSE]]
Goto(c, pc) == call' = [call EXCEPT ![c].pc = pc]
Answer(c, reply) ==
    call' = [call EXCEPT ![c] = [NoCall EXCEPT !.op = call[c].op, !.reply = reply]]

Begin(c, request) ==
    /\ ~Busy(c) /\ calls < MaxCalls
    /\ calls' = calls + 1
    /\ call' = [d \in Calls |->
                  IF d = c THEN [request EXCEPT !.pc = "get", !.id = calls + 1,
                                                !.alone = \A e \in Calls \ {c} : ~Busy(e)]
                  ELSE Disturbed[d]]
    /\ UNCHANGED <<users, tokens, rows, faults, others>>

IssueGuest(c, d) == Begin(c, [NoCall EXCEPT !.op = "guest", !.device = d])
RegisterEmail(c, e) == Begin(c, [NoCall EXCEPT !.op = "register", !.email = e])
LoginEmail(c, e) == Begin(c, [NoCall EXCEPT !.op = "login", !.email = e])
Refresh(c, t) == t <= calls /\ Begin(c, [NoCall EXCEPT !.op = "refresh", !.token = t])
Merge(c, u, d) == Active(u) /\ Begin(c, [NoCall EXCEPT !.op = "merge", !.user = u, !.device = d])

\* The look-up of a guest's, a registered or a known identity.
SignInGet(c) ==
    LET found == CASE call[c].op = "guest" -> ActiveByDevice(call[c].device)
                   [] call[c].op \in {"register", "login"} -> ActiveByEmail(call[c].email)
                   [] call[c].op = "refresh" -> {u \in Users : call[c].token \in tokens[u]}
                   [] OTHER -> {}
    IN
    /\ call[c].op # "merge" /\ call[c].pc = "get"
    /\ \/ /\ found = {} /\ call[c].op \in {"guest", "register"}
          /\ Goto(c, "create")
       \/ /\ found = {} /\ call[c].op \in {"login", "refresh"}
          /\ Answer(c, "rejected")
       \/ \E u \in found :
            \/ call[c].op = "register" /\ Answer(c, "conflict")
            \/ call[c].op = "guest" /\ call' = [call EXCEPT ![c].pc = "issue", ![c].user = u]
            \/ /\ call[c].op = "login"
               /\ \/ Answer(c, "rejected")  \* wrong password
                  \/ call' = [call EXCEPT ![c].pc = "issue", ![c].user = u]
            \/ /\ call[c].op = "refresh"
               /\ \/ Answer(c, "rejected")  \* expired
                  \/ call' = [call EXCEPT ![c].pc = "user", ![c].user = u]
    /\ UNCHANGED <<users, tokens, rows, faults, calls, others>>

RefreshGetUser(c) ==
    /\ call[c].op = "refresh" /\ call[c].pc = "user"
    /\ IF Active(call[c].user) THEN Goto(c, "issue") ELSE Answer(c, "rejected")
    /\ UNCHANGED <<users, tokens, rows, faults, calls, others>>

NewIdentity(c) == [NoUser EXCEPT !.status = "active", !.guest = call[c].op = "guest",
                                 !.device = call[c].device, !.email = call[c].email]

CreateIdentity(c) ==
    /\ call[c].pc = "create"
    /\ \/ /\ DuplicateDevice(call[c].device)
          /\ Goto(c, "reget") /\ UNCHANGED users
       \/ /\ DuplicateEmail(call[c].email)  \* MySQL: not told apart from other errors
          /\ Answer(c, "error") /\ UNCHANGED users
       \/ /\ ~DuplicateDevice(call[c].device) /\ ~DuplicateEmail(call[c].email)
          /\ \E u \in Users :
               /\ ~Bound(u)
               /\ CreateUser(u, NewIdentity(c))
               /\ call' = [call EXCEPT ![c].pc = "issue", ![c].user = u]
    /\ UNCHANGED <<tokens, rows, faults, calls, others>>

\* Mutant: the loser of the race is told so.
GuestGetAgainNot(c) ==
    /\ call[c].pc = "reget"
    /\ Answer(c, "error")
    /\ UNCHANGED <<users, tokens, rows, faults, calls, others>>

\* Whoever lost the race for the device uses the winner's identity.
GuestGetAgain(c) ==
    LET found == ActiveByDevice(call[c].device) IN
    /\ call[c].pc = "reget"
    /\ \/ found = {} /\ Answer(c, "error")
       \/ \E u \in found : call' = [call EXCEPT ![c].pc = "issue", ![c].user = u]
    /\ UNCHANGED <<users, tokens, rows, faults, calls, others>>

IssueSession(c) ==
    /\ call[c].pc = "issue"
    /\ ReplaceRefreshToken(call[c].user, call[c].id)
    /\ Answer(c, "ok")
    /\ UNCHANGED <<users, rows, faults, calls, others>>

-----------------------------------------------------------------------------
(* Merge *)

MergeGetUser(c) ==
    LET a == call[c].user IN
    /\ call[c].op = "merge" /\ call[c].pc = "get"
    /\ IF users[a].guest \/ ~Active(a) THEN Answer(c, "refused") ELSE Goto(c, "holder")
    /\ UNCHANGED <<users, tokens, rows, faults, calls, others>>

\* Mutant: whoever holds the device is merged, a registered account too.
MergeGetHolderAny(c) ==
    /\ call[c].pc = "holder"
    /\ \E h \in ActiveByDevice(call[c].device) :
         call' = [call EXCEPT ![c].pc = "move", ![c].holder = h]
    /\ UNCHANGED <<users, tokens, rows, faults, calls, others>>

MergeGetHolder(c) ==
    LET found == ActiveByDevice(call[c].device) IN
    /\ call[c].pc = "holder"
    /\ \/ found = {} /\ Answer(c, "refused")
       \/ \E h \in found :
            \/ h = call[c].user /\ Goto(c, "clean")
            \/ h # call[c].user /\ ~users[h].guest /\ Answer(c, "conflict")
            \/ /\ h # call[c].user /\ users[h].guest
               /\ call' = [call EXCEPT ![c].pc = "move", ![c].holder = h]
    /\ UNCHANGED <<users, tokens, rows, faults, calls, others>>

\* A repeated merge drops what tokens the guest still has; its errors are ignored.
MergeAgain(c) ==
    LET from == {g \in Users : users[g].status = "merged" /\ users[g].into = call[c].user} IN
    /\ call[c].pc = "clean"
    /\ \/ from = {} /\ UNCHANGED tokens
       \/ \E g \in from : DeleteRefreshTokensForUser(g)
    /\ Answer(c, "already")
    /\ UNCHANGED <<users, rows, faults, calls, others>>

\* Mutant: the last reassigner is left out.
ReassignFromGuestShort(c) ==
    LET k == Moved[call[c].at] IN
    /\ call[c].pc = "move"
    /\ Reassign(k, call[c].holder, call[c].user)
    /\ call' = [call EXCEPT ![c].at = @ + 1,
                            ![c].pc = IF call[c].at + 1 < Len(Moved) THEN "move" ELSE "tokens"]
    /\ UNCHANGED <<users, tokens, faults, calls, others>>

ReassignFromGuest(c) ==
    LET k == Moved[call[c].at] IN
    /\ call[c].pc = "move"
    /\ IF Collides(k, call[c].holder, call[c].user)
       THEN Answer(c, "error") /\ UNCHANGED rows
       ELSE /\ Reassign(k, call[c].holder, call[c].user)
            /\ call' = [call EXCEPT ![c].at = @ + 1,
                                    ![c].pc = IF call[c].at < Len(Moved) THEN "move" ELSE "tokens"]
    /\ UNCHANGED <<users, tokens, faults, calls, others>>

MergeDeleteTokens(c) ==
    /\ call[c].pc = "tokens"
    /\ DeleteRefreshTokensForUser(call[c].holder)
    /\ Goto(c, "merge")
    /\ UNCHANGED <<users, rows, faults, calls, others>>

MergeMark(c) ==
    /\ call[c].pc = "merge"
    /\ IF CanMerge(call[c].holder, call[c].user)
       THEN MarkMerged(call[c].holder, call[c].user, call[c].device) /\ Answer(c, "ok")
       ELSE Answer(c, "error") /\ UNCHANGED users
    /\ UNCHANGED <<tokens, rows, faults, calls, others>>

-----------------------------------------------------------------------------
(* The rest of the system *)

Other == others < MaxOthers /\ others' = others + 1 /\ UNCHANGED <<faults, calls>>

\* An authenticated request writes a row.
WriteRow(k, u) ==
    /\ Other
    /\ Active(u) /\ rows[<<k, u>>] = None
    /\ k \in OnePerUser => Owned(k, u) = {}
    /\ rows' = [rows EXCEPT ![<<k, u>>] = u]
    /\ call' = Disturbed
    /\ UNCHANGED <<users, tokens>>

\* PrivacyService: the tokens go too, unless that call fails.
DeleteAccount(u) ==
    /\ Other
    /\ Active(u)
    /\ users' = [users EXCEPT ![u].status = "deleted"]
    /\ \/ DeleteRefreshTokensForUser(u)
       \/ UNCHANGED tokens
    /\ call' = Disturbed
    /\ UNCHANGED rows

UndeleteAccount(u) ==
    /\ Other
    /\ users[u].status = "deleted"
    /\ users' = [users EXCEPT ![u].status = "active"]
    /\ call' = Disturbed
    /\ UNCHANGED <<tokens, rows>>

Fault == faults < MaxFaults /\ faults' = faults + 1 /\ UNCHANGED <<calls, others>>

\* A store call fails; the second look-up follows any failure of the insert.
StoreFails(c) ==
    /\ Fault
    /\ Busy(c)
    /\ IF call[c].op = "guest" /\ call[c].pc = "create"
       THEN call' = [call EXCEPT ![c].pc = "reget", ![c].bad = TRUE]
       ELSE Answer(c, IF call[c].pc = "clean" THEN "already" ELSE "error")
    /\ UNCHANGED <<users, tokens, rows>>

\* The server dies, before or after the statement at hand took effect.
Dies(c) ==
    /\ Fault
    /\ Busy(c)
    /\ call' = [call EXCEPT ![c] = NoCall]
    /\ \/ UNCHANGED <<users, tokens, rows>>
       \/ /\ call[c].pc = "merge" /\ CanMerge(call[c].holder, call[c].user)
          /\ MarkMerged(call[c].holder, call[c].user, call[c].device)
          /\ UNCHANGED <<tokens, rows>>

CallStep(c) ==
    \/ SignInGet(c) \/ RefreshGetUser(c) \/ CreateIdentity(c) \/ GuestGetAgain(c)
    \/ IssueSession(c) \/ MergeGetUser(c) \/ MergeGetHolder(c) \/ MergeAgain(c)
    \/ ReassignFromGuest(c) \/ MergeDeleteTokens(c) \/ MergeMark(c)

Next ==
    \/ \E c \in Calls :
         \/ \E d \in Devices : IssueGuest(c, d) \/ \E u \in Users : Merge(c, u, d)
         \/ \E e \in Emails : RegisterEmail(c, e) \/ LoginEmail(c, e)
         \/ \E t \in 1 .. MaxCalls : Refresh(c, t)
         \/ CallStep(c) \/ StoreFails(c) \/ Dies(c)
    \/ \E u \in Users : DeleteAccount(u) \/ UndeleteAccount(u)
    \/ \E u \in Users, k \in Kinds : WriteRow(k, u)

Spec == Init /\ [][Next]_vars

-----------------------------------------------------------------------------
(* A guest that was merged into an account leaves nothing behind: when the *)
(* merge is answered, all rows that merges move belong to the account, the *)
(* device does, and the guest can neither sign in nor refresh; attempts    *)
(* that failed or died half way before do not matter (Merge).              *)
MergeIsComplete ==
    [][\A c \in Calls :
         (call[c].op = "merge" /\ call[c].alone /\ call[c].pc = "merge" /\ call'[c].reply = "ok") =>
         LET g == call[c].holder  a == call[c].user IN
         /\ \A k \in Kinds : {r \in DOMAIN rows : r[1] = k /\ rows'[r] = g} = {}
         /\ users'[g].status = "merged" /\ users'[a].device = call[c].device
         /\ tokens'[g] = {}]_vars

(* An account has taken over a second guest's device, which freed the first. *)
MergedTwice ==
    \E a, g, h \in Users : g # h /\ users[g].into = a /\ users[h].into = a

(* Who asks for a guest identity and loses the race for the device gets    *)
(* the winner's: a request fails only when the store does, when the        *)
(* device's row belongs to a deleted account, or when the account that     *)
(* held the device has moved on to another one (IssueGuest, MarkMerged).   *)
GuestIsServed ==
    [][\A c \in Calls :
         (call[c].op = "guest" /\ Busy(c) /\ call'[c].reply = "error"
            /\ faults' = faults /\ ~call[c].bad) =>
         \/ \E u \in Users : users[u].device = call[c].device /\ users[u].status = "deleted"
         \/ MergedTwice]_vars

(* Rows never end up with somebody who is not a party to a merge, however  *)
(* merges of one guest race, fail half way, die and are repeated: a row is *)
(* owned by who wrote it, or by a registered account if a guest wrote it,  *)
(* and no row of a registered account ever moves (Service.Merge).          *)
RowsStayInTheFamily ==
    \A k \in Kinds, u \in Users :
        LET o == rows[<<k, u>>] IN o \notin {None, u} => users[u].guest /\ ~users[o].guest

-----------------------------------------------------------------------------
(* RegisterEmail: a duplicate key in the insert is answered "this e-mail   *)
(* is registered already".  TLC refutes it: MySQLStore.CreateUser knows    *)
(* the key of the device only, so the loser of a race, and whoever uses a  *)
(* deleted account's address, gets an internal error.                      *)
RegisterRaceIsConflict ==
    [][\A c \in Calls :
         call[c].op = "register" /\ Busy(c) /\ faults' = faults => call'[c].reply # "error"]_vars
=============================================================================
