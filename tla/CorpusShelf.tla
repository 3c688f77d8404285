----------------------------- MODULE CorpusShelf ----------------------------
(***************************************************************************)
(* The corpus: one learner's phrase blocks, the requests that change them, *)
(* and the two ways of reading them page by page.  Every write carries the *)
(* time at which its request looked at the clock, which may be before the  *)
(* writes that were stored ahead of it.  The ladder of a block is          *)
(* BlockLearning's; here a block has been used or it has not.              *)
(***************************************************************************)
EXTENDS DayClock, Sequences, FiniteSets, SequencesExt, TLC

CONSTANTS
    Stores,         \* the stores a process may have
    Me, Guest,      \* the account of the device, and the guest it may absorb
    Ids,            \* block ids, numbers: their order breaks ties
    FirstWords,     \* the blocks owned at the start, accepted at one time, and their words
    Words, Spellings, Scenes,
    Sessions, StarterSession,
    Batches,        \* what a review offers: sequences of expressions
    Reasons,
    PageSize,
    DedupeScanLimit,
    Calls           \* write requests under way at the same time

\* Ids are numbers here for their order; a cursor that is not there is told from one that is.
ASSUME ShelfAssumption ==
    /\ Ids \subseteq Nat /\ IsFiniteSet(Ids) /\ PageSize \in Nat \ {0}
    /\ None \notin [at : Nat, id : Ids] \union [pin : 0 .. 1, fav : 0 .. 1, at : Nat, id : Ids]

VARIABLES
    store,      \* which store the process has: "mysql" or "memory"
    row,        \* phrase_blocks
    feedback,   \* phrase_block_feedback
    call,       \* the write requests
    sync,       \* the client's incremental sync: the mark, and the cursor while it pages
    copy,       \* the client's copy of its blocks
    browse,     \* the client's browse: the cursor, and the blocks shown
    late,       \* ghost: blocks whose last write was stored behind the sync's position
    moved       \* ghost: blocks written since the browse began

shelfVars == <<store, row, feedback, call, sync, copy, browse, late, moved>>

-----------------------------------------------------------------------------
Users == {Me, Guest}

\* A spelling is what NormalizeExpression folds away: case, punctuation, spacing.
Expressions == Words \X Spellings

NormalizeExpression(expr) == expr[1]

\* The natural key also holds the anchor and the tags; a candidate keeps them with its session.
Row == [user : Users, session : Sessions \union {StarterSession}, expr : Expressions, scene : Scenes,
        fav : BOOLEAN, pin : 0 .. MaxNow + 1, live : BOOLEAN, used : Nat, at : 0 .. MaxNow]

\* A pin is kept as its time plus one; zero is none.
Unpinned == 0
PinnedAt(t) == t + 1

newAcceptedBlock(user, session, expr, scene, at) ==
    [user |-> user, session |-> session, expr |-> expr, scene |-> scene, fav |-> FALSE,
     pin |-> Unpinned, live |-> TRUE, used |-> 0, at |-> at]

sameNaturalKey(r, s) == r # None /\ r.user = s.user /\ r.session = s.session /\ r.expr = s.expr

Call == [pc : {"favorite", "delete", "edit", "back", "reset", "starter", "accept"},
         user : Users, id : Ids \union {None}, at : 0 .. MaxNow,
         fav : BOOLEAN, pin : 0 .. MaxNow + 1, fresh : SUBSET Row,
         old : Expressions \union {None}, expr : Expressions \union {None}]

Cursor == [at : 0 .. MaxNow, id : Ids]
BrowseCursor == [pin : 0 .. 1, fav : 0 .. 1, at : 0 .. MaxNow, id : Ids]

ShelfTypeOK ==
    /\ store \in Stores
    /\ row \in [Ids -> Row \union {None}]
    /\ feedback \in [Ids \X Reasons -> {"none", "live", "deleted"}]
    /\ \A c \in Calls : call[c] = None \/ call[c] \in Call
    /\ sync.mark \in 0 .. MaxNow /\ sync.on \in BOOLEAN /\ sync.cursor \in Cursor \union {None}
    /\ copy \in [Ids -> Row \union {None}]
    /\ browse.on \in BOOLEAN /\ browse.cursor \in BrowseCursor \union {None}
    /\ browse.seen \in Seq(Ids)
    /\ late \subseteq Ids /\ moved \subseteq Ids

FirstBlocks == DOMAIN FirstWords

ShelfInit ==
    /\ store \in Stores
    /\ \E scene \in Scenes, spelling \in Spellings, session \in Sessions :
         row = [i \in Ids |-> IF i \in FirstBlocks
                             THEN newAcceptedBlock(Me, session, <<FirstWords[i], spelling>>, scene, 0)
                             ELSE None]
    /\ feedback = [key \in Ids \X Reasons |-> "none"]
    /\ call = [c \in Calls |-> None]
    /\ sync = [on |-> FALSE, mark |-> 0, cursor |-> None]
    /\ copy = row
    /\ browse = [on |-> FALSE, cursor |-> None, seen |-> <<>>]
    /\ late = {} /\ moved = {}

-----------------------------------------------------------------------------
(* Reading: ListBlocks *)

Owned(user) == {i \in Ids : row[i] # None /\ row[i].user = user}
Live(user) == {i \in Owned(user) : row[i].live}

\* GetBlock: a deleted block, or another's, is not found.
Writable(user, i) == i \in Ids /\ row[i] # None /\ row[i].user = user /\ row[i].live

\* Mutant: rows of one time are not told apart.
AfterDeltaUntied(i, cursor) == cursor = None \/ row[i].at > cursor.at

\* (updated_at, id) > (cursor)
AfterDelta(i, cursor) ==
    cursor = None \/ row[i].at > cursor.at \/ (row[i].at = cursor.at /\ i > cursor.id)

DeltaOrder(i, j) == row[i].at < row[j].at \/ (row[i].at = row[j].at /\ i < j)

pinRank(i) == IF row[i].pin # Unpinned THEN 0 ELSE 1
favRank(i) == IF row[i].fav THEN 0 ELSE 1

\* compareBlocks: pinned, then favourites, then the latest, then the greatest id.
BrowseOrder(i, j) ==
    \/ pinRank(i) < pinRank(j)
    \/ pinRank(i) = pinRank(j) /\ favRank(i) < favRank(j)
    \/ pinRank(i) = pinRank(j) /\ favRank(i) = favRank(j) /\ row[i].at > row[j].at
    \/ pinRank(i) = pinRank(j) /\ favRank(i) = favRank(j) /\ row[i].at = row[j].at /\ i > j

\* The cursor carries where a row stood when its page was read.
CursorOf(i) == [pin |-> pinRank(i), fav |-> favRank(i), at |-> row[i].at, id |-> i]

\* Mutant: a favourite of the cursor's rank is taken for one that follows it.
AfterBrowseUnranked(i, cursor) ==
    \/ cursor = None
    \/ pinRank(i) > cursor.pin
    \/ pinRank(i) = cursor.pin /\ (row[i].at < cursor.at \/ (row[i].at = cursor.at /\ i < cursor.id))

AfterBrowse(i, cursor) ==
    \/ cursor = None
    \/ pinRank(i) > cursor.pin
    \/ pinRank(i) = cursor.pin /\ favRank(i) > cursor.fav
    \/ pinRank(i) = cursor.pin /\ favRank(i) = cursor.fav /\ row[i].at < cursor.at
    \/ pinRank(i) = cursor.pin /\ favRank(i) = cursor.fav /\ row[i].at = cursor.at /\ i < cursor.id

\* Incremental: deleted rows are listed too.
DeltaPage(user, after, cursor) ==
    First(PageSize, Ordered({i \in Owned(user) : row[i].at > after /\ AfterDelta(i, cursor)}, DeltaOrder))

BrowsePage(user, cursor, limit) ==
    First(limit, Ordered({i \in Live(user) : AfterBrowse(i, cursor)}, BrowseOrder))

-----------------------------------------------------------------------------
(* Writing *)

\* Where the sync stands: a write at or before this position is never listed.
Passed(i, at) ==
    \/ at < (IF sync.cursor = None THEN sync.mark ELSE sync.cursor.at)
    \/ sync.cursor = None /\ at = sync.mark
    \/ sync.cursor # None /\ at = sync.cursor.at /\ i <= sync.cursor.id

Write(rows) ==
    LET changed == {i \in Ids : rows[i] # row[i]} IN
    /\ row' = rows
    /\ late' = (late \ changed) \union {i \in changed : Passed(i, rows[i].at)}
    /\ moved' = moved \union changed

NoWrite == UNCHANGED <<row, late, moved>>
Clients == <<sync, copy, browse>>

NewCall(pc) ==
    [pc |-> pc, user |-> Me, id |-> None, at |-> now, fav |-> FALSE, pin |-> Unpinned, fresh |-> {},
     old |-> None, expr |-> None]
Begin(c, kind, request) == call[c] = None /\ Spend(kind) /\ call' = [call EXCEPT ![c] = request]
Return(c) == call' = [call EXCEPT ![c] = None]

\* A request that the database or the network fails leaves what it has done.
CallFails(c) ==
    /\ store = "mysql" /\ call[c] # None /\ Fault /\ Return(c) /\ NoWrite
    /\ UNCHANGED <<store, feedback, Clients>>

\* PUT favorite and pin together: nothing is read; a block that is no favourite is not pinned.
SetFavorite(c, i, fav, pinned) ==
    /\ row[i] # None
    /\ Begin(c, "favorite", [NewCall("favorite") EXCEPT
                                !.id = i, !.fav = fav, !.pin = IF pinned /\ fav THEN PinnedAt(now) ELSE Unpinned])
    /\ NoWrite /\ UNCHANGED <<store, feedback, Clients>>

\* PUT pin: the favourite is read now and written back.
UpdatePin(c, i, pinned) ==
    /\ Writable(Me, i)
    /\ Begin(c, "pin", [NewCall("favorite") EXCEPT
                           !.id = i, !.fav = row[i].fav, !.pin = IF pinned THEN PinnedAt(now) ELSE Unpinned])
    /\ NoWrite /\ UNCHANGED <<store, feedback, Clients>>

\* PUT favorite: the pin is read now and written back.
UpdateFavorite(c, i, fav) ==
    /\ Writable(Me, i)
    /\ Begin(c, "pin", [NewCall("favorite") EXCEPT !.id = i, !.fav = fav, !.pin = row[i].pin])
    /\ NoWrite /\ UNCHANGED <<store, feedback, Clients>>

StoreFavorite(c) ==
    LET r == call[c] IN
    /\ r # None /\ r.pc = "favorite"
    /\ IF Writable(r.user, r.id)
       THEN Write([row EXCEPT ![r.id].fav = r.fav, ![r.id].pin = r.pin, ![r.id].at = r.at])
       ELSE NoWrite
    /\ Return(c)
    /\ UNCHANGED <<clockVars, store, feedback, Clients>>

DeleteBlock(c, i) ==
    /\ row[i] # None
    /\ Begin(c, "delete", [NewCall("delete") EXCEPT !.id = i])
    /\ NoWrite /\ UNCHANGED <<store, feedback, Clients>>

\* MySQL clears the pin and the favourite, the memory store keeps them.
Deleted(r, at) ==
    IF store = "mysql" THEN [r EXCEPT !.live = FALSE, !.pin = Unpinned, !.fav = FALSE, !.at = at]
    ELSE [r EXCEPT !.live = FALSE, !.at = at]

SoftDeleteBlock(c) ==
    LET r == call[c] IN
    /\ r # None /\ r.pc = "delete"
    /\ IF Writable(r.user, r.id) THEN Write([row EXCEPT ![r.id] = Deleted(@, r.at)]) ELSE NoWrite
    /\ Return(c)
    /\ UNCHANGED <<clockVars, store, feedback, Clients>>

\* PUT block: the row is read; the wording it has now is kept to tell whether it changes.
UpdateBlock(c, i, expr) ==
    /\ Writable(Me, i)
    /\ Begin(c, "edit", [NewCall("edit") EXCEPT !.id = i, !.old = row[i].expr, !.expr = expr])
    /\ NoWrite /\ UNCHANGED <<store, feedback, Clients>>

\* uk_phrase_blocks_user_source_expr_anchor; the memory store has no such key.
Collides(i, expr) ==
    store = "mysql" /\ \E j \in Ids \ {i} : sameNaturalKey(row[j], [row[i] EXCEPT !.expr = expr])

\* A wording that is the one read before ends the request, whatever the row had when it was stored.
Saved(c, expr) == IF expr = call[c].old THEN Return(c) ELSE call' = [call EXCEPT ![c].pc = "reset"]

\* A wording that meets a unique key is refused.  MySQL has still to read the row back.
StoreEdit(c) ==
    LET r == call[c] IN
    /\ r # None /\ r.pc = "edit"
    /\ IF ~Writable(r.user, r.id) \/ Collides(r.id, r.expr) THEN NoWrite /\ Return(c)
       ELSE /\ Write([row EXCEPT ![r.id].expr = r.expr, ![r.id].at = r.at])
            /\ IF store = "mysql" THEN call' = [call EXCEPT ![c].pc = "back"] ELSE Saved(c, r.expr)
    /\ UNCHANGED <<clockVars, store, feedback, Clients>>

EditReadBack(c) ==
    LET r == call[c] IN
    /\ r # None /\ r.pc = "back"
    /\ IF Writable(r.user, r.id) THEN Saved(c, row[r.id].expr) ELSE Return(c)
    /\ NoWrite /\ UNCHANGED <<clockVars, store, feedback, Clients>>

\* SaveBlockEdit and ResetSchedule, under the stamp of the edit: the ladder starts over, the uses stay.
ResetSchedule(c) ==
    LET r == call[c] IN
    /\ r # None /\ r.pc = "reset"
    /\ IF Writable(r.user, r.id) THEN Write([row EXCEPT ![r.id].at = r.at]) ELSE NoWrite
    /\ Return(c)
    /\ UNCHANGED <<clockVars, store, feedback, Clients>>

-----------------------------------------------------------------------------
(* POST /corpus/blocks/batch-accept, and the starter corpus of a new learner *)

\* What a batch adds: the expressions that the scan does not find, each of them once.
Fresh(session, batch, scene) ==
    LET found == {NormalizeExpression(row[i].expr) : i \in ToSet(BrowsePage(Me, None, DedupeScanLimit))}
        word(k) == NormalizeExpression(batch[k])
        new == {k \in DOMAIN batch : word(k) \notin found /\ \A j \in 1 .. k - 1 : word(j) # word(k)} IN
    {newAcceptedBlock(Me, session, batch[k], scene, now) : k \in new}

BatchAccept(c, session, batch, scene) ==
    /\ Begin(c, "accept", [NewCall("accept") EXCEPT !.fresh = Fresh(session, batch, scene)])
    /\ NoWrite /\ UNCHANGED <<store, feedback, Clients>>

\* Called when a session is created; a learner with one block is left alone.
ProvisionStarterCorpus(c) ==
    /\ BrowsePage(Me, None, 1) = <<>>
    /\ Begin(c, "starter", NewCall("starter"))
    /\ NoWrite /\ UNCHANGED <<store, feedback, Clients>>

StarterAccept(c, batch, scene) ==
    /\ call[c] # None /\ call[c].pc = "starter"
    /\ call' = [call EXCEPT ![c].pc = "accept", ![c].at = now,
                            ![c].fresh = Fresh(StarterSession, batch, scene)]
    /\ NoWrite /\ UNCHANGED <<clockVars, store, feedback, Clients>>

\* A row with the natural key is returned, revived if it was deleted; any other is inserted under a
\* new id.  MySQL refuses a source session that is not in practice_sessions.
SaveAcceptedBlocks(c) ==
    LET fresh == call[c].fresh
        match(r) == {i \in Ids : sameNaturalKey(row[i], r)} IN
    /\ call[c] # None /\ call[c].pc = "accept"
    /\ IF store = "mysql" /\ \E r \in fresh : r.session = StarterSession THEN NoWrite
       ELSE \E place \in [fresh -> Ids] :
              /\ \A r, s \in fresh : place[r] = place[s] => r = s
              /\ \A r \in fresh : IF match(r) # {} THEN place[r] \in match(r) ELSE row[place[r]] = None
              /\ Write([i \in Ids |->
                   IF \E r \in fresh : place[r] = i
                   THEN LET r == CHOOSE s \in fresh : place[s] = i IN
                        IF row[i] = None THEN r
                        ELSE IF row[i].live THEN row[i]
                        ELSE [row[i] EXCEPT !.live = TRUE, !.scene = r.scene, !.at = r.at]
                   ELSE row[i]])
    /\ Return(c)
    /\ UNCHANGED <<clockVars, store, feedback, Clients>>

-----------------------------------------------------------------------------
(* Feedback, deletion of the account's data, and the merge of the guest *)

\* A repeated tap finds its row; one deleted with the account comes back.
SaveFeedback(i, reason) == feedback' = [feedback EXCEPT ![<<i, reason>>] = "live"]

RecordFeedback(i, reason) ==
    /\ Writable(Me, i) /\ Spend("feedback")
    /\ SaveFeedback(i, reason)
    /\ NoWrite /\ UNCHANGED <<store, call, Clients>>

\* DELETE of the learner's data, stamped when the deletion began.
SoftDeleteAllForUser(at) ==
    /\ at <= now /\ Spend("wipe")
    /\ Write([i \in Ids |-> IF i \in Live(Me) THEN Deleted(row[i], at) ELSE row[i]])
    /\ feedback' = [k \in DOMAIN feedback |-> IF feedback[k] = "live" THEN "deleted" ELSE feedback[k]]
    /\ UNCHANGED <<store, call, Clients>>

\* The compensation brings back whatever is deleted and does not touch updated_at.
RestoreDeletedForUser ==
    /\ Spend("restore")
    /\ Write([i \in Ids |-> IF i \in Owned(Me) THEN [row[i] EXCEPT !.live = TRUE] ELSE row[i]])
    /\ feedback' = [k \in DOMAIN feedback |-> IF feedback[k] = "deleted" THEN "live" ELSE feedback[k]]
    /\ UNCHANGED <<store, call, Clients>>

\* The guest's block was accepted on another device; the merge leaves its updated_at alone.
GuestAccepts(i, expr, session, scene) ==
    /\ row[i] = None /\ Spend("guest")
    /\ Write([row EXCEPT ![i] = newAcceptedBlock(Guest, session, expr, scene, now)])
    /\ UNCHANGED <<store, feedback, call, Clients>>

ReassignUser ==
    /\ Owned(Guest) # {} /\ Spend("guest")
    /\ Write([i \in Ids |-> IF i \in Owned(Guest) THEN [row[i] EXCEPT !.user = Me] ELSE row[i]])
    /\ UNCHANGED <<store, feedback, call, Clients>>

\* The writeback of uses, for hits and check-ins alike: live blocks of the learner, one use each.
Credited(ids, at) ==
    [i \in Ids |-> IF i \in ids /\ Writable(Me, i)
                   THEN [row[i] EXCEPT !.used = @ + 1, !.at = at] ELSE row[i]]

-----------------------------------------------------------------------------
(* The client *)

Merge(page) == [i \in Ids |-> IF i \in ToSet(page) THEN row[i] ELSE copy[i]]

\* A page that is full has a cursor; the sync is over with the first that is not.
SyncPage(page) ==
    /\ copy' = Merge(page)
    /\ sync' = IF Len(page) = PageSize
               THEN [sync EXCEPT !.on = TRUE, !.cursor = [at |-> row[Last(page)].at, id |-> Last(page)]]
               ELSE [on |-> FALSE, cursor |-> None,
                     mark |-> IF page # <<>> THEN row[Last(page)].at
                              ELSE IF sync.cursor # None THEN sync.cursor.at ELSE sync.mark]
    /\ NoWrite /\ UNCHANGED <<store, feedback, call, browse>>

SyncBegin == ~sync.on /\ Spend("sync") /\ SyncPage(DeltaPage(Me, sync.mark, None))
SyncNext == sync.on /\ SyncPage(DeltaPage(Me, sync.mark, sync.cursor)) /\ UNCHANGED clockVars

Browse(page, seen) ==
    /\ browse' = [on |-> Len(page) = PageSize, seen |-> seen \o page,
                  cursor |-> IF Len(page) = PageSize THEN CursorOf(Last(page)) ELSE None]
    /\ UNCHANGED <<store, row, late, feedback, call, sync, copy>>

BrowseBegin ==
    ~browse.on /\ Spend("browse") /\ Browse(BrowsePage(Me, None, PageSize), <<>>) /\ moved' = {}
BrowseNext ==
    /\ browse.on /\ Browse(BrowsePage(Me, browse.cursor, PageSize), browse.seen)
    /\ UNCHANGED <<clockVars, moved>>

-----------------------------------------------------------------------------
ShelfNext ==
    \/ \E c \in Calls :
         \/ \E i \in Ids :
              \/ \E fav, pinned \in BOOLEAN : SetFavorite(c, i, fav, pinned)
              \/ \E pinned \in BOOLEAN : UpdatePin(c, i, pinned)
              \/ \E fav \in BOOLEAN : UpdateFavorite(c, i, fav)
              \/ DeleteBlock(c, i)
              \/ \E expr \in Expressions : UpdateBlock(c, i, expr)
         \/ \E session \in Sessions, batch \in Batches, scene \in Scenes : BatchAccept(c, session, batch, scene)
         \/ ProvisionStarterCorpus(c)
         \/ \E batch \in Batches, scene \in Scenes : StarterAccept(c, batch, scene)
         \/ StoreFavorite(c) \/ SoftDeleteBlock(c) \/ StoreEdit(c) \/ EditReadBack(c) \/ ResetSchedule(c)
         \/ SaveAcceptedBlocks(c) \/ CallFails(c)
    \/ \E i \in Ids, reason \in Reasons : RecordFeedback(i, reason)
    \/ \E at \in 0 .. MaxNow : SoftDeleteAllForUser(at)
    \/ RestoreDeletedForUser
    \/ \E i \in Ids, expr \in Expressions, session \in Sessions, scene \in Scenes :
         GuestAccepts(i, expr, session, scene)
    \/ ReassignUser
    \/ SyncBegin \/ SyncNext \/ BrowseBegin \/ BrowseNext

-----------------------------------------------------------------------------
(* Properties *)

\* When an incremental sync is over, the client's copy of every block, tombstones included, is the
\* stored row, or the row was written after the mark the client will ask from next time, or its last
\* write was stored behind the position the sync had reached (a slow request, the stamp of a hit, a
\* restore or a merge): paging by (updated_at, id) loses nothing else.
DeltaSyncLosesNothing ==
    ~sync.on => \A i \in Owned(Me) : copy[i] = row[i] \/ i \in late \/ row[i].at > sync.mark

\* A browse that has come to its end has shown every live block that nobody wrote meanwhile, and
\* none of those twice, whatever was pinned, edited, accepted or deleted between its pages.
BrowseShowsEach ==
    /\ \A i \in Ids \ moved : Cardinality({k \in DOMAIN browse.seen : browse.seen[k] = i}) <= 1
    /\ (~browse.on /\ browse.seen # <<>>) => Live(Me) \ moved \subseteq ToSet(browse.seen)
=============================================================================
