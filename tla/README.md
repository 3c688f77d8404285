# FluentWork backend: verification project

TLA+ specifications of the backend of a spoken-English practice app, checked
with TLC on small instances, with the central results proved by TLAPS for every
size. `PROJECT.json` lists components, runs, mutants, the map from definitions
to source lines, hazards and theorems.

## 1. The system

Three processes share one MySQL database (or, in development, memory stores):

* **app-server**, the HTTP API: accounts, sessions, corpus, drills, topics,
  daily reads, materials, privacy. It may also run the review worker in process.
* **voice-gateway**, one WebSocket per practice session. It relays audio to a
  speech provider, keeps the turns, rescues a silent learner, and reports the
  session and the phrases used to the app-server over internal HTTP.
* **worker**, a loop that claims jobs of the `session_jobs` outbox and, when the
  queue is empty, runs the topic scheduler and sweeps stuck materials.

| component | state | operations | talks to |
| --- | --- | --- | --- |
| sessions (`internal/session`) | session row, transcript, cost row, job outbox, tickets | Create, Activate, End, GetReview, tickets, history | gateway (internal HTTP), worker (outbox) |
| review worker (`session/review.go`, `internal/review`, `reviewgen`, `eval`, `cmd/worker`) | claimed job with lease and attempts | ProcessNextJob, EnqueueEval, RunEvalJob | language model, session store |
| gateway (`internal/voicegateway`, `voiceduplex`, `voiceproto`) | turn machine, silence detector, rungs in flight, stuck points, audio sequence, transcript | client frames, provider events, rescue poller, teardown | provider, app-server |
| corpus (`internal/corpus`) | phrase blocks with schedule and counters, two ledgers, edits, feedback | accept, edit, delete, RecordHits, RecordRealUses, sweep, list, recommend | gateway (hits), drill, topic |
| drill (`internal/drill`) | drill records | Round, Judge, Appeal, stuck map | corpus, language model |
| topic (`internal/topic`) | cards, check-ins | scheduler, check-in, dismissal, streak | corpus (real uses), language model |
| content, tts (`internal/content`) | daily read of a user and day | Today, audio stream | language model, synthesiser |
| materials (`internal/materials`) | row with status, lease, attempts | Create, refine, sweep | language model, corpus |
| account (`internal/account`) | users, refresh tokens, tombstones | guest, register, login, refresh, merge, delete, undelete | reassigners and wipers of all the others |
| orchestrator, aicost, conversation | cost rows | model calls, pricing, summaries, rescue text | language model |
| sessionhistory | none of its own | list with a cursor, detail of a session | session store |
| httpserver, config, tooling | none of their own | routing, wiring | |

What is hard in it: store calls in sequence with no transaction around them
(End, merge, deletion, edits, refine); two requests on one row; values read
before seconds of model time and written after it (judge, appeal, rungs);
leases, retries and workers that die or come back late; four kinds of goroutine
on one socket with a mutex per object; audio that is already under way when the
learner speaks; queues and counters at their limits. The 40 hazards of
`PROJECT.json` name each at its line.

What makes each part correct: one close, one charge, one review per session, and
no job lost or run by two workers; a learner who says nothing is helped and one
who speaks is not talked over; a stuck point is reported only if it happened; a
block's ladder reflects what the learner did; a material's refine is settled
once and truthfully; a deleted account is out of sight and an undeleted one is
whole; a merge moves everything and nothing to a stranger; a reply reaches the
client once and is stored as it was heard, and a turn ends however silent the
vendor is; a client that syncs or pages misses nothing; a streak, a use or a cost
is counted once and for what happened.

## 2. Modules

| module | models | extends |
| --- | --- | --- |
| `SessionStore` | session rows and outbox, one operator per store call (`mysql_store.go`) | |
| `SessionService` | `Create`, `Activate`, `End` with a program counter per request | `SessionStore` |
| `ReviewPipeline` | `ProcessNextJob` per worker, `GetReview`, faults, stalls, time | `SessionService` |
| `ReviewContract` | the abstract promise to the learner; `ReviewPipeline` implements it | |
| `RescueLadder` | one voice session: turn machine, silence detector, rungs, stuck points | |
| `DuplexSession` | the vendor's duplex sessions, their reader and queue of events, `collectTurn` | |
| `DuplexProvider` | the provider session of a connection: accounting of the turn in flight, streaming, interrupts, transcript | `DuplexSession` |
| `VoiceConnection` | ticket and handshake, read loop, collect goroutine, reopening, persistence, teardown | `DuplexProvider` |
| `MaterialRefine` | upload, claim, refine, settle, sweep, deletion | |
| `PrivacyCascade` | deletion with compensation, undeletion | |
| `Accounts` | guests, registration, tokens, merge | |
| `BlockLearning` | schedule of phrase blocks: judge, appeal, edit, hits, check-ins, rounds | |
| `DayClock` | clock, UTC day, ORDER BY and LIMIT, and the bounds that the daily parts share | |
| `CorpusShelf` | phrase blocks as rows: accept, edit, pin, favourite, delete, wipe, restore, merge; sync and browse | `DayClock` |
| `TopicCards` | card generation by scheduler and on demand, check-in, streak | `DayClock` |
| `DailyReads` | the read of a day under its lock, in several processes | `DayClock` |
| `BadgeEmitter` | hit detection, the de-duplicating LRU, the badge and its report | `DayClock` |
| `CostLedger` | model calls, prices, cost rows, summaries | `DayClock` |
| `SpeechSynthesis` | streaming synthesiser, its retries, the shared duplex connection behind it | `CostLedger` |
| `SessionHistory` | sessions as the memory store keeps them, list and detail | `DayClock` |
| `PracticeDay` | the composition of these: what they read of the corpus and credit to it | the seven above |
| `ReviewPipelineProofs` | theorems on the pipeline and its contract | `ReviewPipeline`, `TLAPS` |
| `RescueLadderProofs`, `VoiceConnectionProofs`, `MaterialRefineProofs`, `PrivacyCascadeProofs`, `AccountsProofs`, `BlockLearningProofs` | theorems on the module of the name | that module, `TLAPS` |
| `PracticeDayProofs` | theorems on the parts of the practice day, stated of the composition | `PracticeDay`, `TLAPS` |
| `MC*` | the definitions that the .cfg files need | |

**Conventions.** A store call is one step: one SQL statement or one
transaction. A request or goroutine has a program counter that names the call it
makes next. A *fault* is a call that fails, a call that takes effect while its
answer is lost, or the death of the process; `MaxFaults` bounds them. Time is in
ticks, where possible relative to now (age of a lease, age of a window), so that
the clock needs no bound. Language models and the provider are choices.
A comment `Mutant:` marks an operator that stands for a plausible bug. No
specification uses it; it shows that the property it is paired with in
`PROJECT.json` is not vacuous.

### Sessions and reviews

`End` reads the session, closes it in a transaction (status, transcript, cost),
looks for a `session.finished` job and enqueues one, then does the same for
`session.eval`. Two Ends may be in flight: `session.end` times out in the
gateway after 5 s and the teardown sends its own with another reason. A worker
claims a row under a lease, writes the review or the scores, and settles the row
without looking at who holds it. `Pauses` lets a worker stall past its own
contexts. The payloads of reviews and scores are names.

### The rescue ladder

The read loop, the collect goroutine that relays a reply, the poller, and one
goroutine per rung are separate processes over the turn machine, the detector,
the log, the speech token and the socket. Each object has a mutex of its own, so
a handler that touches three objects is three steps. A turn goes by the name of one
of the client's utterances or, where the vendor sent none, by the session's id
(`canonicalTurnID`, `turn.go:243-247`). The loop leaves with the socket down, or
with the socket up after `provider_audio_failed` (`LoopExits`). Left out: malformed
frames, the counters of rejected frames, and the flags that switch providers.

### The voice connection

`DuplexSession` has the vendor's end: a socket that may die, a reader that fills
a bounded channel, the utterance the vendor hears and the answers it owes. Every
event carries, for the properties only, the utterance it is about: the code has
no such number, which is what makes stale events dangerous. `DuplexProvider`
holds the flags of the turn in flight (`streamedText`, `ttsStarted`, the framer)
and the transcript. `VoiceConnection` interleaves the read loop and the collect
goroutine over them, with one step before and one after each call to the vendor
or to app-server. A dial from the read loop may stay unanswered for ever
(`Dialling`): `provider.Start` waits for `session.created` under the request's
context, and only `resetDuplex` has a deadline. An *upset* is a failure (of vendor, network or app-server), an
interrupt or an abandoned recording; `MaxUpsets` bounds them. Every other wait for
a vendor ends by the step that its deadline stands for. `RescueLadder` and
`VoiceConnection` cut the same gateway in two: the first keeps the provider
small (a turn opens, frames, an end), the second leaves the rungs out.

### Materials, privacy, accounts

`MaterialRefine` has the row's status, lease and attempts, the blocks saved in
the corpus, and one program counter per goroutine. `PrivacyCascade` has one
user; each wiper is a sequence of statements; audit rows are left out and the
tombstones of a call are one step. `Accounts` keeps the unique keys (which cover
deleted rows too) and the look-ups (active rows only) apart; passwords, JWTs and
expiry are names.

### The ladder of phrase blocks

Judging reads a block, waits for the model, writes absolute values and files a
record. An appeal restores the snapshot in the record. An edit stores the
wording, audits it and resets the schedule in three calls. Hits and check-ins
are a transaction each. A round is four calls with nothing held between them: the
sweep, the count of the day's new blocks, the list of grey and yellow blocks, and
the list of green ones. Ghosts: the wording a ladder was climbed on, the successes
in a row since its last fall (`run`), the blocks that fell while a judge waited
with an older reading of them (`overtaken`), the hits a store refused, and for a
round the cards that stayed due from its first list on (`owed`). With `Store = "mysql"`
the ledger refuses every credited use: `phrase_block_real_uses.id` is
`CHAR(36)` (migration 0024) and the code composes it of a block id and a turn or
reference id. `Store = "memory"` is therefore the instance in which the ladder
is exercised; it never fails. Writing an edit and reading it back are one step.

### The practice day

`CorpusShelf` models the rows that `BlockLearning` leaves out of sight: their
owner, stamp, rank and tombstone. A write request looks at the clock first and
stores later, so a row may be stamped before a row that is already stored; the
ghost `late` holds the rows this happened to behind a sync's back. Generation of
cards looks, waits for the model and inserts one by one without a lock; a daily
read is locked per process only, and on MySQL it is stored by an UPDATE and then
read back by a call of its own (`MarkReady`, `ReadBack`), whose failure has the
preset text stored over it. An edit decides on a reset by the wording it read,
which leaves the counters of uses alone. `BadgeEmitter` keeps the LRU in its order and
scores texts as token sequences, with the 0.65 threshold in integers.
`CostLedger` rounds prices as the code does, with a smaller `Million`, and cuts a
summary at `MaxSummaryRows` buckets in the order of their keys.
`SpeechSynthesis` keeps the shared connection's unread events: who speaks next
may find those of the sentence before. `SessionHistory` takes the steps of End
and of the worker as one step each (`ReviewPipeline` has their interleavings); a
detail is four reads (`GetSession`, `ListUtterances`, `HasSessionJob`, `Summary`)
with these in between. In
`PracticeDay` the parts read the corpus as it is when they ask, and hits and
check-ins write credits to it. `Store` is chosen at the start, and differs where
the code does (restores, upserts, refused ledger ids).

## 3. Runs

Twelve runs pass. Every property of each has a mutant: a plausible bug in a
mapped definition under which TLC finds the property violated.

| run | instance | shows |
| --- | --- | --- |
| `ends` | 1 session, 2 Ends of 3 kinds, 1 worker that may stall, 4 jobs, a polling client | one close and one charge, for the End whose transcript is kept; a client told "empty" is not contradicted; the pipeline implements `ReviewContract` |
| `jobs` | 2 workers, 2 faults, real order of timeout, close budget and lease | no two workers hold a job; attempts are bounded by the limit plus the faults; a done job has a review; every job and every acknowledged End settles |
| `rescue_streams` | 2 turns, 2 rungs at once, all due at the same moment | one rung owns the stream; a stopped rung talks on for one frame at most |
| `rescue_climbs` | 1 turn, 3 rungs, session ended or lost anywhere, fairness | a silent learner climbs the ladder; only delivered rungs are reported; an exit without `session.end` reports all of them |
| `voice_turns` | 2 utterances, 2 vendor and 2 provider sessions, a turn limit, 1 upset | a reply arrives once, in a stream opened for it; an interrupted reply is stored as it was heard; what app-server stores is everything that the provider in place at the end has recorded (rows of a provider that was replaced are lost, section 6) |
| `voice_unblocks` | 1 utterance, 2 sockets with one ticket, 2 upsets, a vendor that may fall silent, fairness | an accepted turn is answered or failed; a torn-down connection ends, unless its dial is never answered |
| `materials_refine` | 2 materials, 2 goroutines, 2 faults | one refiner per row; counted blocks are saved; no row stays in processing |
| `privacy_cascade` | 2 overlapping calls of 3, 2 faults | a success answer is complete; one failure is compensated |
| `accounts_merge` | 2 overlapping calls of 3, 3 users, 1 fault | a guest's rows go to registered accounts only and no other row moves; an answered merge is complete; who loses the race for a device is served |
| `learning_ladder` | 1 block, 2 overlapping requests of 3, 2 turns, a check-in, delete and revive | colour and streak agree; a streak is no longer than the row of successes behind it, unless the block fell while a judge waited; a deleted row is frozen |
| `learning_rounds` | 3 blocks, 2 requests of 2 beside a round, 3 ticks, 1 fault | a round is bounded, has no green block in place of a yellow one that was due all along, and no grey one if the day's budget was spent before it was asked for |
| `practice_day` | 3 block ids, 3 days, both stores, 20 mixes of 2 to 4 requests | a sync and a listing lose nothing; streaks, uses and costs are backed and counted once; one request of a process makes a read ready; a badge is not repeated; an answer is one sentence; the four reads of a detail page add up to what the poll says |

**Bounds and why they are enough.** Races here are between two requests or two
goroutines on one row, so two of each meet every pair of program points; a third
request in turn follows both (`MaxCalls = 3`). One session, one user or one block
suffices where all statements name it. Faults of one or two reach a crash and a
failed recovery from it. Lease and timeouts keep the order of the code's
constants (60 s and 90 s jobs, 10 s to close, lease 120 s; refine 40 s, lease
120 s; rungs at 3, 6, 9 s), scaled to ticks. `PromoteStreak` is 2 (3 in the code,
a constant that the proofs leave arbitrary), so that a green block is three
requests away. `MaxTime = 0` in `learning_ladder`: due dates do not matter to its
properties, only to rounds. `rescue_streams` checks its invariants up to a VIEW
without the log and up to which name a turn has, which decide no step. `voice_turns` needs two
utterances, because what goes wrong with a reply is done by the next one; a
channel of one event makes every send of the reader wait. `practice_day` has
*mixes*: a behaviour serves the kinds of requests of one mix, so that the state
space is the sum of 20 compositions and not their product. A mix holds the parts
that share state (syncs against every kind of write, cards and badges against
the corpus, reads against the merge, the history against deletion); the parts it
leaves out share nothing with its members but the clock. Pages have one row, so
that every boundary falls between two rows.

**Deadlock.** The review and material runs check it. The others say
`CHECK_DEADLOCK FALSE`: a session that is closed, or a user base that has used up
its bounded calls, has nothing to do.

**Fairness.**
* `ReviewPipeline`: time passes; each worker's next step is weakly fair, because
  `cmd/worker` calls `ProcessNextJob` in an endless loop. Requests and clients
  owe nothing, and faults are finitely many.
* `RescueLadder`: goroutines run (weak fairness of the handler under way, the
  collect goroutine, the poller, each rung, and time); every write has
  `writeTimeout` and the wait for a provider has a deadline. The exit of the loop
  with the socket down is strongly fair, because a lost connection holds finitely
  many unread frames; the exit with the socket up owes nothing.
* `VoiceConnection`: the collect goroutine, and the read loop inside a handler
  except while it dials, are weakly fair, because both run in Go and every wait
  they make has a deadline. The dial has none, so its answer is owed by nobody
  (`WF_vars(~Dialling /\ Reader)`). The client, the vendor and the network owe nothing: a vendor that
  stops in the middle of a reply is a fair behaviour.
* `MaterialRefine`: time, the goroutines and the sweep. The worker sweeps only
  when its queue is empty, which is taken to recur.

## 4. Theorems

All proofs are checked from nothing by `tlapm`; no axiom is used. The only
assumptions are the named `ASSUME`s of the modules, which TLC evaluates too:
bounds and lengths are numbers, `None` is not one of the things it stands in
for, and what the code fixes (job timeout and close budget below the lease, a
refine's timeout below its lease, at least one wiper and one kind of row that a
merge moves, finitely many blocks with numbers for ids, pages of at least one
row, a badge memory with a positive size and TTL, as `newDedupeLRU` makes it; a
usage is a pair of numbers, and a reply the vendor finishes ends with
`response.done`). Every inductive invariant was checked with
TLC on its run's instance before it was proved.

**`ReviewPipelineProofs`.**
* `TypeCorrect`: the type invariant of the pipeline.
* `LeaseExclusion`, `AttemptsBound`: `LeaseExclusive` and `AttemptsBounded` for
  any number of sessions, workers, jobs and faults, from
  `JobTimeout[t] + CloseBudget < JobLease`. Exclusion alone is not inductive.
  `LInv` adds that a busy worker's deadline lies before the end of its row's
  lease and that the row names it, that a pending row has attempts to spare, and
  that each orphaned row is paid for by a fault.
* `DoneIsReviewed`, `PipelineImplementsContract`: with stalls allowed, a done job
  has a review, and each step of the pipeline is a step of `ReviewContract` or
  leaves it alone. `PInv` adds that a queued job's session was closed with speech
  in it (`QueuedSpoken`), and that a worker past a store call has what that call
  established (`WorkersInOrder`).
* `ChargesAreKept`, `EmptyStaysEmpty`, `OkIsQueued`, `ScoresAreWithin`: `TInv`
  says of each request what its calls so far have left in the store, of the cost
  rows which End wrote them, of the poll what it has read, and of the workers
  that the utterances they score are stored.

**`RescueLadderProofs`** (`LadderInv`).
* `OneRungIsLive`, `TalkOverIsBounded`: whoever speaks has a token and a stream
  of its own, not above the counters they were drawn from (`StreamInv`). A stop
  between a frame's check and its write is the one frame that is late.
* `ReportsAreDelivered`, `RungsFollowReplies`, `ExitReportsAll`: every episode has a
  level that was shown and every shown rung is in an episode or about to be noted
  (`LogInv`). The exit waits for the goroutines, so then none is about to be. A
  rung runs only after a reply was named, by an utterance or by the session's id.
* `LadderTypeCorrect` (`BoundInv`): the type invariant. Its bounds are not local:
  that no counter outgrows its type needs that every rung that speaks, and every
  stuck point, is paid for by a rung that was started.
* `PointsAreNumbered` (`NumberInv`): the points of a session and of its report
  carry the numbers from one up, each once. The open point has the number after
  the sealed ones, and a report is what the log held at one moment.

**`VoiceConnectionProofs`.**
* `SavesAreComplete` (`SaveInv`): once the session is stored nothing records for
  it any more.
* `RepliesArriveOnce`, `InterruptsAreAsHeard` (`TurnInv`): what the provider
  session believes it has streamed of the turn in flight, what its goroutine is
  about to send, and what the client has received agree. It has a part for the
  control state, the wires, the providers, the work of the goroutine and the
  rows.
* `TurnsAnsweredOnce`, `StreamsAreApart` (`AnswerInv`, `RefInv`): an utterance that
  is to come, being spoken or being collected has no end and no error frame yet,
  and the refs with the client are not above the counter they are drawn from, so
  that the next one is new.
* `TicketsOpenOne` (`TicketInv`): while any socket is past the consumption the
  ticket is marked as used, and so refused to the others.
* `VoiceTypeCorrect` (`TypeInv`, `PlaceInv`): the collecting goroutine works with
  indices the read loop sets, which are 0 before Start and when a dial has failed.
  That a turn reads a vendor session there is, that a row names an utterance and
  that a turn is closed with an outcome follows from where the two are. The vendor
  is inside its reply and never past its end, since the last event is `done`.

**`MaterialRefineProofs`** (`RefineInv`). `RefineExclusion`, `RetriesAreExact`,
`CountsAreSaved`, `SettledRowsAreFinal`: the argument of the review lease. A
goroutine at work is named by its row and its time is below the age of the lease;
a queued row has attempts to spare.

**`PrivacyCascadeProofs`** (`CascadeInv`). `CascadeTypeCorrect`,
`DeletionsAreComplete`, `UndeletionsAreComplete`, `FailuresAreCompensated`, for
any wipers of any number of statements. A request that runs by itself has, at its
place in the program, hidden, restored or compensated everything before that
place (`Done`); that no other request is under way (`AloneIsAlone`) keeps it so.

**`AccountsProofs`** (`AccountInv`). `KeysHold`, `RowsStay`,
`MergesAreComplete`, `GuestsAreServed`: rows of users by status, the unique keys,
owners of rows, and for each request what it read and whether that may be stale.
The attempt to prove `GuestIsServed` in its first form failed for a good reason:
with two devices a merge moves the device of the guest to an account that may
then take over another guest's, and the key of the first device is free while a
request still holds the row it read (`mysql_store.go:72-109`). The property now
names that exception.

**`BlockLearningProofs`.**
* `LearningTypeCorrect`, `LadderIsConsistent`, `DeletedStaysFrozen`: for any
  blocks, requests, promotion streak and intervals. The invariant is the types
  and `LadderConsistent` together. The latter is inductive because it speaks of
  the snapshots in requests and records as well as of the rows: what is written
  back was on the ladder when it was read. The proof that deleted rows are frozen
  goes through every write and finds its row live, or its ladder and counter
  untouched.
* `StreaksAreBacked`, `CountsAreTheLedger` (`EInv`): the counter is the
  cardinality of the block's rows in the ledger, and no row, record or snapshot
  has a streak above the successes in a row that were behind it when it was read,
  which only grow while nobody resets the block behind a judge's back.
* `RoundsAreFair` (`RInv`): of a round between any two of its calls, what it has
  collected, what of the owed cards is still to be listed, and whether the budget
  was spent when it began; requests in between may only take cards off the owed
  ones.

**`PracticeDayProofs`.** Each theorem is about one part and is stated of the whole
composition.
* `DetailsAreNotAhead` (`HistoryInv`, `DetailInv`): only a session that ended with
  speech in it has jobs, and what each of the four reads found stays true, or true
  until a later job succeeds, so that the last one can rely on the first.
* `SummariesAddUp` (`LedgerInv`): for summaries whose buckets fit into an answer,
  which those by day always do. The sums are folds over sets of rows. What a fold
  computes is proved by induction over finite sets, stated of the set of sets for
  which a claim holds, and not of a predicate, so that the provers can instantiate
  it. The rest is that the groups partition the rows of a window and the two
  halves of a window partition the whole.
* `PricesAreFair`: about the operator that prices a call, from the rounding of its
  division.
* `StreaksHaveTheirDays` (`ClockInv`, `StreakInv`): a check-in under way past its
  insert has its day among the stored ones, and so has the run of the streak it
  is about to write.
* `ReadsGeneratedOnce` (`ReadInv`): locks exclude, and a read that was marked ready
  is a row that says so, or one whose request still holds the lock to read it back
  or to store the preset text over it.
* `UsesHaveEvidence`, `RecordedAfterShown` (`ShelfInv`, `CardInv`, `BadgeInv`): the
  ledger's hits were shown, its check-ins are of checked cards that offered the
  block, and no row or snapshot of a row counts more than the ledger has.
* `AnswersAreStretches` (`SpeechInv`): the events on the shared connection are
  stretches of sentences one behind the other, and what its holder has played
  continues with them.
* `SyncLosesNothing` (`SyncInv`), `PagesAreComplete` (`BrowseInv`, `StampsInv`,
  `ListingInv`): for pages of any size. `Ordered` puts at place k the row with
  k - 1 before it. By counting, a finite set under a strict total order has one
  row for each place (`PlacesFilled`, `EnumerationSorted`), so a page is an initial
  segment of what lies behind the cursor (`IsPage`). The invariants say that the
  cursor divides the rows: what lies before it was shown or copied, what lies
  behind it is owed, and only rows written since may be on the wrong side.
  Sessions keep their creation time (`SessionsKept`), so no session crosses a
  cursor.
* `BadgesAreNotRepeated` (`MemoryInv`): a badge that was let through is in the LRU
  with its time left, behind keys that were asked for after it, or as many other
  keys as the LRU holds were asked for after it. Putting a key in front moves an
  entry behind that key at most (`InFront`); an entry that falls off the end has
  as many different keys before it as the LRU holds, by an injection
  (`KeptOrFilled`).

Only model-checked, and why:

* everything temporal (`EveryJobSettles`, `AckedSettles`, `SilentUserClimbs`,
  `ProcessingExits`, `TurnUnblocks`, `TeardownEnds`): the prover has neither
  fairness nor ENABLED;
* the type invariants named at the end of section 5.

The library's induction theorems that take a predicate as a parameter cannot be
instantiated by the provers, and modules with RECURSIVE operators cannot be proved
about; there are none.

## 5. Properties stated and in no run

Checked with TLC on the instance named, and proved for every instance (section
4): `OkMeansQueued` and `ScoresWithinTranscript` (`Review_ends.cfg`);
`RungFollowsReply` and `PointsNumbered` (`Rescue_climbs.cfg`); `AnsweredOnce`, `StreamsApart` and `TicketOpensOne`
(`Voice_turns.cfg`, with two sockets); `RetriesExact` and `SettledIsFinal`
(`Material_refines.cfg`); `KeysAreUnique`
(`Accounts_merge.cfg`); `CountIsLedger` (`Learning_ladder.cfg`);
`RecordedWasShown` (`Practice_day.cfg`); the `TypeOK` of `BlockLearning`,
`PrivacyCascade`, `RescueLadder`, `VoiceConnection` and, as part of `RefineInv` and `AccountInv`, of
`MaterialRefine` and `Accounts`.

Checked with TLC only: `AcceptedTurnAnswered` and `SessionCloses`
(`Rescue_climbs.cfg`), which are temporal; the `TypeOK` of the modules of the
practice day, of which the proofs use the parts they need.

## 6. Promises that the models refute

These statements of comments and tests are defined in the modules. Each one is
violated when it is checked with the constants named here (as INVARIANT or
PROPERTY, without SYMMETRY for properties); they have no run of their own.

| definition | statement | constants |
| --- | --- | --- |
| `AbandonedNotQueued` | `session/abandon_test.go:66` "an abandoned session must not enqueue a review job"; two Ends see the session open (`service.go:517`) | `Review_ends.cfg` |
| `SkippedIsFinal` | `session/types.go:219` "ReviewSkipped says no review will ever exist for this session" | `Review_ends.cfg` |
| `EvalEnqueuedOnce` | `review/service.go:65` "Idempotent if one is already active or done." | `Review_ends.cfg` |
| `RepeatedEndNotRefused` | `session/service.go:382` "idempotent if already ended", against the conflict at line 474 | `Review_ends.cfg` |
| `AttemptsWithinMax` | `session/types.go:53` "MaxJobAttempts is initial try + one retry" | `Review_jobs.cfg` |
| `RescueSuspended` | `silence_detector.go:88` "userSpeaking suspends rescue while the user holds the floor mid-utterance" (`handler_rescue.go:397`) | `Rescue_streams.cfg` with `MaxRungs = 1`, `Slots = {r1}`, `FrameCount = 1`, `Says = {"nothing", "half"}`, no VIEW |
| `NoStrayEnd`, `OneEnd` | `handler_rescue.go:662`, `:687` "exactly one end" | as above |
| `SpokenOnlyInWindow` | `handler_rescue.go:622` "the stop must also cancel a *pending* start" | as above |
| `EpisodeOfItsTurn` | `rescue_log.go:115` "Rungs cannot cross that boundary" | as above, `Says = {"complete"}` |
| `RungsSpaced` | `silence_detector.go:168-170` "so it never does" | `Rescue_climbs.cfg` |
| `FailedTurnArmsNothing` | `handler_rescue.go:376`; a reply has two end markers (`provider_volc_duplex.go:1101`) | `Rescue_climbs.cfg` |
| `MonotoneAudio` | `seq_allocator.go:12`; numbers are drawn up front (`utterance.go:321`) | `Rescue_climbs.cfg` with two slots |
| `EveryMaterialSettles` | migration 0027 "instead of a spinner that never resolves"; nothing looks for a queued row without a goroutine (`refiner.go:129`) | `Material_refines.cfg`, one material, `MaxFaults = 1` |
| `EmptyIsExplained` | `materials/model.go:34-35` | as above |
| `FailedDeleteLeavesAll` | `TestPrivacyService_WiperFailureRestores`, "block should remain" | `Privacy_cascade.cfg`, one call, one fault |
| `DeletedStaysHidden` | `privacy_service.go:64` "A second call with the same confirmation is idempotent." | `Privacy_cascade.cfg`, `MaxCalls = 2` |
| `RegisterRaceIsConflict` | `service_auth.go:50-52` | `Accounts_merge.cfg` |
| `HitIsCredited` | `hits_service.go:53-56` | `Learning_ladder.cfg` with `Store = "mysql"` |
| `RestoreUndoesItsAttempt` | `drill/service.go:333-334` "rolling back to an older snapshot would erase it"; a hit after the attempt is erased | `Learning_ladder.cfg`, `Calls = {c1}` |
| `GreenOnThisWording` | `corpus/service.go:179-181` "a green light earned on the old wording would claim fluency in a sentence the learner has never said". A green block fails a drill, is edited (reset to grey), and the appeal of the old failure restores green: the guard at `drill/service.go:339` looks for newer drill records, and an edit leaves none | `Learning_ladder.cfg`, `Calls = {c1}` |
| `AudioIsOfThisText` | `tts/volc_duplex_fallback.go:88` "prompts the reused duplex session to speak text and yields audio"; a stream that is cut, or ends at `response.output_audio.done` (`:235`), leaves events of its sentence for the next caller | `Practice_day.cfg` |
| `ShortWaitMeansSilence` | `provider_volc_duplex.go:22-23` the short wait is for a turn of which "the gateway already knows it forwarded no audio"; the audio of a barge-in is forgotten when the reply before it is reset (`:295`) | `Voice_turns.cfg` |
| `NothingOutlivesTheConnection` | `volc_duplex.go:510-522` "Cancellation says the caller is leaving"; a teardown during a turn is taken for a dead socket, which is replaced by one nobody closes | `Voice_unblocks.cfg` |
| `NewBlocksCapped` | `drill/types.go:34` "caps how many 灰 blocks may enter rounds per UTC day" | `Learning_rounds.cfg` |
| `YellowComesFirst` | `drill/scheduler.go:25` "new/training first, then automated"; a green block that fails between the two lists is yellow, due and in neither | `Learning_rounds.cfg` |
| `StreakIsConsecutive` | `corpus/schedule.go:13` "how many consecutive successes turn a block green"; a block at 1 is read by a judge, fails in another, and the first one's pass writes 2 (`drill/service.go:182`) | `Learning_ladder.cfg` |
| `ReadyTextStays` | a read that is ready keeps its text; MySQL's `MarkReady` fails in its read-back (`content/mysql_store.go:96`) and `ensureTodayRead` stores the preset text over it (`content/service.go:103-110`) | `Practice_day.cfg` with `ReadProcesses = {p1}` |
| `SummariesAgree` | roll-ups by day, task and model count the same rows; buckets beyond `maxSummaryRows` are dropped without a word (`aicost/summary.go:105-107`) | `Practice_day.cfg` |

Seen while modelling, without a property.

*Practice day.* `DeltaSyncLosesNothing` and `ReadGeneratedOnce` name their
exceptions, and without them TLC refutes both: a row stored behind the sync's
position with an older stamp (a slow request, a late hit, a restore, a merge)
never reaches the client, and two processes overwrite a read that is ready.
`UsesAreEvidenced` counts rows of the ledger, so uses of a wording stay with a block
that is reworded. Two
generations may exceed `CardsPerDay`; a card stays checked in without a row when
the insert behind it fails; concurrent acceptances create a phrase twice; two
requests to pin or favourite overwrite each other with the row they read. MySQL
refuses the starter set, whose session does not exist.

*Costs and speech.* The row of a model call or of a synthesis is written on the
caller's context and is lost when that is done (`ark.go:275`,
`tts/http.go:136-139`). A stream that breaks is answered with 200 and billed. A
dead duplex connection of the synthesiser is never reopened.

*Voice.* The rows of earlier turns are lost when a turn reopens the provider
transparently. A failed dial leaves a session that panics at the next start. An
interrupt after the reply was finalised marks the next one. `TeardownEnds` excepts a
dial that the vendor never answers: `OpenDuplex` waits for `session.created` under
the request's context (`handler_control.go:319`, `volc_duplex.go:291-295`), and the
connection stays for as long as it does. That it holds does not rest on `Close`
before `Wait` in the teardown: the turn's own deadline ends the wait as well. Badges of a turn may
be filed under the next, and are marked as shown before they are written. A
failed `session.ready` uses up the ticket. After an End whose answer is lost,
later turns are not stored. `turn.go:57` says the gateway owes an answer to an
end of speech, while `handler.go:682` drops a second one during a reply.

*Accounts and sessions.* A refresh token that is exchanged twice at the same time
is answered twice, and the earlier answer is dead on arrival; nothing in the code
says which of them is to live. A merge moves sessions, blocks and daily reads only,
and the unique key of daily reads can keep it from ever completing; the stuck
points of a merged guest keep the guest's id; a guest cannot be issued on a
device held by a deleted account; a restore also brings back rows the learner
had deleted himself; `GetReview` does not look at `deleted_at`. The detail page
says "failed" for ever after a review that was retried with success, while the
poll says "ready" (`sessionhistory/service.go:130`, `session/service.go:577`).
`RecordRealUses` locks blocks in the order of the request while `RecordHits`
sorts them.

## 7. Not modelled, and the plan

Not modelled on principle: prompts, parsing of model answers, wire encoding,
resampling, HTTP plumbing, configuration, logging, metrics, tooling and schemas.
Left out because they only read: `ContinuationContext`, `PracticeStats`, the
stuck map, the feedback summary. Left out because they are pure functions with
floating-point weights: `recommend.go`, the pricing of a voice session. Left out
because they stand in for a vendor in development: the echo and mock providers.
`PROJECT.json` gives the reason for each component.

Modelled and not reached by a run: a worker that settles a row after another one
took it over (stalls and two workers are in no run together), which
`DoneIsReviewed` and `PipelineImplementsContract` cover for any number of workers.
A retried refine may save blocks a second time; `CountedIsSaved` admits it.

What is left is proof: the type invariants of the practice day (section 5), and
further promises of the parts as theorems of their own. Every safety property that
a run checks is proved for every instance; the temporal properties of section 4
stay with TLC.

## 8. Running

    tlc -workers 2 -config Review_ends.cfg MCReviewPipeline
    tlapm ReviewPipelineProofs.tla

`PROJECT.json` gives module and configuration of every run.
