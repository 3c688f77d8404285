--------------------------- MODULE VoiceConnection ---------------------------
(***************************************************************************)
(* One voice connection of the gateway: the ticket that opens it, the read *)
(* loop with its control frames (handler.go, handler_control.go), the      *)
(* goroutine that collects a turn and what is handed to app-server at the  *)
(* end, over the provider sessions of DuplexProvider and the vendor        *)
(* sessions of DuplexSession.                                              *)
(*                                                                         *)
(* The read loop and the collect goroutine share the provider session; a   *)
(* call to the vendor or to app-server that takes time is two steps.       *)
(***************************************************************************)
EXTENDS DuplexProvider, FiniteSets

CONSTANTS
    Sockets,      \* connections that present the session's ticket
    TurnLimit,    \* the turns app-server's contract allows, 0 for none
    MaxUpsets     \* bound on failures (of the vendor, the network, app-server) and on
                  \* the client's interrupts and abandoned recordings, together

ASSUME ConnectionAssumption ==
    /\ IsFiniteSet(Sockets) /\ TurnLimit \in Nat
    /\ MaxUpsets \in Nat

VARIABLES
    ticket,   \* the one-time ticket, and the handshake of each socket
    rt,       \* the runtime of the socket that won: the read loop
    col,      \* the collect goroutine
    wire,     \* what the client received about each utterance
    app,      \* the session in app-server
    client    \* what the client did, and the upsets so far

vars == <<dup, prov, ticket, rt, col, wire, app, client>>

\* sessionRuntime.  p is the provider session; a reopen takes the next one.
NoRuntime == [pc |-> "none", started |-> FALSE, p |-> 0, reopenAttempted |-> FALSE,
              broken |-> FALSE, turns |-> 0, complete |-> FALSE, ended |-> FALSE]
Loops == {"none", "idle", "starting", "resetting", "reopen", "retry", "ending", "closing",
          "draining", "persist", "closed", "panicked"}

\* The collect goroutine: the utterance, provider and vendor session it is about,
\* the events skipped for it, what it has collected and what it will send.
NoOut == [whole |-> FALSE, start |-> FALSE, audio |-> FALSE, ref |-> 0, outcome |-> "error"]
IdleCollect == [pc |-> "idle", k |-> 0, p |-> 0, d |-> 0, opens |-> FALSE, skipped |-> <<>>,
                turn |-> NoTurn, out |-> NoOut]
CollectPCs == {"idle", "turn", "instruct", "commit", "wait", "audio", "frames", "reset",
               "closeout", "send"}

\* deltas and whole are the texts of the reply, refs the streams opened; stray says
\* that audio came outside a stream, ends counts ai.turn.end, failed an error frame;
\* cut says that the learner abandoned a recording while this reply was collected.
NoWire == [deltas |-> <<>>, whole |-> FALSE, refs |-> {}, stray |-> FALSE,
           ends |-> 0, failed |-> FALSE, cut |-> FALSE]

\* The session app-server created with the ticket; lost: an answer of End was.
NewSession == [status |-> "created", saved |-> <<>>, lost |-> FALSE]

Init ==
    /\ dup = [d \in Duplexes |-> NoDuplex]
    /\ prov = [p \in Providers |-> NewProvider]
    /\ ticket = [used |-> FALSE, socket |-> [s \in Sockets |-> "new"], refs |-> 0]
    /\ rt = NoRuntime
    /\ col = IdleCollect
    /\ wire = [k \in Utterances |-> NoWire]
    /\ app = NewSession
    /\ client = [up |-> TRUE, spoke |-> 0, open |-> FALSE, upsets |-> 0]

\* The program counters, the records of vendor and provider sessions and the client's view keep their types.
TypeOK ==
    /\ dup \in [Duplexes -> DuplexRecord] /\ prov \in [Providers -> ProviderRecord]
    /\ ticket \in [used : BOOLEAN, refs : Nat,
                   socket : [Sockets -> {"new", "consumed", "refused", "ready"}]]
    /\ DOMAIN rt = DOMAIN NoRuntime /\ rt.pc \in Loops /\ rt.p \in 0 .. MaxProviders /\ rt.turns \in Nat
    /\ {rt.started, rt.reopenAttempted, rt.broken, rt.complete, rt.ended} \subseteq BOOLEAN
    /\ col \in [pc : CollectPCs, k : 0 .. MaxUtterances, p : 0 .. MaxProviders, d : 0 .. MaxDuplex,
                opens : BOOLEAN, skipped : Seq(Event), turn : Turn,
                out : [whole : BOOLEAN, start : BOOLEAN, audio : BOOLEAN, ref : Nat,
                       outcome : {"ok", "partial", "timeout", "error"}]]
    /\ wire \in [Utterances -> [deltas : Seq(Utterances), whole : BOOLEAN, refs : SUBSET Nat,
                                stray : BOOLEAN, ends : Nat, failed : BOOLEAN, cut : BOOLEAN]]
    /\ app \in [status : {"created", "active", "ended"}, saved : Seq(Row), lost : BOOLEAN]
    /\ client \in [up : BOOLEAN, spoke : 0 .. MaxUtterances, open : BOOLEAN, upsets : 0 .. MaxUpsets]

Upset == client.upsets < MaxUpsets /\ client' = [client EXCEPT !.upsets = @ + 1]

-----------------------------------------------------------------------------
(* The handshake: the ticket is consumed, then session.ready is written *)

\* The row is locked, checked and marked in one transaction.
ConsumeTicket == ~ticket.used

Consume(s) ==
    /\ ticket.socket[s] = "new"
    /\ IF ConsumeTicket
       THEN ticket' = [ticket EXCEPT !.used = TRUE, !.socket[s] = "consumed"]
       ELSE ticket' = [ticket EXCEPT !.socket[s] = "refused"]
    /\ UNCHANGED <<dup, prov, rt, col, wire, app, client>>

\* The ticket is spent whether or not its answer comes back and session.ready is written.
handshake(s) ==
    /\ ticket.socket[s] = "consumed"
    /\ \/ /\ rt.pc = "none" /\ rt' = [rt EXCEPT !.pc = "idle"]
          /\ ticket' = [ticket EXCEPT !.socket[s] = "ready"]
          /\ UNCHANGED client
       \/ /\ Upset /\ ticket' = [ticket EXCEPT !.socket[s] = "refused"]
          /\ UNCHANGED rt
    /\ UNCHANGED <<dup, prov, col, wire, app>>

TicketExpires ==
    /\ ~ticket.used
    /\ ticket' = [ticket EXCEPT !.used = TRUE]
    /\ UNCHANGED <<dup, prov, rt, col, wire, app, client>>

-----------------------------------------------------------------------------
(* The read loop *)

Goto(pc) == rt' = [rt EXCEPT !.pc = pc]
Reading == rt.pc = "idle" /\ client.up
P == prov[rt.p]
Heard(r) == prov' = [prov EXCEPT ![rt.p] = r]
NextDuplex == MaxDuplex - Cardinality(Free) + 1

\* OpenDuplex on behalf of provider session p.
Dials(p) ==
    /\ NextDuplex \in Free
    /\ dup' = [dup EXCEPT ![NextDuplex] = Opened]
    /\ prov' = [prov EXCEPT ![p].d = NextDuplex]

\* A session the vendor does not grant: by fault, or beyond the bound.
DialFails == Upset \/ (NextDuplex \notin Free /\ UNCHANGED client)

\* Activate, then Open.  A failure is announced, and then Start is called on the
\* provider that is not there; a second session.start retries a failed Start.
controlSessionStart ==
    /\ Reading
    /\ \/ /\ ~rt.started /\ app.status \in {"created", "active"}
          /\ app' = [app EXCEPT !.status = "active"]
          /\ rt' = [rt EXCEPT !.pc = "starting", !.started = TRUE, !.p = 1]
          /\ UNCHANGED client
       \/ rt.started /\ P.d = 0 /\ Goto("starting") /\ UNCHANGED <<app, client>>
       \/ ~rt.started /\ Upset /\ Goto("panicked") /\ UNCHANGED app
    /\ UNCHANGED <<dup, prov, ticket, col, wire>>

providerStart ==
    /\ rt.pc = "starting" /\ Goto("idle")
    /\ \/ Dials(rt.p) /\ UNCHANGED client
       \/ DialFails /\ UNCHANGED <<dup, prov>>
    /\ UNCHANGED <<ticket, col, wire, app>>

\* user.speech.start refills the budget for one transparent reopen.
userSpeechStart ==
    /\ Reading /\ rt.started /\ ~client.open /\ client.spoke < MaxUtterances
    /\ client' = [client EXCEPT !.spoke = @ + 1, !.open = TRUE]
    /\ rt' = [rt EXCEPT !.reopenAttempted = FALSE]
    /\ IF P.d = 0 THEN UNCHANGED prov ELSE Heard(SpeechStart(P))
    /\ UNCHANGED <<dup, ticket, col, wire, app>>

MayReopen == ~rt.reopenAttempted

\* A chunk of the microphone.  After a long pause the upstream is probed with a
\* commit, which also commits what an utterance left behind.
handleAudio ==
    /\ Reading \/ rt.pc = "retry"
    /\ rt.started /\ client.open
    /\ Heard(AudioCounted(P))
    /\ \/ /\ AudioAccepted(P) /\ Goto("idle")
          /\ \/ dup' = AudioForwarded(P, client.spoke)
             \/ /\ dup[P.d].hears \notin {0, client.spoke}
                /\ dup' = [AudioForwarded(P, client.spoke) EXCEPT
                              ![P.d].owes = Append(@, dup[P.d].hears), ![P.d].live = FALSE]
       \/ /\ ~AudioAccepted(P) /\ UNCHANGED dup
          /\ rt' = IF rt.pc = "idle" /\ MayReopen
                   THEN [rt EXCEPT !.pc = "reopen", !.reopenAttempted = TRUE]
                   ELSE [rt EXCEPT !.pc = "closing", !.broken = TRUE]
    /\ UNCHANGED <<ticket, col, wire, app, client>>

\* A new provider session takes the place of the old one, which is not closed and
\* whose rows nobody reads again.
Reopen ==
    /\ rt.pc = "reopen"
    /\ \/ /\ rt.p + 1 \in Providers /\ Dials(rt.p + 1)
          /\ rt' = [rt EXCEPT !.pc = "retry", !.p = @ + 1]
          /\ UNCHANGED client
       \/ /\ DialFails \/ (rt.p + 1 \notin Providers /\ UNCHANGED client)
          /\ rt' = [rt EXCEPT !.pc = "closing", !.broken = TRUE]
          /\ UNCHANGED <<dup, prov>>
    /\ UNCHANGED <<ticket, col, wire, app>>

AcceptsTurn == col.pc = "idle"

\* user.speech.end names the turn; it is collected unless one is being collected.
userSpeechEnd ==
    /\ Reading /\ client.open
    /\ client' = [client EXCEPT !.open = FALSE]
    /\ col' = IF AcceptsTurn THEN [IdleCollect EXCEPT !.pc = "turn", !.k = client.spoke] ELSE col
    /\ UNCHANGED <<dup, prov, ticket, rt, wire, app>>

\* client.turn.abort: the accounting is cleared, then the vendor session replaced.
controlTurnAbort ==
    /\ Reading /\ client.open /\ Goto(IF P.d = 0 THEN "idle" ELSE "resetting")
    /\ client.upsets < MaxUpsets
    /\ client' = [client EXCEPT !.open = FALSE, !.upsets = @ + 1]
    /\ Heard(ResetBegins(TurnAbort(P)))
    /\ wire' = IF col.pc = "idle" THEN wire ELSE [wire EXCEPT ![col.k].cut = TRUE]
    /\ UNCHANGED <<dup, ticket, col, app>>

resetDuplex ==
    /\ rt.pc = "resetting" /\ Goto("idle")
    /\ \/ NextDuplex \in Free /\ ResetSwaps(rt.p, NextDuplex) /\ UNCHANGED client
       \/ DialFails /\ UNCHANGED <<dup, prov>>
    /\ UNCHANGED <<ticket, col, wire, app>>

controlInterrupt ==
    /\ Reading /\ rt.started /\ Upset
    /\ Heard(Interrupt(P))
    /\ UNCHANGED <<dup, ticket, rt, col, wire, app>>

controlSessionEnd ==
    /\ Reading /\ rt.started /\ Goto("ending")
    /\ UNCHANGED <<dup, prov, ticket, col, wire, app, client>>

\* Mutant: the rows are read while a turn is still being collected.
CollectedAlways == TRUE

\* collectWG.Wait.
Collected == col.pc = "idle"

\* What End stores; a second End of the session changes nothing.
persistSession ==
    app' = IF app.status = "ended" THEN app
           ELSE [app EXCEPT !.status = "ended", !.saved = prov[rt.p].utterances]

\* A call that was carried out, its answer lost.
AnswerLost ==
    app' = [app EXCEPT !.status = "ended", !.lost = TRUE,
                       !.saved = IF app.status = "ended" THEN @ ELSE prov[rt.p].utterances]

\* When the call fails the read loop goes on.
endSession ==
    /\ rt.pc = "ending" /\ Collected
    /\ \/ /\ persistSession /\ rt' = [rt EXCEPT !.pc = "closing", !.ended = TRUE]
          /\ client' = [client EXCEPT !.up = FALSE]
       \/ Upset /\ Goto("idle") /\ (AnswerLost \/ UNCHANGED app)
    /\ UNCHANGED <<dup, prov, ticket, col, wire>>

\* The client goes, or nothing is heard of it for the idle timeout.
ClientGone ==
    /\ client.up /\ rt.pc # "none"
    /\ client' = [client EXCEPT !.up = FALSE]
    /\ UNCHANGED <<dup, prov, ticket, rt, col, wire, app>>

readFails ==
    /\ rt.pc = "idle" /\ ~client.up /\ Goto("closing")
    /\ UNCHANGED <<dup, prov, ticket, col, wire, app, client>>

\* The upstream first, so that the turn in flight unblocks; then wait for it.
close ==
    /\ rt.pc = "closing"
    /\ rt' = [rt EXCEPT !.pc = "draining"]
    /\ dup' = IF rt.p = 0 THEN dup ELSE CloseDuplex(dup, P.d)
    /\ UNCHANGED <<prov, ticket, col, wire, app, client>>

drained ==
    /\ rt.pc = "draining" /\ Collected
    /\ Goto(IF rt.started /\ ~rt.ended THEN "persist" ELSE "closed")
    /\ UNCHANGED <<dup, prov, ticket, col, wire, app, client>>

persistOnExit ==
    /\ rt.pc = "persist"
    /\ \/ persistSession /\ rt' = [rt EXCEPT !.pc = "closed", !.ended = TRUE] /\ UNCHANGED client
       \/ Upset /\ Goto("closed") /\ (AnswerLost \/ UNCHANGED app)
    /\ UNCHANGED <<dup, prov, ticket, col, wire>>

-----------------------------------------------------------------------------
(* The collect goroutine *)

Step(pc) == col' = [col EXCEPT !.pc = pc]
Mine == prov[col.p]
Sends(w) == wire' = IF client.up THEN [wire EXCEPT ![col.k] = w] ELSE wire

\* noteUserTurn, then HandleClientControl up to the instruction that is queued.
noteUserTurn ==
    /\ col.pc = "turn"
    /\ rt' = [rt EXCEPT !.turns = @ + 1, !.complete = @ \/ (TurnLimit > 0 /\ rt.turns + 1 >= TurnLimit)]
    /\ LET last == TurnLimit > 0 /\ rt.turns + 1 = TurnLimit
           due == P.pending \/ last
       IN IF P.d = 0
          THEN /\ prov' = [prov EXCEPT ![rt.p].pending = due]
               /\ col' = IdleCollect /\ Sends([wire[col.k] EXCEPT !.failed = TRUE])
               /\ UNCHANGED dup
          ELSE /\ prov' = [prov EXCEPT ![rt.p].pending = FALSE]
               /\ dup' = IF due /\ Sendable(P.d) THEN SessionUpdate(P.d) ELSE dup
               /\ col' = [col EXCEPT !.p = rt.p, !.d = P.d,
                            !.pc = IF due /\ Sendable(P.d) THEN "instruct" ELSE "commit"]
               /\ UNCHANGED wire
    /\ UNCHANGED <<ticket, app, client>>

Kept(e) == <<e>>

\* UpdateInstructions: an event that is not the answer is kept for the turn.
UpdateInstructions ==
    /\ col.pc = "instruct"
    /\ \/ /\ dup[col.d].events # <<>> /\ dup' = Recv(col.d)
          /\ IF Received(col.d).kind \in {"updated", "error"} THEN Step("commit")
             ELSE col' = [col EXCEPT !.skipped = @ \o Kept(Received(col.d))]
       \/ Step("commit") /\ UNCHANGED dup
    /\ UNCHANGED <<prov, ticket, rt, wire, app, client>>

\* Mutant: a commit that cannot be sent is tried again.
CommitFailedRetries == col

\* The goroutine answers with an error frame and is done.
CommitFailed == IdleCollect

\* CommitAudio and CommitInputMute, then the turn is being collected.
CommitTurn ==
    /\ col.pc = "commit"
    /\ IF Sendable(Mine.d)
       THEN /\ dup' = [CommitAudio(Mine.d) EXCEPT ![Mine.d].muted = TRUE]
            /\ prov' = [prov EXCEPT ![col.p].muted = TRUE, ![col.p].collecting = TRUE]
            /\ col' = [col EXCEPT !.pc = "wait", !.d = Mine.d]
            /\ UNCHANGED wire
       ELSE /\ col' = CommitFailed /\ Sends([wire[col.k] EXCEPT !.failed = TRUE])
            /\ UNCHANGED <<dup, prov>>
    /\ UNCHANGED <<ticket, rt, app, client>>

\* One event of the turn: collected, and pushed to the client as it comes.
Collects(e) ==
    LET t == Applied(col.turn, e)
        mine == OfThisTurn(col.turn)
        live == mine /\ ~Mine.interrupted
    IN /\ prov' = [prov EXCEPT ![col.p] =
                     CASE e.kind = "asr" -> UserTranscript(Mine)
                       [] mine /\ e.kind = "text" -> AssistantTextDelta(Mine, e.of)
                       [] live /\ e.kind = "audio" -> AssistantAudio(Mine)
                       [] OTHER -> Mine]
       /\ col' = [col EXCEPT !.turn = t, !.opens = live /\ e.kind = "audio" /\ OpensStream(Mine),
                    !.skipped = IF @ = <<>> THEN @ ELSE Tail(@),
                    !.pc = IF t.outcome # "" THEN "closeout"
                           ELSE IF live /\ e.kind = "audio" THEN "audio" ELSE "wait"]
       /\ Sends(IF prov'[col.p].delivered # Mine.delivered
                THEN [wire[col.k] EXCEPT !.deltas = Append(@, e.of)] ELSE wire[col.k])

collectTurn ==
    /\ col.pc = "wait"
    /\ \/ /\ col.skipped # <<>> /\ Collects(Head(col.skipped)) /\ UNCHANGED dup
       \/ /\ col.skipped = <<>> /\ dup[col.d].events # <<>>
          /\ Collects(Received(col.d)) /\ dup' = Recv(col.d)
    /\ UNCHANGED <<ticket, rt, app, client>>

\* The socket is gone: the vendor session is replaced before the turn is closed.
turnReadFails ==
    /\ col.pc = "wait" /\ col.skipped = <<>> /\ ReadOver(col.d)
    /\ col' = [col EXCEPT !.pc = "reset", !.turn.outcome = "error"]
    /\ UNCHANGED <<dup, prov, ticket, rt, wire, app, client>>

\* Mutant: the window of a turn is never over.
WindowOverNever == FALSE

WindowOver == col.pc = "wait" /\ col.skipped = <<>>

turnExpires ==
    /\ WindowOver
    /\ \E o \in ExpiredOutcomes(col.turn) :
          col' = [col EXCEPT !.pc = "closeout", !.turn.outcome = o]
    /\ UNCHANGED <<dup, prov, ticket, rt, wire, app, client>>

\* The lock was released: the start of the stream, then the frames.
streamStart ==
    /\ col.pc = "audio" /\ Step("frames")
    /\ IF col.opens
       THEN /\ ticket' = [ticket EXCEPT !.refs = @ + 1]
            /\ prov' = [prov EXCEPT ![col.p] = ttsStartFrame(Mine, ticket.refs + 1)]
            /\ Sends([wire[col.k] EXCEPT !.refs = @ \union {ticket.refs + 1}])
       ELSE UNCHANGED <<ticket, prov, wire>>
    /\ UNCHANGED <<dup, rt, app, client>>

streamFrames ==
    /\ col.pc = "frames" /\ Step("wait")
    /\ prov' = [prov EXCEPT ![col.p] = frameAudio(Mine)]
    /\ Sends([wire[col.k] EXCEPT !.stray = @ \/ FrameRef(Mine) \notin wire[col.k].refs])
    /\ UNCHANGED <<dup, ticket, rt, app, client>>

resetAfterTurnReadFailure ==
    /\ col.pc = "reset" /\ Step("closeout")
    /\ \/ /\ NextDuplex \in Free
          /\ dup' = CloseDuplex([dup EXCEPT ![NextDuplex] = Opened], Mine.d)
          /\ prov' = [prov EXCEPT ![col.p] = [ResetBegins(@) EXCEPT !.d = NextDuplex]]
          /\ UNCHANGED client
       \/ DialFails /\ prov' = [prov EXCEPT ![col.p] = ResetBegins(@)] /\ UNCHANGED dup
    /\ UNCHANGED <<ticket, rt, wire, app>>

closeout ==
    /\ col.pc = "closeout"
    /\ LET ref == ticket.refs + 1
           out == turnToOutbound(Mine, col.turn, ref)
       IN /\ col' = [col EXCEPT !.pc = "send", !.out = out]
          /\ ticket' = IF out.start THEN [ticket EXCEPT !.refs = ref] ELSE ticket
          /\ prov' = [prov EXCEPT ![col.p] = TurnRecorded(Mine, col.turn, col.k)]
    /\ UNCHANGED <<dup, rt, wire, app, client>>

\* The frames that close the turn.
sendOutbound ==
    /\ col.pc = "send" /\ col' = IdleCollect
    /\ LET o == col.out
           refs == wire[col.k].refs \union (IF o.start THEN {ticket.refs} ELSE {})
       IN Sends([wire[col.k] EXCEPT !.whole = o.whole, !.refs = refs, !.ends = @ + 1,
                   !.stray = @ \/ (o.audio /\ o.ref \notin refs)])
    /\ UNCHANGED <<dup, prov, ticket, rt, app, client>>

-----------------------------------------------------------------------------
(* The specification *)

Others == <<prov, ticket, rt, col, wire, app>>

Vendor ==
    \E d \in Duplexes :
       \/ (VendorHears(d) \/ VendorAnswers(d) \/ VendorUpdates(d)) /\ UNCHANGED <<Others, client>>
       \/ (VendorRefuses(d) \/ SocketDies(d)) /\ Upset /\ UNCHANGED Others

Reader ==
    \/ providerStart \/ Reopen \/ resetDuplex \/ endSession \/ readFails \/ close
    \/ drained \/ persistOnExit \/ (rt.pc = "retry" /\ handleAudio)

Collect ==
    \/ noteUserTurn \/ UpdateInstructions \/ CommitTurn \/ collectTurn \/ turnReadFails
    \/ turnExpires \/ streamStart \/ streamFrames \/ resetAfterTurnReadFailure \/ closeout
    \/ sendOutbound

Client ==
    \/ \E s \in Sockets : Consume(s) \/ handshake(s)
    \/ TicketExpires \/ controlSessionStart \/ userSpeechStart \/ (rt.pc = "idle" /\ handleAudio)
    \/ userSpeechEnd \/ controlTurnAbort \/ controlInterrupt \/ controlSessionEnd \/ ClientGone

Next == Vendor \/ Reader \/ Collect \/ Client

\* The read loop waits for the vendor's session.created with no deadline of its own; only the
\* replacement of a session has one.
Dialling == rt.pc \in {"starting", "reopen"}

\* The gateway's goroutines run, its timers fire and its calls to app-server return;
\* nothing is assumed of the client and of the vendor.
Spec == Init /\ [][Next]_vars /\ WF_vars(~Dialling /\ Reader) /\ WF_vars(Collect)

-----------------------------------------------------------------------------
(* Properties *)

\* A reply reaches the client once and where it belongs.  The client appends every text it receives,
\* and drops a frame that no open ai.tts.start owns: a reply that went out in fragments is not sent
\* again at the end, and every audio frame carries the turn ref of a stream opened for that reply
\* before it, through barge-ins, interrupts, reopens and resets of the vendor session.  Only a
\* recording abandoned during the reply undoes this (resetTurnStreamingState clears the flags of the
\* turn being collected).
ReplyArrivesOnce ==
    \A k \in Utterances : (wire[k].whole /\ wire[k].deltas # <<>>) \/ wire[k].stray => wire[k].cut

\* The transcript's row of an interrupted reply holds exactly the fragments that
\* reached the client, however the interrupt, the next user.speech.start and the
\* fragments interleave.
InterruptedAsHeard ==
    client.up => \A p \in Providers : \A i \in DOMAIN prov[p].utterances :
       LET r == prov[p].utterances[i] IN
       r.interrupted /\ ~wire[r.turn].cut => r.text = wire[r.turn].deltas

\* What app-server stores is everything the session's provider has recorded, a turn
\* that was still being collected when the session ended included, unless a first
\* session.end was carried out and its answer lost.
SavedIsComplete ==
    app.status = "ended" /\ ~app.lost => app.saved = prov[rt.p].utterances

\* The client leaves "processing" at ai.turn.end or at the error frame, and would leave the next turn's
\* at a second one: an utterance gets one of the two, once, although a frame may be sent by the
\* goroutine that refuses a turn, by the one that cannot commit it and by the one that closes it.
AnsweredOnce ==
    \A k \in Utterances : wire[k].ends <= 1 /\ (wire[k].failed => wire[k].ends = 0)

\* The client tells the streams apart by their turn refs: no ref is given to the replies of two
\* utterances, whether its stream is opened as audio arrives or with the frames that close the turn.
StreamsApart ==
    \A k, j \in Utterances : k # j => wire[k].refs \cap wire[j].refs = {}

\* A ticket opens one connection (ConsumeTicket): of the sockets that present it at most one gets past
\* the handshake, and there is a runtime only for that one.
TicketOpensOne ==
    /\ \A s, t \in Sockets : {ticket.socket[s], ticket.socket[t]} \subseteq {"consumed", "ready"} => s = t
    /\ rt.pc # "none" => \E s \in Sockets : ticket.socket[s] = "ready"

\* A turn that was accepted is answered with ai.turn.end or an error frame, or its
\* client is gone, however silent the vendor is: the client leaves "processing".
TurnUnblocks ==
    \A k \in Utterances :
       (col.pc # "idle" /\ col.k = k) ~> (wire[k].ends > 0 \/ wire[k].failed \/ ~client.up)

\* A connection that is torn down ends, its session stored or given up, however silent the vendor is
\* about the turn in flight or a session that is being replaced; unless the read loop is left waiting
\* for good for a vendor that does not answer its dial (Start, under the request's context).
TeardownEnds ==
    <>[]Dialling \/ ((~client.up /\ rt.pc # "panicked") ~> rt.pc \in {"closed", "panicked"})

\* The short wait is for an utterance without audio: nothing of it reached the vendor.
ShortWaitMeansSilence ==
    col.pc = "commit" /\ Sendable(Mine.d) /\ dup[Mine.d].hears = col.k => Mine.uplink

\* A turn that ends because the session is torn down is no dead socket to replace:
\* no vendor session outlives the connection.
NothingOutlivesTheConnection ==
    rt.pc = "closed" /\ rt.p = 1 => \A d \in Duplexes : dup[d].conn # "open"
=============================================================================
