----------------------- MODULE VoiceConnectionProofs ------------------------
(***************************************************************************)
(* The voice connection for every number of utterances, provider and       *)
(* vendor sessions and upsets: what is stored at the end is complete, a    *)
(* reply reaches the client once, an interrupted reply is recorded as it   *)
(* was heard, a turn is answered once, no two replies share a stream, a    *)
(* ticket opens one connection, and the types hold.                        *)
(***************************************************************************)
EXTENDS VoiceConnection, TLAPS

-----------------------------------------------------------------------------
(* The shapes of the records *)

ProviderFields == {"d", "uplink", "muted", "collecting", "pending", "interrupted", "streamedASR",
                   "streamedText", "streamedAudio", "ttsStarted", "ref", "framer", "delivered",
                   "utterances"}
WireFields == {"deltas", "whole", "refs", "stray", "ends", "failed", "cut"}

\* A chunk of audio is pushed exactly when the stream has been opened.
ProviderShape(r) ==
    /\ DOMAIN r = ProviderFields
    /\ r.ref \in Nat /\ r.framer \in Nat
    /\ \E S : r.utterances \in Seq(S)
    /\ r.streamedAudio <=> r.ttsStarted

Shapes ==
    /\ DOMAIN rt = DOMAIN NoRuntime
    /\ DOMAIN col = DOMAIN IdleCollect /\ DOMAIN col.turn = DOMAIN NoTurn /\ col.pc \in CollectPCs
    /\ DOMAIN client = {"up", "spoke", "open", "upsets"} /\ client.spoke \in 0 .. MaxUtterances
    /\ DOMAIN ticket = {"used", "socket", "refs"} /\ ticket.refs \in Nat
    /\ DOMAIN prov = Providers /\ \A p \in Providers : ProviderShape(prov[p])
    /\ DOMAIN wire = Utterances /\ \A k \in Utterances : DOMAIN wire[k] = WireFields

-----------------------------------------------------------------------------
(* The turn being collected *)

Early == {"turn", "instruct", "commit"}
Working == {"wait", "audio", "frames", "reset", "closeout"}

\* No turn has been collected for utterance k yet: it is to come, or being spoken.
Unheard(k) == client.spoke < k \/ (k = client.spoke /\ client.open)

Control ==
    /\ rt.started => rt.p \in Providers
    /\ client.open => rt.started /\ client.spoke \in Utterances
    /\ col.pc # "idle" => rt.started /\ col.k \in Utterances /\ ~Unheard(col.k)
    /\ col.pc \notin {"idle", "turn"} => col.p \in Providers
    /\ col.pc \in Early \union {"wait", "audio", "frames"} => col.turn.outcome = ""

\* Before its turn is collected nothing of a reply is with the client; the
\* whole text is sent at the end of the turn only.
WireInOrder(k) ==
    /\ Unheard(k) \/ (col.k = k /\ col.pc \in Early)
            => wire[k].deltas = <<>> /\ ~wire[k].whole /\ ~wire[k].stray
    /\ col.k = k /\ col.pc \in Early \union Working => ~wire[k].whole
    /\ (wire[k].whole /\ wire[k].deltas # <<>>) \/ wire[k].stray => wire[k].cut

\* A provider session that is not collecting holds nothing of an earlier turn.
Clear(r) ==
    ~r.collecting /\ ~r.streamedText /\ ~r.ttsStarted /\ r.framer = 0 /\ r.delivered = <<>>

ProviderInOrder(p) == ~(col.pc \in Working /\ col.p = p) => Clear(prov[p])

\* The accounting of the turn agrees with what the client has received of it,
\* while there is a client and the learner has not abandoned a recording over it.
WorkInOrder ==
    col.pc \in Working /\ client.up /\ ~wire[col.k].cut =>
        /\ Mine.collecting
        /\ Mine.delivered = wire[col.k].deltas
        /\ wire[col.k].deltas # <<>> => Mine.streamedText
        /\ ~Mine.ttsStarted => Mine.framer = 0
        /\ col.pc \in {"audio", "frames"} => Mine.ttsStarted
        /\ Mine.ttsStarted /\ ~(col.pc = "audio" /\ col.opens) => FrameRef(Mine) \in wire[col.k].refs
        /\ col.pc = "audio" /\ col.opens => Mine.framer = 0

\* What is about to be sent fits what has been.
SendInOrder ==
    col.pc = "send" /\ client.up /\ ~wire[col.k].cut =>
        /\ col.out.whole => wire[col.k].deltas = <<>>
        /\ col.out.audio => \/ col.out.ref \in wire[col.k].refs
                            \/ col.out.start /\ col.out.ref = ticket.refs

\* The row of an interrupted reply is the reply as heard, and its turn is over.
RowInOrder(r) ==
    r.interrupted =>
        /\ r.turn \in Utterances /\ ~Unheard(r.turn)
        /\ ~(col.k = r.turn /\ col.pc \in Early \union Working)
        /\ client.up /\ ~wire[r.turn].cut => r.text = wire[r.turn].deltas

WiresInOrder == \A k \in Utterances : WireInOrder(k)
ProvidersInOrder == \A p \in Providers : ProviderInOrder(p)
RowsInOrder ==
    \A p \in Providers : \A i \in DOMAIN prov[p].utterances : RowInOrder(prov[p].utterances[i])

TurnInv == /\ Shapes /\ Control /\ WiresInOrder /\ ProvidersInOrder /\ WorkInOrder /\ SendInOrder
           /\ RowsInOrder

\* Once the session is stored nothing records for it any more.
SaveInv ==
    /\ DOMAIN rt = DOMAIN NoRuntime /\ DOMAIN app = DOMAIN NewSession
    /\ (app.status = "ended" /\ ~app.lost) =>
            /\ rt.pc \in {"closing", "draining", "closed"} /\ rt.ended /\ col.pc = "idle"
            /\ app.saved = prov[rt.p].utterances

-----------------------------------------------------------------------------
(* What is stored *)

Stored == app.status = "ended" /\ ~app.lost
Over == rt.pc \in {"closing", "draining", "closed"}

\* The rows are read after the last turn.
LastTurnOver == rt.pc = "persist" => col.pc = "idle"

\* While the session is not stored, a step that does not store it is harmless.
LEMMA NotStored ==
    ASSUME DOMAIN rt' = DOMAIN NoRuntime, DOMAIN app' = DOMAIN NewSession, ~Stored'
    PROVE  SaveInv'
BY DEF SaveInv, Stored

\* Actions of the read loop and of the client that need a connection in use.
LEMMA SaveBusy ==
    ASSUME SaveInv, rt.pc \notin {"closing", "draining", "closed"},
           app' = app \/ (app.status # "ended" /\ app' = [app EXCEPT !.status = "active"])
                      \/ AnswerLost,
           DOMAIN rt' = DOMAIN rt
    PROVE  SaveInv'
<1>1. ~Stored
    BY DEF SaveInv, Stored
<1>2. DOMAIN app' = DOMAIN NewSession /\ ~Stored'
    BY <1>1 DEF SaveInv, Stored, AnswerLost, NewSession
<1> QED
    BY <1>2, NotStored DEF SaveInv

\* The session is stored with everything its provider has recorded.
LEMMA SaveStores ==
    ASSUME SaveInv, rt.pc \notin {"closing", "draining", "closed"}, persistSession,
           NEW pc \in {"closing", "closed"}, rt' = [rt EXCEPT !.pc = pc, !.ended = TRUE],
           col.pc = "idle", UNCHANGED <<prov, col>>
    PROVE  SaveInv'
<1>1. /\ DOMAIN rt' = DOMAIN NoRuntime /\ rt'.pc = pc /\ rt'.ended /\ rt'.p = rt.p
    BY DEF SaveInv, NoRuntime
<1>2. CASE app.status = "ended"
    <2>1. app.lost /\ app' = app
        BY <1>2 DEF SaveInv, persistSession
    <2> QED
        BY <1>1, <2>1, NotStored DEF SaveInv, Stored
<1>3. CASE app.status # "ended"
    <2>1. DOMAIN app' = DOMAIN NewSession /\ app'.saved = prov[rt.p].utterances
        BY <1>3 DEF SaveInv, persistSession, NewSession
    <2> QED
        BY <1>1, <2>1 DEF SaveInv
<1> QED
    BY <1>2, <1>3

\* A connection that has ended records nothing more.
LEMMA SaveKeeps ==
    ASSUME SaveInv, app' = app, Stored => (prov' = prov /\ col' = col),
           DOMAIN rt' = DOMAIN rt,
           Stored => (rt'.p = rt.p /\ rt'.ended /\ rt'.pc \in {"closing", "draining", "closed"})
    PROVE  SaveInv'
BY DEF SaveInv, Stored

LEMMA SaveStep == SaveInv /\ LastTurnOver /\ [Next]_vars => SaveInv'
<1> SUFFICES ASSUME SaveInv, LastTurnOver, [Next]_vars PROVE SaveInv'
    OBVIOUS
<1>0. Stored => Over /\ rt.ended /\ col.pc = "idle"
    BY DEF SaveInv, Stored, Over
<1>1. CASE Vendor \/ UNCHANGED vars
    <2>1. UNCHANGED <<prov, rt, col, app>>
        BY <1>1 DEF Vendor, Others, vars
    <2> QED
        BY <1>0, <2>1, SaveKeeps DEF Over
<1>2. CASE Collect
    <2>1. app' = app /\ col.pc # "idle"
        BY <1>2 DEF Collect, noteUserTurn, UpdateInstructions, CommitTurn, collectTurn, turnReadFails,
            turnExpires, WindowOver, streamStart, streamFrames, resetAfterTurnReadFailure, closeout, sendOutbound
    <2>2. DOMAIN rt' = DOMAIN rt
        BY <1>2 DEF Collect, noteUserTurn, UpdateInstructions, CommitTurn, collectTurn, turnReadFails,
            turnExpires, streamStart, streamFrames, resetAfterTurnReadFailure, closeout, sendOutbound
    <2> QED
        BY <1>0, <2>1, <2>2, SaveKeeps
<1>3. CASE \/ \E s \in Sockets : Consume(s) \/ handshake(s)
           \/ TicketExpires \/ ClientGone
    <2>1. UNCHANGED <<prov, col, app>> /\ DOMAIN rt' = DOMAIN rt
        BY <1>3 DEF Consume, handshake, TicketExpires, ClientGone
    <2>2. rt' = rt \/ rt.pc = "none"
        BY <1>3 DEF Consume, handshake, TicketExpires, ClientGone
    <2> QED
        BY <1>0, <2>1, <2>2, SaveKeeps DEF Over
<1>4. CASE \/ controlSessionStart \/ userSpeechStart \/ userSpeechEnd \/ controlTurnAbort
           \/ controlInterrupt \/ controlSessionEnd
    <2>1. rt.pc = "idle" /\ DOMAIN rt' = DOMAIN rt
        BY <1>4 DEF controlSessionStart, userSpeechStart, userSpeechEnd, controlTurnAbort,
            controlInterrupt, controlSessionEnd, Reading, Goto
    <2>2. app' = app \/ (app.status # "ended" /\ app' = [app EXCEPT !.status = "active"])
        BY <1>4 DEF controlSessionStart, userSpeechStart, userSpeechEnd, controlTurnAbort,
            controlInterrupt, controlSessionEnd
    <2> QED
        BY <2>1, <2>2, SaveBusy
<1>5. CASE providerStart \/ handleAudio \/ Reopen \/ resetDuplex \/ readFails
    <2>1. rt.pc \in {"starting", "idle", "retry", "reopen", "resetting"} /\ DOMAIN rt' = DOMAIN rt /\ app' = app
        BY <1>5 DEF providerStart, handleAudio, Reopen, resetDuplex, readFails, Reading, Goto
    <2> QED
        BY <2>1, SaveBusy
<1>6. CASE endSession
    <2>1. CASE persistSession /\ rt' = [rt EXCEPT !.pc = "closing", !.ended = TRUE]
        BY <1>6, <2>1, SaveStores DEF endSession, Collected
    <2>2. CASE Goto("idle") /\ (AnswerLost \/ UNCHANGED app)
        BY <1>6, <2>2, SaveBusy DEF endSession, Goto
    <2> QED
        BY <1>6, <2>1, <2>2 DEF endSession
<1>7. CASE close
    <2>1. UNCHANGED <<prov, col, app>> /\ DOMAIN rt' = DOMAIN rt
        BY <1>7 DEF close
    <2>2. Stored => rt'.p = rt.p /\ rt'.ended /\ rt'.pc = "draining"
        BY <1>7, <1>0 DEF close, SaveInv, NoRuntime
    <2> QED
        BY <2>1, <2>2, SaveKeeps
<1>8. CASE drained
    <2>1. UNCHANGED <<prov, col, app>> /\ DOMAIN rt' = DOMAIN rt
        BY <1>8 DEF drained, Goto
    <2>2. Stored => rt'.p = rt.p /\ rt'.ended /\ rt'.pc = "closed"
        BY <1>8, <1>0 DEF drained, SaveInv, NoRuntime, Goto
    <2> QED
        BY <2>1, <2>2, SaveKeeps
<1>9. CASE persistOnExit
    <2>1. CASE persistSession /\ rt' = [rt EXCEPT !.pc = "closed", !.ended = TRUE]
        BY <1>9, <2>1, SaveStores DEF persistOnExit, LastTurnOver
    <2>2. CASE Goto("closed") /\ (AnswerLost \/ UNCHANGED app)
        BY <1>9, <2>2, SaveBusy DEF persistOnExit, Goto
    <2> QED
        BY <1>9, <2>1, <2>2 DEF persistOnExit
<1> QED
    BY <1>1, <1>2, <1>3, <1>4, <1>5, <1>6, <1>7, <1>8, <1>9 DEF Next, Reader, Client

LEMMA LastTurnStep == SaveInv /\ LastTurnOver /\ [Next]_vars => LastTurnOver'
<1> SUFFICES ASSUME SaveInv, LastTurnOver, [Next]_vars, rt'.pc = "persist" PROVE col'.pc = "idle"
    BY DEF LastTurnOver
<1>0. DOMAIN rt = DOMAIN NoRuntime
    BY DEF SaveInv
<1>1. CASE drained
    BY <1>1 DEF drained, Collected
<1>2. CASE Vendor \/ UNCHANGED vars
    BY <1>2 DEF Vendor, Others, vars, LastTurnOver
<1>3. CASE Collect
    <2>1. rt'.pc = rt.pc /\ col.pc # "idle"
        BY <1>0, <1>3 DEF Collect, noteUserTurn, UpdateInstructions, CommitTurn, collectTurn, turnReadFails,
            turnExpires, WindowOver, streamStart, streamFrames, resetAfterTurnReadFailure, closeout, sendOutbound, NoRuntime
    <2> QED
        BY <2>1 DEF LastTurnOver
<1>4. CASE \/ \E s \in Sockets : Consume(s) \/ handshake(s)
           \/ TicketExpires \/ ClientGone
    BY <1>0, <1>4 DEF Consume, handshake, TicketExpires, ClientGone, LastTurnOver, NoRuntime
<1>5. CASE \/ controlSessionStart \/ userSpeechStart \/ userSpeechEnd \/ controlTurnAbort
           \/ controlInterrupt \/ controlSessionEnd
    <2>1. CASE controlSessionStart \/ controlSessionEnd
        <3>1. \/ rt' = [rt EXCEPT !.pc = "starting", !.started = TRUE, !.p = 1]
              \/ Goto("starting") \/ Goto("panicked") \/ Goto("ending")
            BY <2>1, Zenon DEF controlSessionStart, controlSessionEnd
        <3> QED
            BY <1>0, <3>1 DEF Goto, NoRuntime
    <2>2. CASE userSpeechStart \/ userSpeechEnd \/ controlInterrupt
        <3>1. rt' = rt \/ rt' = [rt EXCEPT !.reopenAttempted = FALSE]
            BY <2>2, Zenon DEF userSpeechStart, userSpeechEnd, controlInterrupt
        <3>2. rt.pc = "idle"
            BY <2>2, Zenon DEF userSpeechStart, userSpeechEnd, controlInterrupt, Reading
        <3> QED
            BY <1>0, <3>1, <3>2 DEF NoRuntime
    <2>3. CASE controlTurnAbort
        BY <1>0, <2>3 DEF controlTurnAbort, Reading, Goto, NoRuntime
    <2> QED
        BY <1>5, <2>1, <2>2, <2>3
<1>6. CASE providerStart \/ handleAudio \/ Reopen \/ resetDuplex \/ readFails
    <2>1. CASE providerStart \/ resetDuplex \/ readFails
        BY <1>0, <2>1 DEF providerStart, resetDuplex, readFails, Goto, NoRuntime
    <2>2. CASE handleAudio
        <3>1. \/ Goto("idle")
              \/ rt' = [rt EXCEPT !.pc = "reopen", !.reopenAttempted = TRUE]
              \/ rt' = [rt EXCEPT !.pc = "closing", !.broken = TRUE]
            BY <2>2, Zenon DEF handleAudio
        <3> QED
            BY <1>0, <3>1 DEF Goto, NoRuntime
    <2>3. CASE Reopen
        BY <1>0, <2>3 DEF Reopen, NoRuntime
    <2> QED
        BY <1>6, <2>1, <2>2, <2>3
<1>7. CASE endSession \/ close \/ persistOnExit
    BY <1>0, <1>7 DEF endSession, close, persistOnExit, Goto, NoRuntime
<1> QED
    BY <1>1, <1>2, <1>3, <1>4, <1>5, <1>6, <1>7 DEF Next, Reader, Client

\* What app-server stores is everything the provider session has recorded,
\* the turn that was in flight when the session ended included.
THEOREM SavesAreComplete == Spec => []SavedIsComplete
<1>1. Init => SaveInv /\ LastTurnOver
    BY DEF Init, SaveInv, LastTurnOver, NewSession, NoRuntime
<1>2. SaveInv => SavedIsComplete
    BY DEF SaveInv, SavedIsComplete
<1> QED
    BY <1>1, <1>2, SaveStep, LastTurnStep, PTL DEF Spec

-----------------------------------------------------------------------------
(* Steps beside the turn: the read loop, the vendor, the handshake *)

SameTurn(r, q) ==
    /\ q.ref = r.ref /\ q.framer = r.framer /\ q.collecting = r.collecting
    /\ q.streamedText = r.streamedText /\ q.ttsStarted = r.ttsStarted /\ q.delivered = r.delivered

\* A provider session keeps its turn, or is cleared of one that is not collected
\* or has been abandoned.
Undisturbed(p) ==
    /\ ProviderShape(prov'[p]) /\ prov'[p].utterances = prov[p].utterances
    /\ \/ SameTurn(prov[p], prov'[p])
       \/ Clear(prov'[p]) /\ ~(col.pc \in Working /\ col.p = p /\ ~wire'[col.k].cut)

\* What the client has received stays; at most a recording is abandoned.
WireKept(k) ==
    /\ DOMAIN wire'[k] = WireFields
    /\ wire'[k].deltas = wire[k].deltas /\ wire'[k].whole = wire[k].whole
    /\ wire'[k].refs = wire[k].refs /\ wire'[k].stray = wire[k].stray
    /\ wire[k].cut => wire'[k].cut

BesideTheTurn ==
    /\ col' = col
    /\ DOMAIN rt' = DOMAIN NoRuntime
    /\ rt'.started => rt'.p \in Providers
    /\ rt.started => rt'.started
    /\ DOMAIN client' = {"up", "spoke", "open", "upsets"}
    /\ client'.spoke \in 0 .. MaxUtterances
    /\ client'.open => rt'.started /\ client'.spoke \in Utterances
    /\ client'.up => client.up
    /\ \A k \in Utterances : Unheard(k)' => Unheard(k)
    /\ DOMAIN ticket' = {"used", "socket", "refs"} /\ ticket'.refs = ticket.refs
    /\ DOMAIN prov' = Providers /\ \A p \in Providers : Undisturbed(p)
    /\ DOMAIN wire' = Utterances /\ \A k \in Utterances : WireKept(k)

LEMMA BesideStep == TurnInv /\ BesideTheTurn => TurnInv'
<1> SUFFICES ASSUME TurnInv, BesideTheTurn PROVE TurnInv'
    OBVIOUS
<1>1. Shapes'
    BY DEF TurnInv, Shapes, BesideTheTurn, Undisturbed, WireKept
<1>2. Control'
    BY DEF TurnInv, Control, BesideTheTurn
<1>3. WiresInOrder'
    <2> SUFFICES ASSUME NEW k \in Utterances PROVE WireInOrder(k)'
        BY DEF WiresInOrder
    <2>1. WireInOrder(k) /\ WireKept(k) /\ (Unheard(k)' => Unheard(k)) /\ col' = col
        BY DEF TurnInv, WiresInOrder, BesideTheTurn
    <2> QED
        BY <2>1 DEF WireInOrder, WireKept
<1>4. ProvidersInOrder'
    <2> SUFFICES ASSUME NEW p \in Providers PROVE ProviderInOrder(p)'
        BY DEF ProvidersInOrder
    <2>1. ProviderInOrder(p) /\ Undisturbed(p) /\ col' = col
        BY DEF TurnInv, ProvidersInOrder, BesideTheTurn
    <2> QED
        BY <2>1 DEF ProviderInOrder, Undisturbed, SameTurn, Clear
<1>5. WorkInOrder'
    <2> SUFFICES ASSUME col.pc \in Working, client'.up, ~wire'[col.k].cut PROVE WorkInOrder'
        BY DEF WorkInOrder, BesideTheTurn
    <2>1. col.k \in Utterances /\ col.p \in Providers /\ col' = col /\ client.up
        BY DEF TurnInv, Control, Working, BesideTheTurn
    <2>2. WireKept(col.k) /\ Undisturbed(col.p)
        BY <2>1 DEF BesideTheTurn
    <2>3. ~wire[col.k].cut /\ SameTurn(prov[col.p], prov'[col.p])
        BY <2>1, <2>2 DEF WireKept, Undisturbed
    <2>4. FrameRef(prov'[col.p]) = FrameRef(prov[col.p])
        <3>1. DOMAIN prov[col.p] = ProviderFields /\ DOMAIN prov'[col.p] = ProviderFields
            BY <2>1, <2>2 DEF TurnInv, Shapes, ProviderShape, Undisturbed
        <3> QED
            BY <2>3, <3>1 DEF FrameRef, frameAudio, SameTurn, ProviderFields
    <2> QED
        BY <2>1, <2>2, <2>3, <2>4 DEF TurnInv, WorkInOrder, WireKept, SameTurn, Mine
<1>6. SendInOrder'
    <2> SUFFICES ASSUME col.pc = "send", client'.up, ~wire'[col.k].cut PROVE SendInOrder'
        BY DEF SendInOrder, BesideTheTurn
    <2>1. col.k \in Utterances /\ col' = col /\ client.up /\ ticket'.refs = ticket.refs
        BY DEF TurnInv, Control, BesideTheTurn
    <2>2. WireKept(col.k)
        BY <2>1 DEF BesideTheTurn
    <2> QED
        BY <2>1, <2>2 DEF TurnInv, SendInOrder, WireKept
<1>7. RowsInOrder'
    <2> SUFFICES ASSUME NEW p \in Providers, NEW i \in DOMAIN prov'[p].utterances
                 PROVE  RowInOrder(prov[p].utterances[i])'
        BY DEF RowsInOrder
    <2>1. prov'[p].utterances = prov[p].utterances
        BY DEF BesideTheTurn, Undisturbed
    <2>2. PICK r : r = prov[p].utterances[i]
        OBVIOUS
    <2>3. RowInOrder(r)
        BY <2>1, <2>2 DEF TurnInv, RowsInOrder
    <2>4. r.interrupted => RowInOrder(r)'
        <3> SUFFICES ASSUME r.interrupted PROVE RowInOrder(r)'
            OBVIOUS
        <3>1. r.turn \in Utterances
            BY <2>3 DEF RowInOrder
        <3>2. WireKept(r.turn) /\ (Unheard(r.turn)' => Unheard(r.turn)) /\ col' = col /\ (client'.up => client.up)
            BY <3>1 DEF BesideTheTurn
        <3> QED
            BY <2>3, <3>2 DEF RowInOrder, WireKept
    <2> QED
        BY <2>1, <2>2, <2>4 DEF RowInOrder
<1> QED
    BY <1>1, <1>2, <1>3, <1>4, <1>5, <1>6, <1>7 DEF TurnInv

ClientKept ==
    /\ DOMAIN client' = {"up", "spoke", "open", "upsets"} /\ client'.spoke = client.spoke
    /\ client'.open = client.open /\ (client'.up => client.up)
RuntimeKept ==
    DOMAIN rt' = DOMAIN NoRuntime /\ (rt'.started => rt'.p \in Providers) /\ (rt.started => rt'.started)
TicketKept == DOMAIN ticket' = {"used", "socket", "refs"} /\ ticket'.refs = ticket.refs
ProvidersKept == DOMAIN prov' = Providers /\ \A p \in Providers : Undisturbed(p)

LEMMA ClientUpset == ASSUME TurnInv, client' = client \/ Upset PROVE ClientKept /\ client'.up = client.up
BY DEF TurnInv, Shapes, Upset, ClientKept

LEMMA RuntimeUnmoved == ASSUME TurnInv, UNCHANGED rt PROVE RuntimeKept
BY DEF TurnInv, Shapes, Control, RuntimeKept

LEMMA RuntimeGoes == ASSUME TurnInv, NEW pc, Goto(pc) PROVE RuntimeKept
BY DEF TurnInv, Shapes, Control, RuntimeKept, Goto, NoRuntime

LEMMA TicketUnmoved == ASSUME TurnInv, UNCHANGED ticket PROVE TicketKept
BY DEF TurnInv, Shapes, TicketKept

LEMMA ProvidersUnmoved == ASSUME TurnInv, UNCHANGED prov PROVE ProvidersKept
BY DEF TurnInv, Shapes, ProvidersKept, Undisturbed, SameTurn

LEMMA OneProvider ==
    ASSUME TurnInv, NEW p \in Providers, NEW q, prov' = [prov EXCEPT ![p] = q],
           ProviderShape(q), q.utterances = prov[p].utterances,
           \/ SameTurn(prov[p], q)
           \/ Clear(q) /\ ~(col.pc \in Working /\ col.p = p /\ ~wire'[col.k].cut)
    PROVE  ProvidersKept
<1>1. DOMAIN prov = Providers /\ \A x \in Providers : ProviderShape(prov[x])
    BY DEF TurnInv, Shapes
<1>2. DOMAIN prov' = Providers /\ prov'[p] = q /\ \A x \in Providers \ {p} : prov'[x] = prov[x]
    BY <1>1
<1> QED
    BY <1>1, <1>2 DEF ProvidersKept, Undisturbed, SameTurn

LEMMA Beside ==
    ASSUME TurnInv, ClientKept, RuntimeKept, TicketKept, ProvidersKept, UNCHANGED <<col, wire>>
    PROVE  TurnInv'
<1>1. \A k \in Utterances : WireKept(k)
    BY DEF WireKept, TurnInv, Shapes
<1>2. \A k \in Utterances : Unheard(k)' => Unheard(k)
    BY DEF Unheard, ClientKept
<1>3. /\ client'.spoke \in 0 .. MaxUtterances /\ DOMAIN wire' = Utterances
      /\ (client'.open => rt'.started /\ client'.spoke \in Utterances)
    BY DEF TurnInv, Shapes, Control, ClientKept, RuntimeKept
<1>4. BesideTheTurn
    BY <1>1, <1>2, <1>3 DEF BesideTheTurn, ClientKept, RuntimeKept, TicketKept, ProvidersKept
<1> QED
    BY <1>4, BesideStep

\* Changes of a provider session that are not about the turn.
LEMMA SideFields ==
    ASSUME NEW r, ProviderShape(r), NEW v, NEW w,
           NEW q, \/ q = [r EXCEPT !.d = v] \/ q = [r EXCEPT !.muted = v]
                  \/ q = [r EXCEPT !.pending = v] \/ q = [r EXCEPT !.interrupted = v]
                  \/ q = [r EXCEPT !.muted = v, !.uplink = w]
                  \/ q = [r EXCEPT !.muted = v, !.d = w]
    PROVE  ProviderShape(q) /\ q.utterances = r.utterances /\ SameTurn(r, q)
<1>1. DOMAIN q = ProviderFields
    BY DEF ProviderShape, ProviderFields
<1>2. q.utterances = r.utterances /\ SameTurn(r, q) /\ q.streamedAudio = r.streamedAudio
    BY DEF ProviderShape, ProviderFields, SameTurn
<1> QED
    BY <1>1, <1>2 DEF ProviderShape, SameTurn

LEMMA SideField ==
    ASSUME TurnInv, NEW p \in Providers, NEW v, NEW w,
           \/ prov' = [prov EXCEPT ![p].d = v] \/ prov' = [prov EXCEPT ![p].muted = v]
           \/ prov' = [prov EXCEPT ![p].pending = v]
           \/ prov' = [prov EXCEPT ![p] = [prov[p] EXCEPT !.interrupted = v]]
           \/ prov' = [prov EXCEPT ![p] = [prov[p] EXCEPT !.muted = v]]
           \/ prov' = [prov EXCEPT ![p] = [prov[p] EXCEPT !.muted = v, !.uplink = w]]
           \/ prov' = [prov EXCEPT ![p] = [[prov[p] EXCEPT !.muted = v] EXCEPT !.d = w]]
    PROVE  ProvidersKept
<1>1. ProviderShape(prov[p])
    BY DEF TurnInv, Shapes
<1>2. PICK q : /\ prov' = [prov EXCEPT ![p] = q]
               /\ \/ q = [prov[p] EXCEPT !.d = v] \/ q = [prov[p] EXCEPT !.muted = v]
                  \/ q = [prov[p] EXCEPT !.pending = v] \/ q = [prov[p] EXCEPT !.interrupted = v]
                  \/ q = [prov[p] EXCEPT !.muted = v, !.uplink = w]
                  \/ q = [prov[p] EXCEPT !.muted = v, !.d = w]
    OBVIOUS
<1>3. ProviderShape(q) /\ q.utterances = prov[p].utterances /\ SameTurn(prov[p], q)
    BY <1>1, <1>2, SideFields, ZenonT(30)
<1> QED
    BY <1>2, <1>3, OneProvider

LEMMA ResetClears ==
    ASSUME NEW r, ProviderShape(r), NEW q, NEW v,
           q = resetTurnStreamingState(r) \/ q = [resetTurnStreamingState(r) EXCEPT !.muted = v]
    PROVE  ProviderShape(q) /\ q.utterances = r.utterances /\ Clear(q)
<1>1. DOMAIN q = ProviderFields
    BY DEF ProviderShape, ProviderFields, resetTurnStreamingState
<1>2. /\ q.utterances = r.utterances /\ q.ref = 0 /\ q.framer = 0 /\ q.collecting = FALSE
      /\ q.streamedText = FALSE /\ q.streamedAudio = FALSE /\ q.ttsStarted = FALSE /\ q.delivered = <<>>
    BY DEF ProviderShape, ProviderFields, resetTurnStreamingState
<1> QED
    BY <1>1, <1>2 DEF ProviderShape, Clear

\* The vendor, the handshake and the end of the connection leave the turn alone.
LEMMA OutsideStep ==
    ASSUME TurnInv,
           \/ Vendor \/ UNCHANGED vars \/ TicketExpires \/ ClientGone
           \/ \E s \in Sockets : Consume(s) \/ handshake(s)
           \/ controlSessionEnd \/ endSession \/ readFails \/ close \/ drained \/ persistOnExit
    PROVE  TurnInv'
<1>1. UNCHANGED <<prov, col, wire>>
    BY DEF Vendor, Others, vars, TicketExpires, ClientGone, Consume, handshake, controlSessionEnd,
        endSession, readFails, close, drained, persistOnExit
<1>2. ClientKept
    <2>1. client' = client \/ Upset \/ client' = [client EXCEPT !.up = FALSE]
        BY Zenon DEF Vendor, Others, vars, TicketExpires, ClientGone, Consume, handshake, controlSessionEnd,
            endSession, readFails, close, drained, persistOnExit
    <2>2. CASE client' = [client EXCEPT !.up = FALSE]
        BY <2>2 DEF TurnInv, Shapes, ClientKept
    <2> QED
        BY <2>1, <2>2, ClientUpset
<1>3. TicketKept
    <2>1. \/ ticket' = ticket \/ ticket' = [ticket EXCEPT !.used = TRUE]
          \/ \E s \in Sockets : \E x :
                \/ ticket' = [ticket EXCEPT !.used = TRUE, !.socket[s] = x]
                \/ ticket' = [ticket EXCEPT !.socket[s] = x]
        BY Zenon DEF Vendor, Others, vars, TicketExpires, ClientGone, Consume, handshake, controlSessionEnd,
            endSession, readFails, close, drained, persistOnExit
    <2> QED
        BY <2>1 DEF TurnInv, Shapes, TicketKept
<1>4. RuntimeKept
    <2>1. \/ rt' = rt \/ \E pc : Goto(pc)
          \/ \E pc : rt' = [rt EXCEPT !.pc = pc, !.ended = TRUE]
        BY Zenon DEF Vendor, Others, vars, TicketExpires, ClientGone, Consume, handshake, controlSessionEnd,
            endSession, readFails, close, drained, persistOnExit, Goto
    <2>2. CASE \E pc : rt' = [rt EXCEPT !.pc = pc, !.ended = TRUE]
        BY <2>2 DEF TurnInv, Shapes, Control, RuntimeKept, NoRuntime
    <2> QED
        BY <2>1, <2>2, RuntimeUnmoved, RuntimeGoes
<1>5. ProvidersKept
    BY <1>1, ProvidersUnmoved
<1> QED
    BY <1>1, <1>2, <1>3, <1>4, <1>5, Beside

\* The read loop opens, replaces and feeds provider sessions beside the turn.
LEMMA LoopStep ==
    ASSUME TurnInv,
           controlSessionStart \/ providerStart \/ handleAudio \/ Reopen \/ resetDuplex \/ controlInterrupt,
           rt.pc \in {"starting", "reopen", "resetting"} => rt.started
    PROVE  TurnInv'
<1>1. UNCHANGED <<ticket, col, wire>>
    BY DEF controlSessionStart, providerStart, handleAudio, Reopen, resetDuplex, controlInterrupt
<1>2. ClientKept
    <2>1. client' = client \/ Upset
        BY Zenon DEF controlSessionStart, providerStart, handleAudio, Reopen, resetDuplex,
            controlInterrupt, DialFails
    <2> QED
        BY <2>1, ClientUpset
<1>3. RuntimeKept
    <2>1. \/ rt' = rt \/ (\E pc : Goto(pc))
          \/ rt' = [rt EXCEPT !.pc = "starting", !.started = TRUE, !.p = 1]
          \/ rt' = [rt EXCEPT !.pc = "reopen", !.reopenAttempted = TRUE]
          \/ rt' = [rt EXCEPT !.pc = "closing", !.broken = TRUE]
          \/ rt.p + 1 \in Providers /\ rt' = [rt EXCEPT !.pc = "retry", !.p = @ + 1]
        BY Zenon DEF controlSessionStart, providerStart, handleAudio, Reopen, resetDuplex, controlInterrupt
    <2>2. 1 \in Providers
        BY ProviderAssumption DEF Providers
    <2>3. CASE \E pc : Goto(pc)
        BY <2>3, RuntimeGoes
    <2> QED
        BY <2>1, <2>2, <2>3 DEF TurnInv, Shapes, Control, RuntimeKept, NoRuntime
<1>4. ProvidersKept
    <2>1. rt.started => rt.p \in Providers
        BY DEF TurnInv, Control
    <2>2. \/ prov' = prov
          \/ /\ rt.started
             /\ \E v, w :
                  \/ prov' = [prov EXCEPT ![rt.p].d = v]
                  \/ prov' = [prov EXCEPT ![rt.p] = [prov[rt.p] EXCEPT !.interrupted = v]]
                  \/ prov' = [prov EXCEPT ![rt.p] = [prov[rt.p] EXCEPT !.muted = v, !.uplink = w]]
          \/ rt.p + 1 \in Providers /\ \E v : prov' = [prov EXCEPT ![rt.p + 1].d = v]
        <3>1. CASE controlSessionStart
            BY <3>1 DEF controlSessionStart
        <3>2. CASE providerStart \/ resetDuplex
            <4>1. rt.started
                BY <3>2 DEF providerStart, resetDuplex
            <4>2. prov' = prov \/ \E v : prov' = [prov EXCEPT ![rt.p].d = v]
                BY <3>2, Zenon DEF providerStart, resetDuplex, Dials, ResetSwaps
            <4> QED
                BY <4>1, <4>2
        <3>3. CASE handleAudio
            BY <3>3, Zenon DEF handleAudio, Heard, AudioCounted, P
        <3>4. CASE Reopen
            BY <3>4, Zenon DEF Reopen, Dials
        <3>5. CASE controlInterrupt
            BY <3>5, Zenon DEF controlInterrupt, Heard, Interrupt, P
        <3> QED
            BY <3>1, <3>2, <3>3, <3>4, <3>5
    <2>3. CASE prov' = prov
        BY <2>3, ProvidersUnmoved
    <2>4. ASSUME rt.started, NEW v, NEW w,
                 \/ prov' = [prov EXCEPT ![rt.p].d = v]
                 \/ prov' = [prov EXCEPT ![rt.p] = [prov[rt.p] EXCEPT !.interrupted = v]]
                 \/ prov' = [prov EXCEPT ![rt.p] = [prov[rt.p] EXCEPT !.muted = v, !.uplink = w]]
          PROVE  ProvidersKept
        <3>1. PICK p \in Providers : p = rt.p
            BY <2>1, <2>4
        <3>2. CASE prov' = [prov EXCEPT ![p].d = v]
            BY <3>2, SideField
        <3>3. CASE prov' = [prov EXCEPT ![p] = [prov[p] EXCEPT !.interrupted = v]]
            BY <3>3, SideField
        <3>4. CASE prov' = [prov EXCEPT ![p] = [prov[p] EXCEPT !.muted = v, !.uplink = w]]
            BY <3>4, SideField
        <3> QED
            BY <2>4, <3>1, <3>2, <3>3, <3>4
    <2>5. ASSUME rt.p + 1 \in Providers, NEW v, prov' = [prov EXCEPT ![rt.p + 1].d = v]
          PROVE  ProvidersKept
        <3>1. PICK p \in Providers : p = rt.p + 1
            BY <2>5
        <3> QED
            BY <2>5, <3>1, SideField
    <2> QED
        BY <2>2, <2>3, <2>4, <2>5
<1> QED
    BY <1>1, <1>2, <1>3, <1>4, TicketUnmoved, Beside

\* user.speech.start: the accounting is reset unless a reply is being collected.
LEMMA SpeechStartStep == TurnInv /\ userSpeechStart => TurnInv'
<1> SUFFICES ASSUME TurnInv, userSpeechStart PROVE TurnInv'
    OBVIOUS
<1>1. UNCHANGED <<ticket, col, wire>> /\ rt.started /\ ~client.open /\ client.up
    BY DEF userSpeechStart, Reading
<1>2. rt.p \in Providers /\ ProviderShape(prov[rt.p])
    BY <1>1 DEF TurnInv, Control, Shapes
<1>3. RuntimeKept /\ rt'.started
    BY <1>1 DEF userSpeechStart, TurnInv, Shapes, Control, RuntimeKept, NoRuntime
<1>4. /\ DOMAIN client' = {"up", "spoke", "open", "upsets"} /\ client'.up = client.up
      /\ client'.spoke = client.spoke + 1 /\ client'.open
    BY DEF userSpeechStart, TurnInv, Shapes
<1>5. client'.spoke \in 0 .. MaxUtterances /\ client'.spoke \in Utterances
    BY <1>4, DuplexAssumption DEF userSpeechStart, TurnInv, Shapes, Utterances
<1>6. \A k \in Utterances : Unheard(k)' => Unheard(k)
    BY <1>4, DuplexAssumption DEF Unheard, Utterances, TurnInv, Shapes
<1>7. ProvidersKept
    <2>1. CASE prov' = prov
        BY <2>1, ProvidersUnmoved
    <2>2. CASE prov' = [prov EXCEPT ![rt.p] = SpeechStart(prov[rt.p])] /\ prov[rt.p].collecting
        <3>1. prov' = [prov EXCEPT ![rt.p] = prov[rt.p]] /\ SameTurn(prov[rt.p], prov[rt.p])
            BY <2>2 DEF SpeechStart, SameTurn
        <3> QED
            BY <1>2, <3>1, OneProvider
    <2>3. CASE prov' = [prov EXCEPT ![rt.p] = SpeechStart(prov[rt.p])] /\ ~prov[rt.p].collecting
        <3>1. PICK q : q = resetTurnStreamingState(prov[rt.p])
            OBVIOUS
        <3>2. prov' = [prov EXCEPT ![rt.p] = q]
            BY <2>3, <3>1 DEF SpeechStart
        <3>3. ProviderShape(q) /\ q.utterances = prov[rt.p].utterances /\ Clear(q)
            BY <1>2, <3>1, ResetClears
        <3>4. ~(col.pc \in Working /\ col.p = rt.p /\ ~wire'[col.k].cut)
            BY <1>1, <2>3 DEF TurnInv, WorkInOrder, Mine
        <3> QED
            BY <1>2, <3>2, <3>3, <3>4, OneProvider
    <2> QED
        BY <2>1, <2>2, <2>3 DEF userSpeechStart, Heard, P
<1>8. \A k \in Utterances : WireKept(k)
    BY <1>1 DEF WireKept, TurnInv, Shapes
<1>9. DOMAIN wire' = Utterances /\ TicketKept
    BY <1>1, TicketUnmoved DEF TurnInv, Shapes
<1>10. BesideTheTurn
    BY <1>1, <1>3, <1>4, <1>5, <1>6, <1>7, <1>8, <1>9
        DEF BesideTheTurn, RuntimeKept, TicketKept, ProvidersKept
<1> QED
    BY <1>10, BesideStep

\* client.turn.abort: the accounting goes, and the turn in flight is marked.
LEMMA TurnAbortStep == TurnInv /\ controlTurnAbort => TurnInv'
<1> SUFFICES ASSUME TurnInv, controlTurnAbort PROVE TurnInv'
    OBVIOUS
<1>1. UNCHANGED <<ticket, col>> /\ client.open /\ rt.started /\ rt.p \in Providers
    BY DEF controlTurnAbort, TurnInv, Control
<1>2. ProviderShape(prov[rt.p]) /\ (col.pc # "idle" => col.k \in Utterances)
    BY <1>1 DEF TurnInv, Control, Shapes
<1>3. RuntimeKept
    BY RuntimeGoes DEF controlTurnAbort
<1>4. /\ DOMAIN client' = {"up", "spoke", "open", "upsets"} /\ client'.up = client.up
      /\ client'.spoke = client.spoke /\ ~client'.open
    BY DEF controlTurnAbort, TurnInv, Shapes
<1>5. client'.spoke \in 0 .. MaxUtterances /\ \A k \in Utterances : Unheard(k)' => Unheard(k)
    BY <1>4 DEF Unheard, TurnInv, Shapes
<1>6. DOMAIN wire' = Utterances /\ \A k \in Utterances : WireKept(k)
    <2>1. CASE col.pc = "idle"
        BY <2>1 DEF controlTurnAbort, WireKept, TurnInv, Shapes
    <2>2. CASE col.pc # "idle"
        <3>1. wire' = [wire EXCEPT ![col.k].cut = TRUE]
            BY <2>2 DEF controlTurnAbort
        <3> QED
            BY <1>2, <2>2, <3>1 DEF WireKept, TurnInv, Shapes, WireFields
    <2> QED
        BY <2>1, <2>2
<1>7. ProvidersKept
    <2>1. PICK q : q = [resetTurnStreamingState(prov[rt.p]) EXCEPT !.muted = FALSE]
        OBVIOUS
    <2>2. prov' = [prov EXCEPT ![rt.p] = q]
        BY <2>1 DEF controlTurnAbort, Heard, ResetBegins, TurnAbort, P
    <2>3. ProviderShape(q) /\ q.utterances = prov[rt.p].utterances /\ Clear(q)
        BY <1>2, <2>1, ResetClears
    <2>4. col.pc \in Working => wire'[col.k].cut
        <3> SUFFICES ASSUME col.pc \in Working PROVE wire'[col.k].cut
            OBVIOUS
        <3>1. col.pc # "idle"
            BY DEF Working
        <3>2. wire' = [wire EXCEPT ![col.k].cut = TRUE]
            BY <3>1 DEF controlTurnAbort
        <3> QED
            BY <1>2, <3>1, <3>2 DEF TurnInv, Shapes, WireFields
    <2> QED
        BY <1>1, <2>2, <2>3, <2>4, OneProvider
<1>8. BesideTheTurn
    BY <1>1, <1>3, <1>4, <1>5, <1>6, <1>7, TicketUnmoved
        DEF BesideTheTurn, RuntimeKept, TicketKept, ProvidersKept
<1> QED
    BY <1>8, BesideStep

-----------------------------------------------------------------------------
(* Steps of the turn *)

\* user.speech.end: a turn for the utterance that was being spoken.
LEMMA SpeechEndStep == TurnInv /\ userSpeechEnd => TurnInv'
<1> SUFFICES ASSUME TurnInv, userSpeechEnd PROVE TurnInv'
    OBVIOUS
<1>1. /\ UNCHANGED <<prov, ticket, rt, wire>> /\ client.open /\ rt.started /\ client.spoke \in Utterances
    BY DEF userSpeechEnd, TurnInv, Control
<1>2. /\ DOMAIN client' = {"up", "spoke", "open", "upsets"} /\ client'.up = client.up
      /\ client'.spoke = client.spoke /\ ~client'.open /\ client.spoke \in 0 .. MaxUtterances
    BY DEF userSpeechEnd, TurnInv, Shapes
<1>3. \A k \in Utterances : Unheard(k)' => Unheard(k)
    BY <1>2 DEF Unheard
<1>4. CASE col.pc # "idle"
    <2>1. col' = col
        BY <1>4 DEF userSpeechEnd, AcceptsTurn
    <2>2. \A k \in Utterances : WireKept(k)
        BY <1>1 DEF WireKept, TurnInv, Shapes
    <2>3. DOMAIN wire' = Utterances /\ TicketKept /\ RuntimeKept /\ ProvidersKept
        BY <1>1, TicketUnmoved, RuntimeUnmoved, ProvidersUnmoved DEF TurnInv, Shapes
    <2>4. BesideTheTurn
        BY <1>2, <1>3, <2>1, <2>2, <2>3 DEF BesideTheTurn, TicketKept, RuntimeKept, ProvidersKept
    <2> QED
        BY <2>4, BesideStep
<1>5. CASE col.pc = "idle"
    <2>1. col' = [IdleCollect EXCEPT !.pc = "turn", !.k = client.spoke]
        BY <1>5 DEF userSpeechEnd, AcceptsTurn
    <2>2. /\ DOMAIN col' = DOMAIN IdleCollect /\ col'.pc = "turn" /\ col'.k = client.spoke
          /\ col'.turn = NoTurn
        BY <2>1 DEF IdleCollect
    <2>3. Unheard(client.spoke) /\ ~Unheard(client.spoke)'
        BY <1>1, <1>2 DEF Unheard
    <2>4. Shapes'
        BY <1>1, <1>2, <2>2 DEF TurnInv, Shapes, CollectPCs
    <2>5. Control'
        <3>1. ~Unheard(col.k)'
            BY <1>2, <2>2 DEF Unheard
        <3>0. NoTurn.outcome = ""
            BY DEF NoTurn
        <3>2. col'.turn.outcome = ""
            BY <2>2, <3>0
        <3> QED
            BY <1>1, <1>2, <2>2, <3>1, <3>2 DEF TurnInv, Control
    <2>6. WiresInOrder'
        BY <1>1, <1>3, <2>2, <2>3 DEF TurnInv, WiresInOrder, WireInOrder, Early, Working
    <2>7. ProvidersInOrder'
        BY <1>1, <1>5, <2>2 DEF TurnInv, ProvidersInOrder, ProviderInOrder, Working
    <2>8. WorkInOrder' /\ SendInOrder'
        BY <2>2 DEF WorkInOrder, SendInOrder, Working
    <2>9. RowsInOrder'
        <3> SUFFICES ASSUME NEW p \in Providers, NEW i \in DOMAIN prov'[p].utterances
                     PROVE  RowInOrder(prov[p].utterances[i])'
            BY DEF RowsInOrder
        <3>2. PICK r : r = prov[p].utterances[i]
            OBVIOUS
        <3>3. RowInOrder(r)
            BY <1>1, <3>2 DEF TurnInv, RowsInOrder
        <3>4. RowInOrder(r)'
            BY <1>1, <1>2, <1>3, <2>2, <2>3, <3>3 DEF RowInOrder
        <3> QED
            BY <1>1, <3>2, <3>4 DEF RowInOrder
    <2> QED
        BY <2>4, <2>5, <2>6, <2>7, <2>8, <2>9 DEF TurnInv
<1> QED
    BY <1>4, <1>5

\* A step of the collect goroutine moves its own turn only.
TurnMoves ==
    /\ DOMAIN col' = DOMAIN IdleCollect /\ DOMAIN col'.turn = DOMAIN NoTurn /\ col'.pc \in CollectPCs
    /\ \/ col'.pc = "idle"
       \/ /\ col'.k = col.k /\ col'.p \in Providers /\ col'.pc # "turn"
          /\ col'.pc \in Early => col.pc \in Early
          /\ col'.pc \in Early \union Working => col.pc \in Early \union Working
    /\ col'.pc \in Early \union {"wait", "audio", "frames"} => col'.turn.outcome = ""

WireMoves ==
    /\ DOMAIN wire' = Utterances /\ DOMAIN wire'[col.k] = WireFields
    /\ \A k \in Utterances \ {col.k} : wire'[k] = wire[k]
    /\ wire'[col.k].cut = wire[col.k].cut
    /\ col.pc \in Early \union Working \/ wire'[col.k].deltas = wire[col.k].deltas

RowsMove ==
    \A p \in Providers : \A i \in DOMAIN prov'[p].utterances :
        \/ RowInOrder(prov[p].utterances[i])'
        \/ i \in DOMAIN prov[p].utterances /\ prov'[p].utterances[i] = prov[p].utterances[i]

LEMMA CollectFrame ==
    ASSUME TurnInv, col.pc # "idle", NEW own, own = col.k, TurnMoves, WireMoves, RowsMove, RuntimeKept, ClientKept,
           DOMAIN ticket' = {"used", "socket", "refs"}, ticket'.refs \in Nat,
           DOMAIN prov' = Providers, \A p \in Providers : ProviderShape(prov'[p]),
           WireInOrder(own)', ProvidersInOrder', WorkInOrder', SendInOrder'
    PROVE  TurnInv'
<1>0. col.k \in Utterances /\ rt.started /\ ~Unheard(col.k)
    BY DEF TurnInv, Control
<1>1. Shapes'
    BY DEF TurnInv, Shapes, TurnMoves, WireMoves, RuntimeKept, ClientKept
<1>2. \A k : Unheard(k)' <=> Unheard(k)
    BY DEF Unheard, ClientKept
<1>3. Control'
    BY <1>0, <1>2 DEF TurnInv, Control, TurnMoves, RuntimeKept, ClientKept
<1>4. WiresInOrder'
    <2> SUFFICES ASSUME NEW k \in Utterances, k # col.k PROVE WireInOrder(k)'
        BY DEF WiresInOrder
    <2>1. WireInOrder(k) /\ wire'[k] = wire[k] /\ (Unheard(k)' <=> Unheard(k))
        BY <1>2 DEF TurnInv, WiresInOrder, WireMoves
    <2>2. ~(col'.k = k /\ col'.pc \in Early \union Working)
        BY DEF TurnMoves, Early, Working
    <2> QED
        BY <2>1, <2>2 DEF WireInOrder
<1>5. RowsInOrder'
    <2> SUFFICES ASSUME NEW p \in Providers, NEW i \in DOMAIN prov'[p].utterances
                 PROVE  RowInOrder(prov[p].utterances[i])'
        BY DEF RowsInOrder
    <2>0. CASE i \in DOMAIN prov[p].utterances /\ prov'[p].utterances[i] = prov[p].utterances[i]
        <3>1. PICK r : r = prov[p].utterances[i]
            OBVIOUS
        <3>2. RowInOrder(r)
            BY <2>0, <3>1 DEF TurnInv, RowsInOrder
        <3>3. RowInOrder(r)'
            <4> SUFFICES ASSUME r.interrupted PROVE RowInOrder(r)'
                BY DEF RowInOrder
            <4>1. r.turn \in Utterances /\ ~Unheard(r.turn)'
                BY <1>2, <3>2 DEF RowInOrder
            <4>2. ~(col'.k = r.turn /\ col'.pc \in Early \union Working)
                BY <3>2 DEF RowInOrder, TurnMoves, Early, Working
            <4>3. wire'[r.turn].cut = wire[r.turn].cut /\ wire'[r.turn].deltas = wire[r.turn].deltas
                BY <3>2, <4>1 DEF RowInOrder, WireMoves
            <4> QED
                BY <3>2, <4>1, <4>2, <4>3 DEF RowInOrder, ClientKept
        <3> QED
            BY <2>0, <3>1, <3>3 DEF RowInOrder
    <2> QED
        BY <2>0 DEF RowsMove
<1> QED
    BY <1>1, <1>3, <1>4, <1>5 DEF TurnInv

LEMMA SendsOne ==
    ASSUME TurnInv, col.pc # "idle", NEW w, DOMAIN w = WireFields, w.cut = wire[col.k].cut,
           col.pc \in Early \union Working \/ w.deltas = wire[col.k].deltas, Sends(w)
    PROVE  /\ WireMoves /\ (client.up => wire'[col.k] = w) /\ (~client.up => wire'[col.k] = wire[col.k])
BY DEF TurnInv, Shapes, Control, Sends, WireMoves

LEMMA WireUnmoved == ASSUME TurnInv, col.pc # "idle", UNCHANGED wire PROVE WireMoves
BY DEF TurnInv, Shapes, Control, WireMoves

\* Away from the turn's accounting the provider sessions stay clear.
LEMMA ClearStays ==
    ASSUME TurnInv, ProvidersKept
    PROVE  /\ col.pc \notin Working => ProvidersInOrder'
           /\ RowsMove /\ DOMAIN prov' = Providers /\ \A p \in Providers : ProviderShape(prov'[p])
<1>1. ASSUME col.pc \notin Working, NEW p \in Providers PROVE Clear(prov'[p])
    BY <1>1 DEF TurnInv, ProvidersInOrder, ProviderInOrder, ProvidersKept, Undisturbed, SameTurn, Clear
<1>2. RowsMove
    BY DEF RowsMove, ProvidersKept, Undisturbed
<1> QED
    BY <1>1, <1>2 DEF ProvidersInOrder, ProviderInOrder, ProvidersKept, Undisturbed

\* An error frame and nothing else ends the turn.
LEMMA TurnRefused ==
    ASSUME TurnInv, col.pc \in Early, col' = IdleCollect, RuntimeKept, ClientKept, TicketKept,
           ProvidersKept, Sends([wire[col.k] EXCEPT !.failed = TRUE])
    PROVE  TurnInv'
<1>1. col.pc # "idle" /\ col.k \in Utterances /\ ~Unheard(col.k) /\ col.pc \notin Working
    BY DEF Early, Working, TurnInv, Control
<1>2. PICK own : own = col.k
    OBVIOUS
<1>3. PICK w : w = [wire[own] EXCEPT !.failed = TRUE]
    OBVIOUS
<1>4. /\ DOMAIN w = WireFields /\ w.cut = wire[own].cut /\ w.deltas = wire[own].deltas
      /\ w.whole = wire[own].whole /\ w.stray = wire[own].stray
    BY <1>1, <1>2, <1>3 DEF TurnInv, Shapes, WireFields
<1>5. WireMoves /\ (wire'[own] = w \/ wire'[own] = wire[own])
    BY <1>1, <1>2, <1>3, <1>4, SendsOne
<1>6. DOMAIN col' = DOMAIN IdleCollect /\ col'.pc = "idle" /\ col'.turn = NoTurn
    BY DEF IdleCollect
<1>7. TurnMoves
    BY <1>6 DEF TurnMoves, CollectPCs, Early
<1>8. WireInOrder(own)'
    <2>1. WireInOrder(own) /\ ~Unheard(own)'
        BY <1>1, <1>2 DEF TurnInv, WiresInOrder, Unheard, ClientKept
    <2> QED
        BY <1>4, <1>5, <1>6, <2>1 DEF WireInOrder, Early, Working
<1>9. WorkInOrder' /\ SendInOrder'
    BY <1>6 DEF WorkInOrder, SendInOrder, Working
<1>10. DOMAIN ticket' = {"used", "socket", "refs"} /\ ticket'.refs \in Nat
    BY DEF TicketKept, TurnInv, Shapes
<1> QED
    BY <1>1, <1>2, <1>5, <1>7, <1>8, <1>9, <1>10, ClearStays, CollectFrame

\* The turn goes on towards its commit.
LEMMA TurnApproaches ==
    ASSUME TurnInv, col.pc \in Early, TurnMoves, col'.pc \in Early, RuntimeKept, ClientKept, TicketKept,
           ProvidersKept, UNCHANGED wire
    PROVE  TurnInv'
<1>1. col.pc # "idle" /\ col.k \in Utterances /\ col.pc \notin Working
    BY DEF Early, Working, TurnInv, Control
<1>2. PICK own : own = col.k
    OBVIOUS
<1>3. WireInOrder(own)'
    <2>1. WireInOrder(own)
        BY <1>1, <1>2 DEF TurnInv, WiresInOrder
    <2> QED
        BY <1>2, <2>1 DEF WireInOrder, Unheard, ClientKept
<1>4. WorkInOrder' /\ SendInOrder'
    BY DEF WorkInOrder, SendInOrder, Working, Early
<1>5. DOMAIN ticket' = {"used", "socket", "refs"} /\ ticket'.refs \in Nat
    BY DEF TicketKept, TurnInv, Shapes
<1> QED
    BY <1>1, <1>2, <1>3, <1>4, <1>5, WireUnmoved, ClearStays, CollectFrame

LEMMA NoteUserTurnStep == TurnInv /\ noteUserTurn => TurnInv'
<1> SUFFICES ASSUME TurnInv, noteUserTurn PROVE TurnInv'
    OBVIOUS
<1>1. col.pc = "turn" /\ rt.started /\ rt.p \in Providers /\ UNCHANGED <<ticket, client>>
    BY DEF noteUserTurn, TurnInv, Control
<1>2. RuntimeKept
    BY DEF noteUserTurn, TurnInv, Shapes, Control, RuntimeKept, NoRuntime
<1>3. ClientKept /\ TicketKept
    BY <1>1, ClientUpset, TicketUnmoved
<1>4. ProvidersKept
    <2>1. PICK v : prov' = [prov EXCEPT ![rt.p].pending = v]
        BY Zenon DEF noteUserTurn
    <2> QED
        BY <1>1, <2>1, SideField
<1>5. \/ col' = IdleCollect /\ Sends([wire[col.k] EXCEPT !.failed = TRUE])
      \/ /\ \E pc \in {"instruct", "commit"} : col' = [col EXCEPT !.p = rt.p, !.d = P.d, !.pc = pc]
         /\ UNCHANGED wire
    BY Zenon DEF noteUserTurn
<1>6. CASE col' = IdleCollect /\ Sends([wire[col.k] EXCEPT !.failed = TRUE])
    BY <1>1, <1>2, <1>3, <1>4, <1>6, TurnRefused DEF Early
<1>7. ASSUME NEW pc \in {"instruct", "commit"}, col' = [col EXCEPT !.p = rt.p, !.d = P.d, !.pc = pc],
             UNCHANGED wire
      PROVE  TurnInv'
    <2>1. /\ DOMAIN col' = DOMAIN IdleCollect /\ col'.turn = col.turn /\ col'.pc = pc /\ col'.k = col.k
          /\ col'.p = rt.p
        BY <1>7 DEF TurnInv, Shapes, IdleCollect
    <2>2. TurnMoves
        BY <1>1, <1>7, <2>1 DEF TurnInv, Shapes, Control, TurnMoves, CollectPCs, Early
    <2> QED
        BY <1>1, <1>2, <1>3, <1>4, <1>7, <2>1, <2>2, TurnApproaches DEF Early
<1> QED
    BY <1>5, <1>6, <1>7

LEMMA InstructStep == TurnInv /\ UpdateInstructions => TurnInv'
<1> SUFFICES ASSUME TurnInv, UpdateInstructions PROVE TurnInv'
    OBVIOUS
<1>1. col.pc = "instruct" /\ UNCHANGED <<prov, ticket, rt, wire, client>> /\ col.p \in Providers
    BY DEF UpdateInstructions, TurnInv, Control
<1>2. ClientKept /\ TicketKept /\ RuntimeKept /\ ProvidersKept
    BY <1>1, ClientUpset, TicketUnmoved, RuntimeUnmoved, ProvidersUnmoved
<1>3. col' = [col EXCEPT !.pc = "commit"] \/ \E s : col' = [col EXCEPT !.skipped = s]
    BY Zenon DEF UpdateInstructions, Step
<1>4. /\ DOMAIN col' = DOMAIN IdleCollect /\ col'.turn = col.turn /\ col'.k = col.k /\ col'.p = col.p
      /\ col'.pc \in {"commit", "instruct"}
    BY <1>1, <1>3 DEF TurnInv, Shapes, IdleCollect
<1>5. TurnMoves
    BY <1>1, <1>4 DEF TurnInv, Shapes, Control, TurnMoves, CollectPCs, Early
<1> QED
    BY <1>1, <1>2, <1>4, <1>5, TurnApproaches DEF Early

\* Of the provider sessions only the turn's own moves.
OwnMoves(q) ==
    /\ DOMAIN prov' = Providers /\ prov'[col.p] = q
    /\ \A p \in Providers \ {col.p} : prov'[p] = prov[p]

LEMMA OwnExcept ==
    ASSUME TurnInv, col.p \in Providers, NEW q, prov' = [prov EXCEPT ![col.p] = q]
    PROVE  OwnMoves(q)
BY DEF TurnInv, Shapes, OwnMoves

LEMMA OwnProvider ==
    ASSUME TurnInv, NEW q, OwnMoves(q), ProviderShape(q), col'.p = col.p, col'.pc \in Working \/ Clear(q)
    PROVE  ProvidersInOrder' /\ DOMAIN prov' = Providers /\ \A p \in Providers : ProviderShape(prov'[p])
<1>1. \A p \in Providers : ProviderShape(prov'[p])
    BY DEF OwnMoves, TurnInv, Shapes
<1>2. ASSUME NEW p \in Providers PROVE ProviderInOrder(p)'
    BY DEF OwnMoves, TurnInv, ProvidersInOrder, ProviderInOrder
<1> QED
    BY <1>1, <1>2 DEF ProvidersInOrder, OwnMoves

\* A step of the turn that records no row and leaves it at work.
LEMMA WorkGoesOn ==
    ASSUME TurnInv, col.pc \in Working \union {"commit"}, TurnMoves, col'.pc \in Working, col'.p = col.p,
           RuntimeKept, ClientKept, DOMAIN ticket' = {"used", "socket", "refs"}, ticket'.refs \in Nat,
           NEW q, OwnMoves(q), ProviderShape(q), q.utterances = prov[col.p].utterances,
           WireMoves, wire'[col.k].whole = wire[col.k].whole, wire'[col.k].stray => wire'[col.k].cut,
           WorkInOrder'
    PROVE  TurnInv'
<1>1. col.pc # "idle" /\ col.k \in Utterances /\ ~Unheard(col.k) /\ col.p \in Providers
    BY DEF Working, TurnInv, Control
<1>2. PICK own : own = col.k
    OBVIOUS
<1>3. ProvidersInOrder' /\ DOMAIN prov' = Providers /\ \A p \in Providers : ProviderShape(prov'[p])
    BY OwnProvider
<1>4. RowsMove
    BY <1>1 DEF RowsMove, OwnMoves
<1>5. WireInOrder(own)'
    <2>1. WireInOrder(own) /\ ~Unheard(own)'
        BY <1>1, <1>2 DEF TurnInv, WiresInOrder, Unheard, ClientKept
    <2>2. ~wire'[own].whole
        BY <1>2, <2>1 DEF WireInOrder, Early
    <2> QED
        BY <1>2, <2>1, <2>2 DEF WireInOrder, Early, Working
<1>6. SendInOrder'
    BY DEF SendInOrder, Working
<1> QED
    BY <1>1, <1>2, <1>3, <1>4, <1>5, <1>6, CollectFrame

\* The accounting starts from nothing, and nothing of the reply is with the client.
LEMMA CommitStep == TurnInv /\ CommitTurn => TurnInv'
<1> SUFFICES ASSUME TurnInv, CommitTurn PROVE TurnInv'
    OBVIOUS
<1>1. /\ col.pc = "commit" /\ UNCHANGED <<ticket, rt, client>>
      /\ col.p \in Providers /\ col.k \in Utterances
    BY DEF CommitTurn, TurnInv, Control
<1>2. ClientKept /\ TicketKept /\ RuntimeKept
    BY <1>1, ClientUpset, TicketUnmoved, RuntimeUnmoved
<1>3. CASE col' = IdleCollect /\ Sends([wire[col.k] EXCEPT !.failed = TRUE]) /\ UNCHANGED prov
    BY <1>1, <1>2, <1>3, ProvidersUnmoved, TurnRefused DEF Early
<1>4. ASSUME NEW d, col' = [col EXCEPT !.pc = "wait", !.d = d], UNCHANGED wire,
             prov' = [prov EXCEPT ![col.p].muted = TRUE, ![col.p].collecting = TRUE]
      PROVE  TurnInv'
    <2>1. PICK q : q = [prov[col.p] EXCEPT !.muted = TRUE, !.collecting = TRUE]
        OBVIOUS
    <2>2. OwnMoves(q)
        BY <1>1, <1>4, <2>1, OwnExcept
    <2>3. ProviderShape(prov[col.p]) /\ Clear(prov[col.p])
        BY <1>1 DEF TurnInv, Shapes, ProvidersInOrder, ProviderInOrder, Working
    <2>4. /\ DOMAIN q = ProviderFields /\ q.utterances = prov[col.p].utterances /\ q.collecting
          /\ q.ref = prov[col.p].ref /\ q.framer = prov[col.p].framer /\ q.delivered = prov[col.p].delivered
          /\ q.streamedAudio = prov[col.p].streamedAudio /\ q.ttsStarted = prov[col.p].ttsStarted
        BY <2>1, <2>3 DEF ProviderShape, ProviderFields
    <2>5. ProviderShape(q)
        BY <2>3, <2>4 DEF ProviderShape
    <2>6. /\ DOMAIN col' = DOMAIN IdleCollect /\ col'.turn = col.turn /\ col'.k = col.k /\ col'.p = col.p
          /\ col'.pc = "wait"
        BY <1>1, <1>4 DEF TurnInv, Shapes, IdleCollect
    <2>7. TurnMoves
        BY <1>1, <2>6 DEF TurnInv, Shapes, Control, TurnMoves, CollectPCs, Early, Working
    <2>8. WireMoves
        BY <1>1, <1>4, WireUnmoved
    <2>9. wire[col.k].deltas = <<>> /\ ~wire[col.k].stray
        BY <1>1 DEF TurnInv, WiresInOrder, WireInOrder, Early
    <2>10. WorkInOrder'
        <3>1. prov'[col'.p] = q
            BY <2>2, <2>6 DEF OwnMoves
        <3> QED
            BY <1>4, <2>3, <2>4, <2>6, <2>9, <3>1 DEF WorkInOrder, Mine, Clear
    <2>11. DOMAIN ticket' = {"used", "socket", "refs"} /\ ticket'.refs \in Nat
        BY <1>2 DEF TicketKept, TurnInv, Shapes
    <2> QED
        BY <1>1, <1>2, <1>4, <2>2, <2>4, <2>5, <2>6, <2>7, <2>8, <2>9, <2>10, <2>11, WorkGoesOn DEF Working
<1> QED
    BY <1>3, <1>4, Zenon DEF CommitTurn, CommitFailed

\* The turn is over for the vendor: its socket is gone or its window has passed.
LEMMA TurnOverStep == TurnInv /\ (turnReadFails \/ turnExpires) => TurnInv'
<1> SUFFICES ASSUME TurnInv, turnReadFails \/ turnExpires PROVE TurnInv'
    OBVIOUS
<1>1. /\ col.pc = "wait" /\ UNCHANGED <<prov, ticket, rt, wire, client>>
      /\ col.p \in Providers /\ col.k \in Utterances
    BY DEF turnReadFails, turnExpires, WindowOver, TurnInv, Control
<1>2. ClientKept /\ TicketKept /\ RuntimeKept
    BY <1>1, ClientUpset, TicketUnmoved, RuntimeUnmoved
<1>3. \E o : \/ col' = [col EXCEPT !.pc = "reset", !.turn.outcome = o]
             \/ col' = [col EXCEPT !.pc = "closeout", !.turn.outcome = o]
    BY Zenon DEF turnReadFails, turnExpires
<1>4. /\ DOMAIN col' = DOMAIN IdleCollect /\ DOMAIN col'.turn = DOMAIN NoTurn /\ col'.k = col.k /\ col'.p = col.p
      /\ col'.pc \in {"reset", "closeout"}
    BY <1>1, <1>3 DEF TurnInv, Shapes, IdleCollect
<1>5. TurnMoves
    BY <1>1, <1>4 DEF TurnMoves, CollectPCs, Early, Working
<1>6. OwnMoves(prov[col.p]) /\ ProviderShape(prov[col.p])
    BY <1>1 DEF TurnInv, Shapes, OwnMoves
<1>7. wire[col.k].stray => wire[col.k].cut
    BY <1>1 DEF TurnInv, WiresInOrder, WireInOrder
<1>8. WorkInOrder'
    BY <1>1, <1>4 DEF TurnInv, WorkInOrder, Mine, Working
<1>9. DOMAIN ticket' = {"used", "socket", "refs"} /\ ticket'.refs \in Nat
    BY <1>2 DEF TicketKept, TurnInv, Shapes
<1> QED
    BY <1>1, <1>2, <1>4, <1>5, <1>6, <1>7, <1>8, <1>9, WireUnmoved, WorkGoesOn DEF Working

LEMMA FrameRefIs ==
    ASSUME NEW r, ProviderShape(r)
    PROVE  FrameRef(r) = (IF r.framer = 0 THEN r.ref ELSE r.framer - 1)
BY DEF ProviderShape, ProviderFields, FrameRef, frameAudio

LEMMA FramedIs ==
    ASSUME NEW r, ProviderShape(r), NEW q, q = frameAudio(r)
    PROVE  /\ ProviderShape(q) /\ q.utterances = r.utterances /\ FrameRef(q) = FrameRef(r)
           /\ q.collecting = r.collecting /\ q.delivered = r.delivered /\ q.streamedText = r.streamedText
           /\ q.ttsStarted = r.ttsStarted
<1>1. DOMAIN q = ProviderFields /\ q.framer = (IF r.framer = 0 THEN r.ref + 1 ELSE r.framer)
    BY DEF ProviderShape, ProviderFields, frameAudio
<1>2. /\ q.utterances = r.utterances /\ q.ref = r.ref /\ q.streamedAudio = r.streamedAudio
      /\ q.collecting = r.collecting /\ q.delivered = r.delivered /\ q.streamedText = r.streamedText
      /\ q.ttsStarted = r.ttsStarted
    BY DEF ProviderShape, ProviderFields, frameAudio
<1>3. ProviderShape(q)
    BY <1>1, <1>2 DEF ProviderShape
<1>4. FrameRef(q) = FrameRef(r)
    BY <1>1, <1>2, <1>3, FrameRefIs DEF ProviderShape
<1> QED
    BY <1>2, <1>3, <1>4

\* What a turn at work stands on.
LEMMA AtWork ==
    ASSUME TurnInv, col.pc \in Working
    PROVE  /\ col.pc # "idle" /\ col.p \in Providers /\ col.k \in Utterances /\ ProviderShape(Mine)
           /\ DOMAIN wire[col.k] = WireFields /\ (wire[col.k].stray => wire[col.k].cut)
           /\ DOMAIN col = DOMAIN IdleCollect /\ DOMAIN col.turn = DOMAIN NoTurn
           /\ DOMAIN ticket = {"used", "socket", "refs"} /\ ticket.refs \in Nat
BY DEF TurnInv, Control, Shapes, Working, Mine, WiresInOrder, WireInOrder

LEMMA Steps ==
    ASSUME TurnInv, col.pc \in Working, NEW pc \in {"wait", "frames", "closeout"}, Step(pc),
           pc \in {"wait", "frames"} => col.turn.outcome = ""
    PROVE  /\ TurnMoves /\ col'.pc = pc /\ col'.k = col.k /\ col'.p = col.p
<1>1. /\ DOMAIN col' = DOMAIN IdleCollect /\ col'.turn = col.turn /\ col'.k = col.k /\ col'.p = col.p
      /\ col'.pc = pc
    BY AtWork DEF Step, IdleCollect
<1> QED
    BY <1>1, AtWork DEF TurnMoves, CollectPCs, Early, Working

\* ai.tts.start: the turn ref of the stream is new, and the client is told first.
LEMMA StreamStartStep == TurnInv /\ streamStart => TurnInv'
<1> SUFFICES ASSUME TurnInv, streamStart PROVE TurnInv'
    OBVIOUS
<1>1. col.pc = "audio" /\ Step("frames") /\ UNCHANGED <<rt, client>>
    BY DEF streamStart
<1>2. col.pc \in Working /\ col.turn.outcome = ""
    BY <1>1 DEF Working, TurnInv, Control
<1>3. TurnMoves /\ col'.pc = "frames" /\ col'.k = col.k /\ col'.p = col.p
    BY <1>1, <1>2, Steps
<1>4. ClientKept /\ RuntimeKept
    BY <1>1, ClientUpset, RuntimeUnmoved
<1>5. CASE col.opens
    <2>0. ticket.refs \in Nat
        BY <1>2, AtWork
    <2>1. PICK n \in Nat : n = ticket.refs + 1
        BY <2>0
    <2>2. DOMAIN ticket' = {"used", "socket", "refs"} /\ ticket'.refs = n
        BY <1>2, <1>5, <2>1, AtWork DEF streamStart
    <2>3. PICK q : q = [Mine EXCEPT !.ref = n]
        OBVIOUS
    <2>4. OwnMoves(q)
        <3>1. prov' = [prov EXCEPT ![col.p] = q]
            BY <1>5, <2>1, <2>3 DEF streamStart, ttsStartFrame
        <3> QED
            BY <1>2, <3>1, AtWork, OwnExcept
    <2>5. /\ DOMAIN q = ProviderFields /\ q.ref = n /\ q.framer = Mine.framer /\ q.utterances = Mine.utterances
          /\ q.collecting = Mine.collecting /\ q.delivered = Mine.delivered
          /\ q.streamedText = Mine.streamedText /\ q.ttsStarted = Mine.ttsStarted
          /\ q.streamedAudio = Mine.streamedAudio
        BY <1>2, <2>3, AtWork DEF ProviderShape, ProviderFields
    <2>6. ProviderShape(q)
        BY <1>2, <2>5, AtWork DEF ProviderShape
    <2>7. PICK w : w = [wire[col.k] EXCEPT !.refs = @ \union {n}]
        OBVIOUS
    <2>8. /\ DOMAIN w = WireFields /\ w.refs = wire[col.k].refs \union {n} /\ w.cut = wire[col.k].cut
          /\ w.deltas = wire[col.k].deltas /\ w.whole = wire[col.k].whole /\ w.stray = wire[col.k].stray
        BY <1>2, <2>7, AtWork DEF WireFields
    <2>9. /\ WireMoves /\ (client.up => wire'[col.k] = w) /\ (~client.up => wire'[col.k] = wire[col.k])
        BY <1>2, <1>5, <2>1, <2>7, <2>8, AtWork, SendsOne DEF streamStart
    <2>10. WorkInOrder'
        <3> SUFFICES ASSUME client'.up, ~wire'[col'.k].cut PROVE WorkInOrder'
            BY DEF WorkInOrder
        <3>1. client.up /\ wire'[col.k] = w /\ ~wire[col.k].cut /\ prov'[col.p] = q
            BY <1>1, <1>3, <2>4, <2>8, <2>9 DEF OwnMoves
        <3>2. FrameRef(q) = n
            BY <1>1, <1>2, <1>5, <2>5, <2>6, <3>1, FrameRefIs DEF TurnInv, WorkInOrder
        <3> QED
            BY <1>1, <1>2, <1>3, <1>5, <2>5, <2>8, <3>1, <3>2, ZenonT(30) DEF TurnInv, WorkInOrder, Mine
    <2>11. wire'[col.k].whole = wire[col.k].whole /\ (wire'[col.k].stray => wire'[col.k].cut)
        BY <1>2, <2>8, <2>9, AtWork
    <2> QED
        BY <1>2, <1>3, <1>4, <2>2, <2>4, <2>5, <2>6, <2>9, <2>10, <2>11, WorkGoesOn DEF Working, Mine
<1>6. CASE ~col.opens
    <2>1. UNCHANGED <<ticket, prov, wire>>
        BY <1>6 DEF streamStart
    <2>2. OwnMoves(Mine)
        BY <2>1 DEF OwnMoves, Mine, TurnInv, Shapes
    <2>3. WorkInOrder'
        BY <1>1, <1>2, <1>3, <1>6, <2>1 DEF TurnInv, WorkInOrder, Mine
    <2> QED
        BY <1>2, <1>3, <1>4, <2>1, <2>2, <2>3, AtWork, WireUnmoved, WorkGoesOn DEF Working, Mine
<1> QED
    BY <1>5, <1>6

\* Every frame carries the ref of the stream it was cut for.
LEMMA StreamFramesStep == TurnInv /\ streamFrames => TurnInv'
<1> SUFFICES ASSUME TurnInv, streamFrames PROVE TurnInv'
    OBVIOUS
<1>1. col.pc = "frames" /\ Step("wait") /\ UNCHANGED <<rt, client, ticket>>
    BY DEF streamFrames
<1>2. col.pc \in Working /\ col.turn.outcome = ""
    BY <1>1 DEF Working, TurnInv, Control
<1>3. TurnMoves /\ col'.pc = "wait" /\ col'.k = col.k /\ col'.p = col.p
    BY <1>1, <1>2, Steps
<1>4. ClientKept /\ RuntimeKept
    BY <1>1, ClientUpset, RuntimeUnmoved
<1>5. PICK q : q = frameAudio(Mine)
    OBVIOUS
<1>6. OwnMoves(q)
    BY <1>2, <1>5, AtWork, OwnExcept DEF streamFrames
<1>7. /\ ProviderShape(q) /\ q.utterances = Mine.utterances /\ FrameRef(q) = FrameRef(Mine)
      /\ q.collecting = Mine.collecting /\ q.delivered = Mine.delivered
      /\ q.streamedText = Mine.streamedText /\ q.ttsStarted = Mine.ttsStarted
    BY <1>2, <1>5, AtWork, FramedIs
<1>8. PICK lost : lost = (wire[col.k].stray \/ FrameRef(Mine) \notin wire[col.k].refs)
    OBVIOUS
<1>9. PICK w : w = [wire[col.k] EXCEPT !.stray = lost]
    OBVIOUS
<1>10. /\ DOMAIN w = WireFields /\ w.refs = wire[col.k].refs /\ w.cut = wire[col.k].cut
       /\ w.deltas = wire[col.k].deltas /\ w.whole = wire[col.k].whole /\ w.stray = lost
    BY <1>2, <1>9, AtWork DEF WireFields
<1>11. /\ WireMoves /\ (client.up => wire'[col.k] = w) /\ (~client.up => wire'[col.k] = wire[col.k])
    BY <1>2, <1>8, <1>9, <1>10, AtWork, SendsOne DEF streamFrames
<1>12. client.up /\ ~wire[col.k].cut => FrameRef(Mine) \in wire[col.k].refs /\ Mine.ttsStarted
    BY <1>1, <1>2 DEF TurnInv, WorkInOrder
<1>13. WorkInOrder'
    <2> SUFFICES ASSUME client'.up, ~wire'[col'.k].cut PROVE WorkInOrder'
        BY DEF WorkInOrder
    <2>1. client.up /\ wire'[col.k] = w /\ ~wire[col.k].cut /\ prov'[col.p] = q
        BY <1>1, <1>3, <1>6, <1>10, <1>11 DEF OwnMoves
    <2> QED
        BY <1>1, <1>2, <1>3, <1>7, <1>10, <1>12, <2>1 DEF TurnInv, WorkInOrder, Mine
<1>14. wire'[col.k].whole = wire[col.k].whole /\ (wire'[col.k].stray => wire'[col.k].cut)
    BY <1>2, <1>8, <1>10, <1>11, <1>12, AtWork
<1> QED
    BY <1>1, <1>2, <1>3, <1>4, <1>6, <1>7, <1>11, <1>13, <1>14, AtWork, WorkGoesOn DEF Working, Mine

\* The dead vendor session is replaced; the accounting stays.
LEMMA ResetStep == TurnInv /\ resetAfterTurnReadFailure => TurnInv'
<1> SUFFICES ASSUME TurnInv, resetAfterTurnReadFailure PROVE TurnInv'
    OBVIOUS
<1>1. col.pc = "reset" /\ Step("closeout") /\ UNCHANGED <<rt, wire, ticket>>
    BY DEF resetAfterTurnReadFailure
<1>2. col.pc \in Working
    BY <1>1 DEF Working
<1>3. TurnMoves /\ col'.pc = "closeout" /\ col'.k = col.k /\ col'.p = col.p
    BY <1>1, <1>2, Steps
<1>4. client' = client \/ Upset
    BY Zenon DEF resetAfterTurnReadFailure, DialFails
<1>5. ClientKept /\ RuntimeKept /\ client'.up = client.up
    BY <1>1, <1>4, ClientUpset, RuntimeUnmoved
<1>6. PICK q, v : OwnMoves(q) /\ (q = [Mine EXCEPT !.muted = FALSE] \/ q = [Mine EXCEPT !.muted = FALSE, !.d = v])
    <2>1. \E v : \/ prov' = [prov EXCEPT ![col.p] = [prov[col.p] EXCEPT !.muted = FALSE]]
                 \/ prov' = [prov EXCEPT ![col.p] = [[prov[col.p] EXCEPT !.muted = FALSE] EXCEPT !.d = v]]
        BY Zenon DEF resetAfterTurnReadFailure, ResetBegins
    <2> QED
        BY <1>2, <2>1, AtWork, OwnExcept DEF Mine
<1>7. ProviderShape(q) /\ q.utterances = Mine.utterances /\ SameTurn(Mine, q)
    <2>1. ProviderShape(Mine)
        BY <1>2, AtWork
    <2>2. CASE q = [Mine EXCEPT !.muted = FALSE]
        BY <2>1, <2>2, SideFields
    <2>3. CASE q = [Mine EXCEPT !.muted = FALSE, !.d = v]
        <3>1. PICK r : r = Mine
            OBVIOUS
        <3>2. DOMAIN q = ProviderFields
            BY <2>1, <2>3 DEF ProviderShape, ProviderFields
        <3>3. q.utterances = r.utterances /\ SameTurn(r, q) /\ q.streamedAudio = r.streamedAudio
            BY <2>1, <2>3, <3>1 DEF ProviderShape, ProviderFields, SameTurn
        <3> QED
            BY <2>1, <3>1, <3>2, <3>3 DEF ProviderShape, SameTurn
    <2> QED
        BY <1>6, <2>2, <2>3
<1>8. FrameRef(q) = FrameRef(Mine)
    BY <1>2, <1>7, AtWork, FrameRefIs DEF SameTurn
<1>9. WorkInOrder'
    <2>1. prov'[col.p] = q
        BY <1>6 DEF OwnMoves
    <2> QED
        BY <1>1, <1>2, <1>3, <1>5, <1>7, <1>8, <2>1 DEF TurnInv, WorkInOrder, Mine, SameTurn
<1> QED
    BY <1>1, <1>2, <1>3, <1>5, <1>6, <1>7, <1>9, AtWork, WireUnmoved, WorkGoesOn DEF Working, Mine

\* An event whose audio is pushed to the client.
AudioLive(e) == OfThisTurn(col.turn) /\ ~Mine.interrupted /\ e.kind = "audio"

\* What an event makes of the accounting.
Pushed(e, q) ==
    /\ ProviderShape(q) /\ q.utterances = Mine.utterances /\ q.collecting = Mine.collecting
    /\ q.framer = Mine.framer /\ q.ref = Mine.ref
    /\ Mine.streamedText => q.streamedText
    /\ q.delivered = Mine.delivered \/ (q.delivered = Append(Mine.delivered, e.of) /\ q.streamedText)
    /\ AudioLive(e) => q.ttsStarted
    /\ ~AudioLive(e) => (q.ttsStarted <=> Mine.ttsStarted)

LEMMA PushedQuiet ==
    ASSUME ProviderShape(Mine), NEW e, ~AudioLive(e), NEW q, q = Mine \/ q = UserTranscript(Mine)
    PROVE  Pushed(e, q)
<1>1. CASE q = Mine
    BY <1>1 DEF Pushed
<1>2. CASE q = UserTranscript(Mine)
    <2>1. DOMAIN q = ProviderFields
        BY <1>2 DEF ProviderShape, ProviderFields, UserTranscript
    <2>2. /\ q.utterances = Mine.utterances /\ q.collecting = Mine.collecting /\ q.framer = Mine.framer
          /\ q.ref = Mine.ref /\ q.streamedText = Mine.streamedText /\ q.delivered = Mine.delivered
          /\ q.ttsStarted = Mine.ttsStarted /\ q.streamedAudio = Mine.streamedAudio
        BY <1>2 DEF ProviderShape, ProviderFields, UserTranscript
    <2> QED
        BY <2>1, <2>2 DEF Pushed, ProviderShape
<1> QED
    BY <1>1, <1>2

LEMMA PushedText ==
    ASSUME ProviderShape(Mine), NEW e, ~AudioLive(e), NEW q, q = AssistantTextDelta(Mine, e.of)
    PROVE  Pushed(e, q)
<1>1. CASE Mine.interrupted
    BY <1>1, PushedQuiet DEF AssistantTextDelta
<1>2. CASE ~Mine.interrupted
    <2>1. DOMAIN q = ProviderFields
        BY <1>2 DEF ProviderShape, ProviderFields, AssistantTextDelta
    <2>2. /\ q.utterances = Mine.utterances /\ q.collecting = Mine.collecting /\ q.framer = Mine.framer
          /\ q.ref = Mine.ref /\ q.streamedText = TRUE /\ q.delivered = Append(Mine.delivered, e.of)
          /\ q.ttsStarted = Mine.ttsStarted /\ q.streamedAudio = Mine.streamedAudio
        BY <1>2 DEF ProviderShape, ProviderFields, AssistantTextDelta
    <2> QED
        BY <2>1, <2>2 DEF Pushed, ProviderShape
<1> QED
    BY <1>1, <1>2

LEMMA PushedAudio ==
    ASSUME ProviderShape(Mine), NEW e, AudioLive(e), NEW q, q = AssistantAudio(Mine)
    PROVE  Pushed(e, q)
<1>1. DOMAIN q = ProviderFields
    BY DEF ProviderShape, ProviderFields, AssistantAudio
<1>2. /\ q.utterances = Mine.utterances /\ q.collecting = Mine.collecting /\ q.framer = Mine.framer
      /\ q.ref = Mine.ref /\ q.streamedText = Mine.streamedText /\ q.delivered = Mine.delivered
      /\ q.ttsStarted = (Mine.ttsStarted \/ ~Mine.streamedAudio) /\ q.streamedAudio = TRUE
    BY DEF ProviderShape, ProviderFields, AssistantAudio
<1> QED
    BY <1>1, <1>2 DEF Pushed, ProviderShape

LEMMA AppliedTurn ==
    ASSUME NEW t, DOMAIN t = DOMAIN NoTurn, NEW e, NEW u, u = Applied(t, e)
    PROVE  /\ DOMAIN u = DOMAIN NoTurn
           /\ e.kind = "audio" => u.outcome = t.outcome
<1>1. DOMAIN u = DOMAIN NoTurn
    BY DEF Applied, NoTurn
<1>2. e.kind = "audio" => u.outcome = t.outcome
    BY DEF Applied, NoTurn
<1> QED
    BY <1>1, <1>2

\* Fragments and audio are pushed as they come, and the accounting counts what was.
LEMMA CollectStep == TurnInv /\ collectTurn => TurnInv'
<1> SUFFICES ASSUME TurnInv, collectTurn PROVE TurnInv'
    OBVIOUS
<1>1. col.pc = "wait" /\ UNCHANGED <<ticket, rt, client>>
    BY DEF collectTurn
<1>2. PICK e : Collects(e)
    BY Zenon DEF collectTurn
<1>3. col.pc \in Working /\ col.turn.outcome = ""
    BY <1>1 DEF Working, TurnInv, Control
<1>4. ClientKept /\ RuntimeKept
    BY <1>1, ClientUpset, RuntimeUnmoved
<1>5. ProviderShape(Mine) /\ col.p \in Providers
    BY <1>3, AtWork
<1>6. PICK q : prov' = [prov EXCEPT ![col.p] = q] /\ Pushed(e, q)
    <2>1. PICK q : /\ prov' = [prov EXCEPT ![col.p] = q]
                   /\ \/ ~AudioLive(e) /\ (q = Mine \/ q = UserTranscript(Mine))
                      \/ ~AudioLive(e) /\ q = AssistantTextDelta(Mine, e.of)
                      \/ AudioLive(e) /\ q = AssistantAudio(Mine)
        BY <1>2, Zenon DEF Collects, AudioLive
    <2> QED
        BY <1>5, <2>1, PushedQuiet, PushedText, PushedAudio
<1>7. OwnMoves(q)
    BY <1>5, <1>6, OwnExcept
<1>8. PICK t : t = Applied(col.turn, e)
    OBVIOUS
<1>9. DOMAIN t = DOMAIN NoTurn /\ (AudioLive(e) => t.outcome = "")
    <2>1. DOMAIN col.turn = DOMAIN NoTurn
        BY <1>3, AtWork
    <2> QED
        BY <1>3, <1>8, <2>1, AppliedTurn DEF AudioLive
<1>10. /\ DOMAIN col' = DOMAIN IdleCollect /\ col'.turn = t /\ col'.k = col.k /\ col'.p = col.p
       /\ col'.opens <=> (AudioLive(e) /\ OpensStream(Mine))
       /\ col'.pc = IF t.outcome # "" THEN "closeout" ELSE IF AudioLive(e) THEN "audio" ELSE "wait"
    <2>1. PICK s, o, pc : /\ col' = [col EXCEPT !.turn = t, !.opens = o, !.skipped = s, !.pc = pc]
                          /\ o = (AudioLive(e) /\ OpensStream(Mine))
                          /\ pc = IF t.outcome # "" THEN "closeout" ELSE IF AudioLive(e) THEN "audio" ELSE "wait"
        BY <1>2, <1>8, Zenon DEF Collects, AudioLive
    <2>2. DOMAIN col = DOMAIN IdleCollect
        BY <1>3, AtWork
    <2>3. DOMAIN col' = DOMAIN IdleCollect /\ col'.turn = t /\ col'.k = col.k /\ col'.p = col.p
          /\ col'.opens = o /\ col'.pc = pc
        BY <2>1, <2>2 DEF IdleCollect
    <2> QED
        BY <2>1, <2>3
<1>11. TurnMoves /\ col'.pc \in Working
    BY <1>3, <1>5, <1>9, <1>10 DEF TurnMoves, CollectPCs, Early, Working
<1>12. PICK w : /\ w = IF q.delivered # Mine.delivered
                       THEN [wire[col.k] EXCEPT !.deltas = Append(@, e.of)] ELSE wire[col.k]
                /\ Sends(w)
    BY <1>2, <1>7, Zenon DEF Collects, OwnMoves
<1>13. /\ DOMAIN w = WireFields /\ w.refs = wire[col.k].refs /\ w.cut = wire[col.k].cut
       /\ w.whole = wire[col.k].whole /\ w.stray = wire[col.k].stray
       /\ w.deltas = IF q.delivered # Mine.delivered THEN Append(wire[col.k].deltas, e.of)
                     ELSE wire[col.k].deltas
    BY <1>3, <1>12, AtWork DEF WireFields
<1>14. /\ WireMoves /\ (client.up => wire'[col.k] = w) /\ (~client.up => wire'[col.k] = wire[col.k])
    BY <1>3, <1>12, <1>13, AtWork, SendsOne
<1>15. wire'[col.k].whole = wire[col.k].whole /\ (wire'[col.k].stray => wire'[col.k].cut)
    BY <1>3, <1>13, <1>14, AtWork
<1>16. WorkInOrder'
    <2> SUFFICES ASSUME client'.up, ~wire'[col'.k].cut PROVE WorkInOrder'
        BY DEF WorkInOrder
    <2>1. client.up /\ wire'[col.k] = w /\ ~wire[col.k].cut /\ prov'[col.p] = q
        BY <1>1, <1>7, <1>10, <1>13, <1>14 DEF OwnMoves
    <2>2. /\ Mine.collecting /\ Mine.delivered = wire[col.k].deltas
          /\ wire[col.k].deltas # <<>> => Mine.streamedText
          /\ ~Mine.ttsStarted => Mine.framer = 0
          /\ Mine.ttsStarted => FrameRef(Mine) \in wire[col.k].refs
        BY <1>1, <1>3, <2>1 DEF TurnInv, WorkInOrder
    <2>3. FrameRef(q) = FrameRef(Mine)
        BY <1>5, <1>6, FrameRefIs DEF Pushed
    <2>4. q.delivered = w.deltas /\ (w.deltas # <<>> => q.streamedText)
        BY <1>6, <1>13, <2>2 DEF Pushed
    <2>5. AudioLive(e) => (col'.pc = "audio" /\ (col'.opens <=> ~Mine.ttsStarted))
        BY <1>5, <1>9, <1>10 DEF OpensStream, ProviderShape
    <2>6. ~AudioLive(e) => col'.pc \in {"wait", "closeout"}
        BY <1>10
    <2>7. /\ q.collecting
          /\ ~q.ttsStarted => q.framer = 0
          /\ col'.pc \in {"audio", "frames"} => q.ttsStarted
          /\ q.ttsStarted /\ ~(col'.pc = "audio" /\ col'.opens) => FrameRef(q) \in w.refs
          /\ col'.pc = "audio" /\ col'.opens => q.framer = 0
        BY <1>6, <1>13, <2>2, <2>3, <2>5, <2>6 DEF Pushed
    <2> QED
        BY <1>10, <2>1, <2>4, <2>7 DEF WorkInOrder, Mine
<1>17. q.utterances = prov[col.p].utterances /\ ProviderShape(q)
    BY <1>6 DEF Pushed, Mine
<1> QED
    BY <1>1, <1>3, <1>4, <1>7, <1>10, <1>11, <1>14, <1>15, <1>16, <1>17, AtWork, WorkGoesOn

-----------------------------------------------------------------------------
(* The end of the turn *)

LEMMA Grown ==
    ASSUME NEW S, NEW s \in Seq(S), NEW T, NEW u \in Seq(T), NEW z, z = s \o u
    PROVE  /\ z \in Seq(S \union T)
           /\ \A i \in DOMAIN z : \/ i \in DOMAIN s /\ z[i] = s[i]
                                  \/ \E j \in DOMAIN u : z[i] = u[j]
<1>1. s \in Seq(S \union T) /\ u \in Seq(S \union T)
    OBVIOUS
<1>2. z \in Seq(S \union T) /\ Len(z) = Len(s) + Len(u)
    BY <1>1
<1>3. ASSUME NEW i \in DOMAIN z
      PROVE  (i \in DOMAIN s /\ z[i] = s[i]) \/ \E j \in DOMAIN u : z[i] = u[j]
    <2>1. i \in 1 .. Len(s) + Len(u) /\ DOMAIN s = 1 .. Len(s) /\ DOMAIN u = 1 .. Len(u)
        BY <1>2
    <2>2. CASE i <= Len(s)
        BY <1>1, <2>1, <2>2
    <2>3. CASE i > Len(s)
        <3>1. i - Len(s) \in DOMAIN u /\ z[i] = u[i - Len(s)]
            BY <1>1, <2>1, <2>3
        <3> QED
            BY <3>1
    <2> QED
        BY <2>1, <2>2, <2>3
<1> QED
    BY <1>2, <1>3

LEMMA UserRowIs ==
    ASSUME NEW k, NEW t, NEW u, u = UserRow(k, t)
    PROVE  (\E T : u \in Seq(T)) /\ \A j \in DOMAIN u : u[j].interrupted = FALSE
<1>1. PICK x : x = [speaker |-> "user", turn |-> k, text |-> <<t.transcript>>, interrupted |-> FALSE]
    OBVIOUS
<1>2. x.interrupted = FALSE
    BY <1>1
<1>3. u = <<>> \/ u = <<x>>
    BY <1>1, Zenon DEF UserRow
<1>4. u \in Seq({x})
    <2>1. CASE u = <<>>
        BY <2>1
    <2>2. CASE u = <<x>>
        BY <2>2
    <2> QED
        BY <1>3, <2>1, <2>2
<1>5. \A j \in DOMAIN u : u[j] = x
    <2>1. CASE u = <<>>
        BY <2>1
    <2>2. CASE u = <<x>>
        BY <2>2
    <2> QED
        BY <1>3, <2>1, <2>2
<1>6. \E T : u \in Seq(T)
    BY <1>4, Zenon
<1> QED
    BY <1>2, <1>5, <1>6, Zenon

\* The row of an interrupted reply holds what was delivered of it.
LEMMA AIRowIs ==
    ASSUME NEW k, NEW r, NEW t, NEW u, u = AIRow(k, r, t)
    PROVE  /\ \E T : u \in Seq(T)
           /\ \A j \in DOMAIN u : u[j].interrupted => u[j].turn = k /\ u[j].text = r.delivered
<1>1. PICK x : x = [speaker |-> "ai", turn |-> k, text |-> Spoken(r, t), interrupted |-> r.interrupted]
    OBVIOUS
<1>2. x.interrupted => x.turn = k /\ x.text = r.delivered
    BY <1>1 DEF Spoken
<1>3. u = <<>> \/ u = <<x>>
    BY <1>1, Zenon DEF AIRow
<1>4. u \in Seq({x})
    <2>1. CASE u = <<>>
        BY <2>1
    <2>2. CASE u = <<x>>
        BY <2>2
    <2> QED
        BY <1>3, <2>1, <2>2
<1>5. \A j \in DOMAIN u : u[j] = x
    <2>1. CASE u = <<>>
        BY <2>1
    <2>2. CASE u = <<x>>
        BY <2>2
    <2> QED
        BY <1>3, <2>1, <2>2
<1>6. \E T : u \in Seq(T)
    BY <1>4, Zenon
<1> QED
    BY <1>2, <1>5, <1>6, Zenon

LEMMA RecordedIs ==
    ASSUME NEW r, ProviderShape(r), NEW t, NEW k, NEW q, q = TurnRecorded(r, t, k)
    PROVE  /\ ProviderShape(q) /\ Clear(q)
           /\ \A i \in DOMAIN q.utterances :
                 \/ i \in DOMAIN r.utterances /\ q.utterances[i] = r.utterances[i]
                 \/ q.utterances[i].interrupted =>
                        q.utterances[i].turn = k /\ q.utterances[i].text = r.delivered
<1>1. PICK S : r.utterances \in Seq(S)
    BY DEF ProviderShape
<1>2. PICK u : u = UserRow(k, t)
    OBVIOUS
<1>3. PICK T : u \in Seq(T) /\ \A j \in DOMAIN u : u[j].interrupted = FALSE
    BY <1>2, UserRowIs
<1>4. PICK a : a = AIRow(k, r, t)
    OBVIOUS
<1>5. PICK A : /\ a \in Seq(A)
               /\ \A j \in DOMAIN a : a[j].interrupted => a[j].turn = k /\ a[j].text = r.delivered
    BY <1>4, AIRowIs
<1>6. PICK z : z = r.utterances \o u
    OBVIOUS
<1>7. /\ z \in Seq(S \union T)
      /\ \A i \in DOMAIN z : \/ i \in DOMAIN r.utterances /\ z[i] = r.utterances[i]
                             \/ \E j \in DOMAIN u : z[i] = u[j]
    BY <1>1, <1>3, <1>6, Grown
<1>8. PICK all : all = z \o a
    OBVIOUS
<1>9. /\ all \in Seq((S \union T) \union A)
      /\ \A i \in DOMAIN all : (i \in DOMAIN z /\ all[i] = z[i]) \/ \E j \in DOMAIN a : all[i] = a[j]
    BY <1>5, <1>7, <1>8, Grown
<1>10. PICK x : x = [r EXCEPT !.utterances = all]
    OBVIOUS
<1>11. DOMAIN x = ProviderFields /\ x.utterances = all /\ ProviderShape(x)
    <2>1. DOMAIN x = ProviderFields /\ x.utterances = all
        BY <1>10 DEF ProviderShape, ProviderFields
    <2>2. /\ x.ref = r.ref /\ x.framer = r.framer /\ x.streamedAudio = r.streamedAudio
          /\ x.ttsStarted = r.ttsStarted
        BY <1>10 DEF ProviderShape, ProviderFields
    <2> QED
        BY <1>9, <2>1, <2>2 DEF ProviderShape
<1>12. q = resetTurnStreamingState(x)
    BY <1>2, <1>4, <1>6, <1>8, <1>10 DEF TurnRecorded
<1>13. ProviderShape(q) /\ q.utterances = all /\ Clear(q)
    BY <1>11, <1>12, ResetClears
<1> QED
    BY <1>3, <1>5, <1>7, <1>9, <1>13

\* The whole reply is sent when no fragment was; the rest of the audio belongs to
\* the stream that was opened, or to one that is opened now.
LEMMA OutboundIs ==
    ASSUME NEW r, ProviderShape(r), NEW t, NEW ref, NEW o, o = turnToOutbound(r, t, ref)
    PROVE  /\ o.whole => ~r.streamedText
           /\ o.audio => (r.ttsStarted /\ o.ref = FrameRef(r)) \/ (o.start /\ o.ref = ref)
<1>1. PICK starts, opened, flushes, sends :
          /\ starts = OpensAtEnd(r, t)
          /\ opened = IF starts THEN ttsStartFrame(r, ref) ELSE r
          /\ flushes = (~r.interrupted /\ r.streamedAudio)
          /\ sends = (~r.interrupted /\ ~r.streamedAudio /\ t.audio > 0)
    OBVIOUS
<1>2. o = [whole |-> SendsWhole(r, t), start |-> starts, audio |-> flushes \/ sends,
           ref |-> IF flushes THEN FrameRef(opened) ELSE opened.ref, outcome |-> t.outcome]
    BY <1>1 DEF turnToOutbound
<1>3. /\ o.whole = SendsWhole(r, t) /\ o.start = starts /\ o.audio = (flushes \/ sends)
      /\ o.ref = IF flushes THEN FrameRef(opened) ELSE opened.ref
    BY <1>2
<1>4. flushes => r.ttsStarted /\ ~starts /\ opened = r
    BY <1>1 DEF OpensAtEnd, ProviderShape
<1>5. sends => starts /\ ~flushes
    BY <1>1 DEF OpensAtEnd, ProviderShape
<1>6. starts => opened.ref = ref
    BY <1>1 DEF ttsStartFrame, ProviderShape, ProviderFields
<1> QED
    BY <1>3, <1>4, <1>5, <1>6 DEF SendsWhole

\* turnToOutbound: the rows are recorded, the accounting is cleared.
LEMMA CloseoutStep == TurnInv /\ closeout => TurnInv'
<1> SUFFICES ASSUME TurnInv, closeout PROVE TurnInv'
    OBVIOUS
<1>1. col.pc = "closeout" /\ UNCHANGED <<rt, wire, client>>
    BY DEF closeout
<1>2. col.pc \in Working /\ ~Unheard(col.k)
    BY <1>1 DEF Working, TurnInv, Control
<1>3. ClientKept /\ RuntimeKept
    BY <1>1, ClientUpset, RuntimeUnmoved
<1>4. PICK ref, o : /\ ref = ticket.refs + 1 /\ o = turnToOutbound(Mine, col.turn, ref)
                    /\ col' = [col EXCEPT !.pc = "send", !.out = o]
                    /\ ticket' = IF o.start THEN [ticket EXCEPT !.refs = ref] ELSE ticket
    BY Zenon DEF closeout
<1>5. PICK own : own = col.k
    OBVIOUS
<1>6. PICK q : q = TurnRecorded(Mine, col.turn, own)
    OBVIOUS
<1>7. OwnMoves(q)
    <2>1. prov' = [prov EXCEPT ![col.p] = q]
        BY <1>5, <1>6 DEF closeout
    <2> QED
        BY <1>2, <2>1, AtWork, OwnExcept
<1>8. /\ ProviderShape(q) /\ Clear(q)
      /\ \A i \in DOMAIN q.utterances :
            \/ i \in DOMAIN Mine.utterances /\ q.utterances[i] = Mine.utterances[i]
            \/ q.utterances[i].interrupted =>
                   q.utterances[i].turn = own /\ q.utterances[i].text = Mine.delivered
    BY <1>2, <1>6, AtWork, RecordedIs
<1>9. /\ DOMAIN col' = DOMAIN IdleCollect /\ col'.turn = col.turn /\ col'.k = own /\ col'.p = col.p
      /\ col'.pc = "send" /\ col'.out = o
    BY <1>2, <1>4, <1>5, AtWork DEF IdleCollect
<1>10. TurnMoves
    BY <1>2, <1>5, <1>9, AtWork DEF TurnMoves, CollectPCs, Early, Working
<1>11. ProvidersInOrder' /\ DOMAIN prov' = Providers /\ \A p \in Providers : ProviderShape(prov'[p])
    BY <1>7, <1>8, <1>9, OwnProvider
<1>12. DOMAIN ticket' = {"used", "socket", "refs"} /\ ticket'.refs \in Nat /\ (o.start => ticket'.refs = ref)
    BY <1>2, <1>4, AtWork
<1>13. client.up /\ ~wire[own].cut =>
          /\ Mine.delivered = wire[own].deltas
          /\ wire[own].deltas # <<>> => Mine.streamedText
          /\ Mine.ttsStarted => FrameRef(Mine) \in wire[own].refs
    BY <1>1, <1>2, <1>5 DEF TurnInv, WorkInOrder
<1>14. RowsMove
    <2> SUFFICES ASSUME NEW p \in Providers, NEW i \in DOMAIN prov'[p].utterances,
                        ~(i \in DOMAIN prov[p].utterances /\ prov'[p].utterances[i] = prov[p].utterances[i])
                 PROVE  RowInOrder(prov[p].utterances[i])'
        BY DEF RowsMove
    <2>1. p = col.p /\ prov'[p] = q
        BY <1>7 DEF OwnMoves
    <2>2. PICK x : x = q.utterances[i]
        OBVIOUS
    <2>3. x.interrupted => x.turn = own /\ x.text = Mine.delivered
        BY <1>8, <2>1, <2>2 DEF Mine
    <2>4. RowInOrder(x)'
        <3>1. ~Unheard(own)' /\ own \in Utterances
            BY <1>1, <1>2, <1>5, AtWork DEF Unheard
        <3>2. col'.pc \notin Early \union Working
            BY <1>9 DEF Early, Working
        <3> QED
            BY <1>1, <1>13, <2>3, <3>1, <3>2 DEF RowInOrder
    <2> QED
        BY <2>1, <2>2, <2>4 DEF RowInOrder
<1>15. WireInOrder(own)'
    <2>1. WireInOrder(own) /\ ~Unheard(own)'
        BY <1>1, <1>2, <1>5, AtWork DEF TurnInv, WiresInOrder, Unheard
    <2> QED
        BY <1>1, <1>9, <2>1 DEF WireInOrder, Early, Working
<1>16. WorkInOrder'
    BY <1>9 DEF WorkInOrder, Working
<1>17. SendInOrder'
    <2>1. /\ o.whole => ~Mine.streamedText
          /\ o.audio => (Mine.ttsStarted /\ o.ref = FrameRef(Mine)) \/ (o.start /\ o.ref = ref)
        BY <1>2, <1>4, AtWork, OutboundIs
    <2> QED
        BY <1>1, <1>9, <1>12, <1>13, <2>1 DEF SendInOrder
<1> QED
    BY <1>1, <1>2, <1>3, <1>5, <1>10, <1>11, <1>12, <1>14, <1>15, <1>16, <1>17, AtWork, WireUnmoved, CollectFrame

\* The last frames of the turn.
LEMMA SendStep == TurnInv /\ sendOutbound => TurnInv'
<1> SUFFICES ASSUME TurnInv, sendOutbound PROVE TurnInv'
    OBVIOUS
<1>1. col.pc = "send" /\ col' = IdleCollect /\ UNCHANGED <<prov, ticket, rt, client>>
    BY DEF sendOutbound
<1>2. col.pc # "idle" /\ col.k \in Utterances /\ ~Unheard(col.k) /\ col.pc \notin Working
    BY <1>1 DEF Working, TurnInv, Control
<1>3. ClientKept /\ RuntimeKept /\ ProvidersKept
    BY <1>1, ClientUpset, RuntimeUnmoved, ProvidersUnmoved
<1>4. PICK own : own = col.k
    OBVIOUS
<1>5. PICK o, refs, n, lost :
          /\ o = col.out /\ refs = wire[own].refs \union (IF o.start THEN {ticket.refs} ELSE {})
          /\ lost = (wire[own].stray \/ (o.audio /\ o.ref \notin refs))
          /\ Sends([wire[col.k] EXCEPT !.whole = o.whole, !.refs = refs, !.ends = n, !.stray = lost])
    BY <1>4, Zenon DEF sendOutbound
<1>6. PICK w : w = [wire[own] EXCEPT !.whole = o.whole, !.refs = refs, !.ends = n, !.stray = lost]
    OBVIOUS
<1>7. /\ DOMAIN w = WireFields /\ w.whole = o.whole /\ w.stray = lost /\ w.cut = wire[own].cut
      /\ w.deltas = wire[own].deltas
    BY <1>2, <1>4, <1>6 DEF TurnInv, Shapes, WireFields
<1>8. /\ WireMoves /\ (client.up => wire'[own] = w) /\ (~client.up => wire'[own] = wire[own])
    BY <1>2, <1>4, <1>5, <1>6, <1>7, SendsOne
<1>9. DOMAIN col' = DOMAIN IdleCollect /\ col'.pc = "idle" /\ col'.turn = NoTurn
    BY <1>1 DEF IdleCollect
<1>10. TurnMoves
    BY <1>9 DEF TurnMoves, CollectPCs, Early
<1>11. WireInOrder(own)'
    <2>1. WireInOrder(own) /\ ~Unheard(own)'
        BY <1>1, <1>2, <1>4 DEF TurnInv, WiresInOrder, Unheard
    <2>2. (wire'[own].whole /\ wire'[own].deltas # <<>>) \/ wire'[own].stray => wire'[own].cut
        <3>1. CASE ~client.up
            BY <1>8, <2>1, <3>1 DEF WireInOrder
        <3>2. CASE client.up /\ wire[own].cut
            BY <1>7, <1>8, <3>2
        <3>3. CASE client.up /\ ~wire[own].cut
            <4>1. /\ o.whole => wire[own].deltas = <<>>
                  /\ o.audio => o.ref \in refs
                BY <1>1, <1>4, <1>5, <3>3 DEF TurnInv, SendInOrder
            <4> QED
                BY <1>5, <1>7, <1>8, <2>1, <3>3, <4>1 DEF WireInOrder
        <3> QED
            BY <3>1, <3>2, <3>3
    <2> QED
        BY <1>9, <2>1, <2>2 DEF WireInOrder, Early, Working
<1>12. WorkInOrder' /\ SendInOrder'
    BY <1>9 DEF WorkInOrder, SendInOrder, Working
<1>13. DOMAIN ticket' = {"used", "socket", "refs"} /\ ticket'.refs \in Nat
    BY <1>1 DEF TurnInv, Shapes
<1> QED
    BY <1>2, <1>3, <1>4, <1>8, <1>10, <1>11, <1>12, <1>13, ClearStays, CollectFrame

-----------------------------------------------------------------------------
(* The turns *)

\* The read loop works on a provider session only when there is one.
HasProvider == rt.pc \in {"starting", "reopen", "resetting"} => rt.started

LEMMA HasProviderStep == TurnInv /\ HasProvider /\ [Next]_vars => HasProvider'
<1> SUFFICES ASSUME TurnInv, HasProvider, [Next]_vars, rt'.pc \in {"starting", "reopen", "resetting"}
             PROVE  rt'.started
    BY DEF HasProvider
<1>0. DOMAIN rt = DOMAIN NoRuntime
    BY DEF TurnInv, Shapes
<1>1. CASE Vendor \/ UNCHANGED vars
    BY <1>1 DEF Vendor, Others, vars, HasProvider
<1>2. CASE Collect
    <2>1. rt' = rt \/ noteUserTurn
        BY <1>2 DEF Collect, UpdateInstructions, CommitTurn, collectTurn, turnReadFails,
            turnExpires, streamStart, streamFrames, resetAfterTurnReadFailure, closeout, sendOutbound
    <2>2. rt'.pc = rt.pc /\ rt'.started = rt.started
        BY <1>0, <2>1 DEF noteUserTurn, NoRuntime
    <2> QED
        BY <2>2 DEF HasProvider
<1>3. CASE \/ TicketExpires \/ ClientGone \/ \E s \in Sockets : Consume(s) \/ handshake(s)
    <2>1. rt' = rt \/ rt' = [rt EXCEPT !.pc = "idle"]
        BY <1>3, Zenon DEF TicketExpires, ClientGone, Consume, handshake
    <2> QED
        BY <1>0, <2>1 DEF HasProvider, NoRuntime
<1>4. CASE controlSessionStart
    <2>1. \/ rt' = [rt EXCEPT !.pc = "starting", !.started = TRUE, !.p = 1]
          \/ rt.started /\ rt' = [rt EXCEPT !.pc = "starting"]
          \/ rt' = [rt EXCEPT !.pc = "panicked"]
        BY <1>4, Zenon DEF controlSessionStart, Goto
    <2> QED
        BY <1>0, <2>1 DEF NoRuntime
<1>5. CASE handleAudio
    <2>1. /\ rt.started
          /\ \/ rt' = [rt EXCEPT !.pc = "idle"]
             \/ rt' = [rt EXCEPT !.pc = "reopen", !.reopenAttempted = TRUE]
             \/ rt' = [rt EXCEPT !.pc = "closing", !.broken = TRUE]
        BY <1>5, Zenon DEF handleAudio, Goto
    <2> QED
        BY <1>0, <2>1 DEF NoRuntime
<1>6. CASE controlTurnAbort
    <2>1. rt.started /\ \E pc : rt' = [rt EXCEPT !.pc = pc]
        <3>1. rt.started
            BY <1>6 DEF controlTurnAbort, TurnInv, Control
        <3>2. \E pc : rt' = [rt EXCEPT !.pc = pc]
            BY <1>6, Zenon DEF controlTurnAbort, Goto
        <3> QED
            BY <3>1, <3>2
    <2> QED
        BY <1>0, <2>1 DEF NoRuntime
<1>7. CASE \/ userSpeechStart \/ userSpeechEnd \/ controlInterrupt
    <2>1. rt' = rt \/ rt' = [rt EXCEPT !.reopenAttempted = FALSE]
        BY <1>7, Zenon DEF userSpeechStart, userSpeechEnd, controlInterrupt
    <2> QED
        BY <1>0, <2>1 DEF HasProvider, NoRuntime
<1>8. CASE \/ controlSessionEnd \/ providerStart \/ Reopen \/ resetDuplex \/ endSession \/ readFails \/ close
           \/ drained \/ persistOnExit
    <2>1. \/ \E pc \in {"ending", "idle", "closing", "persist", "closed"} : rt' = [rt EXCEPT !.pc = pc]
          \/ rt' = [rt EXCEPT !.pc = "retry", !.p = @ + 1]
          \/ rt' = [rt EXCEPT !.pc = "closing", !.broken = TRUE]
          \/ rt' = [rt EXCEPT !.pc = "closing", !.ended = TRUE]
          \/ rt' = [rt EXCEPT !.pc = "draining"]
          \/ rt' = [rt EXCEPT !.pc = "closed", !.ended = TRUE]
        BY <1>8, Zenon DEF controlSessionEnd, providerStart, Reopen, resetDuplex, endSession, readFails, close,
            drained, persistOnExit, Goto
    <2> QED
        BY <1>0, <2>1 DEF NoRuntime
<1> QED
    BY <1>1, <1>2, <1>3, <1>4, <1>5, <1>6, <1>7, <1>8 DEF Next, Reader, Client

LEMMA TurnStep == TurnInv /\ HasProvider /\ [Next]_vars => TurnInv'
<1> SUFFICES ASSUME TurnInv, HasProvider, [Next]_vars PROVE TurnInv'
    OBVIOUS
<1>1. CASE \/ Vendor \/ UNCHANGED vars \/ TicketExpires \/ ClientGone
           \/ \E s \in Sockets : Consume(s) \/ handshake(s)
           \/ controlSessionEnd \/ endSession \/ readFails \/ close \/ drained \/ persistOnExit
    BY <1>1, OutsideStep
<1>2. CASE controlSessionStart \/ providerStart \/ handleAudio \/ Reopen \/ resetDuplex \/ controlInterrupt
    BY <1>2, LoopStep DEF HasProvider
<1>3. CASE userSpeechStart \/ userSpeechEnd \/ controlTurnAbort
    BY <1>3, SpeechStartStep, SpeechEndStep, TurnAbortStep
<1>4. CASE Collect
    BY <1>4, NoteUserTurnStep, InstructStep, CommitStep, CollectStep, TurnOverStep, StreamStartStep,
        StreamFramesStep, ResetStep, CloseoutStep, SendStep DEF Collect
<1> QED
    BY <1>1, <1>2, <1>3, <1>4 DEF Next, Reader, Client

LEMMA TurnStart == Init => TurnInv /\ HasProvider
<1> SUFFICES ASSUME Init PROVE TurnInv /\ HasProvider
    OBVIOUS
<1>1. /\ DOMAIN NewProvider = ProviderFields /\ Clear(NewProvider) /\ NewProvider.ref = 0
      /\ NewProvider.framer = 0 /\ NewProvider.utterances = <<>>
      /\ ~NewProvider.streamedAudio /\ ~NewProvider.ttsStarted
    BY DEF NewProvider, ProviderFields, Clear
<1>2. NewProvider.utterances \in Seq({}) /\ DOMAIN NewProvider.utterances = {}
    BY <1>1
<1>3. ProviderShape(NewProvider)
    BY <1>1, <1>2 DEF ProviderShape
<1>4. prov = [p \in Providers |-> NewProvider] /\ wire = [k \in Utterances |-> NoWire]
    BY DEF Init
<1>5. /\ DOMAIN NoWire = WireFields /\ NoWire.deltas = <<>> /\ ~NoWire.whole /\ ~NoWire.stray
    BY DEF NoWire, WireFields
<1>6. /\ DOMAIN IdleCollect = DOMAIN col /\ col.pc = "idle" /\ col.turn = NoTurn
    BY DEF Init, IdleCollect
<1>7. /\ rt = NoRuntime /\ ~rt.started /\ rt.pc = "none"
    BY DEF Init, NoRuntime
<1>8. /\ client.spoke = 0 /\ ~client.open /\ DOMAIN client = {"up", "spoke", "open", "upsets"}
      /\ ticket.refs = 0 /\ DOMAIN ticket = {"used", "socket", "refs"}
    BY DEF Init
<1>9. Shapes
    BY <1>3, <1>4, <1>5, <1>6, <1>7, <1>8, DuplexAssumption DEF Shapes, CollectPCs
<1>10. Control
    BY <1>6, <1>7, <1>8 DEF Control, Early
<1>11. WiresInOrder
    BY <1>4, <1>5, <1>6 DEF WiresInOrder, WireInOrder, Early, Working
<1>12. ProvidersInOrder
    BY <1>1, <1>4 DEF ProvidersInOrder, ProviderInOrder
<1>13. WorkInOrder /\ SendInOrder
    BY <1>6 DEF WorkInOrder, SendInOrder, Working
<1>14. RowsInOrder
    BY <1>2, <1>4 DEF RowsInOrder
<1> QED
    BY <1>7, <1>9, <1>10, <1>11, <1>12, <1>13, <1>14 DEF TurnInv, HasProvider

\* However barge-ins, interrupts, reopens and resets interleave with the turn, a
\* reply that went out in fragments is not sent again, and every audio frame carries
\* the turn ref of a stream that was opened for it (provider_volc_duplex.go).
THEOREM RepliesArriveOnce == Spec => []ReplyArrivesOnce
<1>1. TurnInv => ReplyArrivesOnce
    BY DEF TurnInv, WiresInOrder, WireInOrder, ReplyArrivesOnce
<1> QED
    BY <1>1, TurnStart, TurnStep, HasProviderStep, PTL DEF Spec

\* The row of an interrupted reply holds exactly the fragments the client received.
THEOREM InterruptsAreAsHeard == Spec => []InterruptedAsHeard
<1>1. TurnInv => InterruptedAsHeard
    <2> SUFFICES ASSUME TurnInv, client.up, NEW p \in Providers, NEW i \in DOMAIN prov[p].utterances,
                        prov[p].utterances[i].interrupted, ~wire[prov[p].utterances[i].turn].cut
                 PROVE  prov[p].utterances[i].text = wire[prov[p].utterances[i].turn].deltas
        BY DEF InterruptedAsHeard
    <2> QED
        BY DEF TurnInv, RowsInOrder, RowInOrder
<1> QED
    BY <1>1, TurnStart, TurnStep, HasProviderStep, PTL DEF Spec

-----------------------------------------------------------------------------
(* The answers and the streams of the utterances *)

AnswerInv ==
    \A k \in Utterances :
        /\ Unheard(k) \/ (col.k = k /\ col.pc # "idle") => wire[k].ends = 0 /\ ~wire[k].failed
        /\ wire[k].ends \in {0, 1} /\ (wire[k].failed => wire[k].ends = 0)

\* A ref that a turn has drawn for its last frames is on the wire when these are.
RefInv ==
    /\ \A k \in Utterances : \A r \in wire[k].refs : r \in Nat /\ r <= ticket.refs
    /\ StreamsApart
    /\ col.pc = "send" /\ col.out.start => \A k \in Utterances : ticket.refs \notin wire[k].refs

\* Nothing is answered; a turn that begins is that of an utterance nobody has heard of.
NoAnswer ==
    /\ \A k \in Utterances : /\ wire'[k].ends = wire[k].ends /\ wire'[k].failed = wire[k].failed
                             /\ Unheard(k)' => Unheard(k)
    /\ col'.pc # "idle" => Unheard(col'.k) \/ (col.pc # "idle" /\ col'.k = col.k)

\* No stream is opened, and none is announced.
NoStream ==
    /\ \A k \in Utterances : wire'[k].refs = wire[k].refs
    /\ ticket'.refs = ticket.refs
    /\ col'.pc = "send" => col.pc = "send" /\ col'.out = col.out

LEMMA NoAnswerKeeps == ASSUME AnswerInv, NoAnswer PROVE AnswerInv'
<1> SUFFICES ASSUME NEW k \in Utterances
             PROVE  /\ (Unheard(k) \/ (col.k = k /\ col.pc # "idle") => wire[k].ends = 0 /\ ~wire[k].failed)'
                    /\ (wire[k].ends \in {0, 1} /\ (wire[k].failed => wire[k].ends = 0))'
    BY DEF AnswerInv
<1>1. wire'[k].ends = wire[k].ends /\ wire'[k].failed = wire[k].failed /\ (Unheard(k)' => Unheard(k))
    BY DEF NoAnswer
<1>2. col'.k = k /\ col'.pc # "idle" => Unheard(k) \/ (col.k = k /\ col.pc # "idle")
    BY DEF NoAnswer
<1> QED
    BY <1>1, <1>2 DEF AnswerInv

LEMMA NoStreamKeeps == ASSUME RefInv, NoStream PROVE RefInv'
<1>1. StreamsApart'
    BY DEF RefInv, NoStream, StreamsApart
<1> QED
    BY <1>1 DEF RefInv, NoStream

\* The steps that leave both the turn and the wire alone.
LEMMA BesideIsMute ==
    ASSUME TurnInv,
           \/ Vendor \/ UNCHANGED vars \/ TicketExpires \/ ClientGone
           \/ \E s \in Sockets : Consume(s) \/ handshake(s)
           \/ controlSessionEnd \/ endSession \/ readFails \/ close \/ drained \/ persistOnExit
           \/ controlSessionStart \/ providerStart \/ handleAudio \/ Reopen \/ resetDuplex \/ controlInterrupt
           \/ userSpeechStart
    PROVE  NoAnswer /\ NoStream
<1>1. UNCHANGED <<col, wire>>
    BY DEF Vendor, Others, vars, TicketExpires, ClientGone, Consume, handshake, controlSessionEnd,
        endSession, readFails, close, drained, persistOnExit, controlSessionStart, providerStart, handleAudio,
        Reopen, resetDuplex, controlInterrupt, userSpeechStart
<1>2. \A k \in Utterances : Unheard(k)' => Unheard(k)
    <2>0. client.spoke \in 0 .. MaxUtterances /\ MaxUtterances \in Nat
        BY DuplexAssumption DEF TurnInv, Shapes
    <2>1. \/ client' = client \/ Upset \/ client' = [client EXCEPT !.up = FALSE]
          \/ client' = [client EXCEPT !.spoke = @ + 1, !.open = TRUE]
        BY Zenon DEF Vendor, Others, vars, TicketExpires, ClientGone, Consume, handshake, controlSessionEnd,
            endSession, readFails, close, drained, persistOnExit, controlSessionStart, providerStart, handleAudio,
            Reopen, resetDuplex, controlInterrupt, userSpeechStart, DialFails
    <2>2. CASE client' = client \/ Upset \/ client' = [client EXCEPT !.up = FALSE]
        <3>1. client'.spoke = client.spoke /\ client'.open = client.open
            BY <2>2 DEF TurnInv, Shapes, Upset
        <3> QED
            BY <3>1 DEF Unheard
    <2>3. CASE client' = [client EXCEPT !.spoke = @ + 1, !.open = TRUE]
        <3>1. client'.spoke = client.spoke + 1
            BY <2>3 DEF TurnInv, Shapes
        <3> QED
            BY <2>0, <3>1 DEF Unheard, Utterances
    <2> QED
        BY <2>1, <2>2, <2>3
<1>3. ticket'.refs = ticket.refs
    <2>1. \/ ticket' = ticket \/ ticket' = [ticket EXCEPT !.used = TRUE]
          \/ \E s \in Sockets : \E x :
                \/ ticket' = [ticket EXCEPT !.used = TRUE, !.socket[s] = x]
                \/ ticket' = [ticket EXCEPT !.socket[s] = x]
        BY Zenon DEF Vendor, Others, vars, TicketExpires, ClientGone, Consume, handshake, controlSessionEnd,
            endSession, readFails, close, drained, persistOnExit, controlSessionStart, providerStart, handleAudio,
            Reopen, resetDuplex, controlInterrupt, userSpeechStart
    <2> QED
        BY <2>1 DEF TurnInv, Shapes
<1> QED
    BY <1>1, <1>2, <1>3 DEF NoAnswer, NoStream

LEMMA SpeechIsMute ==
    ASSUME TurnInv, userSpeechEnd \/ controlTurnAbort
    PROVE  NoAnswer /\ NoStream
<1>0. /\ client.open /\ client.spoke \in Utterances /\ UNCHANGED ticket
      /\ \A k \in Utterances : DOMAIN wire[k] = WireFields
    BY DEF userSpeechEnd, controlTurnAbort, TurnInv, Control, Shapes
<1>1. client'.spoke = client.spoke /\ ~client'.open
    BY DEF userSpeechEnd, controlTurnAbort, TurnInv, Shapes
<1>2. \A k \in Utterances : Unheard(k)' => Unheard(k)
    BY <1>1 DEF Unheard
<1>3. CASE userSpeechEnd
    <2>1. wire' = wire /\ (col' = col \/ col' = [IdleCollect EXCEPT !.pc = "turn", !.k = client.spoke])
        BY <1>3 DEF userSpeechEnd
    <2>2. CASE col' = [IdleCollect EXCEPT !.pc = "turn", !.k = client.spoke]
        <3>1. col'.pc = "turn" /\ col'.k = client.spoke /\ Unheard(client.spoke)
            BY <1>0, <2>2 DEF IdleCollect, Unheard
        <3> QED
            BY <1>0, <1>2, <2>1, <3>1 DEF NoAnswer, NoStream
    <2> QED
        BY <1>0, <1>2, <2>1, <2>2 DEF NoAnswer, NoStream
<1>4. CASE controlTurnAbort
    <2>1. col' = col /\ (wire' = wire \/ (col.pc # "idle" /\ wire' = [wire EXCEPT ![col.k].cut = TRUE]))
        BY <1>4 DEF controlTurnAbort
    <2>2. \A k \in Utterances : /\ wire'[k].ends = wire[k].ends /\ wire'[k].failed = wire[k].failed
                                /\ wire'[k].refs = wire[k].refs
        <3> SUFFICES ASSUME NEW k \in Utterances
                     PROVE  /\ wire'[k].ends = wire[k].ends /\ wire'[k].failed = wire[k].failed
                            /\ wire'[k].refs = wire[k].refs
            OBVIOUS
        <3>1. wire'[k] = wire[k] \/ wire'[k] = [wire[k] EXCEPT !.cut = TRUE]
            BY <2>1 DEF TurnInv, Shapes
        <3> QED
            BY <1>0, <3>1 DEF WireFields
    <2> QED
        BY <1>0, <1>2, <2>1, <2>2 DEF NoAnswer, NoStream
<1> QED
    BY <1>3, <1>4

\* A step of the turn: the wire is that of its own utterance.
LEMMA SendsOwn ==
    ASSUME TurnInv, col.pc # "idle", NEW w, Sends(w)
    PROVE  /\ col.k \in Utterances /\ DOMAIN wire[col.k] = WireFields
           /\ \A k \in Utterances \ {col.k} : wire'[k] = wire[k]
           /\ wire'[col.k] = w \/ wire'[col.k] = wire[col.k]
BY DEF TurnInv, Shapes, Control, Sends

LEMMA ClientStands == ASSUME TurnInv, client' = client \/ Upset PROVE \A k : Unheard(k)' <=> Unheard(k)
<1>1. client'.spoke = client.spoke /\ client'.open = client.open
    BY DEF TurnInv, Shapes, Upset
<1> QED
    BY <1>1 DEF Unheard

\* The turn goes on without a frame for the client that answers it.
LEMMA TurnIsMute ==
    ASSUME TurnInv, col.pc # "idle", client' = client \/ Upset, col'.k = col.k,
           \/ wire' = wire
           \/ \E w : /\ Sends(w) /\ w.ends = wire[col.k].ends /\ w.failed = wire[col.k].failed
                     /\ w.refs = wire[col.k].refs
    PROVE  /\ NoAnswer
           /\ ticket' = ticket /\ col'.pc # "send" => NoStream
<1>1. \A k \in Utterances : /\ wire'[k].ends = wire[k].ends /\ wire'[k].failed = wire[k].failed
                            /\ wire'[k].refs = wire[k].refs
    <2>1. ASSUME NEW w, Sends(w), w.ends = wire[col.k].ends, w.failed = wire[col.k].failed,
                 w.refs = wire[col.k].refs
          PROVE  \A k \in Utterances : /\ wire'[k].ends = wire[k].ends /\ wire'[k].failed = wire[k].failed
                                       /\ wire'[k].refs = wire[k].refs
        BY <2>1, SendsOwn
    <2> QED
        BY <2>1
<1>2. \A k \in Utterances : Unheard(k)' => Unheard(k)
    BY ClientStands
<1> QED
    BY <1>1, <1>2 DEF NoAnswer, NoStream

\* The turn is over, and answered.
LEMMA TurnAnswers ==
    ASSUME TurnInv, AnswerInv, RefInv, col.pc # "idle", col' = IdleCollect, UNCHANGED <<client, ticket>>,
           NEW w, Sends(w), w.ends \in {0, 1}, w.failed => w.ends = 0,
           \/ w.refs = wire[col.k].refs
           \/ col.pc = "send" /\ col.out.start /\ w.refs = wire[col.k].refs \cup {ticket.refs}
    PROVE  AnswerInv' /\ RefInv'
<1>0. /\ col.k \in Utterances /\ ~Unheard(col.k) /\ ticket.refs \in Nat /\ col'.pc = "idle"
      /\ \A k \in Utterances \ {col.k} : wire'[k] = wire[k]
      /\ wire'[col.k] = w \/ wire'[col.k] = wire[col.k]
    BY SendsOwn DEF TurnInv, Control, Shapes, IdleCollect
<1>1. AnswerInv'
    <2>1. \A k \in Utterances : Unheard(k)' <=> Unheard(k)
        BY ClientStands
    <2> QED
        BY <1>0, <2>1 DEF AnswerInv
<1>2. \A k \in Utterances : wire'[k].refs = wire[k].refs
          \/ (k = col.k /\ col.pc = "send" /\ col.out.start /\ wire'[k].refs = wire[k].refs \cup {ticket.refs})
    BY <1>0
<1>3. StreamsApart'
    <2> SUFFICES ASSUME NEW k \in Utterances, NEW j \in Utterances, k # j,
                        NEW r \in wire'[k].refs, r \in wire'[j].refs
                 PROVE  FALSE
        BY DEF StreamsApart
    <2> QED
        BY <1>2 DEF RefInv, StreamsApart
<1> QED
    BY <1>0, <1>1, <1>2, <1>3 DEF RefInv

\* A turn that cannot begin: an error frame, and the goroutine is done.
LEMMA RefusalAnswers ==
    ASSUME TurnInv, AnswerInv, RefInv, col.pc # "idle", col' = IdleCollect, UNCHANGED <<client, ticket>>,
           Sends([wire[col.k] EXCEPT !.failed = TRUE])
    PROVE  AnswerInv' /\ RefInv'
<1>1. PICK w : w = [wire[col.k] EXCEPT !.failed = TRUE]
    OBVIOUS
<1>2. col.k \in Utterances /\ DOMAIN wire[col.k] = WireFields
    BY DEF TurnInv, Shapes, Control
<1>3. w.failed /\ w.ends = wire[col.k].ends /\ w.refs = wire[col.k].refs
    BY <1>1, <1>2 DEF WireFields
<1>4. wire[col.k].ends = 0
    BY <1>2 DEF AnswerInv
<1> QED
    BY <1>1, <1>3, <1>4, TurnAnswers

LEMMA ApproachAnswers ==
    ASSUME TurnInv, AnswerInv, RefInv, noteUserTurn \/ UpdateInstructions \/ CommitTurn
    PROVE  AnswerInv' /\ RefInv'
<1>1. col.pc \in Early /\ UNCHANGED <<client, ticket>>
    BY DEF noteUserTurn, UpdateInstructions, CommitTurn, Early
<1>2. \/ col' = IdleCollect /\ Sends([wire[col.k] EXCEPT !.failed = TRUE])
      \/ /\ wire' = wire
         /\ \/ \E p, d, pc : /\ col' = [col EXCEPT !.p = p, !.d = d, !.pc = pc]
                             /\ pc \in {"instruct", "commit"}
            \/ \E s : col' = [col EXCEPT !.skipped = s]
            \/ col' = [col EXCEPT !.pc = "commit"]
            \/ \E d : col' = [col EXCEPT !.pc = "wait", !.d = d]
    <2>1. CASE noteUserTurn
        <3>1. PICK pc : pc = (IF (P.pending \/ (TurnLimit > 0 /\ rt.turns + 1 = TurnLimit)) /\ Sendable(P.d)
                              THEN "instruct" ELSE "commit")
            OBVIOUS
        <3> QED
            BY <2>1, <3>1, Zenon DEF noteUserTurn
    <2>2. CASE UpdateInstructions
        BY <2>2, Zenon DEF UpdateInstructions, Step
    <2>3. CASE CommitTurn
        BY <2>3, Zenon DEF CommitTurn, CommitFailed
    <2> QED
        BY <2>1, <2>2, <2>3
<1>3. CASE col' = IdleCollect /\ Sends([wire[col.k] EXCEPT !.failed = TRUE])
    BY <1>1, <1>3, RefusalAnswers DEF Early
<1>4. CASE /\ wire' = wire
           /\ \/ \E p, d, pc : /\ col' = [col EXCEPT !.p = p, !.d = d, !.pc = pc]
                               /\ pc \in {"instruct", "commit"}
              \/ \E s : col' = [col EXCEPT !.skipped = s]
              \/ col' = [col EXCEPT !.pc = "commit"]
              \/ \E d : col' = [col EXCEPT !.pc = "wait", !.d = d]
    <2>1. col'.k = col.k /\ col'.pc # "send"
        BY <1>1, <1>4 DEF TurnInv, Shapes, IdleCollect, Early
    <2> QED
        BY <1>1, <1>4, <2>1, TurnIsMute, NoAnswerKeeps, NoStreamKeeps DEF Early
<1> QED
    BY <1>2, <1>3, <1>4

\* Fragments, audio frames and a dead vendor session answer nothing.
LEMMA WorkAnswers ==
    ASSUME TurnInv, AnswerInv, RefInv,
           collectTurn \/ turnReadFails \/ turnExpires \/ streamFrames \/ resetAfterTurnReadFailure
    PROVE  AnswerInv' /\ RefInv'
<1>1. col.pc \in Working /\ UNCHANGED ticket
    BY DEF collectTurn, turnReadFails, turnExpires, WindowOver, streamFrames, resetAfterTurnReadFailure, Working
<1>2. client' = client \/ Upset
    BY Zenon DEF collectTurn, turnReadFails, turnExpires, streamFrames, resetAfterTurnReadFailure, DialFails
<1>3. col'.k = col.k /\ col'.pc # "send"
    <2>1. CASE collectTurn
        <3>1. PICK e : Collects(e)
            BY <2>1, Zenon DEF collectTurn
        <3>2. PICK t, o, s, pc : /\ col' = [col EXCEPT !.turn = t, !.opens = o, !.skipped = s, !.pc = pc]
                                 /\ pc \in {"closeout", "audio", "wait"}
            BY <3>1 DEF Collects
        <3> QED
            BY <1>1, <3>2, AtWork DEF IdleCollect
    <2>2. CASE turnReadFails \/ turnExpires
        <3>1. \E o : \/ col' = [col EXCEPT !.pc = "reset", !.turn.outcome = o]
                     \/ col' = [col EXCEPT !.pc = "closeout", !.turn.outcome = o]
            BY <2>2, Zenon DEF turnReadFails, turnExpires
        <3> QED
            BY <1>1, <3>1, AtWork DEF IdleCollect
    <2>3. CASE streamFrames \/ resetAfterTurnReadFailure
        BY <1>1, <2>3, AtWork DEF streamFrames, resetAfterTurnReadFailure, Step, IdleCollect
    <2> QED
        BY <2>1, <2>2, <2>3
<1>4. \/ wire' = wire
      \/ \E w : /\ Sends(w) /\ w.ends = wire[col.k].ends /\ w.failed = wire[col.k].failed
                /\ w.refs = wire[col.k].refs
    <2>1. CASE collectTurn
        <3>1. PICK e : Collects(e)
            BY <2>1, Zenon DEF collectTurn
        <3>2. PICK w : Sends(w) /\ (w = wire[col.k] \/ \E x : w = [wire[col.k] EXCEPT !.deltas = x])
            BY <3>1 DEF Collects
        <3> QED
            BY <1>1, <3>2, AtWork DEF WireFields
    <2>2. CASE turnReadFails \/ turnExpires \/ resetAfterTurnReadFailure
        BY <2>2 DEF turnReadFails, turnExpires, resetAfterTurnReadFailure
    <2>3. CASE streamFrames
        <3>1. PICK w, x : Sends(w) /\ w = [wire[col.k] EXCEPT !.stray = x]
            BY <2>3 DEF streamFrames
        <3> QED
            BY <1>1, <3>1, AtWork DEF WireFields
    <2> QED
        BY <2>1, <2>2, <2>3
<1> QED
    BY <1>1, <1>2, <1>3, <1>4, AtWork, TurnIsMute, NoAnswerKeeps, NoStreamKeeps

\* The ref of a stream that opens is one more than any that was given.
LEMMA StreamAnswers == ASSUME TurnInv, AnswerInv, RefInv, streamStart PROVE AnswerInv' /\ RefInv'
<1>1. col.pc = "audio" /\ col.pc \in Working /\ Step("frames") /\ UNCHANGED client
    BY DEF streamStart, Working
<1>2. col'.k = col.k /\ col'.pc = "frames"
    BY <1>1, AtWork DEF Step, IdleCollect
<1>3. CASE ~col.opens
    <2>1. UNCHANGED <<ticket, wire>>
        BY <1>3 DEF streamStart
    <2> QED
        BY <1>1, <1>2, <2>1, TurnIsMute, NoAnswerKeeps, NoStreamKeeps
<1>4. CASE col.opens
    <2>1. ticket.refs \in Nat /\ col.k \in Utterances /\ DOMAIN wire[col.k] = WireFields
        BY <1>1, AtWork
    <2>2. PICK n \in Nat : n = ticket.refs + 1
        BY <2>1
    <2>3. ticket'.refs = n
        BY <1>1, <1>4, <2>2, AtWork DEF streamStart
    <2>4. PICK w : w = [wire[col.k] EXCEPT !.refs = @ \union {n}]
        OBVIOUS
    <2>5. w.ends = wire[col.k].ends /\ w.failed = wire[col.k].failed /\ w.refs = wire[col.k].refs \union {n}
        BY <2>1, <2>4 DEF WireFields
    <2>6. Sends(w)
        BY <1>4, <2>2, <2>4 DEF streamStart
    <2>7. /\ \A k \in Utterances \ {col.k} : wire'[k] = wire[k]
          /\ wire'[col.k] = w \/ wire'[col.k] = wire[col.k]
        BY <1>1, <2>6, SendsOwn
    <2>8. \A k \in Utterances : wire'[k].refs = wire[k].refs
              \/ (k = col.k /\ wire'[k].refs = wire[k].refs \union {n})
        BY <2>5, <2>7
    <2>9. \A k \in Utterances : n \notin wire[k].refs
        BY <2>1, <2>2 DEF RefInv
    <2>10. StreamsApart'
        <3> SUFFICES ASSUME NEW k \in Utterances, NEW j \in Utterances, k # j,
                            NEW r \in wire'[k].refs, r \in wire'[j].refs
                     PROVE  FALSE
            BY DEF StreamsApart
        <3> QED
            BY <2>8, <2>9 DEF RefInv, StreamsApart
    <2>11. \A k \in Utterances : \A r \in wire'[k].refs : r \in Nat /\ r <= n
        BY <2>1, <2>2, <2>8 DEF RefInv
    <2>12. NoAnswer
        <3>1. \A k \in Utterances : Unheard(k)' => Unheard(k)
            BY <1>1, ClientStands
        <3> QED
            BY <1>1, <1>2, <2>5, <2>7, <3>1 DEF NoAnswer
    <2> QED
        BY <1>2, <2>3, <2>10, <2>11, <2>12, NoAnswerKeeps DEF RefInv
<1> QED
    BY <1>3, <1>4

\* A turn that has not streamed draws its ref before its last frames are sent.
LEMMA CloseoutAnswers == ASSUME TurnInv, AnswerInv, RefInv, closeout PROVE AnswerInv' /\ RefInv'
<1>1. col.pc \in Working /\ UNCHANGED <<wire, client>>
    BY DEF closeout, Working
<1>2. PICK ref, o : /\ ref = ticket.refs + 1
                    /\ col' = [col EXCEPT !.pc = "send", !.out = o]
                    /\ ticket' = IF o.start THEN [ticket EXCEPT !.refs = ref] ELSE ticket
    BY Zenon DEF closeout
<1>3. col'.k = col.k /\ col'.pc = "send" /\ col'.out = o
    BY <1>1, <1>2, AtWork DEF IdleCollect
<1>4. NoAnswer
    BY <1>1, <1>3, AtWork, TurnIsMute
<1>5. ticket.refs \in Nat /\ ticket'.refs \in Nat /\ ticket'.refs >= ticket.refs
      /\ (o.start => ticket'.refs = ticket.refs + 1)
    BY <1>1, <1>2, AtWork
<1>6. StreamsApart'
    BY <1>1 DEF RefInv, StreamsApart
<1>7. \A k \in Utterances : \A r \in wire'[k].refs : r \in Nat /\ r <= ticket'.refs
    BY <1>1, <1>5 DEF RefInv
<1>8. o.start => \A k \in Utterances : ticket'.refs \notin wire'[k].refs
    BY <1>1, <1>5 DEF RefInv
<1> QED
    BY <1>3, <1>4, <1>6, <1>7, <1>8, NoAnswerKeeps DEF RefInv

\* ai.turn.end.
LEMMA SendAnswers == ASSUME TurnInv, AnswerInv, RefInv, sendOutbound PROVE AnswerInv' /\ RefInv'
<1>1. col.pc = "send" /\ col' = IdleCollect /\ UNCHANGED <<client, ticket>>
    BY DEF sendOutbound
<1>2. col.k \in Utterances /\ DOMAIN wire[col.k] = WireFields
    BY <1>1 DEF TurnInv, Shapes, Control
<1>3. PICK v, s, refs, w : /\ refs = wire[col.k].refs \union (IF col.out.start THEN {ticket.refs} ELSE {})
                           /\ w = [wire[col.k] EXCEPT !.whole = v, !.refs = refs, !.ends = @ + 1, !.stray = s]
                           /\ Sends(w)
    BY Zenon DEF sendOutbound
<1>4. w.ends = wire[col.k].ends + 1 /\ w.failed = wire[col.k].failed /\ w.refs = refs
    BY <1>2, <1>3 DEF WireFields
<1>5. wire[col.k].ends = 0 /\ ~wire[col.k].failed
    BY <1>1, <1>2 DEF AnswerInv
<1>6. refs = wire[col.k].refs \/ (col.out.start /\ refs = wire[col.k].refs \union {ticket.refs})
    BY <1>3
<1>7. w.ends \in {0, 1} /\ (w.failed => w.ends = 0)
    BY <1>4, <1>5
<1>8. Sends(w) /\ col.pc # "idle"
    BY <1>1, <1>3
<1>9. w.refs = wire[col.k].refs \/ (col.pc = "send" /\ col.out.start /\ w.refs = wire[col.k].refs \cup {ticket.refs})
    BY <1>1, <1>4, <1>6
<1> QED
    BY <1>1, <1>7, <1>8, <1>9, TurnAnswers

LEMMA AnswerStep == TurnInv /\ AnswerInv /\ RefInv /\ [Next]_vars => AnswerInv' /\ RefInv'
<1> SUFFICES ASSUME TurnInv, AnswerInv, RefInv, [Next]_vars PROVE AnswerInv' /\ RefInv'
    OBVIOUS
<1>1. CASE \/ Vendor \/ UNCHANGED vars \/ TicketExpires \/ ClientGone
           \/ \E s \in Sockets : Consume(s) \/ handshake(s)
           \/ controlSessionEnd \/ endSession \/ readFails \/ close \/ drained \/ persistOnExit
           \/ controlSessionStart \/ providerStart \/ handleAudio \/ Reopen \/ resetDuplex \/ controlInterrupt
           \/ userSpeechStart
    BY <1>1, BesideIsMute, NoAnswerKeeps, NoStreamKeeps
<1>2. CASE userSpeechEnd \/ controlTurnAbort
    BY <1>2, SpeechIsMute, NoAnswerKeeps, NoStreamKeeps
<1>3. CASE Collect
    BY <1>3, ApproachAnswers, WorkAnswers, StreamAnswers, CloseoutAnswers, SendAnswers DEF Collect
<1> QED
    BY <1>1, <1>2, <1>3 DEF Next, Reader, Client

LEMMA AnswerStart == Init => AnswerInv /\ RefInv
<1> SUFFICES ASSUME Init PROVE AnswerInv /\ RefInv
    OBVIOUS
<1>1. wire = [k \in Utterances |-> NoWire] /\ col = IdleCollect
    BY DEF Init
<1>2. NoWire.ends = 0 /\ ~NoWire.failed /\ NoWire.refs = {} /\ col.pc = "idle"
    BY <1>1 DEF NoWire, IdleCollect
<1> QED
    BY <1>1, <1>2 DEF AnswerInv, RefInv, StreamsApart

\* Whichever of the goroutine's exits a turn takes - refused, not committed, closed - its utterance is
\* answered with one frame, never with two and never with both kinds (handler_control.go).
THEOREM TurnsAnsweredOnce == Spec => []AnsweredOnce
<1>1. AnswerInv => AnsweredOnce
    BY DEF AnswerInv, AnsweredOnce
<1> QED
    BY <1>1, AnswerStart, AnswerStep, TurnStart, TurnStep, HasProviderStep, PTL DEF Spec

\* No turn ref is that of two replies, although a turn may draw one as it streams and another when it
\* is closed, and the send comes a step after the draw (TurnRefAllocator).
THEOREM StreamsAreApart == Spec => []StreamsApart
<1>1. RefInv => StreamsApart
    BY DEF RefInv
<1> QED
    BY <1>1, AnswerStart, AnswerStep, TurnStart, TurnStep, HasProviderStep, PTL DEF Spec

-----------------------------------------------------------------------------
(* One ticket, one connection *)

Admitted(s) == ticket.socket[s] \in {"consumed", "ready"}

TicketInv ==
    /\ DOMAIN ticket.socket = Sockets
    /\ \A s \in Sockets : Admitted(s) => ticket.used
    /\ TicketOpensOne

\* What every step but the handshake's two does with the ticket and the runtime.
TicketStands ==
    /\ ticket'.socket = ticket.socket /\ (ticket.used => ticket'.used)
    /\ rt'.pc # "none" => rt.pc # "none"

LEMMA TicketRests ==
    ASSUME TurnInv,
           \/ Vendor \/ UNCHANGED vars \/ Reader \/ Collect \/ TicketExpires \/ controlSessionStart
           \/ userSpeechStart \/ handleAudio \/ userSpeechEnd \/ controlTurnAbort \/ controlInterrupt
           \/ controlSessionEnd \/ ClientGone
    PROVE  TicketStands
<1>0. DOMAIN rt = DOMAIN NoRuntime /\ DOMAIN ticket = {"used", "socket", "refs"}
    BY DEF TurnInv, Shapes
<1>1. CASE Vendor \/ UNCHANGED vars \/ ClientGone
    BY <1>1 DEF Vendor, Others, vars, ClientGone, TicketStands
<1>2. CASE Reader \/ handleAudio
    <2>1. /\ UNCHANGED ticket
          /\ rt.pc \in {"starting", "reopen", "resetting", "ending", "idle", "closing", "draining", "persist", "retry"}
        BY <1>2 DEF Reader, providerStart, Reopen, resetDuplex, endSession, readFails, close, drained,
            persistOnExit, handleAudio, Reading
    <2> QED
        BY <2>1 DEF TicketStands
<1>3. CASE \/ controlSessionStart \/ userSpeechStart \/ userSpeechEnd \/ controlTurnAbort \/ controlInterrupt
           \/ controlSessionEnd
    <2>1. UNCHANGED ticket /\ rt.pc = "idle"
        BY <1>3 DEF controlSessionStart, userSpeechStart, userSpeechEnd, controlTurnAbort, controlInterrupt,
            controlSessionEnd, Reading
    <2> QED
        BY <2>1 DEF TicketStands
<1>4. CASE TicketExpires
    BY <1>0, <1>4 DEF TicketExpires, TicketStands
<1>5. CASE Collect
    <2>1. rt' = rt \/ \E n, c : rt' = [rt EXCEPT !.turns = n, !.complete = c]
        BY <1>5, Zenon DEF Collect, noteUserTurn, UpdateInstructions, CommitTurn, collectTurn, turnReadFails,
            turnExpires, streamStart, streamFrames, resetAfterTurnReadFailure, closeout, sendOutbound
    <2>2. ticket' = ticket \/ \E n : ticket' = [ticket EXCEPT !.refs = n]
        BY <1>5, Zenon DEF Collect, noteUserTurn, UpdateInstructions, CommitTurn, collectTurn, turnReadFails,
            turnExpires, streamStart, streamFrames, resetAfterTurnReadFailure, closeout, sendOutbound
    <2> QED
        BY <1>0, <2>1, <2>2 DEF TicketStands, NoRuntime
<1> QED
    BY <1>1, <1>2, <1>3, <1>4, <1>5

LEMMA TicketKeeps == ASSUME TicketInv, TicketStands PROVE TicketInv'
BY DEF TicketInv, TicketStands, TicketOpensOne, Admitted

LEMMA ConsumeOpens ==
    ASSUME TurnInv, TicketInv, NEW s \in Sockets, Consume(s)
    PROVE  TicketInv'
<1>0. DOMAIN ticket = {"used", "socket", "refs"} /\ DOMAIN ticket.socket = Sockets /\ rt' = rt
    BY DEF TurnInv, Shapes, TicketInv, Consume
<1>1. CASE ticket.used
    <2>1. ticket' = [ticket EXCEPT !.socket[s] = "refused"] /\ ticket.socket[s] = "new"
        BY <1>1 DEF Consume, ConsumeTicket
    <2>2. /\ DOMAIN ticket'.socket = Sockets /\ ticket'.socket[s] = "refused" /\ ticket'.used = ticket.used
          /\ \A t \in Sockets \ {s} : ticket'.socket[t] = ticket.socket[t]
        BY <1>0, <2>1
    <2>3. \A t \in Sockets : Admitted(t)' => Admitted(t)
        BY <2>2 DEF Admitted
    <2>4. \A t \in Sockets : ticket.socket[t] = "ready" => ticket'.socket[t] = "ready"
        BY <2>1, <2>2
    <2> QED
        BY <1>0, <1>1, <2>2, <2>3, <2>4 DEF TicketInv, TicketOpensOne, Admitted
<1>2. CASE ~ticket.used
    <2>1. ticket' = [ticket EXCEPT !.used = TRUE, !.socket[s] = "consumed"] /\ ticket.socket[s] = "new"
        BY <1>2 DEF Consume, ConsumeTicket
    <2>2. /\ DOMAIN ticket'.socket = Sockets /\ ticket'.socket[s] = "consumed" /\ ticket'.used
          /\ \A t \in Sockets \ {s} : ticket'.socket[t] = ticket.socket[t]
        BY <1>0, <2>1
    <2>3. \A t \in Sockets : ~Admitted(t)
        BY <1>2 DEF TicketInv
    <2>4. rt'.pc = "none"
        BY <1>0, <2>3 DEF TicketInv, TicketOpensOne, Admitted
    <2> QED
        BY <2>2, <2>3, <2>4 DEF TicketInv, TicketOpensOne, Admitted
<1> QED
    BY <1>1, <1>2

LEMMA HandshakeOpens ==
    ASSUME TurnInv, TicketInv, NEW s \in Sockets, handshake(s)
    PROVE  TicketInv'
<1>0. /\ DOMAIN ticket = {"used", "socket", "refs"} /\ DOMAIN ticket.socket = Sockets
      /\ ticket.socket[s] = "consumed"
    BY DEF TurnInv, Shapes, TicketInv, handshake
<1>1. PICK x \in {"ready", "refused"} : ticket' = [ticket EXCEPT !.socket[s] = x] /\ (x = "ready" \/ rt' = rt)
    BY DEF handshake
<1>2. /\ DOMAIN ticket'.socket = Sockets /\ ticket'.socket[s] = x /\ ticket'.used = ticket.used
      /\ \A t \in Sockets \ {s} : ticket'.socket[t] = ticket.socket[t]
    BY <1>0, <1>1
<1>3. \A t \in Sockets : Admitted(t)' => Admitted(t)
    BY <1>0, <1>2 DEF Admitted
<1>4. \A t \in Sockets : ticket.socket[t] = "ready" => ticket'.socket[t] = "ready"
    BY <1>0, <1>2
<1>5. rt'.pc # "none" => \E t \in Sockets : ticket'.socket[t] = "ready"
    BY <1>1, <1>2, <1>4 DEF TicketInv, TicketOpensOne
<1> QED
    BY <1>2, <1>3, <1>5 DEF TicketInv, TicketOpensOne, Admitted

LEMMA TicketStep == TurnInv /\ TicketInv /\ [Next]_vars => TicketInv'
<1> SUFFICES ASSUME TurnInv, TicketInv, [Next]_vars PROVE TicketInv'
    OBVIOUS
<1>1. CASE \E s \in Sockets : Consume(s) \/ handshake(s)
    BY <1>1, ConsumeOpens, HandshakeOpens
<1>2. CASE \/ Vendor \/ UNCHANGED vars \/ Reader \/ Collect \/ TicketExpires \/ controlSessionStart
           \/ userSpeechStart \/ handleAudio \/ userSpeechEnd \/ controlTurnAbort \/ controlInterrupt
           \/ controlSessionEnd \/ ClientGone
    BY <1>2, TicketRests, TicketKeeps
<1> QED
    BY <1>1, <1>2 DEF Next, Client

LEMMA TicketStart == Init => TicketInv
<1> SUFFICES ASSUME Init PROVE TicketInv
    OBVIOUS
<1>1. DOMAIN ticket.socket = Sockets /\ (\A s \in Sockets : ticket.socket[s] = "new") /\ rt.pc = "none"
    BY DEF Init, NoRuntime
<1> QED
    BY <1>1 DEF TicketInv, TicketOpensOne, Admitted

\* However many sockets present the ticket, and whatever becomes of the answers, it opens one connection.
THEOREM TicketsOpenOne == Spec => []TicketOpensOne
<1>1. TicketInv => TicketOpensOne
    BY DEF TicketInv
<1> QED
    BY <1>1, TicketStart, TicketStep, TurnStart, TurnStep, HasProviderStep, PTL DEF Spec

-----------------------------------------------------------------------------
(* The types *)

\* The words of a reply are always those of an utterance.
Sent == {e \in Event : e.kind \in {"text", "revised"} => e.of # 0}

\* The vendor is somewhere inside its reply, never past the end of it.
DuplexShape ==
    [conn : {"none", "open", "closed"}, up : BOOLEAN, muted : BOOLEAN, events : Seq(Sent),
     hears : 0 .. MaxUtterances, live : BOOLEAN, owes : Seq(Utterances), stage : 0 .. Len(ReplyOrder) - 1,
     asked : BOOLEAN]
TicketShape == [used : BOOLEAN, refs : Nat, socket : [Sockets -> {"new", "consumed", "refused", "ready"}]]
RuntimeShape == [pc : Loops, started : BOOLEAN, p : 0 .. MaxProviders, reopenAttempted : BOOLEAN,
                 broken : BOOLEAN, turns : Nat, complete : BOOLEAN, ended : BOOLEAN]
CollectShape == [pc : CollectPCs, k : 0 .. MaxUtterances, p : 0 .. MaxProviders, d : 0 .. MaxDuplex,
                 opens : BOOLEAN, skipped : Seq(Sent), turn : Turn, out : Closeout]
WireShape == [deltas : Seq(Utterances), whole : BOOLEAN, refs : SUBSET Nat, stray : BOOLEAN, ends : Nat,
              failed : BOOLEAN, cut : BOOLEAN]
AppShape == [status : {"created", "active", "ended"}, saved : Seq(Row), lost : BOOLEAN]
ClientShape == [up : BOOLEAN, spoke : 0 .. MaxUtterances, open : BOOLEAN, upsets : 0 .. MaxUpsets]

TypeInv ==
    /\ dup \in [Duplexes -> DuplexShape] /\ prov \in [Providers -> ProviderRecord]
    /\ ticket \in TicketShape /\ rt \in RuntimeShape /\ col \in CollectShape
    /\ wire \in [Utterances -> WireShape] /\ app \in AppShape /\ client \in ClientShape

\* A turn past its beginning reads a vendor session that there is, and is closed
\* with an outcome; rows are stored for a session that was started.
PlaceInv ==
    /\ col.pc \notin {"idle", "turn", "send"} => col.d \in Duplexes
    /\ col.pc \in {"reset", "closeout"} => col.turn.outcome # ""
    /\ rt.pc \in {"ending", "persist"} => rt.started

LEMMA ClientTyped == ASSUME TypeInv, [Next]_vars PROVE client' \in ClientShape
<1>0. client \in ClientShape
    BY DEF TypeInv
<1>1. \/ client' = client \/ Upset \/ client' = [client EXCEPT !.up = FALSE]
      \/ client.spoke < MaxUtterances /\ client' = [client EXCEPT !.spoke = @ + 1, !.open = TRUE]
      \/ client' = [client EXCEPT !.open = FALSE]
      \/ client.upsets < MaxUpsets /\ client' = [client EXCEPT !.open = FALSE, !.upsets = @ + 1]
    <2>1. CASE Vendor \/ UNCHANGED vars
        BY <2>1, Zenon DEF Vendor, Others, vars
    <2>2. CASE Reader \/ handleAudio
        BY <2>2, Zenon DEF Reader, providerStart, Reopen, resetDuplex, endSession, readFails, close, drained,
            persistOnExit, handleAudio, DialFails
    <2>3. CASE Collect
        BY <2>3, Zenon DEF Collect, noteUserTurn, UpdateInstructions, CommitTurn, collectTurn, turnReadFails,
            turnExpires, streamStart, streamFrames, resetAfterTurnReadFailure, closeout, sendOutbound, DialFails
    <2>4. CASE \/ TicketExpires \/ ClientGone \/ controlSessionEnd \/ controlSessionStart \/ controlInterrupt
               \/ userSpeechStart \/ userSpeechEnd \/ controlTurnAbort
               \/ \E s \in Sockets : Consume(s) \/ handshake(s)
        BY <2>4, Zenon DEF TicketExpires, ClientGone, controlSessionEnd, controlSessionStart, controlInterrupt,
            userSpeechStart, userSpeechEnd, controlTurnAbort, Consume, handshake
    <2> QED
        BY <2>1, <2>2, <2>3, <2>4, Zenon DEF Next, Client
<1> QED
    <2>0. MaxUtterances \in Nat /\ MaxUpsets \in Nat /\ client.spoke \in 0 .. MaxUtterances /\ client.upsets \in 0 .. MaxUpsets
        BY <1>0, DuplexAssumption, ConnectionAssumption DEF ClientShape
    <2>1. ASSUME NEW n \in 0 .. MaxUtterances, NEW u \in 0 .. MaxUpsets
          PROVE  /\ [client EXCEPT !.up = FALSE] \in ClientShape /\ [client EXCEPT !.open = FALSE] \in ClientShape
                 /\ [client EXCEPT !.upsets = u] \in ClientShape
                 /\ [client EXCEPT !.spoke = n, !.open = TRUE] \in ClientShape
                 /\ [client EXCEPT !.open = FALSE, !.upsets = u] \in ClientShape
        BY <1>0 DEF ClientShape
    <2>2. CASE Upset
        <3>1. client.upsets + 1 \in 0 .. MaxUpsets /\ client' = [client EXCEPT !.upsets = client.upsets + 1]
            BY <2>0, <2>2 DEF Upset
        <3> QED
            BY <2>0, <2>1, <3>1
    <2>3. CASE client.spoke < MaxUtterances /\ client' = [client EXCEPT !.spoke = @ + 1, !.open = TRUE]
        <3>1. client.spoke + 1 \in 0 .. MaxUtterances
            BY <2>0, <2>3
        <3> QED
            BY <2>0, <2>1, <2>3, <3>1
    <2>4. CASE client.upsets < MaxUpsets /\ client' = [client EXCEPT !.open = FALSE, !.upsets = @ + 1]
        <3>1. client.upsets + 1 \in 0 .. MaxUpsets
            BY <2>0, <2>4
        <3> QED
            BY <2>0, <2>1, <2>4, <3>1
    <2> QED
        BY <1>0, <1>1, <2>0, <2>1, <2>2, <2>3, <2>4

LEMMA TicketTyped == ASSUME TypeInv, [Next]_vars PROVE ticket' \in TicketShape
<1>0. ticket \in TicketShape
    BY DEF TypeInv
<1>1. \/ ticket' = ticket \/ ticket' = [ticket EXCEPT !.used = TRUE]
      \/ \E s \in Sockets : \/ ticket' = [ticket EXCEPT !.used = TRUE, !.socket[s] = "consumed"]
                            \/ ticket' = [ticket EXCEPT !.socket[s] = "refused"]
                            \/ ticket' = [ticket EXCEPT !.socket[s] = "ready"]
      \/ ticket' = [ticket EXCEPT !.refs = ticket.refs + 1]
    <2>1. CASE Vendor \/ UNCHANGED vars
        BY <2>1, Zenon DEF Vendor, Others, vars
    <2>2. CASE Reader \/ handleAudio
        BY <2>2, Zenon DEF Reader, providerStart, Reopen, resetDuplex, endSession, readFails, close, drained,
            persistOnExit, handleAudio
    <2>3. CASE Collect
        BY <2>3, Zenon DEF Collect, noteUserTurn, UpdateInstructions, CommitTurn, collectTurn, turnReadFails,
            turnExpires, streamStart, streamFrames, resetAfterTurnReadFailure, closeout, sendOutbound
    <2>4. CASE \/ TicketExpires \/ ClientGone \/ controlSessionEnd \/ controlSessionStart \/ controlInterrupt
               \/ userSpeechStart \/ userSpeechEnd \/ controlTurnAbort
               \/ \E s \in Sockets : Consume(s) \/ handshake(s)
        BY <2>4, Zenon DEF TicketExpires, ClientGone, controlSessionEnd, controlSessionStart, controlInterrupt,
            userSpeechStart, userSpeechEnd, controlTurnAbort, Consume, handshake
    <2> QED
        BY <2>1, <2>2, <2>3, <2>4, Zenon DEF Next, Client
<1>2. ASSUME NEW s \in Sockets, NEW x \in {"consumed", "refused", "ready"}
      PROVE  /\ [ticket EXCEPT !.used = TRUE, !.socket[s] = x] \in TicketShape
             /\ [ticket EXCEPT !.socket[s] = x] \in TicketShape
    BY <1>0 DEF TicketShape
<1>3. [ticket EXCEPT !.used = TRUE] \in TicketShape
    BY <1>0 DEF TicketShape
<1>4. [ticket EXCEPT !.refs = ticket.refs + 1] \in TicketShape
    BY <1>0 DEF TicketShape
<1> QED
    BY <1>0, <1>1, <1>2, <1>3, <1>4

LEMMA RuntimeTyped == ASSUME TypeInv, [Next]_vars PROVE rt' \in RuntimeShape
<1>0. rt \in RuntimeShape /\ rt.turns \in Nat /\ MaxProviders \in Nat \ {0}
    BY ProviderAssumption DEF TypeInv, RuntimeShape
<1>1. ASSUME NEW pc \in Loops
      PROVE  /\ [rt EXCEPT !.pc = pc] \in RuntimeShape
             /\ [rt EXCEPT !.pc = pc, !.reopenAttempted = TRUE] \in RuntimeShape
             /\ [rt EXCEPT !.pc = pc, !.broken = TRUE] \in RuntimeShape
             /\ [rt EXCEPT !.pc = pc, !.ended = TRUE] \in RuntimeShape
             /\ [rt EXCEPT !.reopenAttempted = FALSE] \in RuntimeShape
    BY <1>0 DEF RuntimeShape
<1>p. ASSUME NEW pc \in Loops, NEW p \in 0 .. MaxProviders
      PROVE  /\ [rt EXCEPT !.pc = pc, !.started = TRUE, !.p = p] \in RuntimeShape
             /\ [rt EXCEPT !.pc = pc, !.p = p] \in RuntimeShape
    BY <1>0 DEF RuntimeShape
<1>n. ASSUME NEW n \in Nat, NEW b \in BOOLEAN
      PROVE  [rt EXCEPT !.turns = n, !.complete = b] \in RuntimeShape
    BY <1>0 DEF RuntimeShape
<1>l. /\ "idle" \in Loops /\ "starting" \in Loops /\ "resetting" \in Loops /\ "reopen" \in Loops
      /\ "retry" \in Loops /\ "ending" \in Loops /\ "closing" \in Loops /\ "draining" \in Loops
      /\ "persist" \in Loops /\ "closed" \in Loops /\ "panicked" \in Loops
    BY DEF Loops
<1>2. CASE Vendor \/ UNCHANGED vars
    BY <1>0, <1>2, Zenon DEF Vendor, Others, vars
<1>3. CASE Reader \/ handleAudio
    <2>1. \/ \E pc \in {"idle", "closing", "draining", "persist", "closed"} : rt' = [rt EXCEPT !.pc = pc]
          \/ rt' = [rt EXCEPT !.pc = "reopen", !.reopenAttempted = TRUE]
          \/ rt' = [rt EXCEPT !.pc = "closing", !.broken = TRUE]
          \/ rt.p + 1 \in Providers /\ rt' = [rt EXCEPT !.pc = "retry", !.p = @ + 1]
          \/ \E pc \in {"closing", "closed"} : rt' = [rt EXCEPT !.pc = pc, !.ended = TRUE]
        BY <1>3, Zenon DEF Reader, providerStart, Reopen, resetDuplex, endSession, readFails, close, drained,
            persistOnExit, handleAudio, Goto
    <2>3. CASE rt.p + 1 \in Providers /\ rt' = [rt EXCEPT !.pc = "retry", !.p = @ + 1]
        <3>1. rt.p + 1 \in 0 .. MaxProviders
            BY <1>0, <2>3 DEF Providers
        <3> QED
            BY <1>l, <1>p, <2>3, <3>1
    <2> QED
        BY <1>1, <1>l, <2>1, <2>3
<1>4. CASE Collect
    <2>1. rt' = rt \/ \E b \in BOOLEAN : rt' = [rt EXCEPT !.turns = rt.turns + 1, !.complete = b]
        BY <1>4, Zenon DEF Collect, noteUserTurn, UpdateInstructions, CommitTurn, collectTurn, turnReadFails,
            turnExpires, streamStart, streamFrames, resetAfterTurnReadFailure, closeout, sendOutbound
    <2>2. rt.turns + 1 \in Nat
        BY <1>0
    <2> QED
        BY <1>0, <1>n, <2>1, <2>2, Zenon
<1>5. CASE \/ TicketExpires \/ ClientGone \/ controlSessionEnd \/ controlSessionStart \/ controlInterrupt
           \/ userSpeechStart \/ userSpeechEnd \/ controlTurnAbort
           \/ \E s \in Sockets : Consume(s) \/ handshake(s)
    <2>1. \/ rt' = rt \/ rt' = [rt EXCEPT !.reopenAttempted = FALSE]
          \/ \E pc \in {"idle", "starting", "panicked", "ending", "resetting"} : rt' = [rt EXCEPT !.pc = pc]
          \/ rt' = [rt EXCEPT !.pc = "starting", !.started = TRUE, !.p = 1]
        BY <1>5, Zenon DEF TicketExpires, ClientGone, controlSessionEnd, controlSessionStart, controlInterrupt,
            userSpeechStart, userSpeechEnd, controlTurnAbort, Consume, handshake, Goto
    <2>2. 1 \in 0 .. MaxProviders
        BY <1>0
    <2>3. ASSUME NEW pc \in {"idle", "starting", "panicked", "ending", "resetting"}, rt' = [rt EXCEPT !.pc = pc]
          PROVE  rt' \in RuntimeShape
        BY <1>1, <1>l, <2>3
    <2>4. CASE rt' = [rt EXCEPT !.pc = "starting", !.started = TRUE, !.p = 1]
        BY <1>l, <1>p, <2>2, <2>4
    <2>5. CASE rt' = [rt EXCEPT !.reopenAttempted = FALSE]
        BY <1>1, <1>l, <2>5
    <2> QED
        BY <1>0, <2>1, <2>3, <2>4, <2>5, Zenon
<1> QED
    BY <1>2, <1>3, <1>4, <1>5, Zenon DEF Next, Client

\* What is stored is a transcript.
LEMMA AppTyped == ASSUME TypeInv, TurnInv, PlaceInv, [Next]_vars PROVE app' \in AppShape
<1>0. app \in AppShape
    BY DEF TypeInv
<1>1. ASSUME NEW s \in Seq(Row)
      PROVE  /\ [app EXCEPT !.status = "active"] \in AppShape
             /\ [app EXCEPT !.status = "ended", !.saved = s] \in AppShape
             /\ [app EXCEPT !.status = "ended", !.lost = TRUE, !.saved = s] \in AppShape
    BY <1>0 DEF AppShape
<1>2. CASE endSession \/ persistOnExit
    <2>1. rt.p \in Providers
        BY <1>2 DEF endSession, persistOnExit, PlaceInv, TurnInv, Control
    <2>2. prov[rt.p].utterances \in Seq(Row) /\ app.saved \in Seq(Row)
        BY <1>0, <2>1 DEF TypeInv, ProviderRecord, AppShape
    <2>3. CASE persistSession
        BY <1>0, <1>1, <2>2, <2>3 DEF persistSession
    <2>4. CASE AnswerLost
        <3>1. PICK s \in Seq(Row) : s = (IF app.status = "ended" THEN app.saved ELSE prov[rt.p].utterances)
            BY <2>2
        <3>2. app' = [app EXCEPT !.status = "ended", !.lost = TRUE, !.saved = s]
            BY <2>4, <3>1 DEF AnswerLost
        <3> QED
            BY <1>1, <3>2
    <2> QED
        BY <1>0, <1>2, <2>3, <2>4 DEF endSession, persistOnExit
<1>3. CASE controlSessionStart
    <2>1. app' = app \/ app' = [app EXCEPT !.status = "active"]
        BY <1>3, Zenon DEF controlSessionStart
    <2>2. <<>> \in Seq(Row)
        OBVIOUS
    <2> QED
        BY <1>0, <1>1, <2>1, <2>2
<1>4. CASE \/ Vendor \/ UNCHANGED vars \/ providerStart \/ Reopen \/ resetDuplex \/ readFails \/ close \/ drained
           \/ handleAudio \/ Collect
           \/ TicketExpires \/ ClientGone \/ controlSessionEnd \/ controlInterrupt
           \/ userSpeechStart \/ userSpeechEnd \/ controlTurnAbort
           \/ \E s \in Sockets : Consume(s) \/ handshake(s)
    <2>1. app' = app
        BY <1>4, Zenon DEF Vendor, Others, vars, providerStart, Reopen, resetDuplex, readFails, close, drained,
            handleAudio, Collect, noteUserTurn, UpdateInstructions, CommitTurn, collectTurn, turnReadFails,
            turnExpires, streamStart, streamFrames, resetAfterTurnReadFailure, closeout, sendOutbound,
            TicketExpires, ClientGone, controlSessionEnd, controlInterrupt, userSpeechStart, userSpeechEnd,
            controlTurnAbort, Consume, handshake
    <2> QED
        BY <1>0, <2>1
<1> QED
    BY <1>2, <1>3, <1>4, Zenon DEF Next, Reader, Client

LEMMA CollectsOne == ASSUME TypeInv, PlaceInv, collectTurn PROVE \E e \in Sent : Collects(e)
<1>1. col.d \in Duplexes /\ col.skipped \in Seq(Sent)
    BY DEF collectTurn, PlaceInv, TypeInv, CollectShape
<1>2. dup[col.d].events \in Seq(Sent)
    BY <1>1 DEF TypeInv, DuplexShape
<1>3. /\ col.skipped # <<>> => Head(col.skipped) \in Sent
      /\ dup[col.d].events # <<>> => Received(col.d) \in Sent
    BY <1>1, <1>2 DEF Received
<1> QED
    BY <1>3, Zenon DEF collectTurn

\* A fragment reaches the client only for an event that carries words.
LEMMA FragmentIsText ==
    ASSUME TypeInv, TurnInv, col.pc \in Working, NEW e \in Sent, Collects(e),
           prov'[col.p].delivered # Mine.delivered
    PROVE  e.of \in Utterances
<1>1. ProviderShape(Mine) /\ col.p \in Providers /\ DOMAIN prov = Providers
    BY AtWork DEF TurnInv, Shapes
<1>2. PICK q : prov'[col.p] = q /\ (q = UserTranscript(Mine) \/ e.kind = "text" \/ q = AssistantAudio(Mine) \/ q = Mine)
    BY <1>1 DEF Collects
<1>3. UserTranscript(Mine).delivered = Mine.delivered /\ AssistantAudio(Mine).delivered = Mine.delivered
    BY <1>1 DEF UserTranscript, AssistantAudio, ProviderShape, ProviderFields
<1>4. e.kind = "text"
    BY <1>2, <1>3
<1> QED
    BY <1>4, DuplexAssumption DEF Sent, Event, Utterances

LEMMA WireUpdates ==
    ASSUME NEW w \in WireShape
    PROVE  /\ [w EXCEPT !.failed = TRUE] \in WireShape /\ [w EXCEPT !.cut = TRUE] \in WireShape
           /\ \A b \in BOOLEAN : [w EXCEPT !.stray = b] \in WireShape
           /\ \A R \in SUBSET Nat : [w EXCEPT !.refs = R] \in WireShape
           /\ \A u \in Utterances : [w EXCEPT !.deltas = Append(@, u)] \in WireShape
           /\ \A b \in BOOLEAN, v \in BOOLEAN, R \in SUBSET Nat :
                 [w EXCEPT !.whole = v, !.refs = R, !.ends = @ + 1, !.stray = b] \in WireShape
<1>1. /\ [w EXCEPT !.failed = TRUE] \in WireShape /\ [w EXCEPT !.cut = TRUE] \in WireShape
      /\ \A b \in BOOLEAN : [w EXCEPT !.stray = b] \in WireShape
    BY DEF WireShape
<1>2. ASSUME NEW R \in SUBSET Nat PROVE [w EXCEPT !.refs = R] \in WireShape
    BY DEF WireShape
<1>3. ASSUME NEW u \in Utterances PROVE [w EXCEPT !.deltas = Append(@, u)] \in WireShape
    <2>1. w.deltas \in Seq(Utterances)
        BY DEF WireShape
    <2>2. PICK t : t = Append(w.deltas, u)
        OBVIOUS
    <2>3. t \in Seq(Utterances)
        BY <2>1, <2>2
    <2>4. [w EXCEPT !.deltas = t] \in WireShape
        BY <2>3 DEF WireShape
    <2> QED
        BY <2>2, <2>4
<1>4. ASSUME NEW b \in BOOLEAN, NEW v \in BOOLEAN, NEW R \in SUBSET Nat
      PROVE  [w EXCEPT !.whole = v, !.refs = R, !.ends = @ + 1, !.stray = b] \in WireShape
    <2>1. PICK n \in Nat : n = w.ends + 1
        BY DEF WireShape
    <2>2. [w EXCEPT !.whole = v, !.refs = R, !.ends = n, !.stray = b] \in WireShape
        BY DEF WireShape
    <2> QED
        BY <2>1, <2>2
<1> QED
    BY <1>1, <1>2, <1>3, <1>4

LEMMA WireTyped == ASSUME TypeInv, TurnInv, PlaceInv, [Next]_vars PROVE wire' \in [Utterances -> WireShape]
<1>0. wire \in [Utterances -> WireShape]
    BY DEF TypeInv
<1>1. ASSUME NEW k \in Utterances, NEW w \in WireShape, wire' = [wire EXCEPT ![k] = w]
      PROVE  wire' \in [Utterances -> WireShape]
    BY <1>0, <1>1
<1>2. ASSUME NEW w \in WireShape, Sends(w), col.pc # "idle" PROVE wire' \in [Utterances -> WireShape]
    <2>1. col.k \in Utterances
        BY <1>2 DEF TurnInv, Control
    <2> QED
        BY <1>0, <1>1, <1>2, <2>1, Zenon DEF Sends
<1>3. \A k \in Utterances : wire[k] \in WireShape
    BY <1>0
<1>5. col.pc # "idle" => col.k \in Utterances /\ wire[col.k].refs \in SUBSET Nat
    BY <1>0 DEF TurnInv, Control, WireShape
<1>6. ticket.refs \in Nat
    BY DEF TypeInv, TicketShape
<1>7. CASE noteUserTurn \/ CommitTurn
    <2>1. col.pc # "idle" /\ (wire' = wire \/ Sends([wire[col.k] EXCEPT !.failed = TRUE]))
        BY <1>7, Zenon DEF noteUserTurn, CommitTurn
    <2>2. [wire[col.k] EXCEPT !.failed = TRUE] \in WireShape
        BY <1>3, <1>5, <2>1, WireUpdates
    <2> QED
        BY <1>0, <1>2, <2>1, <2>2
<1>8. CASE collectTurn
    <2>1. PICK e \in Sent : Collects(e)
        BY <1>8, CollectsOne
    <2>2. col.pc \in Working /\ col.pc # "idle"
        BY <1>8 DEF collectTurn, Working
    <2>3. PICK w : Sends(w) /\ w = IF prov'[col.p].delivered # Mine.delivered
                                   THEN [wire[col.k] EXCEPT !.deltas = Append(@, e.of)] ELSE wire[col.k]
        BY <2>1 DEF Collects
    <2>4. w \in WireShape
        BY <1>3, <1>5, <2>1, <2>2, <2>3, FragmentIsText, WireUpdates
    <2> QED
        BY <1>2, <2>2, <2>3, <2>4
<1>9. CASE streamStart
    <2>1. col.pc # "idle"
        BY <1>9 DEF streamStart
    <2>2. PICK R : R = wire[col.k].refs \union {ticket.refs + 1}
        OBVIOUS
    <2>r. R \in SUBSET Nat
        BY <1>5, <1>6, <2>1, <2>2
    <2>3. wire' = wire \/ Sends([wire[col.k] EXCEPT !.refs = R])
        BY <1>9, <2>2 DEF streamStart
    <2>4. [wire[col.k] EXCEPT !.refs = R] \in WireShape
        BY <1>3, <1>5, <2>1, <2>r, WireUpdates
    <2> QED
        BY <1>0, <1>2, <2>1, <2>3, <2>4
<1>10. CASE streamFrames
    <2>1. col.pc # "idle"
        BY <1>10 DEF streamFrames
    <2>2. PICK b \in BOOLEAN : Sends([wire[col.k] EXCEPT !.stray = b])
        BY <1>10, Zenon DEF streamFrames
    <2>3. [wire[col.k] EXCEPT !.stray = b] \in WireShape
        BY <1>3, <1>5, <2>1, WireUpdates
    <2> QED
        BY <1>2, <2>1, <2>2, <2>3
<1>11. CASE sendOutbound
    <2>1. col.pc # "idle" /\ col.out.whole \in BOOLEAN
        BY <1>11 DEF sendOutbound, TypeInv, CollectShape, Closeout
    <2>2. PICK R : R = wire[col.k].refs \union (IF col.out.start THEN {ticket.refs} ELSE {})
        OBVIOUS
    <2>3. R \in SUBSET Nat
        BY <1>5, <1>6, <2>1, <2>2
    <2>4. PICK b \in BOOLEAN : Sends([wire[col.k] EXCEPT !.whole = col.out.whole, !.refs = R, !.ends = @ + 1, !.stray = b])
        BY <1>11, <2>2, Zenon DEF sendOutbound
    <2>5. [wire[col.k] EXCEPT !.whole = col.out.whole, !.refs = R, !.ends = @ + 1, !.stray = b] \in WireShape
        BY <1>3, <1>5, <2>1, <2>3, WireUpdates
    <2> QED
        BY <1>2, <2>1, <2>4, <2>5
<1>12. CASE controlTurnAbort
    <2>1. wire' = wire \/ (col.pc # "idle" /\ wire' = [wire EXCEPT ![col.k] = [wire[col.k] EXCEPT !.cut = TRUE]])
        BY <1>12, Zenon DEF controlTurnAbort
    <2>2. col.pc # "idle" => [wire[col.k] EXCEPT !.cut = TRUE] \in WireShape
        BY <1>3, <1>5, WireUpdates
    <2> QED
        BY <1>0, <1>1, <1>5, <2>1, <2>2
<1>13. CASE \/ Vendor \/ UNCHANGED vars \/ Reader \/ handleAudio \/ UpdateInstructions \/ turnReadFails \/ turnExpires
            \/ resetAfterTurnReadFailure \/ closeout
            \/ TicketExpires \/ ClientGone \/ controlSessionEnd \/ controlSessionStart \/ controlInterrupt
            \/ userSpeechStart \/ userSpeechEnd
            \/ \E s \in Sockets : Consume(s) \/ handshake(s)
    <2>1. wire' = wire
        BY <1>13, Zenon DEF Vendor, Others, vars, Reader, providerStart, Reopen, resetDuplex, endSession, readFails,
            close, drained, persistOnExit, handleAudio, UpdateInstructions, turnReadFails, turnExpires,
            resetAfterTurnReadFailure, closeout, TicketExpires, ClientGone, controlSessionEnd,
            controlSessionStart, controlInterrupt, userSpeechStart, userSpeechEnd, Consume, handshake
    <2> QED
        BY <1>0, <2>1
<1> QED
    BY <1>7, <1>8, <1>9, <1>10, <1>11, <1>12, <1>13, Zenon DEF Next, Client, Collect

LEMMA AppliedTyped == ASSUME NEW t \in Turn, NEW e \in Sent PROVE Applied(t, e) \in Turn
<1>1. /\ t.text \in Seq(Utterances) /\ t.audio \in Nat /\ t.transcript \in 0 .. MaxUtterances
      /\ e.of \in 0 .. MaxUtterances /\ (e.kind \in {"text", "revised"} => e.of \in Utterances)
    <2>1. t.text \in Seq(Utterances) /\ t.audio \in Nat /\ t.transcript \in 0 .. MaxUtterances
        BY DEF Turn
    <2>2. e.of \in 0 .. MaxUtterances /\ (e.kind \in {"text", "revised"} => e.of # 0)
        BY DEF Sent, Event
    <2> QED
        BY <2>1, <2>2, DuplexAssumption DEF Utterances
<1>2. PICK progress \in BOOLEAN : progress = (t.progress \/ e.kind \in {"asr", "committed"})
    OBVIOUS
<1>3. PICK transcript \in 0 .. MaxUtterances : transcript = IF e.kind = "asr" THEN e.of ELSE t.transcript
    BY <1>1
<1>4. PICK response \in BOOLEAN : response = (\/ t.response \/ (OfThisTurn(t) /\ e.kind = "text")
                                             \/ (OfThisTurn(t) /\ e.kind = "revised")
                                             \/ (OfThisTurn(t) /\ e.kind = "audio"))
    OBVIOUS
<1>5. PICK text : text = IF OfThisTurn(t) /\ e.kind = "text" THEN Append(t.text, e.of)
                         ELSE IF OfThisTurn(t) /\ e.kind = "revised" THEN <<e.of>> ELSE t.text
    OBVIOUS
<1>6. text \in Seq(Utterances)
    BY <1>1, <1>5
<1>7. PICK audio \in Nat : audio = IF OfThisTurn(t) /\ e.kind = "audio" THEN t.audio + 1 ELSE t.audio
    BY <1>1
<1>8. PICK outcome \in {"", "ok", "partial", "timeout", "error"} :
          outcome = IF e.kind = "error" THEN "error"
                    ELSE IF OfThisTurn(t) /\ e.kind = "done" /\ t.response THEN "ok" ELSE t.outcome
    BY DEF Turn
<1>9. [t EXCEPT !.any = TRUE, !.progress = progress, !.transcript = transcript, !.response = response,
                !.text = text, !.audio = audio, !.outcome = outcome] \in Turn
    BY <1>6 DEF Turn
<1>10. Applied(t, e) = [t EXCEPT !.any = TRUE, !.progress = progress, !.transcript = transcript,
                                 !.response = response, !.text = text, !.audio = audio, !.outcome = outcome]
    BY <1>2, <1>3, <1>4, <1>5, <1>7, <1>8, Zenon DEF Applied
<1> QED
    BY <1>9, <1>10

LEMMA ProviderUpdates ==
    ASSUME NEW r \in ProviderRecord
    PROVE  /\ \A b \in BOOLEAN : /\ [r EXCEPT !.muted = b] \in ProviderRecord
                                 /\ [r EXCEPT !.pending = b] \in ProviderRecord
                                 /\ [r EXCEPT !.interrupted = b] \in ProviderRecord
                                 /\ [r EXCEPT !.streamedASR = b] \in ProviderRecord
           /\ \A d \in 0 .. MaxDuplex : [r EXCEPT !.d = d] \in ProviderRecord
           /\ \A n \in Nat : [r EXCEPT !.ref = n] \in ProviderRecord /\ [r EXCEPT !.framer = n] \in ProviderRecord
           /\ \A s \in Seq(Row) : [r EXCEPT !.utterances = s] \in ProviderRecord
           /\ \A b \in BOOLEAN, c \in BOOLEAN : /\ [r EXCEPT !.muted = b, !.uplink = c] \in ProviderRecord
                                                /\ [r EXCEPT !.muted = b, !.collecting = c] \in ProviderRecord
                                                /\ [r EXCEPT !.streamedAudio = b, !.ttsStarted = c] \in ProviderRecord
           /\ \A s \in Seq(Utterances) : [r EXCEPT !.streamedText = TRUE, !.delivered = s] \in ProviderRecord
<1>1. ASSUME NEW b \in BOOLEAN
      PROVE  [r EXCEPT !.muted = b] \in ProviderRecord /\ [r EXCEPT !.pending = b] \in ProviderRecord
    BY Zenon DEF ProviderRecord
<1>2. ASSUME NEW b \in BOOLEAN
      PROVE  [r EXCEPT !.interrupted = b] \in ProviderRecord /\ [r EXCEPT !.streamedASR = b] \in ProviderRecord
    BY Zenon DEF ProviderRecord
<1>3. ASSUME NEW d \in 0 .. MaxDuplex PROVE [r EXCEPT !.d = d] \in ProviderRecord
    BY Zenon DEF ProviderRecord
<1>4. ASSUME NEW n \in Nat PROVE [r EXCEPT !.ref = n] \in ProviderRecord /\ [r EXCEPT !.framer = n] \in ProviderRecord
    BY Zenon DEF ProviderRecord
<1>5. ASSUME NEW s \in Seq(Row) PROVE [r EXCEPT !.utterances = s] \in ProviderRecord
    BY Zenon DEF ProviderRecord
<1>6. ASSUME NEW b \in BOOLEAN, NEW c \in BOOLEAN PROVE [r EXCEPT !.muted = b, !.uplink = c] \in ProviderRecord
    BY Zenon DEF ProviderRecord
<1>7. ASSUME NEW b \in BOOLEAN, NEW c \in BOOLEAN PROVE [r EXCEPT !.muted = b, !.collecting = c] \in ProviderRecord
    BY Zenon DEF ProviderRecord
<1>8. ASSUME NEW b \in BOOLEAN, NEW c \in BOOLEAN
      PROVE  [r EXCEPT !.streamedAudio = b, !.ttsStarted = c] \in ProviderRecord
    BY Zenon DEF ProviderRecord
<1>9. ASSUME NEW s \in Seq(Utterances) PROVE [r EXCEPT !.streamedText = TRUE, !.delivered = s] \in ProviderRecord
    BY Zenon DEF ProviderRecord
<1> QED
    BY <1>1, <1>2, <1>3, <1>4, <1>5, <1>6, <1>7, <1>8, <1>9, Zenon

LEMMA ProviderResets == ASSUME NEW r \in ProviderRecord PROVE resetTurnStreamingState(r) \in ProviderRecord
<1>1. ASSUME NEW b \in BOOLEAN, NEW n \in Nat, NEW s \in Seq(Utterances)
      PROVE  [r EXCEPT !.streamedText = b, !.streamedAudio = b, !.streamedASR = b, !.ttsStarted = b, !.uplink = b,
                       !.delivered = s, !.interrupted = b, !.framer = n, !.ref = n, !.collecting = b]
                \in ProviderRecord
    BY Zenon DEF ProviderRecord
<1>2. 0 \in Nat /\ <<>> \in Seq(Utterances) /\ FALSE \in BOOLEAN
    OBVIOUS
<1> QED
    BY <1>1, <1>2, Zenon DEF resetTurnStreamingState

LEMMA DuplexUpdates ==
    ASSUME NEW r \in DuplexShape
    PROVE  /\ \A b \in BOOLEAN : [r EXCEPT !.muted = b] \in DuplexShape /\ [r EXCEPT !.asked = b] \in DuplexShape
           /\ \A s \in Seq(Sent), b \in BOOLEAN : /\ [r EXCEPT !.events = s] \in DuplexShape
                                                  /\ [r EXCEPT !.events = s, !.live = b] \in DuplexShape
                                                  /\ [r EXCEPT !.events = s, !.asked = b] \in DuplexShape
           /\ \A s \in Seq(Sent), n \in 0 .. Len(ReplyOrder) - 1, q \in Seq(Utterances) :
                 [r EXCEPT !.events = s, !.stage = n, !.owes = q] \in DuplexShape
           /\ \A h \in 0 .. MaxUtterances, b \in BOOLEAN, c \in BOOLEAN :
                 /\ [r EXCEPT !.hears = h, !.live = b] \in DuplexShape
                 /\ [r EXCEPT !.hears = h, !.live = b, !.muted = c] \in DuplexShape
           /\ \A q \in Seq(Utterances), h \in 0 .. MaxUtterances, b \in BOOLEAN, c \in BOOLEAN :
                 /\ [r EXCEPT !.owes = q, !.hears = h, !.live = b] \in DuplexShape
                 /\ [r EXCEPT !.owes = q, !.hears = h, !.live = b, !.muted = c] \in DuplexShape
<1>1. ASSUME NEW b \in BOOLEAN PROVE [r EXCEPT !.muted = b] \in DuplexShape /\ [r EXCEPT !.asked = b] \in DuplexShape
    BY Zenon DEF DuplexShape
<1>2. ASSUME NEW s \in Seq(Sent), NEW b \in BOOLEAN
      PROVE  [r EXCEPT !.events = s] \in DuplexShape /\ [r EXCEPT !.events = s, !.live = b] \in DuplexShape
    BY Zenon DEF DuplexShape
<1>3. ASSUME NEW s \in Seq(Sent), NEW b \in BOOLEAN PROVE [r EXCEPT !.events = s, !.asked = b] \in DuplexShape
    BY Zenon DEF DuplexShape
<1>4. ASSUME NEW s \in Seq(Sent), NEW n \in 0 .. Len(ReplyOrder) - 1, NEW q \in Seq(Utterances)
      PROVE  [r EXCEPT !.events = s, !.stage = n, !.owes = q] \in DuplexShape
    BY Zenon DEF DuplexShape
<1>5. ASSUME NEW h \in 0 .. MaxUtterances, NEW b \in BOOLEAN, NEW c \in BOOLEAN
      PROVE  /\ [r EXCEPT !.hears = h, !.live = b] \in DuplexShape
             /\ [r EXCEPT !.hears = h, !.live = b, !.muted = c] \in DuplexShape
    BY Zenon DEF DuplexShape
<1>6. ASSUME NEW q \in Seq(Utterances), NEW h \in 0 .. MaxUtterances, NEW b \in BOOLEAN, NEW c \in BOOLEAN
      PROVE  [r EXCEPT !.owes = q, !.hears = h, !.live = b, !.muted = c] \in DuplexShape
    BY Zenon DEF DuplexShape
<1>7. ASSUME NEW q \in Seq(Utterances), NEW h \in 0 .. MaxUtterances, NEW b \in BOOLEAN
      PROVE  [r EXCEPT !.owes = q, !.hears = h, !.live = b] \in DuplexShape
    BY Zenon DEF DuplexShape
<1> QED
    BY <1>1, <1>2, <1>3, <1>4, <1>5, <1>6, <1>7, Zenon

LEMMA CollectUpdates ==
    ASSUME NEW c \in CollectShape
    PROVE  /\ \A pc \in CollectPCs : [c EXCEPT !.pc = pc] \in CollectShape
           /\ \A pc \in CollectPCs, d \in 0 .. MaxDuplex : [c EXCEPT !.pc = pc, !.d = d] \in CollectShape
           /\ \A pc \in CollectPCs, d \in 0 .. MaxDuplex, p \in 0 .. MaxProviders :
                 [c EXCEPT !.p = p, !.d = d, !.pc = pc] \in CollectShape
           /\ \A s \in Seq(Sent) : [c EXCEPT !.skipped = s] \in CollectShape
           /\ \A pc \in CollectPCs, t \in Turn : [c EXCEPT !.pc = pc, !.turn = t] \in CollectShape
           /\ \A pc \in CollectPCs, o \in Closeout : [c EXCEPT !.pc = pc, !.out = o] \in CollectShape
           /\ \A pc \in CollectPCs, t \in Turn, b \in BOOLEAN, s \in Seq(Sent) :
                 [c EXCEPT !.turn = t, !.opens = b, !.skipped = s, !.pc = pc] \in CollectShape
<1>1. ASSUME NEW pc \in CollectPCs PROVE [c EXCEPT !.pc = pc] \in CollectShape
    BY Zenon DEF CollectShape
<1>2. ASSUME NEW pc \in CollectPCs, NEW d \in 0 .. MaxDuplex PROVE [c EXCEPT !.pc = pc, !.d = d] \in CollectShape
    BY Zenon DEF CollectShape
<1>3. ASSUME NEW pc \in CollectPCs, NEW d \in 0 .. MaxDuplex, NEW p \in 0 .. MaxProviders
      PROVE  [c EXCEPT !.p = p, !.d = d, !.pc = pc] \in CollectShape
    BY Zenon DEF CollectShape
<1>4. ASSUME NEW s \in Seq(Sent) PROVE [c EXCEPT !.skipped = s] \in CollectShape
    BY Zenon DEF CollectShape
<1>5. ASSUME NEW pc \in CollectPCs, NEW t \in Turn PROVE [c EXCEPT !.pc = pc, !.turn = t] \in CollectShape
    BY Zenon DEF CollectShape
<1>6. ASSUME NEW pc \in CollectPCs, NEW o \in Closeout PROVE [c EXCEPT !.pc = pc, !.out = o] \in CollectShape
    BY Zenon DEF CollectShape
<1>7. ASSUME NEW pc \in CollectPCs, NEW t \in Turn, NEW b \in BOOLEAN, NEW s \in Seq(Sent)
      PROVE  [c EXCEPT !.turn = t, !.opens = b, !.skipped = s, !.pc = pc] \in CollectShape
    BY Zenon DEF CollectShape
<1> QED
    BY <1>1, <1>2, <1>3, <1>4, <1>5, <1>6, <1>7, Zenon

LEMMA StartTyped == ASSUME NEW r \in ProviderRecord, NEW n \in Nat PROVE ttsStartFrame(r, n) \in ProviderRecord
BY ProviderUpdates, Zenon DEF ttsStartFrame

LEMMA FrameRefTyped == ASSUME NEW r \in ProviderRecord PROVE FrameRef(r) \in Nat /\ frameAudio(r) \in ProviderRecord
<1>1. r.ref \in Nat /\ r.framer \in Nat /\ DOMAIN r = ProviderFields
    BY DEF ProviderRecord, ProviderFields
<1>2. FrameRef(r) = (IF r.framer = 0 THEN r.ref ELSE r.framer - 1)
    BY <1>1 DEF ProviderFields, FrameRef, frameAudio
<1>3. PICK n : n = IF r.framer = 0 THEN r.ref + 1 ELSE r.framer
    OBVIOUS
<1>4. n \in Nat
    BY <1>1, <1>3
<1>5. [r EXCEPT !.framer = n] \in ProviderRecord
    BY <1>4, ProviderUpdates, Zenon
<1>6. frameAudio(r) = [r EXCEPT !.framer = n]
    BY <1>3, Zenon DEF frameAudio
<1> QED
    BY <1>1, <1>2, <1>5, <1>6

LEMMA OutboundTyped ==
    ASSUME NEW r \in ProviderRecord, NEW t \in Turn, t.outcome # "", NEW n \in Nat
    PROVE  turnToOutbound(r, t, n) \in Closeout
<1>1. PICK opened : opened = IF OpensAtEnd(r, t) THEN ttsStartFrame(r, n) ELSE r
    OBVIOUS
<1>2. opened \in ProviderRecord
    BY <1>1, StartTyped
<1>3. FrameRef(opened) \in Nat /\ opened.ref \in Nat
    BY <1>2, FrameRefTyped DEF ProviderRecord
<1>4. PICK whole \in BOOLEAN, start \in BOOLEAN, audio \in BOOLEAN, flushes \in BOOLEAN :
          /\ whole = SendsWhole(r, t) /\ start = OpensAtEnd(r, t) /\ flushes = (~r.interrupted /\ r.streamedAudio)
          /\ audio = (flushes \/ (~r.interrupted /\ ~r.streamedAudio /\ t.audio > 0))
    BY Zenon DEF SendsWhole, OpensAtEnd
<1>5. PICK m : m = IF flushes THEN FrameRef(opened) ELSE opened.ref
    OBVIOUS
<1>6. turnToOutbound(r, t, n) = [whole |-> whole, start |-> start, audio |-> audio, ref |-> m, outcome |-> t.outcome]
    BY <1>1, <1>4, <1>5, Zenon DEF turnToOutbound
<1>7. t.outcome \in {"ok", "partial", "timeout", "error"}
    BY DEF Turn
<1>8. m \in Nat
    BY <1>3, <1>5
<1>9. [whole |-> whole, start |-> start, audio |-> audio, ref |-> m, outcome |-> t.outcome] \in Closeout
    BY <1>4, <1>7, <1>8 DEF Closeout
<1> QED
    BY <1>6, <1>9

LEMMA CollectStarts ==
    /\ IdleCollect \in CollectShape
    /\ \A k \in 0 .. MaxUtterances : [IdleCollect EXCEPT !.pc = "turn", !.k = k] \in CollectShape
<1>0. MaxUtterances \in Nat /\ MaxProviders \in Nat /\ MaxDuplex \in Nat
    BY DuplexAssumption, ProviderAssumption
<1>1. NoTurn \in Turn
    <2>1. 0 \in 0 .. MaxUtterances /\ <<>> \in Seq(Utterances)
        BY <1>0
    <2> QED
        BY <2>1 DEF NoTurn, Turn
<1>2. NoOut \in Closeout
    BY DEF NoOut, Closeout
<1>3. 0 \in 0 .. MaxUtterances /\ 0 \in 0 .. MaxProviders /\ 0 \in 0 .. MaxDuplex /\ <<>> \in Seq(Sent)
    BY <1>0
<1>4. IdleCollect \in CollectShape
    BY <1>1, <1>2, <1>3 DEF IdleCollect, CollectShape, CollectPCs
<1>5. ASSUME NEW k \in 0 .. MaxUtterances
      PROVE  [IdleCollect EXCEPT !.pc = "turn", !.k = k] \in CollectShape
    BY <1>1, <1>2, <1>3 DEF IdleCollect, CollectShape, CollectPCs
<1> QED
    BY <1>4, <1>5

LEMMA TurnCloses ==
    ASSUME NEW c \in CollectShape, NEW pc \in CollectPCs, NEW o \in {"ok", "partial", "timeout", "error"}
    PROVE  [c EXCEPT !.pc = pc, !.turn.outcome = o] \in CollectShape
<1>1. c.turn \in Turn
    BY DEF CollectShape
<1>2. PICK t : t = [c.turn EXCEPT !.outcome = o]
    OBVIOUS
<1>3. t \in Turn
    BY <1>1, <1>2 DEF Turn
<1>4. [c EXCEPT !.pc = pc, !.turn = t] \in CollectShape
    BY <1>3, CollectUpdates
<1>5. [c EXCEPT !.pc = pc, !.turn.outcome = o] = [c EXCEPT !.pc = pc, !.turn = t]
    BY <1>2, Zenon
<1> QED
    BY <1>4, <1>5

LEMMA CollectTyped == ASSUME TypeInv, TurnInv, PlaceInv, [Next]_vars PROVE col' \in CollectShape
<1>0. col \in CollectShape /\ rt.p \in 0 .. MaxProviders /\ client.spoke \in 0 .. MaxUtterances
    BY DEF TypeInv, RuntimeShape, ClientShape
<1>1. \A p \in Providers : prov[p].d \in 0 .. MaxDuplex
    BY DEF TypeInv, ProviderRecord
<1>l. /\ "instruct" \in CollectPCs /\ "commit" \in CollectPCs /\ "wait" \in CollectPCs /\ "audio" \in CollectPCs
      /\ "frames" \in CollectPCs /\ "reset" \in CollectPCs /\ "closeout" \in CollectPCs /\ "send" \in CollectPCs
    BY DEF CollectPCs
<1>2. CASE noteUserTurn
    <2>1. P.d \in 0 .. MaxDuplex
        BY <1>1, <1>2 DEF noteUserTurn, TurnInv, Control, P
    <2>2. \/ col' = IdleCollect
          \/ \E pc \in {"instruct", "commit"} : col' = [col EXCEPT !.p = rt.p, !.d = P.d, !.pc = pc]
        BY <1>2, Zenon DEF noteUserTurn
    <2>3. [col EXCEPT !.p = rt.p, !.d = P.d, !.pc = "instruct"] \in CollectShape
        BY <1>0, <1>l, <2>1, CollectUpdates, Zenon
    <2>4. [col EXCEPT !.p = rt.p, !.d = P.d, !.pc = "commit"] \in CollectShape
        BY <1>0, <1>l, <2>1, CollectUpdates, Zenon
    <2> QED
        BY <2>2, <2>3, <2>4, CollectStarts, Zenon
<1>3. CASE UpdateInstructions
    <2>1. col.d \in Duplexes /\ col.skipped \in Seq(Sent)
        BY <1>0, <1>3 DEF UpdateInstructions, PlaceInv, CollectShape
    <2>2. dup[col.d].events \in Seq(Sent)
        BY <2>1 DEF TypeInv, DuplexShape
    <2>3. PICK s : s = col.skipped \o Kept(Received(col.d))
        OBVIOUS
    <2>4. \/ col' = [col EXCEPT !.pc = "commit"]
          \/ dup[col.d].events # <<>> /\ col' = [col EXCEPT !.skipped = s]
        BY <1>3, <2>3, Zenon DEF UpdateInstructions, Step
    <2>5. dup[col.d].events # <<>> => s \in Seq(Sent)
        BY <2>1, <2>2, <2>3 DEF Kept, Received
    <2> QED
        BY <1>0, <1>l, <2>4, <2>5, CollectUpdates
<1>4. CASE CommitTurn
    <2>1. Mine.d \in 0 .. MaxDuplex
        BY <1>1, <1>4 DEF CommitTurn, TurnInv, Control, Mine
    <2>2. col' = IdleCollect \/ col' = [col EXCEPT !.pc = "wait", !.d = Mine.d]
        BY <1>4, Zenon DEF CommitTurn, CommitFailed
    <2>3. [col EXCEPT !.pc = "wait", !.d = Mine.d] \in CollectShape
        BY <1>0, <1>l, <2>1, CollectUpdates, Zenon
    <2> QED
        BY <2>2, <2>3, CollectStarts, Zenon
<1>5. CASE collectTurn
    <2>1. PICK e \in Sent : Collects(e)
        BY <1>5, CollectsOne
    <2>2. Applied(col.turn, e) \in Turn
        BY <1>0, AppliedTyped DEF CollectShape
    <2>3. PICK s : s = IF col.skipped = <<>> THEN col.skipped ELSE Tail(col.skipped)
        OBVIOUS
    <2>4. s \in Seq(Sent)
        <3>1. col.skipped \in Seq(Sent)
            BY <1>0 DEF CollectShape
        <3> QED
            BY <2>3, <3>1
    <2>5. PICK b \in BOOLEAN : b = (OfThisTurn(col.turn) /\ ~Mine.interrupted /\ e.kind = "audio" /\ OpensStream(Mine))
        OBVIOUS
    <2>6. \E pc \in {"closeout", "audio", "wait"} :
              col' = [col EXCEPT !.turn = Applied(col.turn, e), !.opens = b, !.skipped = s, !.pc = pc]
        BY <2>1, <2>3, <2>5, Zenon DEF Collects
    <2>7. ASSUME NEW pc \in CollectPCs
          PROVE  [col EXCEPT !.turn = Applied(col.turn, e), !.opens = b, !.skipped = s, !.pc = pc] \in CollectShape
        BY <1>0, <2>2, <2>4, CollectUpdates, Zenon
    <2> QED
        BY <1>l, <2>6, <2>7, Zenon
<1>6. CASE turnReadFails \/ turnExpires
    <2>1. ExpiredOutcomes(col.turn) \subseteq {"partial", "timeout"}
        BY Zenon DEF ExpiredOutcomes
    <2>2. \/ col' = [col EXCEPT !.pc = "reset", !.turn.outcome = "error"]
          \/ \E o \in {"partial", "timeout"} : col' = [col EXCEPT !.pc = "closeout", !.turn.outcome = o]
        BY <1>6, <2>1, Zenon DEF turnReadFails, turnExpires
    <2>3. [col EXCEPT !.pc = "reset", !.turn.outcome = "error"] \in CollectShape
        BY <1>0, <1>l, TurnCloses, Zenon
    <2>4. ASSUME NEW o \in {"partial", "timeout"}
          PROVE  [col EXCEPT !.pc = "closeout", !.turn.outcome = o] \in CollectShape
        BY <1>0, <1>l, TurnCloses, Zenon
    <2> QED
        BY <2>2, <2>3, <2>4, Zenon
<1>7. CASE closeout
    <2>1. Mine \in ProviderRecord /\ col.turn \in Turn /\ col.turn.outcome # "" /\ ticket.refs + 1 \in Nat
        <3>1. col.p \in Providers /\ prov \in [Providers -> ProviderRecord] /\ col.turn.outcome # ""
            BY <1>7 DEF closeout, TypeInv, TurnInv, Control, PlaceInv
        <3>2. col.turn \in Turn
            BY <1>0 DEF CollectShape
        <3>3. ticket.refs + 1 \in Nat
            BY DEF TypeInv, TicketShape
        <3> QED
            BY <3>1, <3>2, <3>3 DEF Mine
    <2>2. turnToOutbound(Mine, col.turn, ticket.refs + 1) \in Closeout
        BY <2>1, OutboundTyped
    <2>3. col' = [col EXCEPT !.pc = "send", !.out = turnToOutbound(Mine, col.turn, ticket.refs + 1)]
        BY <1>7, Zenon DEF closeout
    <2> QED
        BY <1>0, <1>l, <2>2, <2>3, CollectUpdates
<1>8. CASE streamStart \/ streamFrames \/ resetAfterTurnReadFailure \/ sendOutbound
    <2>1. col' = IdleCollect \/ \E pc \in {"frames", "wait", "closeout"} : col' = [col EXCEPT !.pc = pc]
        BY <1>8, Zenon DEF streamStart, streamFrames, resetAfterTurnReadFailure, sendOutbound, Step
    <2>2. ASSUME NEW pc \in CollectPCs PROVE [col EXCEPT !.pc = pc] \in CollectShape
        BY <1>0, CollectUpdates, Zenon
    <2> QED
        BY <1>l, <2>1, <2>2, CollectStarts, Zenon
<1>9. CASE userSpeechEnd
    <2>1. col' = col \/ col' = [IdleCollect EXCEPT !.pc = "turn", !.k = client.spoke]
        BY <1>9, Zenon DEF userSpeechEnd
    <2> QED
        BY <1>0, <2>1, CollectStarts
<1>10. CASE \/ Vendor \/ UNCHANGED vars \/ Reader \/ handleAudio
            \/ TicketExpires \/ ClientGone \/ controlSessionEnd \/ controlSessionStart \/ controlInterrupt
            \/ userSpeechStart \/ controlTurnAbort
            \/ \E s \in Sockets : Consume(s) \/ handshake(s)
    <2>1. col' = col
        BY <1>10, Zenon DEF Vendor, Others, vars, Reader, providerStart, Reopen, resetDuplex, endSession, readFails,
            close, drained, persistOnExit, handleAudio, TicketExpires, ClientGone, controlSessionEnd,
            controlSessionStart, controlInterrupt, userSpeechStart, controlTurnAbort, Consume, handshake
    <2> QED
        BY <1>0, <2>1
<1> QED
    BY <1>2, <1>3, <1>4, <1>5, <1>6, <1>7, <1>8, <1>9, <1>10, Zenon DEF Next, Client, Collect

\* A turn that goes on keeps its vendor session; what it is closed with is set before.
LEMMA PlaceOfTurn ==
    ASSUME TypeInv, TurnInv, PlaceInv, [Next]_vars
    PROVE  /\ col'.pc \notin {"idle", "turn", "send"} => col'.d \in Duplexes
           /\ col'.pc \in {"reset", "closeout"} => col'.turn.outcome # ""
<1>0. /\ DOMAIN col = DOMAIN IdleCollect /\ DOMAIN col.turn = DOMAIN NoTurn
      /\ col.pc \notin {"idle", "turn", "send"} => col.d \in Duplexes
      /\ col.pc \in {"reset", "closeout"} => col.turn.outcome # ""
    BY DEF PlaceInv, TurnInv, Shapes
<1>i. IdleCollect.pc = "idle"
    BY DEF IdleCollect
<1>1. \A p \in Providers : prov[p].d # 0 => prov[p].d \in Duplexes
    BY DuplexAssumption DEF TypeInv, ProviderRecord, Duplexes
<1>2. CASE noteUserTurn
    <2>1. \/ col' = IdleCollect
          \/ P.d # 0 /\ \E pc \in {"instruct", "commit"} : col' = [col EXCEPT !.p = rt.p, !.d = P.d, !.pc = pc]
        BY <1>2, Zenon DEF noteUserTurn
    <2>2. rt.p \in Providers
        BY <1>2 DEF noteUserTurn, TurnInv, Control
    <2>3. PICK d : d = P.d
        OBVIOUS
    <2>4. d # 0 => d \in Duplexes
        BY <1>1, <2>2, <2>3 DEF P
    <2> QED
        BY <1>0, <1>i, <2>1, <2>3, <2>4 DEF IdleCollect
<1>3. CASE UpdateInstructions
    <2>1. \/ col' = [col EXCEPT !.pc = "commit"]
          \/ \E s : col' = [col EXCEPT !.skipped = s]
        BY <1>3, Zenon DEF UpdateInstructions, Step
    <2>2. col.pc = "instruct"
        BY <1>3 DEF UpdateInstructions
    <2> QED
        BY <1>0, <2>1, <2>2 DEF IdleCollect
<1>4. CASE CommitTurn
    <2>0. Sendable(Mine.d) => Mine.d # 0
        BY DEF Sendable
    <2>1. col' = IdleCollect \/ (Mine.d # 0 /\ col' = [col EXCEPT !.pc = "wait", !.d = Mine.d])
        BY <1>4, <2>0, Zenon DEF CommitTurn, CommitFailed
    <2>2. col.p \in Providers
        BY <1>4 DEF CommitTurn, TurnInv, Control
    <2>3. PICK d : d = Mine.d
        OBVIOUS
    <2>4. d # 0 => d \in Duplexes
        BY <1>1, <2>2, <2>3 DEF Mine
    <2> QED
        BY <1>0, <1>i, <2>1, <2>3, <2>4 DEF IdleCollect
<1>5. CASE collectTurn
    <2>1. PICK e \in Sent : Collects(e)
        BY <1>5, CollectsOne
    <2>2. PICK t : t = Applied(col.turn, e)
        OBVIOUS
    <2>3. \E b, s, pc : /\ pc \in {"closeout", "audio", "wait"} /\ (pc = "closeout" => t.outcome # "")
                        /\ col' = [col EXCEPT !.turn = t, !.opens = b, !.skipped = s, !.pc = pc]
        BY <2>1, <2>2, Zenon DEF Collects
    <2>4. col.d \in Duplexes
        BY <1>0, <1>5 DEF collectTurn
    <2> QED
        BY <1>0, <2>3, <2>4 DEF IdleCollect
<1>6. CASE turnReadFails \/ turnExpires
    <2>1. ExpiredOutcomes(col.turn) \subseteq {"partial", "timeout"}
        BY Zenon DEF ExpiredOutcomes
    <2>2. \/ col' = [col EXCEPT !.pc = "reset", !.turn.outcome = "error"]
          \/ \E o \in {"partial", "timeout"} : col' = [col EXCEPT !.pc = "closeout", !.turn.outcome = o]
        BY <1>6, <2>1, Zenon DEF turnReadFails, turnExpires
    <2>3. col.pc = "wait"
        BY <1>6 DEF turnReadFails, turnExpires, WindowOver
    <2>4. PICK o \in {"error", "partial", "timeout"}, pc \in {"reset", "closeout"} : col' = [col EXCEPT !.pc = pc, !.turn.outcome = o]
        BY <2>2
    <2>5. PICK t : t = [col.turn EXCEPT !.outcome = o]
        OBVIOUS
    <2>6. t.outcome = o
        BY <1>0, <2>5 DEF NoTurn
    <2>7. col' = [col EXCEPT !.pc = pc, !.turn = t]
        BY <2>4, <2>5, Zenon
    <2>8. col'.d = col.d /\ col'.turn.outcome = o
        BY <1>0, <2>6, <2>7 DEF IdleCollect
    <2> QED
        BY <1>0, <2>3, <2>8
<1>7. CASE closeout
    <2>1. \E o : col' = [col EXCEPT !.pc = "send", !.out = o]
        BY <1>7, Zenon DEF closeout
    <2> QED
        BY <1>0, <2>1 DEF IdleCollect
<1>8. CASE streamStart \/ streamFrames
    <2>1. \E pc \in {"frames", "wait"} : col' = [col EXCEPT !.pc = pc]
        BY <1>8, Zenon DEF streamStart, streamFrames, Step
    <2>2. col.pc \in {"audio", "frames"}
        BY <1>8 DEF streamStart, streamFrames
    <2> QED
        BY <1>0, <2>1, <2>2 DEF IdleCollect
<1>9. CASE resetAfterTurnReadFailure
    <2>1. col.pc = "reset" /\ col' = [col EXCEPT !.pc = "closeout"]
        BY <1>9, Zenon DEF resetAfterTurnReadFailure, Step
    <2> QED
        BY <1>0, <2>1 DEF IdleCollect
<1>10. CASE sendOutbound
    BY <1>10, <1>i DEF sendOutbound
<1>11. CASE userSpeechEnd
    <2>1. col' = col \/ col' = [IdleCollect EXCEPT !.pc = "turn", !.k = client.spoke]
        BY <1>11, Zenon DEF userSpeechEnd
    <2> QED
        BY <1>0, <2>1 DEF IdleCollect
<1>12. CASE \/ Vendor \/ UNCHANGED vars \/ Reader \/ handleAudio
            \/ TicketExpires \/ ClientGone \/ controlSessionEnd \/ controlSessionStart \/ controlInterrupt
            \/ userSpeechStart \/ controlTurnAbort
            \/ \E s \in Sockets : Consume(s) \/ handshake(s)
    <2>1. col' = col
        BY <1>12, Zenon DEF Vendor, Others, vars, Reader, providerStart, Reopen, resetDuplex, endSession, readFails,
            close, drained, persistOnExit, handleAudio, TicketExpires, ClientGone, controlSessionEnd,
            controlSessionStart, controlInterrupt, userSpeechStart, controlTurnAbort, Consume, handshake
    <2> QED
        BY <1>0, <2>1
<1> QED
    BY <1>2, <1>3, <1>4, <1>5, <1>6, <1>7, <1>8, <1>9, <1>10, <1>11, <1>12 DEF Next, Client, Collect

LEMMA PlaceOfLoop == ASSUME TypeInv, PlaceInv, [Next]_vars, rt'.pc \in {"ending", "persist"} PROVE rt'.started
<1>0. rt \in RuntimeShape /\ (rt.pc \in {"ending", "persist"} => rt.started)
    BY DEF TypeInv, PlaceInv
<1>1. CASE Vendor \/ UNCHANGED vars
    <2>1. rt' = rt
        BY <1>1, Zenon DEF Vendor, Others, vars
    <2> QED
        BY <1>0, <2>1
<1>2. CASE Collect
    <2>1. rt' = rt \/ \E n, b : rt' = [rt EXCEPT !.turns = n, !.complete = b]
        BY <1>2, Zenon DEF Collect, noteUserTurn, UpdateInstructions, CommitTurn, collectTurn, turnReadFails,
            turnExpires, streamStart, streamFrames, resetAfterTurnReadFailure, closeout, sendOutbound
    <2> QED
        BY <1>0, <2>1 DEF RuntimeShape
<1>3. CASE drained \/ controlSessionEnd
    <2>1. \/ rt.started /\ \E pc : rt' = [rt EXCEPT !.pc = pc]
          \/ rt' = [rt EXCEPT !.pc = "closed"]
        BY <1>3, Zenon DEF drained, controlSessionEnd, Goto
    <2> QED
        BY <1>0, <2>1 DEF RuntimeShape
<1>4. CASE providerStart \/ Reopen \/ resetDuplex \/ endSession \/ readFails \/ close \/ persistOnExit \/ handleAudio
    <2>1. \/ \E pc \in {"idle", "closing", "draining", "closed"} : rt' = [rt EXCEPT !.pc = pc]
          \/ rt' = [rt EXCEPT !.pc = "reopen", !.reopenAttempted = TRUE]
          \/ rt' = [rt EXCEPT !.pc = "closing", !.broken = TRUE]
          \/ rt' = [rt EXCEPT !.pc = "retry", !.p = @ + 1]
          \/ \E pc \in {"closing", "closed"} : rt' = [rt EXCEPT !.pc = pc, !.ended = TRUE]
        BY <1>4, Zenon DEF providerStart, Reopen, resetDuplex, endSession, readFails, close, persistOnExit,
            handleAudio, Goto
    <2> QED
        BY <1>0, <2>1 DEF RuntimeShape
<1>5. CASE \/ TicketExpires \/ ClientGone \/ controlSessionStart \/ controlInterrupt
           \/ userSpeechStart \/ userSpeechEnd \/ controlTurnAbort
           \/ \E s \in Sockets : Consume(s) \/ handshake(s)
    <2>1. \/ rt' = rt \/ rt' = [rt EXCEPT !.reopenAttempted = FALSE]
          \/ \E pc \in {"idle", "starting", "panicked", "resetting"} : rt' = [rt EXCEPT !.pc = pc]
          \/ rt' = [rt EXCEPT !.pc = "starting", !.started = TRUE, !.p = 1]
        BY <1>5, Zenon DEF TicketExpires, ClientGone, controlSessionStart, controlInterrupt,
            userSpeechStart, userSpeechEnd, controlTurnAbort, Consume, handshake, Goto
    <2> QED
        BY <1>0, <2>1 DEF RuntimeShape
<1> QED
    BY <1>1, <1>2, <1>3, <1>4, <1>5, Zenon DEF Next, Reader, Client

LEMMA PlaceStep == ASSUME TypeInv, TurnInv, PlaceInv, [Next]_vars PROVE PlaceInv'
BY PlaceOfTurn, PlaceOfLoop DEF PlaceInv

LEMMA ControlsTyped ==
    ASSUME NEW r \in ProviderRecord
    PROVE  /\ SpeechStart(r) \in ProviderRecord /\ Interrupt(r) \in ProviderRecord /\ AudioCounted(r) \in ProviderRecord
           /\ ResetBegins(r) \in ProviderRecord /\ ResetBegins(TurnAbort(r)) \in ProviderRecord
<1>1. resetTurnStreamingState(r) \in ProviderRecord
    BY ProviderResets
<1>2. SpeechStart(r) \in ProviderRecord
    BY <1>1, Zenon DEF SpeechStart
<1>3. Interrupt(r) \in ProviderRecord /\ ResetBegins(r) \in ProviderRecord
    BY ProviderUpdates, Zenon DEF Interrupt, ResetBegins
<1>4. ResetBegins(TurnAbort(r)) \in ProviderRecord
    <2>1. PICK q \in ProviderRecord : q = TurnAbort(r)
        BY <1>1, Zenon DEF TurnAbort
    <2>2. ResetBegins(q) \in ProviderRecord
        BY ProviderUpdates, Zenon DEF ResetBegins
    <2> QED
        BY <2>1, <2>2
<1>5. AudioCounted(r) \in ProviderRecord
    <2>1. PICK b \in BOOLEAN : b = (r.muted /\ ~Sendable(r.d))
        BY Zenon
    <2>2. PICK c \in BOOLEAN : c = (r.uplink \/ Sendable(r.d) \/ (r.d # 0 /\ ~r.muted))
        BY Zenon
    <2>3. AudioCounted(r) = [r EXCEPT !.muted = b, !.uplink = c]
        BY <2>1, <2>2, Zenon DEF AudioCounted
    <2>4. [r EXCEPT !.muted = b, !.uplink = c] \in ProviderRecord
        BY ProviderUpdates, Zenon
    <2> QED
        BY <2>3, <2>4
<1> QED
    BY <1>2, <1>3, <1>4, <1>5

LEMMA PushesTyped ==
    ASSUME NEW r \in ProviderRecord
    PROVE  /\ UserTranscript(r) \in ProviderRecord /\ AssistantAudio(r) \in ProviderRecord
           /\ \A u \in Utterances : AssistantTextDelta(r, u) \in ProviderRecord
<1>1. UserTranscript(r) \in ProviderRecord
    BY ProviderUpdates, Zenon DEF UserTranscript
<1>2. AssistantAudio(r) \in ProviderRecord
    <2>1. PICK b \in BOOLEAN : b = (r.ttsStarted \/ ~r.streamedAudio)
        BY Zenon
    <2>2. AssistantAudio(r) = [r EXCEPT !.streamedAudio = TRUE, !.ttsStarted = b]
        BY <2>1, Zenon DEF AssistantAudio
    <2> QED
        BY <2>2, ProviderUpdates, Zenon
<1>3. ASSUME NEW u \in Utterances PROVE AssistantTextDelta(r, u) \in ProviderRecord
    <2>1. r.delivered \in Seq(Utterances)
        BY DEF ProviderRecord
    <2>2. PICK s : s = Append(r.delivered, u)
        OBVIOUS
    <2>3. s \in Seq(Utterances)
        BY <2>1, <2>2
    <2>4. [r EXCEPT !.streamedText = TRUE, !.delivered = s] \in ProviderRecord
        BY <2>3, ProviderUpdates, Zenon
    <2> QED
        BY <2>2, <2>4, Zenon DEF AssistantTextDelta
<1> QED
    BY <1>1, <1>2, <1>3

LEMMA RecordedTyped ==
    ASSUME NEW r \in ProviderRecord, NEW t \in Turn, NEW k \in Utterances
    PROVE  TurnRecorded(r, t, k) \in ProviderRecord
<1>1. /\ r.utterances \in Seq(Row) /\ r.delivered \in Seq(Utterances) /\ r.interrupted \in BOOLEAN
      /\ t.text \in Seq(Utterances) /\ t.transcript \in 0 .. MaxUtterances
    BY DEF ProviderRecord, Turn
<1>2. UserRow(k, t) \in Seq(Row)
    <2>1. CASE t.transcript = 0
        <3>1. UserRow(k, t) = <<>>
            BY <2>1 DEF UserRow
        <3> QED
            BY <3>1
    <2>2. CASE t.transcript # 0
        <3>1. t.transcript \in Utterances
            BY <1>1, <2>2, DuplexAssumption DEF Utterances
        <3>2. PICK x : x = <<t.transcript>>
            OBVIOUS
        <3>3. x \in Seq(Utterances)
            BY <3>1, <3>2
        <3>4. PICK w : w = [speaker |-> "user", turn |-> k, text |-> x, interrupted |-> FALSE]
            OBVIOUS
        <3>5. w \in Row
            BY <3>3, <3>4 DEF Row
        <3>6. UserRow(k, t) = <<w>>
            BY <2>2, <3>2, <3>4, Zenon DEF UserRow
        <3> QED
            BY <3>5, <3>6
    <2> QED
        BY <2>1, <2>2
<1>3. AIRow(k, r, t) \in Seq(Row)
    <2>1. Spoken(r, t) \in Seq(Utterances)
        BY <1>1 DEF Spoken
    <2>2. PICK w : w = [speaker |-> "ai", turn |-> k, text |-> Spoken(r, t), interrupted |-> r.interrupted]
        OBVIOUS
    <2>3. w \in Row
        BY <1>1, <2>1, <2>2 DEF Row
    <2>4. AIRow(k, r, t) = <<>> \/ AIRow(k, r, t) = <<w>>
        BY <2>2, Zenon DEF AIRow
    <2>5. <<>> \in Seq(Row) /\ <<w>> \in Seq(Row)
        BY <2>3
    <2> QED
        BY <2>4, <2>5
<1>4. PICK s : s = r.utterances \o UserRow(k, t) \o AIRow(k, r, t)
    OBVIOUS
<1>5. s \in Seq(Row)
    <2>1. r.utterances \o UserRow(k, t) \in Seq(Row)
        BY <1>1, <1>2
    <2> QED
        BY <1>3, <1>4, <2>1
<1>6. PICK q \in ProviderRecord : q = [r EXCEPT !.utterances = s]
    BY <1>5, ProviderUpdates, Zenon
<1>7. resetTurnStreamingState(q) \in ProviderRecord
    BY ProviderResets
<1>8. TurnRecorded(r, t, k) = resetTurnStreamingState(q)
    BY <1>4, <1>6, Zenon DEF TurnRecorded
<1> QED
    BY <1>7, <1>8

LEMMA OneTyped ==
    ASSUME TypeInv, NEW p \in Providers, NEW r \in ProviderRecord, prov' = [prov EXCEPT ![p] = r]
    PROVE  prov' \in [Providers -> ProviderRecord]
BY DEF TypeInv

LEMMA DuplexMoves ==
    ASSUME TypeInv, NEW p \in Providers, NEW d \in 0 .. MaxDuplex, prov' = [prov EXCEPT ![p].d = d]
    PROVE  prov' \in [Providers -> ProviderRecord]
<1>1. prov[p] \in ProviderRecord
    BY DEF TypeInv
<1>2. PICK r \in ProviderRecord : r = [prov[p] EXCEPT !.d = d]
    BY <1>1, ProviderUpdates, Zenon
<1>3. prov' = [prov EXCEPT ![p] = r]
    BY <1>2, Zenon
<1> QED
    BY <1>3, OneTyped

LEMMA FreeIsDuplex == ASSUME NextDuplex \in Free PROVE NextDuplex \in Duplexes /\ NextDuplex \in 0 .. MaxDuplex
<1>1. NextDuplex \in Duplexes
    BY Zenon DEF Free
<1> QED
    BY <1>1 DEF Duplexes

LEMMA ProviderTyped ==
    ASSUME TypeInv, TurnInv, HasProvider, PlaceInv, [Next]_vars
    PROVE  prov' \in [Providers -> ProviderRecord]
<1>0. prov \in [Providers -> ProviderRecord]
    BY DEF TypeInv
<1>r. rt.started => rt.p \in Providers /\ P \in ProviderRecord
    BY <1>0 DEF TurnInv, Control, P
<1>c. col.pc \notin {"idle", "turn"} => col.p \in Providers /\ Mine \in ProviderRecord
    BY <1>0 DEF TurnInv, Control, Mine
<1>1. CASE providerStart \/ Reopen \/ resetDuplex
    <2>1. rt.p \in Providers
        BY <1>1, <1>r DEF HasProvider, providerStart, Reopen, resetDuplex
    <2>2. \/ prov' = prov
          \/ NextDuplex \in Free /\ \E p \in {rt.p, rt.p + 1} : p \in Providers /\ prov' = [prov EXCEPT ![p].d = NextDuplex]
        BY <1>1, <2>1, Zenon DEF providerStart, Reopen, resetDuplex, Dials, ResetSwaps
    <2> QED
        BY <1>0, <2>2, FreeIsDuplex, DuplexMoves
<1>2. CASE userSpeechStart \/ handleAudio \/ controlTurnAbort \/ controlInterrupt
    <2>1. rt.started
        BY <1>2 DEF userSpeechStart, handleAudio, controlTurnAbort, controlInterrupt, TurnInv, Control
    <2>2. \/ prov' = prov
          \/ \E r \in {SpeechStart(P), AudioCounted(P), ResetBegins(TurnAbort(P)), Interrupt(P)} : prov' = [prov EXCEPT ![rt.p] = r]
        BY <1>2, Zenon DEF userSpeechStart, handleAudio, controlTurnAbort, controlInterrupt, Heard
    <2>3. \A r \in {SpeechStart(P), AudioCounted(P), ResetBegins(TurnAbort(P)), Interrupt(P)} : r \in ProviderRecord
        BY <1>r, <2>1, ControlsTyped
    <2> QED
        BY <1>0, <1>r, <2>1, <2>2, <2>3, OneTyped
<1>3. CASE noteUserTurn
    <2>1. rt.p \in Providers /\ prov[rt.p] \in ProviderRecord
        BY <1>3, <1>r DEF noteUserTurn, TurnInv, Control, P
    <2>2. PICK b \in BOOLEAN : prov' = [prov EXCEPT ![rt.p].pending = b]
        BY <1>3, Zenon DEF noteUserTurn
    <2>3. PICK r \in ProviderRecord : r = [prov[rt.p] EXCEPT !.pending = b]
        BY <2>1, ProviderUpdates, Zenon
    <2>4. prov' = [prov EXCEPT ![rt.p] = r]
        BY <2>2, <2>3, Zenon
    <2> QED
        BY <2>1, <2>4, OneTyped
<1>4. CASE CommitTurn
    <2>1. col.p \in Providers /\ prov[col.p] \in ProviderRecord
        BY <1>4, <1>c DEF CommitTurn, Mine
    <2>2. prov' = prov \/ prov' = [prov EXCEPT ![col.p].muted = TRUE, ![col.p].collecting = TRUE]
        BY <1>4, Zenon DEF CommitTurn
    <2>3. PICK r \in ProviderRecord : r = [prov[col.p] EXCEPT !.muted = TRUE, !.collecting = TRUE]
        BY <2>1, ProviderUpdates, Zenon
    <2>4. [prov EXCEPT ![col.p].muted = TRUE, ![col.p].collecting = TRUE] = [prov EXCEPT ![col.p] = r]
        BY <1>0, <2>1, <2>3
    <2> QED
        BY <1>0, <2>1, <2>2, <2>4, OneTyped
<1>5. CASE collectTurn
    <2>1. PICK e \in Sent : Collects(e)
        BY <1>5, CollectsOne
    <2>2. col.p \in Providers /\ Mine \in ProviderRecord
        BY <1>5, <1>c DEF collectTurn
    <2>3. e.kind = "text" => e.of \in Utterances
        BY DuplexAssumption DEF Sent, Event, Utterances
    <2>4. PICK r : prov' = [prov EXCEPT ![col.p] = r] /\
                 \/ r \in {UserTranscript(Mine), AssistantAudio(Mine), Mine}
                 \/ e.kind = "text" /\ r = AssistantTextDelta(Mine, e.of)
        BY <2>1 DEF Collects
    <2>5. UserTranscript(Mine) \in ProviderRecord /\ AssistantAudio(Mine) \in ProviderRecord
        BY <2>2, PushesTyped
    <2>6. r \in ProviderRecord
        BY <2>2, <2>3, <2>4, <2>5, PushesTyped
    <2> QED
        BY <2>2, <2>4, <2>6, OneTyped
<1>6. CASE streamStart \/ streamFrames
    <2>1. col.p \in Providers /\ Mine \in ProviderRecord /\ ticket.refs + 1 \in Nat
        BY <1>6, <1>c DEF streamStart, streamFrames, TypeInv, TicketShape
    <2>2. prov' = prov \/ \E r \in {ttsStartFrame(Mine, ticket.refs + 1), frameAudio(Mine)} : prov' = [prov EXCEPT ![col.p] = r]
        BY <1>6, Zenon DEF streamStart, streamFrames
    <2>3. ttsStartFrame(Mine, ticket.refs + 1) \in ProviderRecord /\ frameAudio(Mine) \in ProviderRecord
        BY <2>1, StartTyped, FrameRefTyped
    <2> QED
        BY <1>0, <2>1, <2>2, <2>3, OneTyped
<1>7. CASE resetAfterTurnReadFailure
    <2>1. col.p \in Providers /\ Mine \in ProviderRecord
        BY <1>7, <1>c DEF resetAfterTurnReadFailure
    <2>2. PICK r \in ProviderRecord : r = ResetBegins(Mine)
        BY <2>1, ControlsTyped
    <2>3. \/ prov' = [prov EXCEPT ![col.p] = r]
          \/ NextDuplex \in Free /\ prov' = [prov EXCEPT ![col.p] = [r EXCEPT !.d = NextDuplex]]
        BY <1>7, <2>2, Zenon DEF resetAfterTurnReadFailure, Mine
    <2>4. NextDuplex \in Free => [r EXCEPT !.d = NextDuplex] \in ProviderRecord
        BY FreeIsDuplex, ProviderUpdates, Zenon
    <2> QED
        BY <2>1, <2>3, <2>4, OneTyped
<1>8. CASE closeout
    <2>1. col.p \in Providers /\ Mine \in ProviderRecord /\ col.turn \in Turn /\ col.k \in Utterances
        BY <1>8, <1>c DEF closeout, TypeInv, CollectShape, TurnInv, Control
    <2>2. TurnRecorded(Mine, col.turn, col.k) \in ProviderRecord
        BY <2>1, RecordedTyped
    <2>3. prov' = [prov EXCEPT ![col.p] = TurnRecorded(Mine, col.turn, col.k)]
        BY <1>8, Zenon DEF closeout
    <2> QED
        BY <2>1, <2>2, <2>3, OneTyped
<1>9. CASE \/ Vendor \/ UNCHANGED vars \/ endSession \/ readFails \/ close \/ drained \/ persistOnExit
           \/ UpdateInstructions \/ turnReadFails \/ turnExpires \/ sendOutbound
           \/ TicketExpires \/ ClientGone \/ controlSessionEnd \/ controlSessionStart \/ userSpeechEnd
           \/ \E s \in Sockets : Consume(s) \/ handshake(s)
    <2>1. prov' = prov
        BY <1>9, Zenon DEF Vendor, Others, vars, endSession, readFails, close, drained, persistOnExit,
            UpdateInstructions, turnReadFails, turnExpires, sendOutbound, TicketExpires, ClientGone,
            controlSessionEnd, controlSessionStart, userSpeechEnd, Consume, handshake
    <2> QED
        BY <1>0, <2>1
<1> QED
    BY <1>1, <1>2, <1>3, <1>4, <1>5, <1>6, <1>7, <1>8, <1>9 DEF Next, Reader, Client, Collect

LEMMA ReplyIsThere ==
    /\ Len(ReplyOrder) \in Nat \ {0} /\ 0 \in 0 .. Len(ReplyOrder) - 1 /\ MaxUtterances \in Nat /\ MaxDuplex \in Nat
    /\ \A i \in 1 .. Len(ReplyOrder) : ReplyOrder[i] \in {"committed", "asr", "text", "revised", "audio", "done"}
    /\ ReplyOrder[Len(ReplyOrder)] = "done"
<1>1. /\ ReplyOrder \in Seq({"committed", "asr", "text", "revised", "audio", "done"}) /\ ReplyOrder # <<>>
      /\ ReplyOrder[Len(ReplyOrder)] = "done" /\ MaxUtterances \in Nat /\ MaxDuplex \in Nat
    BY DuplexAssumption
<1>2. Len(ReplyOrder) \in Nat \ {0}
    BY <1>1
<1>3. \A i \in 1 .. Len(ReplyOrder) : ReplyOrder[i] \in {"committed", "asr", "text", "revised", "audio", "done"}
    BY <1>1
<1>4. 0 \in 0 .. Len(ReplyOrder) - 1
    BY <1>2
<1> QED
    BY <1>1, <1>2, <1>3, <1>4

LEMMA SessionsTyped ==
    /\ NoDuplex \in DuplexShape /\ Opened \in DuplexShape
    /\ \A r \in DuplexShape, conn \in {"open", "closed"} : Leftover(r, conn) \in DuplexShape
<1>0. 0 \in 0 .. Len(ReplyOrder) - 1 /\ 0 \in 0 .. MaxUtterances /\ <<>> \in Seq(Sent) /\ <<>> \in Seq(Utterances)
    BY ReplyIsThere
<1>1. NoDuplex \in DuplexShape
    BY <1>0 DEF NoDuplex, DuplexShape
<1>2. Opened \in DuplexShape
    BY <1>0 DEF NoDuplex, Opened, DuplexShape
<1>3. ASSUME NEW r \in DuplexShape, NEW conn \in {"open", "closed"} PROVE Leftover(r, conn) \in DuplexShape
    <2>1. r.events \in Seq(Sent)
        BY DEF DuplexShape
    <2> QED
        BY <1>0, <2>1 DEF NoDuplex, Leftover, DuplexShape
<1> QED
    BY <1>1, <1>2, <1>3

LEMMA CloseTyped ==
    ASSUME NEW f \in [Duplexes -> DuplexShape], NEW d \in 0 .. MaxDuplex
    PROVE  CloseDuplex(f, d) \in [Duplexes -> DuplexShape]
<1>1. CASE d = 0
    BY <1>1 DEF CloseDuplex
<1>2. CASE d # 0
    <2>1. d \in Duplexes
        BY <1>2, ReplyIsThere DEF Duplexes
    <2>2. Leftover(f[d], "closed") \in DuplexShape
        BY <2>1, SessionsTyped
    <2>3. CloseDuplex(f, d) = [f EXCEPT ![d] = Leftover(f[d], "closed")]
        BY <1>2, Zenon DEF CloseDuplex
    <2> QED
        BY <2>1, <2>2, <2>3
<1> QED
    BY <1>1, <1>2

LEMMA OneDuplex ==
    ASSUME TypeInv, NEW d \in Duplexes, NEW r \in DuplexShape
    PROVE  [dup EXCEPT ![d] = r] \in [Duplexes -> DuplexShape]
BY DEF TypeInv

\* The vendor says something about an utterance: one more event in the channel.
LEMMA Told ==
    ASSUME NEW r \in DuplexShape, NEW kind, NEW of \in 0 .. MaxUtterances,
           kind \in {"committed", "asr", "text", "revised", "audio", "done", "updated", "error"},
           kind \in {"text", "revised"} => of # 0
    PROVE  Append(r.events, [kind |-> kind, of |-> of]) \in Seq(Sent)
<1>1. [kind |-> kind, of |-> of] \in Sent
    BY DEF Sent, Event
<1>2. r.events \in Seq(Sent)
    BY DEF DuplexShape
<1> QED
    BY <1>1, <1>2

LEMMA HearsTyped == ASSUME TypeInv, NEW d \in Duplexes, VendorHears(d) PROVE dup' \in [Duplexes -> DuplexShape]
<1>1. dup[d] \in DuplexShape /\ dup[d].hears \in 0 .. MaxUtterances
    BY DEF TypeInv, DuplexShape
<1>2. PICK s \in Seq(Sent) : s = Append(dup[d].events, [kind |-> "asr", of |-> dup[d].hears])
    BY <1>1, Told
<1>3. PICK r \in DuplexShape : r = [dup[d] EXCEPT !.events = s, !.live = TRUE]
    BY <1>1, DuplexUpdates, Zenon
<1>4. dup' = [dup EXCEPT ![d] = r]
    BY <1>2, <1>3 DEF VendorHears, TypeInv
<1> QED
    BY <1>4, OneDuplex

LEMMA UpdatesTyped == ASSUME TypeInv, NEW d \in Duplexes, VendorUpdates(d) PROVE dup' \in [Duplexes -> DuplexShape]
<1>1. dup[d] \in DuplexShape /\ 0 \in 0 .. MaxUtterances
    BY ReplyIsThere DEF TypeInv
<1>2. PICK s \in Seq(Sent) : s = Append(dup[d].events, [kind |-> "updated", of |-> 0])
    BY <1>1, Told
<1>3. PICK r \in DuplexShape : r = [dup[d] EXCEPT !.events = s, !.asked = FALSE]
    BY <1>1, DuplexUpdates, Zenon
<1>4. dup' = [dup EXCEPT ![d] = r]
    BY <1>2, <1>3 DEF VendorUpdates, TypeInv
<1> QED
    BY <1>4, OneDuplex

LEMMA AnswersTyped ==
    ASSUME TypeInv, NEW d \in Duplexes, VendorAnswers(d) \/ VendorRefuses(d)
    PROVE  dup' \in [Duplexes -> DuplexShape]
<1>1. dup[d] \in DuplexShape /\ dup[d].owes \in Seq(Utterances) /\ dup[d].stage \in 0 .. Len(ReplyOrder) - 1
    BY DEF TypeInv, DuplexShape
<1>2. dup[d].owes # <<>>
    BY DEF VendorAnswers, VendorRefuses
<1>3. Head(dup[d].owes) \in Utterances /\ Tail(dup[d].owes) \in Seq(Utterances)
    BY <1>1, <1>2
<1>4. Head(dup[d].owes) \in 0 .. MaxUtterances /\ Head(dup[d].owes) # 0
    BY <1>3 DEF Utterances
<1>5. ASSUME NEW kind \in {"committed", "asr", "text", "revised", "audio", "done", "error"},
             NEW n \in 0 .. Len(ReplyOrder) - 1, NEW q \in Seq(Utterances),
             dup' = [dup EXCEPT ![d].events = Append(@, [kind |-> kind, of |-> Head(dup[d].owes)]),
                                ![d].stage = n, ![d].owes = q]
      PROVE  dup' \in [Duplexes -> DuplexShape]
    <2>1. PICK s \in Seq(Sent) : s = Append(dup[d].events, [kind |-> kind, of |-> Head(dup[d].owes)])
        BY <1>1, <1>4, Told
    <2>2. PICK r \in DuplexShape : r = [dup[d] EXCEPT !.events = s, !.stage = n, !.owes = q]
        BY <1>1, DuplexUpdates, Zenon
    <2>3. dup' = [dup EXCEPT ![d] = r]
        BY <1>5, <2>1, <2>2 DEF TypeInv
    <2> QED
        BY <2>3, OneDuplex
<1>6. CASE VendorRefuses(d)
    <2>1. dup' = [dup EXCEPT ![d].events = Append(@, [kind |-> "error", of |-> Head(dup[d].owes)]),
                             ![d].stage = 0, ![d].owes = Tail(dup[d].owes)]
        BY <1>6 DEF VendorRefuses, TypeInv
    <2> QED
        BY <1>3, <1>5, <2>1, ReplyIsThere
<1>7. CASE VendorAnswers(d)
    <2>1. PICK i : i = dup[d].stage + 1
        OBVIOUS
    <2>2. i \in 1 .. Len(ReplyOrder) /\ (ReplyOrder[i] # "done" => i \in 0 .. Len(ReplyOrder) - 1)
        BY <1>1, <2>1, ReplyIsThere
    <2>3. ReplyOrder[i] \in {"committed", "asr", "text", "revised", "audio", "done"}
        BY <2>2, ReplyIsThere
    <2>4. PICK n, q : /\ n = (IF ReplyOrder[i] = "done" THEN 0 ELSE i)
                      /\ q = (IF ReplyOrder[i] = "done" THEN Tail(dup[d].owes) ELSE dup[d].owes)
        OBVIOUS
    <2>5. n \in 0 .. Len(ReplyOrder) - 1 /\ q \in Seq(Utterances)
        BY <1>1, <1>3, <2>2, <2>4, ReplyIsThere
    <2>6. dup' = [dup EXCEPT ![d].events = Append(@, [kind |-> ReplyOrder[i], of |-> Head(dup[d].owes)]),
                             ![d].stage = n, ![d].owes = q]
        BY <1>7, <2>1, <2>4 DEF VendorAnswers, TypeInv
    <2> QED
        BY <1>5, <2>3, <2>5, <2>6
<1> QED
    BY <1>6, <1>7

LEMMA VendorTyped == ASSUME TypeInv, Vendor PROVE dup' \in [Duplexes -> DuplexShape]
<1>1. PICK d \in Duplexes : \/ VendorHears(d) \/ VendorAnswers(d) \/ VendorUpdates(d)
                            \/ VendorRefuses(d) \/ SocketDies(d)
    BY Zenon DEF Vendor
<1>2. CASE SocketDies(d)
    <2>1. Leftover(dup[d], "open") \in DuplexShape
        BY SessionsTyped DEF TypeInv
    <2>2. dup' = [dup EXCEPT ![d] = Leftover(dup[d], "open")]
        BY <1>2, Zenon DEF SocketDies
    <2> QED
        BY <2>1, <2>2, OneDuplex
<1> QED
    BY <1>1, <1>2, HearsTyped, UpdatesTyped, AnswersTyped

LEMMA RecvTyped ==
    ASSUME TypeInv, NEW d \in Duplexes, dup[d].events # <<>> PROVE Recv(d) \in [Duplexes -> DuplexShape]
<1>1. dup[d] \in DuplexShape /\ dup[d].events \in Seq(Sent)
    BY DEF TypeInv, DuplexShape
<1>2. PICK s : s = Tail(dup[d].events)
    OBVIOUS
<1>3. s \in Seq(Sent)
    BY <1>1, <1>2
<1>4. PICK r \in DuplexShape : r = [dup[d] EXCEPT !.events = s]
    BY <1>1, <1>3, DuplexUpdates, Zenon
<1>5. Recv(d) = [dup EXCEPT ![d] = r]
    BY <1>2, <1>4, Zenon DEF Recv
<1> QED
    BY <1>5, OneDuplex

LEMMA AudioTyped ==
    ASSUME TypeInv, TurnInv, handleAudio PROVE dup' \in [Duplexes -> DuplexShape]
<1>0. dup \in [Duplexes -> DuplexShape] /\ client.spoke \in 0 .. MaxUtterances /\ rt.p \in Providers
    BY DEF handleAudio, TypeInv, ClientShape, TurnInv, Control
<1>1. CASE dup' = dup
    BY <1>0, <1>1
<1>2. CASE AudioAccepted(P)
    <2>0. PICK d : d = P.d
        OBVIOUS
    <2>1. d # 0 /\ d \in 0 .. MaxDuplex
        <3>1. d # 0
            BY <1>2, <2>0 DEF AudioAccepted, Sendable
        <3>2. prov[rt.p] \in ProviderRecord
            BY <1>0 DEF TypeInv
        <3> QED
            BY <2>0, <3>1, <3>2 DEF P, ProviderRecord
    <2>2. d \in Duplexes
        BY <2>1, ReplyIsThere DEF Duplexes
    <2>3. dup[d] \in DuplexShape /\ dup[d].hears \in 0 .. MaxUtterances /\ dup[d].owes \in Seq(Utterances)
        BY <1>0, <2>2 DEF DuplexShape
    <2>4. PICK b \in BOOLEAN : b = (dup[d].live /\ dup[d].hears = client.spoke)
        BY Zenon
    <2>5. PICK g : g = [dup EXCEPT ![d].hears = client.spoke, ![d].live = b]
        OBVIOUS
    <2>6. AppendPCMChunk(d, client.spoke) = g
        BY <1>0, <2>2, <2>4, <2>5 DEF AppendPCMChunk, DuplexShape
    <2>7. AudioForwarded(P, client.spoke) = g \/ AudioForwarded(P, client.spoke) = [g EXCEPT ![d].muted = FALSE]
        BY <2>0, <2>6, Zenon DEF AudioForwarded, CommitInputUnmute
    <2>8. PICK f : f = AudioForwarded(P, client.spoke)
        OBVIOUS
    <2>9. \/ dup' = dup \/ dup' = f
          \/ /\ dup[d].hears # 0
             /\ dup' = [f EXCEPT ![d].owes = Append(@, dup[d].hears), ![d].live = FALSE]
        BY <2>0, <2>8, Zenon DEF handleAudio
    <2>10. /\ [dup[d] EXCEPT !.hears = client.spoke, !.live = b] \in DuplexShape
           /\ [dup[d] EXCEPT !.hears = client.spoke, !.live = b, !.muted = FALSE] \in DuplexShape
        BY <1>0, <2>3, DuplexUpdates, Zenon
    <2>11. PICK r \in DuplexShape : f = [dup EXCEPT ![d] = r] /\ r.owes = dup[d].owes
        <3>1. g = [dup EXCEPT ![d] = [dup[d] EXCEPT !.hears = client.spoke, !.live = b]]
            BY <1>0, <2>2, <2>5
        <3>2. [g EXCEPT ![d].muted = FALSE] = [dup EXCEPT ![d] = [dup[d] EXCEPT !.hears = client.spoke, !.live = b, !.muted = FALSE]]
            BY <1>0, <2>2, <2>5
        <3>3. /\ [dup[d] EXCEPT !.hears = client.spoke, !.live = b].owes = dup[d].owes
              /\ [dup[d] EXCEPT !.hears = client.spoke, !.live = b, !.muted = FALSE].owes = dup[d].owes
            BY <2>3 DEF DuplexShape
        <3> QED
            BY <2>7, <2>8, <2>10, <3>1, <3>2, <3>3, Zenon
    <2>12. f \in [Duplexes -> DuplexShape]
        BY <2>2, <2>11, OneDuplex
    <2>13. CASE dup[d].hears # 0 /\ dup' = [f EXCEPT ![d].owes = Append(@, dup[d].hears), ![d].live = FALSE]
        <3>1. dup[d].hears \in Utterances
            BY <2>3, <2>13, ReplyIsThere DEF Utterances
        <3>2. f[d] = r
            BY <1>0, <2>2, <2>11
        <3>3. PICK q : q = Append(r.owes, dup[d].hears)
            OBVIOUS
        <3>4. q \in Seq(Utterances)
            BY <2>3, <2>11, <3>1, <3>3
        <3>5. PICK z : z = [r EXCEPT !.owes = q, !.live = FALSE]
            OBVIOUS
        <3>6. z \in DuplexShape
            BY <3>4, <3>5 DEF DuplexShape
        <3>7. dup' = [f EXCEPT ![d] = z]
            BY <2>2, <2>12, <2>13, <3>2, <3>3, <3>5
        <3> QED
            BY <2>2, <2>12, <3>6, <3>7
    <2> QED
        BY <1>1, <2>9, <2>12, <2>13
<1> QED
    BY <1>1, <1>2, Zenon DEF handleAudio

LEMMA CommitTyped == ASSUME TypeInv, TurnInv, CommitTurn PROVE dup' \in [Duplexes -> DuplexShape]
<1>0. dup \in [Duplexes -> DuplexShape]
    BY DEF TypeInv
<1>1. CASE ~Sendable(Mine.d)
    BY <1>0, <1>1 DEF CommitTurn
<1>2. CASE Sendable(Mine.d)
    <2>0. PICK d : d = Mine.d
        OBVIOUS
    <2>1. d \in Duplexes
        <3>1. prov[col.p] \in ProviderRecord
            BY DEF CommitTurn, TypeInv, TurnInv, Control
        <3>2. d # 0
            BY <1>2, <2>0 DEF Sendable
        <3>3. d \in 0 .. MaxDuplex
            BY <2>0, <3>1 DEF Mine, ProviderRecord
        <3> QED
            BY <3>2, <3>3, ReplyIsThere DEF Duplexes
    <2>2. dup[d] \in DuplexShape /\ dup[d].hears \in 0 .. MaxUtterances /\ dup[d].owes \in Seq(Utterances)
        BY <1>0, <2>1 DEF DuplexShape
    <2>3. PICK q : q = IF dup[d].hears = 0 THEN dup[d].owes ELSE Append(dup[d].owes, dup[d].hears)
        OBVIOUS
    <2>4. q \in Seq(Utterances)
        <3>1. dup[d].hears # 0 => dup[d].hears \in Utterances
            BY <2>2, ReplyIsThere DEF Utterances
        <3> QED
            BY <2>2, <2>3, <3>1
    <2>5. PICK r \in DuplexShape : r = [dup[d] EXCEPT !.owes = q, !.hears = 0, !.live = FALSE, !.muted = TRUE]
        <3>1. 0 \in 0 .. MaxUtterances
            BY ReplyIsThere
        <3> QED
            BY <2>2, <2>4, <3>1, DuplexUpdates, Zenon
    <2>6. CommitAudio(d) = [dup EXCEPT ![d].owes = q, ![d].hears = 0, ![d].live = FALSE]
        BY <1>0, <2>1, <2>3 DEF CommitAudio
    <2>7. dup' = [CommitAudio(d) EXCEPT ![d].muted = TRUE]
        BY <1>2, <2>0, Zenon DEF CommitTurn
    <2>8. dup' = [dup EXCEPT ![d] = r]
        BY <1>0, <2>1, <2>5, <2>6, <2>7
    <2> QED
        BY <2>1, <2>8, OneDuplex
<1> QED
    BY <1>1, <1>2

LEMMA DuplexTyped ==
    ASSUME TypeInv, TurnInv, HasProvider, PlaceInv, [Next]_vars
    PROVE  dup' \in [Duplexes -> DuplexShape]
<1>0. dup \in [Duplexes -> DuplexShape]
    BY DEF TypeInv
<1>o. NextDuplex \in Free => [dup EXCEPT ![NextDuplex] = Opened] \in [Duplexes -> DuplexShape]
    BY FreeIsDuplex, SessionsTyped, OneDuplex
<1>p. \A p \in Providers : prov[p].d \in 0 .. MaxDuplex
    BY DEF TypeInv, ProviderRecord
<1>1. CASE providerStart \/ Reopen
    <2>1. dup' = dup \/ (NextDuplex \in Free /\ dup' = [dup EXCEPT ![NextDuplex] = Opened])
        BY <1>1, Zenon DEF providerStart, Reopen, Dials
    <2> QED
        BY <1>0, <1>o, <2>1
<1>2. CASE resetDuplex \/ resetAfterTurnReadFailure
    <2>1. \/ dup' = dup
          \/ /\ NextDuplex \in Free
             /\ \E p \in Providers : dup' = CloseDuplex([dup EXCEPT ![NextDuplex] = Opened], prov[p].d)
        <3>1. CASE resetDuplex
            <4>1. rt.p \in Providers
                BY <3>1 DEF resetDuplex, HasProvider, TurnInv, Control
            <4> QED
                BY <3>1, <4>1, Zenon DEF resetDuplex, ResetSwaps
        <3>2. CASE resetAfterTurnReadFailure
            <4>1. col.p \in Providers
                BY <3>2 DEF resetAfterTurnReadFailure, TurnInv, Control
            <4> QED
                BY <3>2, <4>1, Zenon DEF resetAfterTurnReadFailure, Mine
        <3> QED
            BY <1>2, <3>1, <3>2
    <2> QED
        BY <1>0, <1>o, <1>p, <2>1, CloseTyped
<1>3. CASE close
    <2>1. dup' = dup \/ (rt.p # 0 /\ dup' = CloseDuplex(dup, P.d))
        BY <1>3, Zenon DEF close
    <2>2. rt.p # 0 => P.d \in 0 .. MaxDuplex
        BY <1>p, ProviderAssumption DEF TypeInv, RuntimeShape, Providers, P
    <2> QED
        BY <1>0, <2>1, <2>2, CloseTyped
<1>4. CASE noteUserTurn
    <2>1. dup' = dup \/ (Sendable(P.d) /\ dup' = SessionUpdate(P.d))
        BY <1>4, Zenon DEF noteUserTurn
    <2>2. PICK d : d = P.d
        OBVIOUS
    <2>3. d # 0 => d \in Duplexes
        <3>1. rt.p \in Providers
            BY <1>4 DEF noteUserTurn, TurnInv, Control
        <3>2. d \in 0 .. MaxDuplex
            BY <1>p, <2>2, <3>1 DEF P
        <3> QED
            BY <3>2, ReplyIsThere DEF Duplexes
    <2>4. ASSUME d \in Duplexes PROVE SessionUpdate(d) \in [Duplexes -> DuplexShape]
        <3>1. dup[d] \in DuplexShape
            BY <1>0, <2>4
        <3>2. PICK r \in DuplexShape : r = [dup[d] EXCEPT !.asked = TRUE]
            BY <3>1, DuplexUpdates, Zenon
        <3>3. SessionUpdate(d) = [dup EXCEPT ![d] = r]
            BY <3>2, Zenon DEF SessionUpdate
        <3> QED
            BY <2>4, <3>3, OneDuplex
    <2>5. Sendable(P.d) => d # 0
        BY <2>2 DEF Sendable
    <2> QED
        BY <1>0, <2>1, <2>2, <2>3, <2>4, <2>5
<1>5. CASE UpdateInstructions \/ collectTurn
    <2>1. dup' = dup \/ (dup[col.d].events # <<>> /\ dup' = Recv(col.d))
        BY <1>5, Zenon DEF UpdateInstructions, collectTurn
    <2>2. col.d \in Duplexes
        BY <1>5 DEF UpdateInstructions, collectTurn, PlaceInv
    <2> QED
        BY <1>0, <2>1, <2>2, RecvTyped
<1>6. CASE \/ UNCHANGED vars \/ endSession \/ readFails \/ drained \/ persistOnExit
           \/ turnReadFails \/ turnExpires \/ streamStart \/ streamFrames \/ closeout \/ sendOutbound
           \/ TicketExpires \/ ClientGone \/ controlSessionEnd \/ controlSessionStart \/ userSpeechStart
           \/ userSpeechEnd \/ controlTurnAbort \/ controlInterrupt
           \/ \E s \in Sockets : Consume(s) \/ handshake(s)
    <2>1. dup' = dup
        BY <1>6, Zenon DEF vars, endSession, readFails, drained, persistOnExit, turnReadFails, turnExpires,
            streamStart, streamFrames, closeout, sendOutbound, TicketExpires, ClientGone, controlSessionEnd,
            controlSessionStart, userSpeechStart, userSpeechEnd, controlTurnAbort, controlInterrupt, Consume,
            handshake
    <2> QED
        BY <1>0, <2>1
<1>7. CASE Vendor \/ handleAudio \/ CommitTurn
    BY <1>7, VendorTyped, AudioTyped, CommitTyped
<1> QED
    BY <1>1, <1>2, <1>3, <1>4, <1>5, <1>6, <1>7 DEF Next, Reader, Client, Collect

LEMMA TypeStep ==
    TypeInv /\ PlaceInv /\ TurnInv /\ HasProvider /\ [Next]_vars => TypeInv' /\ PlaceInv'
<1> SUFFICES ASSUME TypeInv, PlaceInv, TurnInv, HasProvider, [Next]_vars PROVE TypeInv' /\ PlaceInv'
    OBVIOUS
<1>1. PlaceInv'
    BY PlaceStep
<1>2. TypeInv'
    BY DuplexTyped, ProviderTyped, TicketTyped, RuntimeTyped, CollectTyped, WireTyped, AppTyped, ClientTyped
        DEF TypeInv
<1> QED
    BY <1>1, <1>2

LEMMA TypeStart == Init => TypeInv /\ PlaceInv
<1> SUFFICES ASSUME Init PROVE TypeInv /\ PlaceInv
    OBVIOUS
<1>0. /\ MaxUtterances \in Nat /\ MaxProviders \in Nat /\ MaxDuplex \in Nat /\ MaxUpsets \in Nat
      /\ <<>> \in Seq(Utterances) /\ <<>> \in Seq(Row)
    BY DuplexAssumption, ProviderAssumption, ConnectionAssumption
<1>1. dup \in [Duplexes -> DuplexShape]
    BY SessionsTyped DEF Init
<1>2. prov \in [Providers -> ProviderRecord]
    <2>1. NewProvider \in ProviderRecord
        BY <1>0 DEF NewProvider, ProviderRecord
    <2> QED
        BY <2>1 DEF Init
<1>3. ticket \in TicketShape
    BY DEF Init, TicketShape
<1>4. rt \in RuntimeShape
    BY <1>0 DEF Init, NoRuntime, RuntimeShape, Loops
<1>5. col \in CollectShape
    BY CollectStarts DEF Init
<1>6. wire \in [Utterances -> WireShape]
    <2>1. NoWire \in WireShape
        BY <1>0 DEF NoWire, WireShape
    <2> QED
        BY <2>1 DEF Init
<1>7. app \in AppShape
    BY <1>0 DEF Init, NewSession, AppShape
<1>8. client \in ClientShape
    BY <1>0 DEF Init, ClientShape
<1>9. PlaceInv
    BY DEF Init, PlaceInv, IdleCollect, NoRuntime
<1> QED
    BY <1>1, <1>2, <1>3, <1>4, <1>5, <1>6, <1>7, <1>8, <1>9 DEF TypeInv

LEMMA TypeImplied == TypeInv => TypeOK
<1> SUFFICES ASSUME TypeInv PROVE TypeOK
    OBVIOUS
<1>1. dup \in [Duplexes -> DuplexRecord]
    <2>1. ASSUME NEW r \in DuplexShape PROVE r \in DuplexRecord
        <3>1. r.stage \in 0 .. Len(ReplyOrder)
            BY ReplyIsThere DEF DuplexShape
        <3>2. r.events \in Seq(Event)
            <4>1. r.events \in Seq(Sent) /\ Sent \subseteq Event
                BY DEF DuplexShape, Sent
            <4> QED
                BY <4>1
        <3> QED
            BY <3>1, <3>2 DEF DuplexShape, DuplexRecord
    <2> QED
        BY <2>1 DEF TypeInv
<1>2. col \in [pc : CollectPCs, k : 0 .. MaxUtterances, p : 0 .. MaxProviders, d : 0 .. MaxDuplex,
               opens : BOOLEAN, skipped : Seq(Event), turn : Turn,
               out : [whole : BOOLEAN, start : BOOLEAN, audio : BOOLEAN, ref : Nat,
                      outcome : {"ok", "partial", "timeout", "error"}]]
    <2>1. col \in CollectShape
        BY DEF TypeInv
    <2>2. col.skipped \in Seq(Event)
        <3>1. col.skipped \in Seq(Sent) /\ Sent \subseteq Event
            BY <2>1 DEF CollectShape, Sent
        <3> QED
            BY <3>1
    <2> QED
        BY <2>1, <2>2 DEF CollectShape, Closeout
<1>3. /\ DOMAIN rt = DOMAIN NoRuntime /\ rt.pc \in Loops /\ rt.p \in 0 .. MaxProviders /\ rt.turns \in Nat
      /\ {rt.started, rt.reopenAttempted, rt.broken, rt.complete, rt.ended} \subseteq BOOLEAN
    BY DEF TypeInv, RuntimeShape, NoRuntime
<1> QED
    BY <1>1, <1>2, <1>3, Zenon DEF TypeInv, TypeOK, TicketShape, WireShape, AppShape, ClientShape

\* Type correctness of the connection (TypeOK) for every number of utterances, of vendor and provider
\* sessions and of sockets.  It is no mere bookkeeping here: the goroutine that collects a turn works
\* with indices that the read loop sets (rt.p, P.d) and that are 0 before Start and when a dial failed,
\* so that a turn reads a vendor session there is, a row names an utterance, and a turn is closed with
\* an outcome, only because of the order in which the two proceed (PlaceInv).
THEOREM VoiceTypeCorrect == Spec => []TypeOK
<1> QED
    BY TypeImplied, TypeStart, TypeStep, TurnStart, TurnStep, HasProviderStep, PTL DEF Spec

=============================================================================
