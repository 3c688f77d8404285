---------------------------- MODULE RescueLadder ----------------------------
(***************************************************************************)
(* One voice session of the gateway: the turn machine (turn.go), the       *)
(* silence detector, the rescue ladder and its spoken rungs                *)
(* (handler_rescue.go, rescue_orchestrator.go, utterance.go) and the log   *)
(* of stuck points (rescue_log.go).                                        *)
(*                                                                         *)
(* Four kinds of goroutine share the session: the read loop that handles   *)
(* the client's frames, the collect goroutine that relays the AI's reply,  *)
(* the poller of the silence detector, and one goroutine per rung.  Each   *)
(* object has a mutex of its own, so a handler that touches three objects  *)
(* is three steps.  Time is counted in ticks of one rung spacing and is    *)
(* relative: the age of the open window, and what is left of the hold a    *)
(* request puts on the automatic ladder.                                   *)
(***************************************************************************)
EXTENDS Naturals, FiniteSets, FiniteSetsExt

CONSTANTS
    MaxTurns,    \* bound on the utterances the client ends
    MaxRungs,    \* bound on the rungs started in the session
    MaxReplies,  \* bound on the audio frames of one AI reply
    Slots,       \* goroutines that may speak a rung at the same time
    After,       \* RescueThresholds, in ticks
    Endings,     \* how the session may end: the client says so or is gone, the provider fails
    Says,        \* what the client's end frames carry: no text, a whole or a half sentence
    FrameCount,  \* whole audio frames of a spoken rung
    Tail         \* whether its audio ends in a partial frame

ASSUME LadderAssumption ==
    /\ MaxTurns \in Nat /\ MaxRungs \in Nat /\ MaxReplies \in Nat
    /\ FrameCount \in Nat \ {0} /\ Tail \in BOOLEAN
    /\ IsFiniteSet(Slots)
    /\ Endings \subseteq {"session.end", "gone", "provider_audio_failed"}
    /\ Says \subseteq {"nothing", "complete", "half"}
    /\ After \in [1 .. 3 -> Nat \ {0}]
    /\ After[1] <= After[2] /\ After[2] <= After[3]

VARIABLES
    turn,      \* the turn machine
    det,       \* the silence detector
    aiTurn,    \* rescueTurnID, the turn a rung is named after
    log,       \* the rescue log
    speech,    \* rescueSpeechGen and rescueSpeechTurn
    inFlight,  \* rescueInFlight, the poller's busy flag
    rung,      \* the rung goroutines
    reader,    \* the read loop
    collect,   \* the collect goroutine
    seq,       \* the numbers of audio frames and of streams handed out
    wire,      \* what the client received
    client     \* what the client did, and what the session reported

vars == <<turn, det, aiTurn, log, speech, inFlight, rung, reader, collect,
          seq, wire, client>>

-----------------------------------------------------------------------------
Levels == 1 .. 3
NoTurn == 0
Turns == 1 .. MaxTurns           \* the client numbers its utterances
SessionName == MaxTurns + 1      \* the session id, the name of last resort
BootstrapTurn == MaxTurns + 2    \* the turn the provider opens a session with
Names == NoTurn .. BootstrapTurn

\* The name a frame of the reply to utterance n carries: the client's, an earlier one
\* still in place where the client sent none, or the session's where none was ever
\* sent or client.turn.abort has cleared it.
canonicalTurnID(n) == {SessionName} \cup 1 .. n

TurnStates == {"idle", "listening", "finalizing", "speaking", "closed"}

\* The whitelist; an event that has no entry changes nothing.
turnTransitions ==
    [idle       |-> [start |-> "listening", end |-> "finalizing"],
     listening  |-> [start |-> "listening", end |-> "finalizing", abort |-> "closed"],
     finalizing |-> [start |-> "listening", abort |-> "closed",
                     output |-> "speaking", aiEnd |-> "closed"],
     speaking   |-> [start |-> "listening", aiEnd |-> "closed"],
     closed     |-> [start |-> "listening"]]

Allowed(ev) == ev \in DOMAIN turnTransitions[turn.state]
After_(ev) == IF Allowed(ev) THEN turnTransitions[turn.state][ev] ELSE turn.state

Apply(ev) == turn' = [turn EXCEPT !.state = After_(ev)]

ApplySpeechEnd == Apply("end")

\* Output of a turn that already speaks is more of the same utterance.
NoteFirstOutput == Apply("output")

\* Whether the AI took the floor in the turn this marker closes.
Spoke == turn.state = "speaking"
NoteAIEnd == Apply("aiEnd")

-----------------------------------------------------------------------------
(* SilenceDetector: one window, from the AI's last word to the user's.     *)

Detector == [open : BOOLEAN, age : 0 .. After[3], speaking : BOOLEAN,
             level : 0 .. 3, hold : 0 .. After[1]]

NoWindow == [open |-> FALSE, age |-> 0, speaking |-> FALSE, level |-> 0, hold |-> 0]

OnAISpeechEnd == det' = [NoWindow EXCEPT !.open = TRUE]

\* A new attempt gets a fresh ladder, but the window stays where it is.
OnUserSpeechStart == det' = [det EXCEPT !.speaking = TRUE, !.level = 0, !.hold = 0]

OnUserSpeechEnd(complete) ==
    det' = IF complete THEN NoWindow ELSE [det EXCEPT !.speaking = FALSE]

HasFloor == det.open /\ ~det.speaking
Due == {l \in Levels : HasFloor /\ det.hold = 0 /\ det.level < l /\ det.age >= After[l]}

\* The lowest rung that is due, never the highest.
CheckSilence == det' = [det EXCEPT !.level = Min(Due)]

RequestedLevel == Min({det.level + 1, 3})

RequestNext == det' = [det EXCEPT !.level = RequestedLevel, !.hold = After[1]]

-----------------------------------------------------------------------------
(* rescueLog *)

Episode == [seq : 1 .. MaxRungs, turn : Names, path : {"silent", "incomplete"},
            level : Levels, opened : BOOLEAN]
NoEpisode == [seq |-> 0]

Episodes(l) == l.sealed \cup ({l.open} \ {NoEpisode})

Sealed(l) == [l EXCEPT !.sealed = Episodes(l), !.open = NoEpisode]

noteIncompleteUtterance == log' = [log EXCEPT !.pending = TRUE]

noteLadder(name, level) ==
    log' = IF log.open = NoEpisode
           THEN [log EXCEPT !.open = [seq |-> Cardinality(log.sealed) + 1, turn |-> name,
                                      path |-> IF log.pending THEN "incomplete" ELSE "silent",
                                      level |-> level, opened |-> log.pending],
                            !.pending = FALSE]
           ELSE [log EXCEPT !.open.level = Max({@, level})]

noteUserText ==
    log' = IF log.open = NoEpisode THEN log ELSE [log EXCEPT !.open.opened = TRUE]

closeEpisode == log' = [Sealed(log) EXCEPT !.pending = FALSE]

-----------------------------------------------------------------------------
(* The goroutines *)

RungPCs == {"idle", "gen", "deliver", "note", "synth", "start", "live",
            "pace", "check", "flush", "end", "finish"}
Rung == [pc : RungPCs, level : 0 .. 3, auto : BOOLEAN, turn : Names,
         token : Nat, ref : 0 .. MaxRungs, first : Nat, left : 0 .. FrameCount]
IdleRung == [pc |-> "idle", level |-> 0, auto |-> FALSE, turn |-> NoTurn,
             token |-> 0, ref |-> 0, first |-> 0, left |-> 0]

Reader == [pc : {"opening", "idle", "start", "end", "stop", "interrupt", "note", "abort",
                 "ending", "closing", "closed"},
           said : {"nothing", "complete", "half"}, name : Names, ref : 0 .. MaxRungs]
IdleReader == [pc |-> "idle", said |-> "nothing", name |-> NoTurn, ref |-> 0]

Marks == {"tts", "turn"}
Collect == [pc : {"idle", "wait", "write", "mark", "close", "open", "answer", "text"},
            name : Names, frames : 0 .. MaxReplies, number : Nat,
            mark : Marks, failed : BOOLEAN, said : BOOLEAN]
IdleCollect == [pc |-> "idle", name |-> NoTurn, frames |-> 0, number |-> 0,
                mark |-> "tts", failed |-> FALSE, said |-> FALSE]

Stream == [started : BOOLEAN, ends : 0 .. 2, late : 0 .. FrameCount + 1]

TypeOK ==
    /\ turn \in [state : TurnStates]
    /\ det \in Detector
    /\ aiTurn \in Names
    /\ log.open \in Episode \cup {NoEpisode} /\ log.sealed \subseteq Episode
    /\ log.pending \in BOOLEAN
    /\ speech \in [gen : Nat, turn : Names, ref : 0 .. MaxRungs]
    /\ inFlight \in BOOLEAN
    /\ rung \in [Slots -> Rung]
    /\ reader \in Reader
    /\ collect \in Collect
    /\ seq \in [audio : Nat, ref : 0 .. MaxRungs]
    /\ wire.last \in Nat /\ wire.stream \in [1 .. MaxRungs -> Stream]
    /\ wire.rungs \subseteq Names \X Levels
    /\ client \in [ended : 0 .. MaxTurns, owed : SUBSET Turns, rungs : 0 .. MaxRungs,
                   up : BOOLEAN,
                   reported : BOOLEAN, report : SUBSET Episode]

Init ==
    /\ turn = [state |-> "idle"]
    /\ det = NoWindow
    /\ aiTurn = NoTurn
    /\ log = [open |-> NoEpisode, pending |-> FALSE, sealed |-> {}]
    /\ speech = [gen |-> 0, turn |-> NoTurn, ref |-> 0]
    /\ inFlight = FALSE
    /\ rung = [s \in Slots |-> IdleRung]
    /\ reader = [IdleReader EXCEPT !.pc = "opening"]
    /\ collect = IdleCollect
    /\ seq = [audio |-> 0, ref |-> 0]
    /\ wire = [last |-> 0, rungs |-> {},
               stream |-> [r \in 1 .. MaxRungs |-> [started |-> FALSE, ends |-> 0, late |-> 0]]]
    /\ client = [ended |-> 0, owed |-> {}, rungs |-> 0, up |-> TRUE,
                 reported |-> FALSE, report |-> {}]

-----------------------------------------------------------------------------
(* The read loop: one handler per frame of the client. *)

Goto(pc) == reader' = [reader EXCEPT !.pc = pc]
Ready == reader.pc = "idle"
others == <<aiTurn, rung, collect, seq>>

\* noteAITurnEnd: the three objects it touches have a lock each.
SessionStart ==
    /\ reader.pc = "opening"
    /\ NoteAIEnd
    /\ IF Spoke THEN OnAISpeechEnd /\ aiTurn' = BootstrapTurn ELSE UNCHANGED <<det, aiTurn>>
    /\ Goto("idle")
    /\ UNCHANGED <<log, speech, inFlight, rung, collect, seq, wire, client>>

UserSpeechStart ==
    /\ Ready
    /\ client.ended < MaxTurns
    /\ Apply("start")
    /\ Goto("start")
    /\ UNCHANGED <<others, det, log, speech, inFlight, wire, client>>

UserSpeechStartHeard ==
    /\ reader.pc = "start"
    /\ OnUserSpeechStart
    /\ Goto("idle")
    /\ UNCHANGED <<others, turn, log, speech, inFlight, wire, client>>

\* An utterance the gateway cannot judge counts as complete.
UserSpeechEnd(said) ==
    /\ Ready
    /\ client.ended < MaxTurns
    /\ LET name == client.ended + 1 IN
         /\ ApplySpeechEnd
         /\ reader' = [pc |-> "end", said |-> said, name |-> name, ref |-> 0]
         /\ client' = [client EXCEPT !.ended = name, !.owed = @ \cup {name}]
    /\ UNCHANGED <<others, det, log, speech, inFlight, wire>>

UserSpeechEndHeard ==
    /\ reader.pc = "end"
    /\ OnUserSpeechEnd(reader.said # "half")
    /\ Goto("stop")
    /\ UNCHANGED <<others, turn, log, speech, inFlight, wire, client>>

\* The new generation cancels the token the rung's goroutine holds.
stopRescueSpeech ==
    /\ reader.pc = "stop"
    /\ IF speech.turn = NoTurn
       THEN /\ Goto("note")
            /\ UNCHANGED speech
       ELSE /\ speech' = [gen |-> speech.gen + 1, turn |-> NoTurn, ref |-> 0]
            /\ reader' = [reader EXCEPT !.pc = "interrupt", !.ref = speech.ref]
    /\ UNCHANGED <<others, turn, det, log, inFlight, wire, client>>

SendEnd(ref) == wire' = [wire EXCEPT !.stream[ref].ends = Min({@ + 1, 2})]

StopSends ==
    /\ reader.pc = "interrupt"
    /\ IF client.up THEN SendEnd(reader.ref) ELSE UNCHANGED wire
    /\ Goto("note")
    /\ UNCHANGED <<others, turn, det, log, speech, inFlight, client>>

\* startCollectTurn: an end that finds a reply still being collected is ignored.
StartCollectTurn ==
    /\ reader.pc = "note"
    /\ IF reader.said = "half" THEN noteIncompleteUtterance ELSE UNCHANGED log
    /\ collect' = IF collect.pc # "idle" THEN collect
                  ELSE [IdleCollect EXCEPT !.pc = "wait", !.name = reader.name,
                                           !.said = reader.said # "nothing"]
    /\ reader' = IdleReader
    /\ UNCHANGED <<turn, det, aiTurn, speech, inFlight, rung, seq, wire, client>>

ClientTurnAbort ==
    /\ Ready
    /\ Apply("abort")
    /\ Goto("abort")
    /\ UNCHANGED <<others, det, log, speech, inFlight, wire, client>>

ClientTurnAbortHeard ==
    /\ reader.pc = "abort"
    /\ OnUserSpeechEnd(FALSE)
    /\ Goto("idle")
    /\ UNCHANGED <<others, turn, log, speech, inFlight, wire, client>>

-----------------------------------------------------------------------------
(* The poller and the client's request start a rung. *)

FreeSlot(s) == rung[s].pc = "idle" /\ client.rungs < MaxRungs
Launch(s, level, auto) ==
    rung' = [rung EXCEPT ![s] = [IdleRung EXCEPT !.pc = "gen", !.level = level, !.auto = auto]]

\* The busy flag is read before the detector, which consumes the rung it returns.
PollDue == ~inFlight /\ Due # {} /\ reader.pc \notin {"closing", "closed"}

checkRescue(s) ==
    /\ PollDue
    /\ FreeSlot(s)
    /\ CheckSilence
    /\ inFlight' = TRUE
    /\ Launch(s, Min(Due), TRUE)
    /\ client' = [client EXCEPT !.rungs = @ + 1]
    /\ UNCHANGED <<turn, aiTurn, log, speech, reader, collect, seq, wire>>

requestRescue(s) ==
    /\ Ready
    /\ HasFloor
    /\ FreeSlot(s)
    /\ RequestNext
    /\ Launch(s, RequestedLevel, FALSE)
    /\ client' = [client EXCEPT !.rungs = @ + 1]
    /\ UNCHANGED <<turn, aiTurn, log, speech, inFlight, reader, collect, seq, wire>>

-----------------------------------------------------------------------------
(* emitRescue: one rung, from its text to the end of its audio. *)

RGoto(s, pc) == rung' = [rung EXCEPT ![s].pc = pc]
Current(s) == speech.gen = rung[s].token

\* Mutant: only the request's rung releases the busy flag.
RDoneKeepsFlag(s) ==
    /\ rung' = [rung EXCEPT ![s] = IdleRung]
    /\ UNCHANGED inFlight

\* The goroutine returns; the poller's rung releases the busy flag.
RDone(s) ==
    /\ rung' = [rung EXCEPT ![s] = IdleRung]
    /\ inFlight' = (inFlight /\ ~rung[s].auto)

rescueSnapshot(s) ==
    /\ rung[s].pc = "gen"
    /\ rung' = [rung EXCEPT ![s].pc = "deliver",
                            ![s].turn = IF aiTurn = NoTurn THEN SessionName ELSE aiTurn]
    /\ UNCHANGED <<turn, det, aiTurn, log, speech, inFlight, reader, collect, seq, wire, client>>

\* Mutant: a rung whose text could not be written is recorded all the same.
DeliverTextUnchecked(s) ==
    /\ rung[s].pc = "deliver"
    /\ wire' = IF client.up
               THEN [wire EXCEPT !.rungs = @ \cup {<<rung[s].turn, rung[s].level>>}]
               ELSE wire
    /\ RGoto(s, "note")
    /\ UNCHANGED <<turn, det, aiTurn, log, speech, inFlight, reader, collect, seq, client>>

\* The text is generated or taken from the fallback library, and sent first.
DeliverText(s) ==
    /\ rung[s].pc = "deliver"
    /\ IF client.up
       THEN /\ wire' = [wire EXCEPT !.rungs = @ \cup {<<rung[s].turn, rung[s].level>>}]
            /\ RGoto(s, "note")
            /\ UNCHANGED inFlight
       ELSE RDone(s) /\ UNCHANGED wire
    /\ UNCHANGED <<turn, det, aiTurn, log, speech, reader, collect, seq, client>>

NoteLadder(s) ==
    /\ rung[s].pc = "note"
    /\ noteLadder(rung[s].turn, rung[s].level)
    /\ RGoto(s, "synth")
    /\ UNCHANGED <<turn, det, aiTurn, speech, inFlight, reader, collect, seq, wire, client>>

\* Mutant: the rung reuses the generation it finds.
beginRescueSpeechSameToken(s, spoken) ==
    /\ rung[s].pc = "synth"
    /\ seq' = [seq EXCEPT !.ref = @ + 1]
    /\ speech' = [speech EXCEPT !.turn = rung[s].turn, !.ref = seq.ref + 1]
    /\ IF spoken
       THEN /\ rung' = [rung EXCEPT ![s].pc = "start", ![s].token = speech.gen,
                                    ![s].ref = seq.ref + 1]
            /\ UNCHANGED inFlight
       ELSE RDone(s)
    /\ UNCHANGED <<turn, det, aiTurn, log, reader, collect, wire, client>>

\* A rung that could not be synthesized takes the stream like one that could.
beginRescueSpeech(s, spoken) ==
    /\ rung[s].pc = "synth"
    /\ seq' = [seq EXCEPT !.ref = @ + 1]
    /\ speech' = [gen |-> speech.gen + 1, turn |-> rung[s].turn, ref |-> seq.ref + 1]
    /\ IF spoken
       THEN /\ rung' = [rung EXCEPT ![s].pc = "start", ![s].token = speech.gen + 1,
                                    ![s].ref = seq.ref + 1]
            /\ UNCHANGED inFlight
       ELSE RDone(s)
    /\ UNCHANGED <<turn, det, aiTurn, log, reader, collect, wire, client>>

\* The framer draws a number for every whole frame of the rung at once.
Framed == seq' = [seq EXCEPT !.audio = @ + FrameCount]

\* The start frame; then the frames are numbered before the first of them is sent.
beginUtterance(s) ==
    /\ rung[s].pc = "start"
    /\ IF client.up
       THEN /\ wire' = [wire EXCEPT !.stream[rung[s].ref].started = TRUE]
            /\ Framed
            /\ rung' = [rung EXCEPT ![s].pc = "live", ![s].first = seq.audio + 1,
                                    ![s].left = FrameCount]
            /\ UNCHANGED inFlight
       ELSE RDone(s) /\ UNCHANGED <<wire, seq>>
    /\ UNCHANGED <<turn, det, aiTurn, log, speech, reader, collect, client>>

\* Mutant: liveness is asked once per rung, not once per frame.
CheckLiveOnce(s) ==
    /\ rung[s].pc = "live"
    /\ RGoto(s, IF rung[s].left > 0 /\ (Current(s) \/ rung[s].left < FrameCount)
                THEN "pace" ELSE "check")
    /\ UNCHANGED <<turn, det, aiTurn, log, speech, inFlight, reader, collect, seq, wire, client>>

\* Audio: the frames it is still owed are owed to nobody once the rung is stopped.
CheckLive(s) ==
    /\ rung[s].pc = "live"
    /\ RGoto(s, IF Current(s) /\ rung[s].left > 0 THEN "pace" ELSE "check")
    /\ UNCHANGED <<turn, det, aiTurn, log, speech, inFlight, reader, collect, seq, wire, client>>

WriteAudio(ref, number) ==
    wire' = [wire EXCEPT !.last = number,
                         !.stream[ref].late = IF wire.stream[ref].ends > 0 THEN @ + 1 ELSE @]

\* The writer sleeps for the length of a frame between the check and the send.
SendFrame(s) ==
    /\ rung[s].pc = "pace"
    /\ IF client.up
       THEN /\ WriteAudio(rung[s].ref, rung[s].first)
            /\ rung' = [rung EXCEPT ![s].pc = "live", ![s].first = @ + 1, ![s].left = @ - 1]
            /\ UNCHANGED inFlight
       ELSE RDone(s) /\ UNCHANGED wire
    /\ UNCHANGED <<turn, det, aiTurn, log, speech, reader, collect, seq, client>>

rescueSpeechCurrent(s) ==
    /\ rung[s].pc = "check"
    /\ IF Current(s) THEN RGoto(s, "flush") /\ UNCHANGED inFlight ELSE RDone(s)
    /\ UNCHANGED <<turn, det, aiTurn, log, speech, reader, collect, seq, wire, client>>

\* finish: the partial tail, numbered now, and the end of the stream.
FlushTail(s) ==
    /\ rung[s].pc = "flush"
    /\ IF Tail /\ client.up
       THEN /\ seq' = [seq EXCEPT !.audio = @ + 1]
            /\ WriteAudio(rung[s].ref, seq.audio + 1)
       ELSE UNCHANGED <<seq, wire>>
    /\ RGoto(s, "end")
    /\ UNCHANGED <<turn, det, aiTurn, log, speech, inFlight, reader, collect, client>>

EndUtterance(s) ==
    /\ rung[s].pc = "end"
    /\ IF client.up
       THEN SendEnd(rung[s].ref) /\ RGoto(s, "finish") /\ UNCHANGED inFlight
       ELSE RDone(s) /\ UNCHANGED wire
    /\ UNCHANGED <<turn, det, aiTurn, log, speech, reader, collect, seq, client>>

finishRescueSpeech(s) ==
    /\ rung[s].pc = "finish"
    /\ speech' = IF Current(s) THEN [speech EXCEPT !.turn = NoTurn, !.ref = 0] ELSE speech
    /\ RDone(s)
    /\ UNCHANGED <<turn, det, aiTurn, log, reader, collect, seq, wire, client>>

RungStep(s) ==
    \/ rescueSnapshot(s) \/ DeliverText(s) \/ NoteLadder(s)
    \/ \E spoken \in BOOLEAN : beginRescueSpeech(s, spoken)
    \/ beginUtterance(s) \/ CheckLive(s) \/ SendFrame(s)
    \/ rescueSpeechCurrent(s)
    \/ FlushTail(s) \/ EndUtterance(s) \/ finishRescueSpeech(s)

-----------------------------------------------------------------------------
(* The collect goroutine relays the reply: sendOutbound folds every frame  *)
(* into the turn machine and the rescue state before it writes it.         *)

CGoto(pc) == collect' = [collect EXCEPT !.pc = pc]
Waiting == collect.pc = "wait"

AITextDelta ==
    /\ Waiting
    /\ NoteFirstOutput
    /\ aiTurn' \in canonicalTurnID(collect.name)
    /\ UNCHANGED <<det, log, speech, inFlight, rung, reader, collect, seq, wire, client>>

AIAudio ==
    /\ Waiting
    /\ collect.frames < MaxReplies
    /\ NoteFirstOutput
    /\ seq' = [seq EXCEPT !.audio = @ + 1]
    /\ collect' = [collect EXCEPT !.pc = "write", !.frames = @ + 1, !.number = seq.audio + 1]
    /\ UNCHANGED <<det, aiTurn, log, speech, inFlight, rung, reader, wire, client>>

AIAudioWrite ==
    /\ collect.pc = "write"
    /\ wire' = IF client.up THEN [wire EXCEPT !.last = collect.number] ELSE wire
    /\ CGoto("wait")
    /\ UNCHANGED <<turn, det, aiTurn, log, speech, inFlight, rung, reader, seq, client>>

\* The provider closes a reply with ai.tts.end and ai.turn.end, or with the
\* latter alone; failed stands for the outcomes timeout and error.
ReplyEnds(mark, failed) ==
    /\ Waiting
    /\ collect' = [collect EXCEPT !.pc = "mark", !.mark = mark, !.failed = failed]
    /\ UNCHANGED <<turn, det, aiTurn, log, speech, inFlight, rung, reader, seq, wire, client>>

NextMark == [collect EXCEPT !.pc = IF collect.mark = "tts" THEN "mark" ELSE "answer",
                            !.mark = "turn"]

\* ai.tts.end carries no outcome, and no outcome counts as having spoken.
turnOutcomeSpoke == collect.mark = "tts" \/ ~collect.failed

AIEndMark ==
    /\ collect.pc = "mark"
    /\ NoteAIEnd
    /\ IF Spoke /\ turnOutcomeSpoke
       THEN aiTurn' \in canonicalTurnID(collect.name) /\ CGoto("close")
       ELSE collect' = NextMark /\ UNCHANGED aiTurn
    /\ UNCHANGED <<det, log, speech, inFlight, rung, reader, seq, wire, client>>

NoteClose ==
    /\ collect.pc = "close"
    /\ closeEpisode
    /\ CGoto("open")
    /\ UNCHANGED <<turn, det, aiTurn, speech, inFlight, rung, reader, seq, wire, client>>

NoteOpen ==
    /\ collect.pc = "open"
    /\ OnAISpeechEnd
    /\ collect' = NextMark
    /\ UNCHANGED <<turn, aiTurn, log, speech, inFlight, rung, reader, seq, wire, client>>

Answered == client' = [client EXCEPT !.owed = @ \ {collect.name}]

AnswerWritten ==
    /\ collect.pc = "answer"
    /\ IF client.up THEN Answered /\ CGoto("text")
       ELSE collect' = IdleCollect /\ UNCHANGED client
    /\ UNCHANGED <<turn, det, aiTurn, log, speech, inFlight, rung, reader, seq, wire>>

\* The client's text, or the provider's transcript when the client sent none.
NoteUserText(heard) ==
    /\ collect.pc = "text"
    /\ collect.said => heard
    /\ IF heard THEN noteUserText ELSE UNCHANGED log
    /\ collect' = IdleCollect
    /\ UNCHANGED <<turn, det, aiTurn, speech, inFlight, rung, reader, seq, wire, client>>

\* The provider refused the frame: the client gets an error frame instead.
CollectFails ==
    /\ Waiting
    /\ Answered
    /\ collect' = IdleCollect
    /\ UNCHANGED <<turn, det, aiTurn, log, speech, inFlight, rung, reader, seq, wire>>

CollectStep ==
    \/ AITextDelta \/ AIAudio \/ AIAudioWrite
    \/ \E mark \in Marks, failed \in BOOLEAN : ReplyEnds(mark, failed)
    \/ AIEndMark \/ NoteClose \/ NoteOpen \/ AnswerWritten \/ CollectFails
    \/ \E heard \in BOOLEAN : NoteUserText(heard)

-----------------------------------------------------------------------------
(* The end of the session *)

Report == [client EXCEPT !.reported = TRUE, !.report = Episodes(log)]

SessionEnd ==
    /\ Ready
    /\ "session.end" \in Endings
    /\ Goto("ending")
    /\ UNCHANGED <<others, turn, det, log, speech, inFlight, wire, client>>

\* controlSessionEnd waits for the collect goroutine, not for the rungs.
PersistSession(ok) ==
    /\ reader.pc = "ending"
    /\ collect.pc = "idle"
    /\ log' = Sealed(log)
    /\ IF ok THEN /\ client' = [Report EXCEPT !.up = FALSE]
                  /\ Goto("closing")
       ELSE Goto("idle") /\ UNCHANGED client
    /\ UNCHANGED <<others, turn, det, speech, inFlight, wire>>

ClientGone ==
    /\ client.up
    /\ "gone" \in Endings
    /\ client' = [client EXCEPT !.up = FALSE]
    /\ UNCHANGED <<others, turn, det, log, speech, inFlight, reader, wire>>

\* The read fails, or the provider refuses the learner's audio: then the socket is up
\* still, an error frame is sent and the loop returns.
LoopExits ==
    /\ Ready
    /\ ~client.up \/ "provider_audio_failed" \in Endings
    /\ Goto("closing")
    /\ UNCHANGED <<others, turn, det, log, speech, inFlight, wire, client>>

\* Mutant: the exit does not wait for the rungs.
persistOnExitEarly(ok) ==
    /\ reader.pc = "closing"
    /\ collect.pc = "idle"
    /\ IF client.reported THEN UNCHANGED <<log, client>>
       ELSE log' = Sealed(log) /\ client' = IF ok THEN Report ELSE client
    /\ Goto("closed")
    /\ UNCHANGED <<others, turn, det, speech, inFlight, wire>>

\* close waits for every goroutine; then what session.end did not write is written.
persistOnExit(ok) ==
    /\ reader.pc = "closing"
    /\ collect.pc = "idle" /\ \A s \in Slots : rung[s].pc = "idle"
    /\ IF client.reported THEN UNCHANGED <<log, client>>
       ELSE log' = Sealed(log) /\ client' = IF ok THEN Report ELSE client
    /\ Goto("closed")
    /\ UNCHANGED <<others, turn, det, speech, inFlight, wire>>

-----------------------------------------------------------------------------
\* The poller looks six times in a rung spacing: a rung that is due is taken first.
Tick ==
    /\ ~ (PollDue /\ \E s \in Slots : FreeSlot(s))
    /\ det' = [det EXCEPT !.age = IF det.open THEN Min({@ + 1, After[3]}) ELSE @,
                          !.hold = IF @ = 0 THEN 0 ELSE @ - 1]
    /\ UNCHANGED <<turn, aiTurn, log, speech, inFlight, rung, reader, collect, seq, wire,
                   client>>

Handling ==
    \/ SessionStart \/ UserSpeechStartHeard \/ UserSpeechEndHeard
    \/ stopRescueSpeech \/ StopSends \/ StartCollectTurn \/ ClientTurnAbortHeard
    \/ \E ok \in BOOLEAN : PersistSession(ok) \/ persistOnExit(ok)

Next ==
    \/ Handling
    \/ UserSpeechStart \/ ClientTurnAbort \/ SessionEnd \/ ClientGone \/ LoopExits
    \/ \E said \in Says : UserSpeechEnd(said)
    \/ \E s \in Slots : checkRescue(s) \/ requestRescue(s) \/ RungStep(s)
    \/ CollectStep
    \/ Tick

Spec == Init /\ [][Next]_vars

\* Goroutines run, every write and every wait for the provider has a deadline,
\* and time passes.  A lost connection holds finitely many unread frames, so the
\* read that fails is reached.  The client owes nothing.
FairSpec ==
    /\ Spec
    /\ SF_vars(~client.up /\ LoopExits)
    /\ WF_vars(Handling) /\ WF_vars(CollectStep) /\ WF_vars(Tick)
    /\ WF_vars(\E s \in Slots : checkRescue(s))
    /\ \A s \in Slots : WF_vars(RungStep(s))

-----------------------------------------------------------------------------
(* What holds *)

Speaking(s) == rung[s].pc \in {"start", "live", "pace", "check", "flush",
                               "end", "finish"}

(* beginRescueSpeech hands every rung a token of its own: of the rungs     *)
(* whose goroutines are still writing audio at most one is current, even   *)
(* when a request starts a rung while the poller's is being spoken.        *)
OneLiveRung ==
    \A s, t \in Slots : Speaking(s) /\ Speaking(t) /\ Current(s) /\ Current(t) => s = t

(* The writer asks before every frame whether its rung is still current    *)
(* (streamWriter.Audio), so a stopped rung talks over the learner for one  *)
(* frame at most: the one it was already pacing, or its tail.              *)
TalkOverBounded == \A r \in 1 .. MaxRungs : wire.stream[r].late <= 1

(* "Only a delivered rung counts": every stuck point the session reports   *)
(* has a level the learner was shown, for a turn they were prompted in,    *)
(* whatever the rungs' writes, the turn ends and the snapshot do in        *)
(* between (emitRescue, rescueLog).                                        *)
ReportedWasDelivered ==
    \A e \in client.report :
        /\ \E n \in Names : <<n, e.level>> \in wire.rungs
        /\ \E l \in Levels : <<e.turn, l>> \in wire.rungs

(* persistOnExit runs after close has waited for the rungs: a session that *)
(* ends without session.end reports every level the learner was shown.     *)
ExitReportComplete ==
    [][reader.pc = "closing" /\ client'.reported # client.reported
         => \A d \in wire.rungs : \E e \in client'.report : e.level >= d[2]]_vars

(* A window opens only after the AI took the floor in a turn, and that     *)
(* turn is named first (noteAITurnEnd): while a rung runs a reply to one   *)
(* of the client's utterances has been named, so that the frame which      *)
(* announces the session arms no ladder, and rescueSnapshot never has to   *)
(* fall back on the session's id itself.                                   *)
RungFollowsReply ==
    \A s \in Slots : rung[s].pc # "idle" => aiTurn \notin {NoTurn, BootstrapTurn}

(* rescueLog counts the stuck points it opens and lists the ones it seals; *)
(* the model has a set of them and takes the next number from its size.    *)
(* The two agree: the points of a session, and those of a report, are      *)
(* numbered from one, each with a number of its own and none left out, and *)
(* there are no more of them than rungs were started.                      *)
Numbered(E) ==
    /\ \A e \in E : e.seq \in 1 .. Cardinality(E)
    /\ \A e, f \in E : e.seq = f.seq => e = f
PointsNumbered ==
    /\ Numbered(Episodes(log)) /\ Numbered(client.report)
    /\ Cardinality(Episodes(log)) <= client.rungs

(* A silent user gets the whole ladder: while they have the floor and say  *)
(* nothing the rungs climb to the complete example, however slowly the     *)
(* rungs before it were generated and spoken (checkRescue).                *)
SilentUserClimbs ==
    HasFloor /\ Ready ~> det.level = 3 \/ ~HasFloor \/ client.rungs = MaxRungs
                          \/ reader.pc \in {"closing", "closed"}

(* An utterance whose collect goroutine was started is answered, by the    *)
(* end of a reply or by an error frame, unless the client has gone         *)
(* (startCollectTurn).                                                     *)
AcceptedTurnAnswered ==
    \A n \in Turns : collect.pc # "idle" /\ collect.name = n
                     ~> n \notin client.owed \/ ~client.up

(* A lost connection is torn down: the loop's exit waits for the collect   *)
(* goroutine and for every rung, and all of them return (close).           *)
SessionCloses == ~client.up ~> reader.pc = "closed"

-----------------------------------------------------------------------------
(* What comments of the code promise and the code does not keep: TLC       *)
(* refutes each of these.                                                  *)

(* noteAITurnEnd: a turn that ended in timeout or error opens no window.   *)
FailedTurnArmsNothing == collect.pc = "open" => ~collect.failed

(* CheckSilence: the poller never sees two rungs issued back to back, so   *)
(* no rung is taken while the next is due already.                         *)
RungsSpaced == [][~inFlight /\ inFlight' => Due' = {}]_vars

(* stopRescueSpeech: "a no-op when nothing is being spoken".               *)
NoStrayEnd == \A r \in 1 .. MaxRungs : wire.stream[r].ends > 0 => wire.stream[r].started

(* stopRescueSpeech, streamWriter: a stream gets exactly one end.          *)
OneEnd == \A r \in 1 .. MaxRungs : wire.stream[r].ends <= 1

(* SeqAllocator: the numbering of the audio frames is monotonic for as     *)
(* long as the socket is open.                                             *)
MonotoneAudio == [][wire'.last >= wire.last]_vars

(* beginRescueSpeech: the stop also cancels a pending start, so no rung    *)
(* starts to speak once the user's complete utterance has been handled.    *)
SpokenOnlyInWindow ==
    [][\A r \in 1 .. MaxRungs :
         Ready /\ ~wire.stream[r].started /\ wire'.stream[r].started => det.open]_vars

(* SilenceDetector: userSpeaking suspends rescue while the user speaks, so *)
(* the poller takes no rung once user.speech.start has been handled.       *)
RescueSuspended ==
    [][~inFlight /\ inFlight' => ~ (Ready /\ turn.state = "listening")]_vars

(* rescueLog.closeEpisode: rungs cannot cross the boundary of an AI turn,  *)
(* so an episode that opens in the window of a reply that has just ended   *)
(* is named after that reply.                                              *)
EpisodeOfItsTurn ==
    [][(HasFloor /\ det.level = 0 /\ collect.pc = "answer")
         /\ (log.open = NoEpisode /\ log'.open # NoEpisode)
         => log'.open.turn = aiTurn]_vars
=============================================================================
