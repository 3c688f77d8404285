--------------------------- MODULE DuplexProvider ---------------------------
(***************************************************************************)
(* The gateway's provider sessions over the vendor's duplex sessions       *)
(* (voicegateway/provider_volc_duplex.go): the accounting of the turn in   *)
(* flight, what is pushed to the client while the reply arrives, and what  *)
(* is sent and recorded when it is over.                                   *)
(***************************************************************************)
EXTENDS DuplexSession

CONSTANT MaxProviders   \* bound on the provider sessions opened

ASSUME ProviderAssumption == MaxProviders \in Nat \ {0}

VARIABLE prov           \* the provider sessions

Providers == 1 .. MaxProviders

\* A row of the transcript: an utterance's words, or the fragments of a reply.
Row == [speaker : {"user", "ai"}, turn : Utterances, text : Seq(Utterances),
        interrupted : BOOLEAN]

\* volcDuplexProviderSession.  framer is 0 when there is none, else one more than
\* the turn ref its frames carry; ref 0 is the nil turn ref of the old layout.
ProviderRecord ==
    [d : 0 .. MaxDuplex, uplink : BOOLEAN, muted : BOOLEAN,
     collecting : BOOLEAN, pending : BOOLEAN, interrupted : BOOLEAN, streamedASR : BOOLEAN,
     streamedText : BOOLEAN, streamedAudio : BOOLEAN, ttsStarted : BOOLEAN, ref : Nat,
     framer : Nat, delivered : Seq(Utterances), utterances : Seq(Row)]

NewProvider ==
    [d |-> 0, uplink |-> FALSE, muted |-> FALSE, collecting |-> FALSE,
     pending |-> FALSE, interrupted |-> FALSE, streamedASR |-> FALSE, streamedText |-> FALSE,
     streamedAudio |-> FALSE, ttsStarted |-> FALSE, ref |-> 0, framer |-> 0,
     delivered |-> <<>>, utterances |-> <<>>]

resetTurnStreamingState(r) ==
    [r EXCEPT !.streamedText = FALSE, !.streamedAudio = FALSE, !.streamedASR = FALSE,
              !.ttsStarted = FALSE, !.uplink = FALSE, !.delivered = <<>>,
              !.interrupted = FALSE, !.framer = 0, !.ref = 0, !.collecting = FALSE]

-----------------------------------------------------------------------------
(* Control frames and audio *)

\* Mutant: every start of speech resets the accounting.
SpeechStartResets(r) == resetTurnStreamingState(r)

\* A barge-in leaves the accounting of the reply that is still being collected.
SpeechStart(r) == IF r.collecting THEN r ELSE resetTurnStreamingState(r)

Interrupt(r) == [r EXCEPT !.interrupted = TRUE]

TurnAbort(r) == resetTurnStreamingState(r)

QueueSessionInstruction(r) == [r EXCEPT !.pending = TRUE]

\* HandleClientAudio: unmute if need be, count, probe after a long pause, append.
AudioAccepted(r) == Sendable(r.d)
AudioCounted(r) == [r EXCEPT !.muted = @ /\ ~Sendable(r.d),
                             !.uplink = @ \/ Sendable(r.d) \/ (r.d # 0 /\ ~r.muted)]
AudioForwarded(r, u) ==
    LET f == AppendPCMChunk(r.d, u)
    IN IF r.muted THEN CommitInputUnmute(f, r.d) ELSE f

-----------------------------------------------------------------------------
(* TurnSink: what is pushed while the turn is being collected *)

UserTranscript(r) == [r EXCEPT !.streamedASR = TRUE]

AssistantTextDelta(r, of) ==
    IF r.interrupted THEN r
    ELSE [r EXCEPT !.streamedText = TRUE, !.delivered = Append(@, of)]

\* AssistantAudio up to its unlock: whether this chunk opens the stream.
OpensStream(r) == ~r.streamedAudio /\ ~r.ttsStarted
AssistantAudio(r) == [r EXCEPT !.streamedAudio = TRUE, !.ttsStarted = @ \/ ~r.streamedAudio]

ttsStartFrame(r, ref) == [r EXCEPT !.ref = ref]

\* Cutting a chunk into frames leaves a partial frame in the framer.
frameAudio(r) == [r EXCEPT !.framer = IF @ = 0 THEN r.ref + 1 ELSE @]
FrameRef(r) == frameAudio(r).framer - 1

-----------------------------------------------------------------------------
(* turnToOutbound: the rows recorded and the frames that close the turn *)

UserRow(k, t) ==
    IF t.transcript = 0 THEN <<>>
    ELSE <<[speaker |-> "user", turn |-> k, text |-> <<t.transcript>>, interrupted |-> FALSE]>>

\* Mutant: what the vendor produced is recorded, heard or not.
SpokenAll(r, t) == t.text

\* What the user heard, not what the vendor produced.
Spoken(r, t) == IF r.interrupted THEN r.delivered ELSE t.text

AIRow(k, r, t) ==
    IF t.text = <<>> \/ (r.interrupted /\ Spoken(r, t) = <<>>) THEN <<>>
    ELSE <<[speaker |-> "ai", turn |-> k, text |-> Spoken(r, t),
            interrupted |-> r.interrupted]>>

\* The whole reply goes out at the end only when no fragment of it did.
SendsWhole(r, t) == t.text # <<>> /\ ~r.streamedText

OpensAtEnd(r, t) == ~r.interrupted /\ ~r.ttsStarted /\ (t.text # <<>> \/ t.audio > 0)

\* The frames: the text, the start of a stream that was not streamed, the rest of
\* its audio with the turn ref it carries, and the outcome both end markers report.
Closeout == [whole : BOOLEAN, start : BOOLEAN, audio : BOOLEAN, ref : Nat,
             outcome : {"ok", "partial", "timeout", "error"}]

turnToOutbound(r, t, ref) ==
    LET starts == OpensAtEnd(r, t)
        opened == IF starts THEN ttsStartFrame(r, ref) ELSE r
        flushes == ~r.interrupted /\ r.streamedAudio
        sends == ~r.interrupted /\ ~r.streamedAudio /\ t.audio > 0
    IN [whole |-> SendsWhole(r, t), start |-> starts, audio |-> flushes \/ sends,
        ref |-> IF flushes THEN FrameRef(opened) ELSE opened.ref, outcome |-> t.outcome]

TurnRecorded(r, t, k) ==
    resetTurnStreamingState(
        [r EXCEPT !.utterances = @ \o UserRow(k, t) \o AIRow(k, r, t)])

-----------------------------------------------------------------------------
(* resetDuplex: a new vendor session, then the old one is closed *)

ResetBegins(r) == [r EXCEPT !.muted = FALSE]

ResetSwaps(p, d) ==
    /\ prov' = [prov EXCEPT ![p].d = d]
    /\ dup' = CloseDuplex([dup EXCEPT ![d] = Opened], prov[p].d)
=============================================================================
