---------------------------- MODULE SpeechSynthesis -------------------------
(***************************************************************************)
(* POST /tts/synthesize: a text is spoken by the streaming vendor and,     *)
(* once that has failed often enough, by one duplex connection that every  *)
(* request shares under a lock.  The caller is the gateway's rescue        *)
(* ladder, whose budget may run out at any moment.                         *)
(***************************************************************************)
EXTENDS CostLedger, SequencesExt

CONSTANTS
    Speakers,               \* requests under way at the same time
    Sentences,              \* what they ask to be spoken
    VoiceIds,               \* the voice ids they name
    LookupVoice,            \* voice id -> speaker
    ServedSpeakers,         \* speakers of the resource the account has
    PiecesOf,               \* sentence -> number of pieces of audio
    VolcTTSMaxAttempts, FallbackTriggerLimit

ASSUME SpeechAssumption == None \notin Speakers /\ PiecesOf \in [Sentences -> Nat]

VARIABLES
    fails,       \* failures of the streaming vendor since it last answered
    fallbackOn,
    mu,          \* the request that holds the duplex connection
    duplex,      \* that connection: None, or whether it is up and the events not yet received
    say,         \* the requests under way
    played       \* audio the callers took for theirs: pairs of sentence and pieces

speechVars == <<fails, fallbackOn, mu, duplex, say, played>>

-----------------------------------------------------------------------------
Pieces(text) == [k \in 1 .. PiecesOf[text] |-> <<text, k>>]

IsAudio(event) == event[2] > 0

SpeechTypeOK ==
    /\ fails \in Nat /\ fallbackOn \in BOOLEAN
    /\ mu \in Speakers \union {None}
    /\ DOMAIN say = Speakers
    /\ \A p \in played : p[1] \in Sentences

SpeechInit ==
    /\ fails = 0 /\ fallbackOn = FALSE /\ mu = None /\ duplex = None
    /\ say = [s \in Speakers |-> None] /\ played = {}

-----------------------------------------------------------------------------
(* The end of a request *)

Unlock(s) == mu' = IF mu = s THEN None ELSE mu

\* Collect returns an error: no row, no audio.
SpeechFails(s) == say' = [say EXCEPT ![s] = None] /\ UNCHANGED <<played, ledger>>

\* The channel was closed: whatever arrived is the answer, and it is filed.  The caller plays it
\* when it is still there and there is any.
AnswerWith(s, pieces) ==
    /\ played' = IF say[s].gone \/ pieces = <<>> THEN played ELSE played \union {<<say[s].text, pieces>>}
    /\ Record(Log(None, "voice.tts", say[s].voice, 0, 0, PiecesOf[say[s].text], 0))
    /\ say' = [say EXCEPT ![s] = None]

SynthesizeGivesUp(s) ==
    /\ say[s] # None /\ ~say[s].gone
    /\ say' = [say EXCEPT ![s].gone = TRUE]
    /\ UNCHANGED <<clockVars, ledgerVars, fails, fallbackOn, mu, duplex, played>>

-----------------------------------------------------------------------------
(* Manager: the streaming vendor, or the fallback *)

PostSynthesize(s, text, id) ==
    /\ say[s] = None /\ Spend("speech")
    /\ say' = [say EXCEPT ![s] = [pc |-> IF fallbackOn THEN "lock" ELSE "post", text |-> text,
                                  voice |-> LookupVoice[id], attempt |-> 1, body |-> <<>>,
                                  chunks |-> <<>>, pending |-> <<>>, gone |-> FALSE]]
    /\ UNCHANGED <<ledgerVars, fails, fallbackOn, mu, duplex, played>>

Posting(s) == say[s] # None /\ say[s].pc = "post"
speakerMatchesResource(s) == say[s].voice \in ServedSpeakers

PostOK(s) ==
    /\ Posting(s) /\ speakerMatchesResource(s) /\ ~say[s].gone
    /\ fails' = 0
    /\ say' = [say EXCEPT ![s].pc = "stream", ![s].body = Append(Pieces(say[s].text), <<"done", 0>>)]
    /\ UNCHANGED <<clockVars, ledgerVars, fallbackOn, mu, duplex, played>>

\* A speaker of another resource is refused here, never by the fallback; a request whose context is
\* done fails, as does one the vendor answers with another status.  None of these counts.
PostRefused(s) ==
    /\ Posting(s)
    /\ IF speakerMatchesResource(s) /\ ~say[s].gone THEN Fault ELSE UNCHANGED clockVars
    /\ SpeechFails(s)
    /\ UNCHANGED <<ask, fails, fallbackOn, mu, duplex>>

\* HTTP 5xx: one more attempt, then a failure that counts; the request that reaches the limit goes on
\* with the fallback, and so does every later one.
Post5xx(s) ==
    /\ Posting(s) /\ speakerMatchesResource(s) /\ ~say[s].gone /\ Fault
    /\ IF say[s].attempt < VolcTTSMaxAttempts
       THEN say' = [say EXCEPT ![s].attempt = @ + 1] /\ UNCHANGED <<fails, fallbackOn, played, ledger>>
       ELSE /\ fails' = fails + 1
            /\ IF fails + 1 < FallbackTriggerLimit
               THEN SpeechFails(s) /\ UNCHANGED fallbackOn
               ELSE fallbackOn' = TRUE /\ say' = [say EXCEPT ![s].pc = "lock"] /\ UNCHANGED <<played, ledger>>
    /\ UNCHANGED <<ask, mu, duplex>>

-----------------------------------------------------------------------------
(* The duplex connection *)

\* External: the vendor's reply to a prompt ends twice.
Reply(text) == Pieces(text) \o <<<<"audio.done", 0>>, <<"done", 0>>>>

\* Stream under the lock, which is not released before the reply is read: the connection is opened
\* by the first, and never again; a prompt on a connection that is gone, or on a context that is
\* done, fails.
Prompt(s, holder) ==
    /\ say[s] # None /\ say[s].pc = "lock" /\ mu = None
    /\ IF say[s].gone \/ (duplex # None /\ ~duplex.up)
       THEN SpeechFails(s) /\ UNCHANGED <<mu, duplex>>
       ELSE /\ mu' = holder
            /\ duplex' = [up |-> TRUE,
                          events |-> (IF duplex = None THEN <<>> ELSE duplex.events) \o Reply(say[s].text)]
            /\ say' = [say EXCEPT ![s].pc = "read"]
            /\ UNCHANGED <<played, ledger>>
    /\ UNCHANGED <<clockVars, ask, fails, fallbackOn>>

\* Mutant: the lock is released once the prompt is sent.
StreamFallbackUnlocked(s) == Prompt(s, None)

StreamFallback(s) == Prompt(s, s)

OpenFails(s) ==
    /\ say[s] # None /\ say[s].pc = "lock" /\ mu = None /\ duplex = None /\ Fault
    /\ SpeechFails(s)
    /\ UNCHANGED <<ask, fails, fallbackOn, mu, duplex>>

\* External: the vendor closes the connection; events already read stay in the buffer.
DuplexDies ==
    /\ duplex # None /\ duplex.up /\ Fault
    /\ \E n \in 0 .. Len(duplex.events) : duplex' = [up |-> FALSE, events |-> SubSeq(duplex.events, 1, n)]
    /\ UNCHANGED <<ledgerVars, fails, fallbackOn, mu, say, played>>

-----------------------------------------------------------------------------
(* Reading a reply: the last piece is held back until the next event *)

Reading(s) == say[s] # None /\ say[s].pc \in {"stream", "read"}
Source(s) == IF say[s].pc = "stream" THEN say[s].body ELSE duplex.events
Take(s) ==
    IF say[s].pc = "stream"
    THEN say' = [say EXCEPT ![s].body = Tail(@), ![s].chunks = @ \o say[s].pending, ![s].pending = <<Head(Source(s))>>]
         /\ UNCHANGED duplex
    ELSE say' = [say EXCEPT ![s].chunks = @ \o say[s].pending, ![s].pending = <<Head(Source(s))>>]
         /\ duplex' = [duplex EXCEPT !.events = Tail(@)]

\* readStream and readDuplexAudio
ReceivePiece(s) ==
    /\ Reading(s) /\ ~say[s].gone /\ Source(s) # <<>> /\ IsAudio(Head(Source(s)))
    /\ Take(s)
    /\ UNCHANGED <<clockVars, ledgerVars, fails, fallbackOn, mu, played>>

Consumed(s) ==
    IF say[s].pc = "read" THEN duplex' = [duplex EXCEPT !.events = Tail(@)] ELSE UNCHANGED duplex

\* The first end of the reply ends the stream.
ReceiveEnd(s) ==
    /\ Reading(s) /\ ~say[s].gone /\ Source(s) # <<>> /\ ~IsAudio(Head(Source(s)))
    /\ Consumed(s)
    /\ AnswerWith(s, say[s].chunks \o say[s].pending)
    /\ Unlock(s)
    /\ UNCHANGED <<clockVars, ask, fails, fallbackOn>>

\* A body that breaks off, an error in place of audio, audio that does not decode, a connection that
\* is gone: what was passed on is the answer, with the piece held back when the stream ended in
\* io.EOF and without it after any other error.
StreamBreaks(s) ==
    /\ Reading(s) /\ ~say[s].gone
    /\ IF Source(s) = <<>> THEN ~duplex.up /\ UNCHANGED <<clockVars, duplex>> ELSE Fault /\ Consumed(s)
    /\ AnswerWith(s, say[s].chunks \o say[s].pending) \/ AnswerWith(s, say[s].chunks)
    /\ Unlock(s)
    /\ UNCHANGED <<ask, fails, fallbackOn>>

\* The context is done.  The reader may have had an event in hand: when it passes the piece it held
\* back on, Collect returns an error; when it does not, Collect returns what it has.
ReaderLeaves(s) ==
    /\ Reading(s) /\ say[s].gone
    /\ \/ AnswerWith(s, say[s].chunks) /\ UNCHANGED duplex
       \/ Source(s) # <<>> /\ Consumed(s) /\ AnswerWith(s, say[s].chunks)
       \/ Source(s) # <<>> /\ say[s].pending # <<>> /\ Consumed(s) /\ SpeechFails(s)
    /\ Unlock(s)
    /\ UNCHANGED <<clockVars, ask, fails, fallbackOn>>

-----------------------------------------------------------------------------
(* Properties *)

StretchOf(audio, text) == \E i, j \in 0 .. PiecesOf[text] : audio = SubSeq(Pieces(text), i + 1, j)

\* The audio a caller plays is an unbroken stretch of one sentence, in order and without gaps,
\* however the requests on the shared connection are cut short, fail or overlap.
OneSentencePerAnswer ==
    \A p \in played : \E text \in Sentences : StretchOf(p[2], text)

\* What volc_duplex_fallback.go says of Stream: it speaks the text and yields its audio.
AudioIsOfThisText ==
    \A p \in played : StretchOf(p[2], p[1])
=============================================================================
