---------------------------- MODULE DuplexSession ----------------------------
(***************************************************************************)
(* The transport to the speech vendor (voiceduplex/volc_duplex.go): the    *)
(* duplex sessions, the one goroutine that reads a session's socket into   *)
(* its channel of events, and what collectTurn makes of the events of one  *)
(* turn.                                                                   *)
(*                                                                         *)
(* An utterance of the learner is a number, in the order of its            *)
(* user.speech.start.  An event carries the utterance the vendor produced  *)
(* it for; the code never sees that number, the properties do.  The frames *)
(* on the socket and the events in the channel are one queue.              *)
(***************************************************************************)
EXTENDS Naturals, Sequences

CONSTANTS
    MaxUtterances,  \* bound on the utterances of the session
    MaxDuplex,      \* bound on the vendor sessions opened
    EventsCap,      \* capacity of a session's channel of events
    ReplyOrder      \* the events of a reply, in the order the vendor sends them; "done"
                    \* (response.done) is the last one

ASSUME DuplexAssumption ==
    /\ MaxUtterances \in Nat /\ MaxDuplex \in Nat \ {0} /\ EventsCap \in Nat \ {0}
    /\ ReplyOrder \in Seq({"committed", "asr", "text", "revised", "audio", "done"})
    /\ ReplyOrder # <<>> /\ ReplyOrder[Len(ReplyOrder)] = "done"

VARIABLE dup   \* the vendor sessions

Utterances == 1 .. MaxUtterances
Duplexes == 1 .. MaxDuplex
Event == [kind : {"committed", "asr", "text", "revised", "audio", "done", "updated", "error"},
          of : 0 .. MaxUtterances]

\* conn is nil before the session is opened and after Close; up says whether
\* the socket still carries anything.  The vendor hears one utterance at a time
\* and owes the answers to what was committed.
DuplexRecord == [conn : {"none", "open", "closed"}, up : BOOLEAN, muted : BOOLEAN,
                 events : Seq(Event), hears : 0 .. MaxUtterances, live : BOOLEAN,
                 owes : Seq(Utterances), stage : 0 .. Len(ReplyOrder), asked : BOOLEAN]

NoDuplex == [conn |-> "none", up |-> FALSE, muted |-> FALSE, events |-> <<>>, hears |-> 0,
             live |-> FALSE, owes |-> <<>>, stage |-> 0, asked |-> FALSE]

Free == {d \in Duplexes : dup[d].conn = "none"}

\* OpenDuplex: dialled, created, its reader running.
Opened == [NoDuplex EXCEPT !.conn = "open", !.up = TRUE]

\* What a frame-shaped method needs to put its frame on the wire.
Sendable(d) == d # 0 /\ dup[d].conn = "open" /\ dup[d].up

\* What is left of a session whose socket is gone: the events already decoded.
Leftover(r, conn) == [NoDuplex EXCEPT !.conn = conn, !.events = r.events]

\* Close detaches the socket once; the reader goes with it.
CloseDuplex(f, d) == IF d = 0 THEN f ELSE [f EXCEPT ![d] = Leftover(@, "closed")]

\* The effect of an append, a commit and the two declarations about the microphone.
AppendPCMChunk(d, u) == [dup EXCEPT ![d].hears = u, ![d].live = @ /\ dup[d].hears = u]
CommitAudio(d) ==
    [dup EXCEPT ![d].owes = IF dup[d].hears = 0 THEN @ ELSE Append(@, dup[d].hears),
                ![d].hears = 0, ![d].live = FALSE]
SessionUpdate(d) == [dup EXCEPT ![d].asked = TRUE]
CommitInputMute(d) == [dup EXCEPT ![d].muted = TRUE]
CommitInputUnmute(f, d) == [f EXCEPT ![d].muted = FALSE]

-----------------------------------------------------------------------------
(* The vendor and the network *)

\* readLoop hands over what the vendor sends while there is room in the channel.
readLoop(d) == Sendable(d) /\ Len(dup[d].events) < EventsCap

\* Recognition is live: it starts before the utterance is committed.
VendorHears(d) ==
    /\ dup[d].hears # 0 /\ ~dup[d].live
    /\ readLoop(d)
    /\ dup' = [dup EXCEPT ![d].events = Append(@, [kind |-> "asr", of |-> dup[d].hears]),
                          ![d].live = TRUE]

\* The next event of the oldest answer owed; the vendor may stop anywhere.
VendorAnswers(d) ==
    /\ dup[d].owes # <<>> /\ readLoop(d)
    /\ LET i == dup[d].stage + 1
           over == ReplyOrder[i] = "done"
       IN dup' = [dup EXCEPT ![d].events = Append(@, [kind |-> ReplyOrder[i],
                                                   of |-> Head(dup[d].owes)]),
                          ![d].stage = IF over THEN 0 ELSE i,
                          ![d].owes = IF over THEN Tail(@) ELSE @]

\* The vendor reports that it cannot answer; the socket stays.
VendorRefuses(d) ==
    /\ dup[d].owes # <<>> /\ readLoop(d)
    /\ dup' = [dup EXCEPT ![d].events = Append(@, [kind |-> "error", of |-> Head(dup[d].owes)]),
                          ![d].stage = 0, ![d].owes = Tail(@)]

\* The vendor takes new instructions for the session.
VendorUpdates(d) ==
    /\ dup[d].asked /\ readLoop(d)
    /\ dup' = [dup EXCEPT ![d].events = Append(@, [kind |-> "updated", of |-> 0]),
                          ![d].asked = FALSE]

SocketDies(d) ==
    /\ Sendable(d)
    /\ dup' = [dup EXCEPT ![d] = Leftover(@, "open")]

-----------------------------------------------------------------------------
(* recv and collectTurn *)

Received(d) == Head(dup[d].events)
Recv(d) == [dup EXCEPT ![d].events = Tail(@)]

\* What was decoded is handed over before the failure is reported.
ReadOver(d) == ~dup[d].up /\ dup[d].events = <<>>

\* The accumulators of collectTurn; TurnResult.
Turn == [any : BOOLEAN, progress : BOOLEAN, response : BOOLEAN, text : Seq(Utterances),
         transcript : 0 .. MaxUtterances, audio : Nat,
         outcome : {"", "ok", "partial", "timeout", "error"}]

NoTurn == [any |-> FALSE, progress |-> FALSE, response |-> FALSE, text |-> <<>>,
           transcript |-> 0, audio |-> 0, outcome |-> ""]

\* A reply counts only after the vendor has shown progress on the utterance.
OfThisTurn(t) == t.progress

\* apply: what one event adds to the turn; a reply that is not of this turn is ignored.
Applied(t, e) ==
    LET reply(kind) == OfThisTurn(t) /\ e.kind = kind IN
    [t EXCEPT
        !.any = TRUE,
        !.progress = @ \/ e.kind \in {"asr", "committed"},
        !.transcript = IF e.kind = "asr" THEN e.of ELSE @,
        !.response = @ \/ reply("text") \/ reply("revised") \/ reply("audio"),
        !.text = IF reply("text") THEN Append(@, e.of) ELSE IF reply("revised") THEN <<e.of>> ELSE @,
        !.audio = IF reply("audio") THEN @ + 1 ELSE @,
        !.outcome = IF e.kind = "error" THEN "error"
                    ELSE IF reply("done") /\ t.response THEN "ok" ELSE @]

\* The window ran out: partial with anything to salvage, timeout without.  Events
\* that were ignored decide nothing when the wait itself is cut short, and make
\* the turn partial when the loop notices the deadline.
ExpiredOutcomes(t) ==
    IF t.progress \/ t.response THEN {"partial"}
    ELSE IF t.any THEN {"partial", "timeout"} ELSE {"timeout"}
=============================================================================
