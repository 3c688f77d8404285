------------------------- MODULE RescueLadderProofs -------------------------
(***************************************************************************)
(* The rungs of a voice session: who owns the audio stream, how long a     *)
(* stopped rung talks on, which turn a rung is named after and what the    *)
(* session reports of it, for any number of turns, rungs, goroutines and   *)
(* frames.                                                                 *)
(***************************************************************************)
EXTENDS RescueLadder, Integers, FiniteSetTheorems, TLAPS

\* What kind of value each variable holds; what bounds them is not needed here.
Point == [seq : Nat \ {0}, turn : Names, path : {"silent", "incomplete"}, level : Levels,
          opened : BOOLEAN]
LogShape == [open : Point \cup {NoEpisode}, pending : BOOLEAN, sealed : SUBSET Point]
RungShape == [pc : RungPCs, level : 0 .. 3, auto : BOOLEAN, turn : Names, token : Nat, ref : Nat,
              first : Nat, left : Int]
ReaderShape == [pc : {"opening", "idle", "start", "end", "stop", "interrupt", "note", "abort",
                      "ending", "closing", "closed"},
                said : {"nothing", "complete", "half"}, name : Names, ref : Nat]
StreamShape == [started : BOOLEAN, ends : Nat, late : Nat]
WireShape == [last : Nat, rungs : SUBSET (Names \X Levels), stream : [1 .. MaxRungs -> StreamShape]]
ClientShape == [ended : 0 .. MaxTurns, owed : SUBSET Turns, rungs : 0 .. MaxRungs, up : BOOLEAN,
                reported : BOOLEAN, report : SUBSET Point]

Shape ==
    /\ det \in Detector
    /\ aiTurn \in Names
    /\ log \in LogShape /\ IsFiniteSet(log.sealed)
    /\ speech \in [gen : Nat, turn : Names, ref : Nat]
    /\ rung \in [Slots -> RungShape]
    /\ reader \in ReaderShape
    /\ collect \in Collect
    /\ seq \in [audio : Nat, ref : Nat]
    /\ wire \in WireShape
    /\ client \in ClientShape

\* Whoever speaks has a token and a stream of its own.  A rung that is current has not been
\* ended by anybody else, so it owes no frame; a rung asks before each frame, so once it is
\* stopped only the frame it had in hand follows.
Owned(s) ==
    /\ rung[s].ref \in 1 .. seq.ref /\ rung[s].token <= speech.gen
    /\ \A t \in Slots : t # s /\ Speaking(t) =>
         rung[t].token # rung[s].token /\ rung[t].ref # rung[s].ref
    /\ rung[s].ref <= MaxRungs =>
         /\ rung[s].pc \in {"pace", "flush"} => wire.stream[rung[s].ref].late = 0
         /\ Current(s) => /\ wire.stream[rung[s].ref].late = 0
                          /\ rung[s].pc # "finish" => wire.stream[rung[s].ref].ends = 0

StreamInv ==
    /\ \A s \in Slots : Speaking(s) => Owned(s)
    /\ speech.ref <= seq.ref
    /\ reader.pc = "interrupt" =>
         /\ reader.ref <= seq.ref
         /\ \A s \in Slots : Speaking(s) /\ Current(s) => rung[s].ref > reader.ref
    /\ \A r \in 1 .. MaxRungs :
         /\ wire.stream[r].late <= 1
         /\ r > seq.ref => wire.stream[r].ends = 0 /\ wire.stream[r].late = 0

\* A stuck point has a level that was shown and a turn that was prompted.
Delivered(e) ==
    /\ \E n \in Names : <<n, e.level>> \in wire.rungs
    /\ \E l \in Levels : <<e.turn, l>> \in wire.rungs

\* A level that was shown is in the log, or is about to be.
Covered(d) ==
    \/ \E e \in Episodes(log) : e.level >= d[2]
    \/ \E s \in Slots : rung[s].pc = "note" /\ rung[s].level = d[2]

\* What the frames of a reply are named.
Replies == Turns \cup {SessionName}

\* A window, and with it a rung, follows a turn in which the AI spoke.
Named(s) ==
    /\ rung[s].turn \in Replies \cup {NoTurn}
    /\ rung[s].pc # "idle" => aiTurn # NoTurn /\ rung[s].level \in Levels
    /\ rung[s].pc = "note" => <<rung[s].turn, rung[s].level>> \in wire.rungs

\* Every name in use is that of an utterance of the client.
Naming ==
    /\ aiTurn \in Replies \cup {NoTurn}
    /\ det.open \/ collect.pc \in {"close", "open"} => aiTurn # NoTurn
    /\ collect.pc # "idle" => collect.name \in Turns
    /\ reader.pc \in {"end", "stop", "interrupt", "note"} => reader.name \in Turns
    /\ reader.pc = "opening" => turn.state = "idle" /\ collect.pc = "idle"

LogInv ==
    /\ \A e \in Episodes(log) \cup client.report : Delivered(e)
    /\ \A d \in wire.rungs : Covered(d)
    /\ \A s \in Slots : Named(s)
    /\ Naming

LadderInv == Shape /\ StreamInv /\ LogInv

-----------------------------------------------------------------------------
(* What the helpers return *)

LEMMA MinOfTwo ==
    ASSUME NEW a \in Int, NEW b \in Int
    PROVE  Min({a, b}) = IF a <= b THEN a ELSE b
BY DEF Min

LEMMA MaxOfTwo ==
    ASSUME NEW a \in Int, NEW b \in Int
    PROVE  Max({a, b}) = IF a >= b THEN a ELSE b
BY DEF Max

LEMMA LeastDue ==
    ASSUME Due # {}
    PROVE  Min(Due) \in Levels
<1>1. Due \subseteq 1 .. 3
    BY DEF Due, Levels
<1>2. \E x \in Due : \A y \in Due : x <= y
    <2>1. CASE 1 \in Due
        BY <1>1, <2>1
    <2>2. CASE 1 \notin Due /\ 2 \in Due
        BY <1>1, <2>2
    <2>3. CASE 1 \notin Due /\ 2 \notin Due
        <3>1. \A x \in Due : x = 3
            BY <1>1, <2>3
        <3> QED
            BY <3>1
    <2> QED
        BY <2>1, <2>2, <2>3
<1>3. Min(Due) \in Due
    BY <1>2 DEF Min
<1> QED
    BY <1>1, <1>3 DEF Levels

LEMMA Numbers ==
    /\ Levels = 1 .. 3 /\ Levels \subseteq 0 .. 3
    /\ SessionName \in Names /\ BootstrapTurn \in Names /\ NoTurn \in Names
    /\ Turns \subseteq Names /\ NoTurn \notin Turns /\ SessionName # NoTurn
    /\ Replies \subseteq Names /\ NoTurn \notin Replies
    /\ After[1] \in Nat /\ After[3] \in Nat /\ After[1] <= After[3]
BY LadderAssumption DEF Levels, Names, Turns, Replies, SessionName, BootstrapTurn, NoTurn

-----------------------------------------------------------------------------
(* What a step makes of the detector *)

\* Only the AI's last word opens a window.
Calmer == det' \in Detector /\ (det'.open => det.open)

LEMMA WindowType == NoWindow \in Detector
BY Numbers DEF NoWindow, Detector

LEMMA Opens ==
    ASSUME OnAISpeechEnd
    PROVE  det' \in Detector
<1>1. \A d \in Detector : [d EXCEPT !.open = TRUE] \in Detector
    BY DEF Detector
<1> QED
    BY <1>1, WindowType DEF OnAISpeechEnd

LEMMA Starts ==
    ASSUME Shape, OnUserSpeechStart
    PROVE  Calmer
<1>1. det \in Detector /\ 0 \in 0 .. 3 /\ 0 \in 0 .. After[1]
    BY Numbers DEF Shape
<1>2. \A d \in Detector : [d EXCEPT !.speaking = TRUE, !.level = 0, !.hold = 0] \in Detector
    BY <1>1 DEF Detector
<1>3. det' \in Detector
    BY <1>1, <1>2 DEF OnUserSpeechStart
<1>4. det'.open = det.open
    BY <1>1 DEF OnUserSpeechStart, Detector
<1> QED
    BY <1>3, <1>4 DEF Calmer

LEMMA Ends ==
    ASSUME Shape, NEW complete \in BOOLEAN, OnUserSpeechEnd(complete)
    PROVE  Calmer
<1>1. det \in Detector
    BY DEF Shape
<1>2. CASE det' = NoWindow
    <2>1. ~det'.open
        BY <1>2 DEF NoWindow
    <2> QED
        BY <1>2, <2>1, WindowType DEF Calmer
<1>3. CASE det' = [det EXCEPT !.speaking = FALSE]
    <2>1. \A d \in Detector : [d EXCEPT !.speaking = FALSE] \in Detector
        BY DEF Detector
    <2>2. det' \in Detector
        BY <1>1, <1>3, <2>1
    <2>3. det'.open = det.open
        BY <1>1, <1>3 DEF Detector
    <2> QED
        BY <2>2, <2>3 DEF Calmer
<1> QED
    BY <1>2, <1>3 DEF OnUserSpeechEnd

LEMMA Checks ==
    ASSUME Shape, Due # {}, CheckSilence
    PROVE  Calmer
<1>1. PICK l \in 0 .. 3 : l = Min(Due)
    BY LeastDue, Numbers
<1> QED
    BY <1>1 DEF Shape, CheckSilence, Detector, Calmer

LEMMA RequestedType ==
    ASSUME Shape
    PROVE  RequestedLevel \in Levels
<1>1. det.level \in 0 .. 3
    BY DEF Shape, Detector
<1>2. Min({det.level + 1, 3}) = IF det.level + 1 <= 3 THEN det.level + 1 ELSE 3
    BY <1>1, MinOfTwo
<1> QED
    BY <1>1, <1>2 DEF RequestedLevel, Levels

LEMMA Requests ==
    ASSUME Shape, RequestNext
    PROVE  Calmer
<1>1. PICK l \in 0 .. 3 : l = RequestedLevel
    BY RequestedType, Numbers
<1>2. PICK h \in 0 .. After[1] : h = After[1]
    BY Numbers
<1> QED
    BY <1>1, <1>2 DEF Shape, RequestNext, Detector, Calmer

LEMMA Ages ==
    ASSUME Shape, Tick
    PROVE  Calmer
<1>0. det \in Detector /\ det.age \in 0 .. After[3] /\ det.hold \in 0 .. After[1]
    BY DEF Shape, Detector
<1>1. PICK a \in 0 .. After[3] : a = IF det.open THEN Min({det.age + 1, After[3]}) ELSE det.age
    <2>1. Min({det.age + 1, After[3]}) \in 0 .. After[3]
        BY <1>0, Numbers, MinOfTwo
    <2> QED
        BY <1>0, <2>1
<1>2. PICK h \in 0 .. After[1] : h = IF det.hold = 0 THEN 0 ELSE det.hold - 1
    BY <1>0, Numbers
<1>3. det' = [det EXCEPT !.age = a, !.hold = h]
    BY <1>1, <1>2 DEF Tick
<1> QED
    BY <1>0, <1>3 DEF Detector, Calmer

-----------------------------------------------------------------------------
(* What a step makes of a rung *)

Climbs(s, pc, level, name, token, ref) ==
    /\ rung' \in [Slots -> RungShape]
    /\ \A t \in Slots : t # s => rung'[t] = rung[t]
    /\ rung'[s].pc = pc /\ rung'[s].level = level /\ rung'[s].turn = name
    /\ rung'[s].token = token /\ rung'[s].ref = ref

LEMMA RungType ==
    ASSUME Shape, NEW s \in Slots
    PROVE  /\ rung \in [Slots -> RungShape] /\ rung[s] \in RungShape
           /\ rung[s].token \in Nat /\ rung[s].ref \in Nat /\ rung[s].first \in Nat
           /\ rung[s].left \in Int /\ rung[s].turn \in Names /\ rung[s].level \in 0 .. 3
           /\ rung[s].pc \in RungPCs
BY DEF Shape, RungShape

LEMMA IdleRungType == IdleRung \in RungShape
BY Numbers DEF IdleRung, RungShape, RungPCs, Names, NoTurn

LEMMA Goes ==
    ASSUME Shape, NEW s \in Slots, NEW pc \in RungPCs,
           RGoto(s, pc)
    PROVE  Climbs(s, pc, rung[s].level, rung[s].turn, rung[s].token, rung[s].ref)
<1>1. rung \in [Slots -> RungShape] /\ rung[s] \in RungShape
    BY RungType
<1>2. \A r \in RungShape : [r EXCEPT !.pc = pc] \in RungShape
    BY DEF RungShape
<1>3. rung'[s] = [rung[s] EXCEPT !.pc = pc]
    BY <1>1 DEF RGoto
<1>4. rung'[s] \in RungShape
    BY <1>1, <1>2, <1>3
<1>5. rung' \in [Slots -> RungShape] /\ \A t \in Slots : t # s => rung'[t] = rung[t]
    BY <1>1, <1>4 DEF RGoto
<1>6. /\ rung'[s].pc = pc /\ rung'[s].level = rung[s].level /\ rung'[s].turn = rung[s].turn
      /\ rung'[s].token = rung[s].token /\ rung'[s].ref = rung[s].ref
    BY <1>1, <1>3 DEF RungShape
<1> QED
    BY <1>5, <1>6 DEF Climbs

LEMMA GoesFor ==
    ASSUME Shape, NEW s \in Slots, NEW pc \in RungPCs, NEW name \in Names,
           rung' = [rung EXCEPT ![s].pc = pc, ![s].turn = name]
    PROVE  Climbs(s, pc, rung[s].level, name, rung[s].token, rung[s].ref)
<1>1. rung \in [Slots -> RungShape] /\ rung[s] \in RungShape
    BY RungType
<1>2. \A r \in RungShape : [r EXCEPT !.pc = pc, !.turn = name] \in RungShape
    BY DEF RungShape
<1>3. rung'[s] = [rung[s] EXCEPT !.pc = pc, !.turn = name]
    BY <1>1
<1>4. rung'[s] \in RungShape
    BY <1>1, <1>2, <1>3
<1>5. rung' \in [Slots -> RungShape] /\ \A t \in Slots : t # s => rung'[t] = rung[t]
    BY <1>1, <1>4
<1>6. /\ rung'[s].pc = pc /\ rung'[s].level = rung[s].level /\ rung'[s].turn = name
      /\ rung'[s].token = rung[s].token /\ rung'[s].ref = rung[s].ref
    BY <1>1, <1>3 DEF RungShape
<1> QED
    BY <1>5, <1>6 DEF Climbs

LEMMA GoesWith ==
    ASSUME Shape, NEW s \in Slots, NEW pc \in RungPCs, NEW token \in Nat, NEW ref \in Nat,
           rung' = [rung EXCEPT ![s].pc = pc, ![s].token = token, ![s].ref = ref]
    PROVE  Climbs(s, pc, rung[s].level, rung[s].turn, token, ref)
<1>1. rung \in [Slots -> RungShape] /\ rung[s] \in RungShape
    BY RungType
<1>2. \A r \in RungShape : [r EXCEPT !.pc = pc, !.token = token, !.ref = ref] \in RungShape
    BY DEF RungShape
<1>3. rung'[s] = [rung[s] EXCEPT !.pc = pc, !.token = token, !.ref = ref]
    BY <1>1
<1>4. rung'[s] \in RungShape
    BY <1>1, <1>2, <1>3
<1>5. rung' \in [Slots -> RungShape] /\ \A t \in Slots : t # s => rung'[t] = rung[t]
    BY <1>1, <1>4
<1>6. /\ rung'[s].pc = pc /\ rung'[s].level = rung[s].level /\ rung'[s].turn = rung[s].turn
      /\ rung'[s].token = token /\ rung'[s].ref = ref
    BY <1>1, <1>3 DEF RungShape
<1> QED
    BY <1>5, <1>6 DEF Climbs

LEMMA GoesOn ==
    ASSUME Shape, NEW s \in Slots, NEW pc \in RungPCs, NEW first \in Nat, NEW left \in Int,
           rung' = [rung EXCEPT ![s].pc = pc, ![s].first = first, ![s].left = left]
    PROVE  Climbs(s, pc, rung[s].level, rung[s].turn, rung[s].token, rung[s].ref)
<1>1. rung \in [Slots -> RungShape] /\ rung[s] \in RungShape
    BY RungType
<1>2. \A r \in RungShape : [r EXCEPT !.pc = pc, !.first = first, !.left = left] \in RungShape
    BY DEF RungShape
<1>3. rung'[s] = [rung[s] EXCEPT !.pc = pc, !.first = first, !.left = left]
    BY <1>1
<1>4. rung'[s] \in RungShape
    BY <1>1, <1>2, <1>3
<1>5. rung' \in [Slots -> RungShape] /\ \A t \in Slots : t # s => rung'[t] = rung[t]
    BY <1>1, <1>4
<1>6. /\ rung'[s].pc = pc /\ rung'[s].level = rung[s].level /\ rung'[s].turn = rung[s].turn
      /\ rung'[s].token = rung[s].token /\ rung'[s].ref = rung[s].ref
    BY <1>1, <1>3 DEF RungShape
<1> QED
    BY <1>5, <1>6 DEF Climbs

LEMMA Returns ==
    ASSUME Shape, NEW s \in Slots, RDone(s)
    PROVE  Climbs(s, "idle", 0, NoTurn, 0, 0)
<1>1. rung \in [Slots -> RungShape]
    BY RungType
<1>2. rung' \in [Slots -> RungShape] /\ \A t \in Slots : t # s => rung'[t] = rung[t]
    BY <1>1, IdleRungType DEF RDone
<1>3. rung'[s] = IdleRung
    BY <1>1 DEF RDone
<1> QED
    BY <1>2, <1>3 DEF Climbs, IdleRung

LEMMA Launches ==
    ASSUME Shape, NEW s \in Slots, NEW level \in Levels, NEW auto \in BOOLEAN,
           Launch(s, level, auto)
    PROVE  Climbs(s, "gen", level, NoTurn, 0, 0)
<1>1. rung \in [Slots -> RungShape]
    BY RungType
<1> DEFINE new == [IdleRung EXCEPT !.pc = "gen", !.level = level, !.auto = auto]
<1>2. \A r \in RungShape : [r EXCEPT !.pc = "gen", !.level = level, !.auto = auto] \in RungShape
    BY Numbers DEF RungShape, RungPCs
<1>3. new \in RungShape
    BY <1>2, IdleRungType
<1>4. /\ new.pc = "gen" /\ new.level = level /\ new.turn = NoTurn
      /\ new.token = 0 /\ new.ref = 0
    BY DEF IdleRung
<1>5. rung' = [rung EXCEPT ![s] = new]
    BY DEF Launch
<1> HIDE DEF new
<1>6. rung' \in [Slots -> RungShape] /\ \A t \in Slots : t # s => rung'[t] = rung[t]
    BY <1>1, <1>3, <1>5
<1>7. rung'[s] = new
    BY <1>1, <1>5
<1> QED
    BY <1>4, <1>6, <1>7 DEF Climbs

-----------------------------------------------------------------------------
(* What a step makes of the log *)

LEMMA LogType ==
    ASSUME Shape
    PROVE  /\ log \in LogShape /\ log.open \in Point \cup {NoEpisode} /\ log.pending \in BOOLEAN
           /\ log.sealed \in SUBSET Point /\ IsFiniteSet(log.sealed)
           /\ Episodes(log) \subseteq Point /\ IsFiniteSet(Episodes(log))
<1>1. /\ log \in LogShape /\ log.open \in Point \cup {NoEpisode} /\ log.pending \in BOOLEAN
      /\ log.sealed \in SUBSET Point /\ IsFiniteSet(log.sealed)
    BY DEF Shape, LogShape
<1>2. Episodes(log) \subseteq Point
    BY <1>1 DEF Episodes
<1>3. IsFiniteSet({log.open} \ {NoEpisode})
    BY FS_Singleton, FS_Subset
<1> QED
    BY <1>1, <1>2, <1>3, FS_Union DEF Episodes

\* The stuck points are the same, or the open one has more text to it.
LogKeeps ==
    /\ log' \in LogShape /\ IsFiniteSet(log'.sealed)
    /\ \A e \in Episodes(log) : \E f \in Episodes(log)' : f.level >= e.level
    /\ \A f \in Episodes(log)' : \E e \in Episodes(log) : f.level = e.level /\ f.turn = e.turn

LEMMA LogSame == ASSUME Shape, log' = log PROVE LogKeeps
<1>1. \A e \in Episodes(log) : e.level \in 1 .. 3
    BY LogType DEF Point, Levels
<1> QED
    BY <1>1, LogType DEF LogKeeps, Episodes

LEMMA LogSameEpisodes ==
    ASSUME Shape, log' \in LogShape, IsFiniteSet(log'.sealed), Episodes(log)' = Episodes(log)
    PROVE  LogKeeps
<1>1. \A e \in Episodes(log) : e.level \in 1 .. 3
    BY LogType DEF Point, Levels
<1> QED
    BY <1>1 DEF LogKeeps

LEMMA Seals ==
    ASSUME Shape, NEW pending \in BOOLEAN,
           \/ log' = Sealed(log)
           \/ log' = [Sealed(log) EXCEPT !.pending = pending]
    PROVE  LogKeeps
<1>1. /\ Sealed(log) \in LogShape /\ Sealed(log).sealed = Episodes(log)
      /\ Sealed(log).open = NoEpisode
    <2>1. \A l \in LogShape, E \in SUBSET Point :
            [l EXCEPT !.sealed = E, !.open = NoEpisode] \in LogShape
        BY DEF LogShape
    <2> QED
        BY <2>1, LogType DEF Sealed, LogShape
<1>2. log' \in LogShape /\ log'.sealed = Episodes(log) /\ log'.open = NoEpisode
    <2>1. CASE log' = Sealed(log)
        BY <1>1, <2>1
    <2>2. CASE log' = [Sealed(log) EXCEPT !.pending = pending]
        <3>1. \A l \in LogShape : [l EXCEPT !.pending = pending] \in LogShape
            BY DEF LogShape
        <3>2. log' \in LogShape
            BY <1>1, <2>2, <3>1
        <3>3. log'.sealed = Episodes(log) /\ log'.open = NoEpisode
            BY <1>1, <2>2 DEF LogShape
        <3> QED
            BY <3>2, <3>3
    <2> QED
        BY <2>1, <2>2
<1>3. Episodes(log)' = Episodes(log)
    BY <1>2 DEF Episodes
<1> QED
    BY <1>2, <1>3, LogType, LogSameEpisodes

LEMMA NotesIncomplete ==
    ASSUME Shape, noteIncompleteUtterance
    PROVE  LogKeeps
<1>1. \A l \in LogShape : [l EXCEPT !.pending = TRUE] \in LogShape
    BY DEF LogShape
<1>2. log' \in LogShape
    BY <1>1, LogType DEF noteIncompleteUtterance
<1>3. log'.sealed = log.sealed /\ log'.open = log.open
    BY LogType DEF noteIncompleteUtterance, LogShape
<1>4. Episodes(log)' = Episodes(log)
    BY <1>3 DEF Episodes
<1> QED
    BY <1>2, <1>3, <1>4, LogType, LogSameEpisodes

LEMMA RealPoint == NoEpisode \notin Point
BY DEF NoEpisode, Point

LEMMA NotesText ==
    ASSUME Shape, noteUserText
    PROVE  LogKeeps
<1>1. CASE log.open = NoEpisode
    BY <1>1, LogSame DEF noteUserText
<1>2. CASE log.open # NoEpisode
    <2>0. log.open \in Point
        BY <1>2, LogType
    <2>1. PICK p \in Point : /\ p = [log.open EXCEPT !.opened = TRUE]
                             /\ p.level = log.open.level /\ p.turn = log.open.turn
        <3>1. \A q \in Point : [q EXCEPT !.opened = TRUE] \in Point
            BY DEF Point
        <3>2. /\ [log.open EXCEPT !.opened = TRUE].level = log.open.level
              /\ [log.open EXCEPT !.opened = TRUE].turn = log.open.turn
            BY <2>0 DEF Point
        <3> QED
            BY <2>0, <3>1, <3>2
    <2>2. log' = [log EXCEPT !.open = p]
        BY <1>2, <2>1 DEF noteUserText
    <2>3. log' \in LogShape /\ log'.sealed = log.sealed /\ log'.open = p
        BY <2>2, LogType DEF LogShape
    <2>4. Episodes(log)' = log.sealed \cup {p} /\ Episodes(log) = log.sealed \cup {log.open}
        BY <1>2, <2>3, RealPoint DEF Episodes
    <2>5. \A e \in Episodes(log) : e.level \in 1 .. 3
        BY LogType DEF Point, Levels
    <2>6. \A e \in Episodes(log) : \E f \in Episodes(log)' : f.level >= e.level
        <3> SUFFICES ASSUME NEW e \in Episodes(log)
                     PROVE  \E f \in Episodes(log)' : f.level >= e.level
            OBVIOUS
        <3>1. e.level >= e.level
            BY <2>5
        <3>2. e \in Episodes(log)' \/ (p \in Episodes(log)' /\ p.level = e.level)
            BY <2>1, <2>4
        <3> QED
            BY <3>1, <3>2
    <2>7. \A f \in Episodes(log)' : \E e \in Episodes(log) :
            f.level = e.level /\ f.turn = e.turn
        BY <2>1, <2>4
    <2> QED
        BY <2>3, <2>6, <2>7, LogType DEF LogKeeps
<1> QED
    BY <1>1, <1>2

\* A rung opens a stuck point or raises the open one.
LEMMA NotesLadder ==
    ASSUME Shape, NEW name \in Names, NEW level \in Levels, noteLadder(name, level)
    PROVE  /\ log' \in LogShape /\ IsFiniteSet(log'.sealed)
           /\ \A e \in Episodes(log) : \E f \in Episodes(log)' : f.level >= e.level
           /\ \E f \in Episodes(log)' : f.level >= level
           /\ \A f \in Episodes(log)' :
                /\ f.level = level \/ \E e \in Episodes(log) : f.level = e.level
                /\ f.turn = name \/ \E e \in Episodes(log) : f.turn = e.turn
<1>0. level \in 1 .. 3 /\ \A e \in Point : e.level \in 1 .. 3
    BY DEF Levels, Point
<1>1. CASE log.open = NoEpisode
    <2>1. PICK n \in Nat \ {0} : n = Cardinality(log.sealed) + 1
        BY LogType, FS_CardinalityType
    <2>2. PICK path \in {"silent", "incomplete"} :
            path = IF log.pending THEN "incomplete" ELSE "silent"
        OBVIOUS
    <2>3. PICK p \in Point :
            /\ p = [seq |-> n, turn |-> name, path |-> path, level |-> level,
                    opened |-> log.pending]
            /\ p.level = level /\ p.turn = name
        <3> DEFINE q == [seq |-> n, turn |-> name, path |-> path, level |-> level,
                         opened |-> log.pending]
        <3>1. q \in Point
            BY LogType DEF Point
        <3>2. q.level = level /\ q.turn = name
            OBVIOUS
        <3> QED
            BY <3>1, <3>2
    <2>4. log' = [log EXCEPT !.open = p, !.pending = FALSE]
        BY <1>1, <2>1, <2>2, <2>3 DEF noteLadder
    <2>5. \A l \in LogShape, q \in Point :
            [l EXCEPT !.open = q, !.pending = FALSE] \in LogShape
        BY DEF LogShape
    <2>6. log' \in LogShape
        BY <2>4, <2>5, LogType
    <2>7. log'.sealed = log.sealed /\ log'.open = p
        BY <2>4, LogType DEF LogShape
    <2>8. Episodes(log)' = log.sealed \cup {p} /\ Episodes(log) = log.sealed
        BY <1>1, <2>7, RealPoint DEF Episodes
    <2>9. \A e \in Episodes(log) : e \in Episodes(log)' /\ e.level \in 1 .. 3
        BY <1>0, <2>8, LogType
    <2> QED
        BY <1>0, <2>3, <2>6, <2>7, <2>8, <2>9, LogType
<1>2. CASE log.open # NoEpisode
    <2>0. log.open \in Point /\ log.open.level \in 1 .. 3
        BY <1>0, <1>2, LogType
    <2>1. PICK max \in Levels : /\ max = Max({log.open.level, level})
                                /\ max >= level /\ max >= log.open.level
                                /\ max = level \/ max = log.open.level
        BY <1>0, <2>0, MaxOfTwo DEF Levels
    <2>2. PICK p \in Point : /\ p = [log.open EXCEPT !.level = max]
                             /\ p.level = max /\ p.turn = log.open.turn
        <3>1. \A q \in Point : [q EXCEPT !.level = max] \in Point
            BY DEF Point
        <3>2. /\ [log.open EXCEPT !.level = max].level = max
              /\ [log.open EXCEPT !.level = max].turn = log.open.turn
            BY <2>0 DEF Point
        <3> QED
            BY <2>0, <3>1, <3>2
    <2>3. log' = [log EXCEPT !.open = p]
        BY <1>2, <2>1, <2>2 DEF noteLadder
    <2>4. log' \in LogShape /\ log'.sealed = log.sealed /\ log'.open = p
        BY <2>3, LogType DEF LogShape
    <2>5. Episodes(log)' = log.sealed \cup {p} /\ Episodes(log) = log.sealed \cup {log.open}
        BY <1>2, <2>4, RealPoint DEF Episodes
    <2>6. \A e \in log.sealed : e.level \in 1 .. 3
        BY <1>0, LogType
    <2>7. \A e \in Episodes(log) : \E f \in Episodes(log)' : f.level >= e.level
        <3> SUFFICES ASSUME NEW e \in Episodes(log)
                     PROVE  \E f \in Episodes(log)' : f.level >= e.level
            OBVIOUS
        <3>1. CASE e \in log.sealed
            <4>1. e.level >= e.level /\ e \in Episodes(log)'
                BY <2>5, <2>6, <3>1
            <4> QED
                BY <4>1
        <3>2. CASE e = log.open
            <4>1. p.level >= e.level /\ p \in Episodes(log)'
                BY <2>1, <2>2, <2>5, <3>2
            <4> QED
                BY <4>1
        <3> QED
            BY <2>5, <3>1, <3>2
    <2>8. \E f \in Episodes(log)' : f.level >= level
        BY <2>1, <2>2, <2>5
    <2>9. \A f \in Episodes(log)' :
                /\ f.level = level \/ \E e \in Episodes(log) : f.level = e.level
                /\ f.turn = name \/ \E e \in Episodes(log) : f.turn = e.turn
        BY <2>1, <2>2, <2>5
    <2> QED
        BY <2>4, <2>7, <2>8, <2>9, LogType
<1> QED
    BY <1>1, <1>2

-----------------------------------------------------------------------------
(* What a step makes of the wire, the read loop, the collect goroutine and the client *)

LEMMA WireType ==
    ASSUME Shape
    PROVE  /\ wire \in WireShape /\ wire.rungs \subseteq Names \X Levels /\ wire.last \in Nat
           /\ wire.stream \in [1 .. MaxRungs -> StreamShape]
           /\ \A r \in 1 .. MaxRungs : /\ wire.stream[r] \in StreamShape
                                       /\ wire.stream[r].ends \in Nat /\ wire.stream[r].late \in Nat
BY DEF Shape, WireShape, StreamShape

\* The end of a stream.
LEMMA SendsEnd ==
    ASSUME Shape, NEW ref \in Nat, SendEnd(ref)
    PROVE  /\ wire' \in WireShape /\ wire'.rungs = wire.rungs
           /\ \A r \in 1 .. MaxRungs :
                /\ wire'.stream[r].late = wire.stream[r].late
                /\ r # ref => wire'.stream[r].ends = wire.stream[r].ends
<1>1. PICK st : st = [wire.stream EXCEPT ![ref].ends = Min({@ + 1, 2})]
    OBVIOUS
<1>2. wire' = [wire EXCEPT !.stream = st]
    BY <1>1 DEF SendEnd
<1>3. /\ st \in [1 .. MaxRungs -> StreamShape]
      /\ \A r \in 1 .. MaxRungs :
                /\ st[r].late = wire.stream[r].late
                /\ r # ref => st[r].ends = wire.stream[r].ends
    <2>1. CASE ref \notin 1 .. MaxRungs
        <3>1. \A r \in 1 .. MaxRungs : st[r] = wire.stream[r]
            BY <1>1, <2>1, WireType
        <3>2. st \in [1 .. MaxRungs -> StreamShape]
            BY <1>1, <2>1, <3>1, WireType
        <3> QED
            BY <3>1, <3>2
    <2>2. CASE ref \in 1 .. MaxRungs
        <3>1. PICK n \in Nat : n = Min({wire.stream[ref].ends + 1, 2})
            BY <2>2, WireType, MinOfTwo
        <3>2. PICK new \in StreamShape : /\ new = [wire.stream[ref] EXCEPT !.ends = n]
                                         /\ new.late = wire.stream[ref].late
            <4>1. wire.stream[ref] \in StreamShape
                BY <2>2, WireType
            <4>2. [wire.stream[ref] EXCEPT !.ends = n] \in StreamShape
                BY <4>1 DEF StreamShape
            <4>3. [wire.stream[ref] EXCEPT !.ends = n].late = wire.stream[ref].late
                BY <4>1 DEF StreamShape
            <4> QED
                BY <4>2, <4>3
        <3>3. st = [wire.stream EXCEPT ![ref] = new]
            BY <1>1, <3>1, <3>2
        <3> QED
            BY <2>2, <3>2, <3>3, WireType
    <2> QED
        BY <2>1, <2>2
<1>4. \A w \in WireShape, x \in [1 .. MaxRungs -> StreamShape] :
        [w EXCEPT !.stream = x] \in WireShape
    BY DEF WireShape
<1>5. wire' \in WireShape
    BY <1>2, <1>3, <1>4, WireType
<1>6. wire'.rungs = wire.rungs /\ wire'.stream = st
    BY <1>2, WireType DEF WireShape
<1> QED
    BY <1>3, <1>5, <1>6

\* A frame of audio.
LEMMA WritesAudio ==
    ASSUME Shape, NEW ref \in Nat, NEW number \in Nat, WriteAudio(ref, number)
    PROVE  /\ wire' \in WireShape /\ wire'.rungs = wire.rungs
           /\ \A r \in 1 .. MaxRungs :
                /\ wire'.stream[r].ends = wire.stream[r].ends
                /\ wire'.stream[r].late = IF r = ref /\ wire.stream[r].ends > 0
                                          THEN wire.stream[r].late + 1 ELSE wire.stream[r].late
<1>1. PICK st : st = [wire.stream EXCEPT
                        ![ref].late = IF wire.stream[ref].ends > 0 THEN @ + 1 ELSE @]
    OBVIOUS
<1>2. wire' = [wire EXCEPT !.last = number, !.stream = st]
    BY <1>1 DEF WriteAudio
<1>3. /\ st \in [1 .. MaxRungs -> StreamShape]
      /\ \A r \in 1 .. MaxRungs :
                /\ st[r].ends = wire.stream[r].ends
                /\ st[r].late = IF r = ref /\ wire.stream[r].ends > 0
                                THEN wire.stream[r].late + 1 ELSE wire.stream[r].late
    <2>1. CASE ref \notin 1 .. MaxRungs
        <3>1. \A r \in 1 .. MaxRungs : st[r] = wire.stream[r] /\ r # ref
            BY <1>1, <2>1, WireType
        <3>2. st \in [1 .. MaxRungs -> StreamShape]
            BY <1>1, <2>1, <3>1, WireType
        <3> QED
            BY <3>1, <3>2
    <2>2. CASE ref \in 1 .. MaxRungs
        <3>1. PICK n \in Nat : n = IF wire.stream[ref].ends > 0 THEN wire.stream[ref].late + 1
                                   ELSE wire.stream[ref].late
            BY <2>2, WireType
        <3>2. PICK new \in StreamShape : /\ new = [wire.stream[ref] EXCEPT !.late = n]
                                         /\ new.ends = wire.stream[ref].ends /\ new.late = n
            <4>1. wire.stream[ref] \in StreamShape
                BY <2>2, WireType
            <4>2. [wire.stream[ref] EXCEPT !.late = n] \in StreamShape
                BY <4>1 DEF StreamShape
            <4>3. /\ [wire.stream[ref] EXCEPT !.late = n].ends = wire.stream[ref].ends
                  /\ [wire.stream[ref] EXCEPT !.late = n].late = n
                BY <4>1 DEF StreamShape
            <4> QED
                BY <4>2, <4>3
        <3>3. st = [wire.stream EXCEPT ![ref] = new]
            BY <1>1, <3>1, <3>2
        <3> QED
            BY <2>2, <3>1, <3>2, <3>3, WireType
    <2> QED
        BY <2>1, <2>2
<1>4. \A w \in WireShape, x \in [1 .. MaxRungs -> StreamShape] :
        [w EXCEPT !.last = number, !.stream = x] \in WireShape
    BY DEF WireShape
<1>5. wire' \in WireShape
    BY <1>2, <1>3, <1>4, WireType
<1>6. wire'.rungs = wire.rungs /\ wire'.stream = st
    BY <1>2, WireType DEF WireShape
<1> QED
    BY <1>3, <1>5, <1>6

LEMMA StartsStream ==
    ASSUME Shape, NEW ref \in Nat, wire' = [wire EXCEPT !.stream[ref].started = TRUE]
    PROVE  /\ wire' \in WireShape /\ wire'.rungs = wire.rungs
           /\ \A r \in 1 .. MaxRungs :
                /\ wire'.stream[r].ends = wire.stream[r].ends
                /\ wire'.stream[r].late = wire.stream[r].late
<1>1. PICK st : st = [wire.stream EXCEPT ![ref].started = TRUE]
    OBVIOUS
<1>2. wire' = [wire EXCEPT !.stream = st]
    BY <1>1
<1>3. ASSUME NEW r \in 1 .. MaxRungs
      PROVE  /\ st[r] \in StreamShape
             /\ st[r].ends = wire.stream[r].ends /\ st[r].late = wire.stream[r].late
    <2>1. wire.stream[r] \in StreamShape
        BY WireType
    <2>2. st[r] = wire.stream[r] \/ st[r] = [wire.stream[r] EXCEPT !.started = TRUE]
        BY <1>1, WireType
    <2> QED
        BY <2>1, <2>2 DEF StreamShape
<1>4. st \in [1 .. MaxRungs -> StreamShape]
    <2>1. st = [r \in 1 .. MaxRungs |-> st[r]]
        BY <1>1, WireType
    <2> QED
        BY <1>3, <2>1
<1>5. \A w \in WireShape, x \in [1 .. MaxRungs -> StreamShape] :
        [w EXCEPT !.stream = x] \in WireShape
    BY DEF WireShape
<1>6. wire' \in WireShape
    BY <1>2, <1>4, <1>5, WireType, ZenonT(30)
<1>7. wire'.rungs = wire.rungs /\ wire'.stream = st
    BY <1>2, WireType DEF WireShape
<1> QED
    BY <1>3, <1>6, <1>7

LEMMA Shows ==
    ASSUME Shape, NEW d \in Names \X Levels, wire' = [wire EXCEPT !.rungs = @ \cup {d}]
    PROVE  /\ wire' \in WireShape /\ wire'.rungs = wire.rungs \cup {d}
           /\ wire'.stream = wire.stream
<1>1. \A w \in WireShape : [w EXCEPT !.rungs = w.rungs \cup {d}] \in WireShape
    BY DEF WireShape
<1>2. wire' \in WireShape
    BY <1>1, WireType
<1> QED
    BY <1>2, WireType DEF WireShape

LEMMA Reads ==
    ASSUME Shape, NEW pc \in {"idle", "start", "end", "stop", "interrupt", "note", "abort",
                              "ending", "closing", "closed"}, Goto(pc)
    PROVE  /\ reader' \in ReaderShape /\ reader'.pc = pc /\ reader'.name = reader.name
           /\ reader'.said = reader.said /\ reader'.ref = reader.ref
<1>1. reader \in ReaderShape
    BY DEF Shape
<1>2. \A r \in ReaderShape : [r EXCEPT !.pc = pc] \in ReaderShape
    BY DEF ReaderShape
<1>3. reader' \in ReaderShape
    BY <1>1, <1>2 DEF Goto
<1> QED
    BY <1>1, <1>3 DEF Goto, ReaderShape

LEMMA Collects ==
    ASSUME Shape, NEW pc \in {"idle", "wait", "write", "mark", "close", "open", "answer", "text"},
           CGoto(pc)
    PROVE  collect' \in Collect /\ collect'.pc = pc /\ collect'.name = collect.name
<1>1. collect \in Collect
    BY DEF Shape
<1>2. \A r \in Collect : [r EXCEPT !.pc = pc] \in Collect
    BY DEF Collect
<1>3. collect' \in Collect
    BY <1>1, <1>2 DEF CGoto
<1> QED
    BY <1>1, <1>3 DEF CGoto, Collect

LEMMA IdleCollectType == IdleCollect \in Collect /\ IdleCollect.pc = "idle"
BY Numbers, LadderAssumption DEF IdleCollect, Collect, Marks

LEMMA NextMarks ==
    ASSUME Shape, collect' = NextMark
    PROVE  /\ collect' \in Collect /\ collect'.name = collect.name
           /\ collect'.pc \in {"mark", "answer"}
<1>1. PICK pc \in {"mark", "answer"} : pc = IF collect.mark = "tts" THEN "mark" ELSE "answer"
    OBVIOUS
<1>2. collect \in Collect /\ collect' = [collect EXCEPT !.pc = pc, !.mark = "turn"]
    BY <1>1 DEF Shape, NextMark
<1>3. \A r \in Collect : [r EXCEPT !.pc = pc, !.mark = "turn"] \in Collect
    BY DEF Collect, Marks
<1>4. collect' \in Collect
    BY <1>2, <1>3
<1> QED
    BY <1>2, <1>4 DEF Collect

LEMMA ClientType ==
    ASSUME Shape
    PROVE  /\ client \in ClientShape /\ client.rungs \in 0 .. MaxRungs
           /\ client.ended \in 0 .. MaxTurns /\ client.owed \in SUBSET Turns
           /\ client.report \in SUBSET Point
BY DEF Shape, ClientShape

LEMMA Utters ==
    ASSUME Shape, NEW name \in Turns,
           client' = [client EXCEPT !.ended = name, !.owed = @ \cup {name}]
    PROVE  client' \in ClientShape /\ client'.report = client.report
<1>1. PICK o \in SUBSET Turns : o = client.owed \cup {name}
    BY ClientType
<1>2. name \in 0 .. MaxTurns
    BY LadderAssumption DEF Turns
<1>3. client' = [client EXCEPT !.ended = name, !.owed = o]
    BY <1>1
<1>4. \A c \in ClientShape : [c EXCEPT !.ended = name, !.owed = o] \in ClientShape
    BY <1>2 DEF ClientShape
<1>5. client' \in ClientShape
    BY <1>3, <1>4, ClientType
<1> QED
    BY <1>3, <1>5, ClientType DEF ClientShape

LEMMA AnswersClient ==
    ASSUME Shape, Answered
    PROVE  client' \in ClientShape /\ client'.report = client.report
<1>1. PICK o \in SUBSET Turns : o = client.owed \ {collect.name}
    BY ClientType
<1>2. client' = [client EXCEPT !.owed = o]
    BY <1>1 DEF Answered
<1> QED
    BY <1>2, ClientType DEF ClientShape

LEMMA CountsRung ==
    ASSUME Shape, client.rungs < MaxRungs, client' = [client EXCEPT !.rungs = @ + 1]
    PROVE  client' \in ClientShape /\ client'.report = client.report
<1>1. PICK n \in 0 .. MaxRungs : n = client.rungs + 1
    BY ClientType, LadderAssumption
<1>2. client' = [client EXCEPT !.rungs = n]
    BY <1>1
<1> QED
    BY <1>2, ClientType DEF ClientShape

LEMMA HangsUp ==
    ASSUME Shape, client' = [client EXCEPT !.up = FALSE]
    PROVE  client' \in ClientShape /\ client'.report = client.report
BY ClientType DEF ClientShape

LEMMA Reports ==
    ASSUME Shape, client' = Report \/ client' = [Report EXCEPT !.up = FALSE]
    PROVE  client' \in ClientShape /\ client'.report = Episodes(log)
<1>1. PICK E \in SUBSET Point : E = Episodes(log)
    BY LogType
<1>2. /\ [client EXCEPT !.reported = TRUE, !.report = E] \in ClientShape
      /\ [client EXCEPT !.reported = TRUE, !.report = E].report = E
    BY ClientType DEF ClientShape
<1>3. Report \in ClientShape /\ Report.report = E
    BY <1>1, <1>2 DEF Report
<1>4. /\ [Report EXCEPT !.up = FALSE] \in ClientShape
      /\ [Report EXCEPT !.up = FALSE].report = E
    BY <1>3 DEF ClientShape
<1> QED
    BY <1>1, <1>3, <1>4

-----------------------------------------------------------------------------
(* Streams: what a step must leave alone *)

\* Nobody is spoken to.
LEMMA StreamSame ==
    ASSUME StreamInv, speech' = speech, seq'.ref = seq.ref, rung' = rung,
           wire'.stream = wire.stream, reader'.pc = "interrupt" => reader' = reader
    PROVE  StreamInv'
<1>1. ASSUME NEW s \in Slots, Speaking(s)' PROVE Owned(s)'
    <2>1. Speaking(s) /\ Owned(s)
        BY <1>1 DEF StreamInv, Speaking
    <2> QED
        BY <2>1 DEF Owned, Speaking, Current
<1>2. (reader.pc = "interrupt" =>
         /\ reader.ref <= seq.ref
         /\ \A s \in Slots : Speaking(s) /\ Current(s) => rung[s].ref > reader.ref)'
    BY DEF StreamInv, Speaking, Current
<1> QED
    BY <1>1, <1>2 DEF StreamInv

\* A rung that does not speak, or speaks no longer, takes nothing from the others.
LEMMA StreamLeaves ==
    ASSUME Shape, StreamInv, NEW s \in Slots, NEW pc, NEW level, NEW name,
           NEW token, NEW ref, Climbs(s, pc, level, name, token, ref),
           pc \notin {"start", "live", "pace", "check", "flush", "end", "finish"},
           speech'.gen = speech.gen, speech'.ref <= seq.ref, seq'.ref = seq.ref,
           reader' = reader, wire'.stream = wire.stream
    PROVE  StreamInv'
<1>1. \A t \in Slots : Speaking(t)' =>
        /\ t # s /\ Speaking(t) /\ rung'[t] = rung[t] /\ (Current(t)' <=> Current(t))
    BY DEF Climbs, Speaking, Current
<1>2. ASSUME NEW t \in Slots, Speaking(t)' PROVE Owned(t)'
    <2>1. Speaking(t) /\ Owned(t) /\ rung'[t] = rung[t] /\ (Current(t)' <=> Current(t))
        BY <1>1, <1>2 DEF StreamInv
    <2>2. \A u \in Slots : u # t /\ Speaking(u)' =>
            rung'[u].token # rung'[t].token /\ rung'[u].ref # rung'[t].ref
        BY <1>1, <2>1 DEF Owned
    <2> QED
        BY <2>1, <2>2 DEF Owned
<1>3. (reader.pc = "interrupt" =>
         /\ reader.ref <= seq.ref
         /\ \A t \in Slots : Speaking(t) /\ Current(t) => rung[t].ref > reader.ref)'
    BY <1>1 DEF StreamInv
<1> QED
    BY <1>2, <1>3 DEF StreamInv

\* A rung that speaks on writes to its own stream.
LEMMA StreamStays ==
    ASSUME Shape, StreamInv, NEW s \in Slots, NEW pc, NEW level, NEW name,
           Climbs(s, pc, level, name, rung[s].token, rung[s].ref),
           pc \in {"start", "live", "pace", "check", "flush", "end", "finish"}, Speaking(s),
           speech' = speech, seq'.ref = seq.ref, reader' = reader,
           \A r \in 1 .. MaxRungs :
             /\ wire'.stream[r].late <= 1
             /\ r # rung[s].ref => /\ wire'.stream[r].late = wire.stream[r].late
                                   /\ wire'.stream[r].ends = wire.stream[r].ends,
           rung[s].ref <= MaxRungs =>
             /\ pc \in {"pace", "flush"} => wire'.stream[rung[s].ref].late = 0
             /\ Current(s) => /\ wire'.stream[rung[s].ref].late = 0
                              /\ pc # "finish" => wire'.stream[rung[s].ref].ends = 0
    PROVE  StreamInv'
<1>0. Owned(s) /\ rung[s].ref \in Nat /\ seq.ref \in Nat
    BY RungType DEF StreamInv, Shape
<1>1. \A t \in Slots : /\ Speaking(t)' => Speaking(t)
                       /\ rung'[t].token = rung[t].token /\ rung'[t].ref = rung[t].ref
                       /\ (Current(t)' <=> Current(t))
                       /\ t # s => rung'[t] = rung[t]
    BY DEF Climbs, Speaking, Current
<1>2. ASSUME NEW t \in Slots, Speaking(t)' PROVE Owned(t)'
    <2>1. Speaking(t) /\ Owned(t)
        BY <1>1, <1>2 DEF StreamInv
    <2>2. /\ rung'[t].ref \in 1 .. seq'.ref /\ rung'[t].token <= speech'.gen
          /\ \A u \in Slots : u # t /\ Speaking(u)' =>
               rung'[u].token # rung'[t].token /\ rung'[u].ref # rung'[t].ref
        BY <1>1, <2>1 DEF Owned
    <2>3. CASE t = s
        BY <1>1, <2>2, <2>3 DEF Owned, Climbs
    <2>4. CASE t # s
        <3>1. rung[t].ref # rung[s].ref /\ rung[t].ref \in 1 .. seq.ref
            BY <1>0, <2>1, <2>4 DEF Owned
        <3>2. rung[t].ref <= MaxRungs =>
                /\ wire'.stream[rung[t].ref].late = wire.stream[rung[t].ref].late
                /\ wire'.stream[rung[t].ref].ends = wire.stream[rung[t].ref].ends
            BY <1>0, <3>1, LadderAssumption
        <3> QED
            BY <1>1, <2>1, <2>2, <2>4, <3>2 DEF Owned
    <2> QED
        BY <2>3, <2>4
<1>3. (reader.pc = "interrupt" =>
         /\ reader.ref <= seq.ref
         /\ \A t \in Slots : Speaking(t) /\ Current(t) => rung[t].ref > reader.ref)'
    BY <1>1 DEF StreamInv
<1>4. \A r \in 1 .. MaxRungs : r > seq.ref => wire'.stream[r].ends = 0 /\ wire'.stream[r].late = 0
    BY <1>0 DEF StreamInv, Owned
<1> QED
    BY <1>2, <1>3, <1>4 DEF StreamInv

-----------------------------------------------------------------------------
(* Stuck points: what a step must leave alone *)

\* The rungs stand still.
LEMMA LogQuiet ==
    ASSUME Shape, LogInv, LogKeeps, rung' = rung, wire'.rungs = wire.rungs,
           client'.report \subseteq client.report \cup Episodes(log),
           aiTurn' = aiTurn \/ aiTurn' \in Replies, Naming'
    PROVE  LogInv'
<1>1. ASSUME NEW f \in Episodes(log)' \cup client'.report PROVE Delivered(f)'
    <2>1. PICK e \in Episodes(log) \cup client.report : f.level = e.level /\ f.turn = e.turn
        BY DEF LogKeeps
    <2>2. Delivered(e)
        BY DEF LogInv
    <2> QED
        BY <2>1, <2>2 DEF Delivered
<1>2. ASSUME NEW d \in wire'.rungs PROVE Covered(d)'
    <2>0. d[2] \in 1 .. 3
        BY <1>2, WireType DEF Levels
    <2>1. Covered(d)
        BY <1>2 DEF LogInv
    <2>2. CASE \E e \in Episodes(log) : e.level >= d[2]
        <3>1. PICK e \in Episodes(log) : e.level >= d[2]
            BY <2>2
        <3>2. PICK f \in Episodes(log)' : f.level >= e.level
            BY DEF LogKeeps
        <3>3. e.level \in 1 .. 3 /\ f.level \in 1 .. 3
            <4>1. e \in Point
                BY LogType
            <4>2. \E g \in Episodes(log) : f.level = g.level
                BY DEF LogKeeps
            <4>3. \A g \in Episodes(log) : g.level \in 1 .. 3
                BY LogType DEF Point, Levels
            <4> QED
                BY <4>1, <4>2, <4>3
        <3>4. f.level >= d[2]
            BY <2>0, <3>1, <3>2, <3>3
        <3> QED
            BY <3>4 DEF Covered
    <2>3. CASE \E s \in Slots : rung[s].pc = "note" /\ rung[s].level = d[2]
        BY <2>3 DEF Covered
    <2> QED
        BY <2>1, <2>2, <2>3 DEF Covered
<1>3. ASSUME NEW s \in Slots PROVE Named(s)'
    BY Numbers DEF LogInv, Named
<1> QED
    BY <1>1, <1>2, <1>3 DEF LogInv

\* A rung climbs; what it shows it is about to note.
LEMMA LogClimbs ==
    ASSUME Shape, LogInv, NEW s \in Slots, NEW pc, NEW level, NEW name,
           NEW token, NEW ref, Climbs(s, pc, level, name, token, ref),
           rung[s].pc # "note", log' = log, client'.report = client.report, aiTurn' = aiTurn,
           wire.rungs \subseteq wire'.rungs,
           \A d \in wire'.rungs \ wire.rungs : pc = "note" /\ level = d[2],
           name \in Replies \cup {NoTurn}, pc # "idle" => aiTurn # NoTurn /\ level \in Levels,
           pc = "note" => <<name, level>> \in wire'.rungs,
           det'.open => det.open, collect' = collect, reader' = reader, turn' = turn
    PROVE  LogInv'
<1>0. Episodes(log)' = Episodes(log)
    BY DEF Episodes
<1>1. ASSUME NEW f \in Episodes(log)' \cup client'.report PROVE Delivered(f)'
    <2>1. Delivered(f)
        BY <1>0 DEF LogInv
    <2> QED
        BY <2>1 DEF Delivered
<1>2. ASSUME NEW d \in wire'.rungs PROVE Covered(d)'
    <2>1. CASE d \in wire.rungs
        <3>1. Covered(d)
            BY <2>1 DEF LogInv
        <3>2. \A t \in Slots : rung[t].pc = "note" => rung'[t] = rung[t]
            BY DEF Climbs
        <3>3. CASE \E e \in Episodes(log) : e.level >= d[2]
            BY <1>0, <3>3 DEF Covered
        <3>4. CASE \E t \in Slots : rung[t].pc = "note" /\ rung[t].level = d[2]
            BY <3>2, <3>4 DEF Covered
        <3> QED
            BY <3>1, <3>3, <3>4 DEF Covered
    <2>2. CASE d \notin wire.rungs
        BY <1>2, <2>2 DEF Covered, Climbs
    <2> QED
        BY <2>1, <2>2
<1>3. ASSUME NEW t \in Slots PROVE Named(t)'
    <2>1. CASE t = s
        BY <2>1 DEF Named, Climbs
    <2>2. CASE t # s
        <3>1. rung'[t] = rung[t] /\ Named(t)
            BY <2>2 DEF Climbs, LogInv
        <3> QED
            BY <3>1 DEF Named
    <2> QED
        BY <2>1, <2>2
<1>4. Naming'
    BY DEF LogInv, Naming
<1> QED
    BY <1>1, <1>2, <1>3, <1>4 DEF LogInv

\* A rung that returns.
LEMMA LogReturns ==
    ASSUME Shape, LogInv, NEW s \in Slots, RDone(s),
           rung[s].pc # "note", log' = log, client'.report = client.report, aiTurn' = aiTurn,
           wire'.rungs = wire.rungs, det'.open => det.open, collect' = collect,
           reader' = reader, turn' = turn
    PROVE  LogInv'
<1>1. Climbs(s, "idle", 0, NoTurn, 0, 0)
    BY Returns
<1> QED
    BY <1>1, LogClimbs

\* A rung that goes on under the name it has.
LEMMA LogGoes ==
    ASSUME Shape, LogInv, NEW s \in Slots, NEW pc, NEW token, NEW ref,
           Climbs(s, pc, rung[s].level, rung[s].turn, token, ref), pc # "note",
           rung[s].pc \notin {"note", "idle"}, log' = log, client'.report = client.report,
           aiTurn' = aiTurn, wire'.rungs = wire.rungs, det'.open => det.open,
           collect' = collect, reader' = reader, turn' = turn
    PROVE  LogInv'
<1>1. Named(s)
    BY DEF LogInv
<1>2. /\ rung[s].turn \in Replies \cup {NoTurn}
      /\ pc # "idle" => aiTurn # NoTurn /\ rung[s].level \in Levels
    BY <1>1 DEF Named
<1> QED
    BY <1>2, LogClimbs

-----------------------------------------------------------------------------
(* The read loop *)

\* A step in which no rung and no stream moves.
LEMMA QuietStep ==
    ASSUME LadderInv, rung' = rung, speech' = speech, seq' \in [audio : Nat, ref : Nat],
           seq'.ref = seq.ref, wire' \in WireShape, wire'.stream = wire.stream,
           wire'.rungs = wire.rungs, reader' \in ReaderShape,
           reader'.pc = "interrupt" => reader' = reader,
           det' \in Detector, aiTurn' = aiTurn \/ aiTurn' \in Replies, LogKeeps,
           collect' \in Collect, client' \in ClientShape,
           client'.report \subseteq client.report \cup Episodes(log), Naming'
    PROVE  LadderInv'
<1>1. Shape'
    BY Numbers DEF LadderInv, Shape, LogKeeps
<1>2. StreamInv'
    BY StreamSame DEF LadderInv
<1>3. LogInv'
    BY LogQuiet DEF LadderInv
<1> QED
    BY <1>1, <1>2, <1>3 DEF LadderInv

\* One that the read loop takes without leaving a name behind.
LEMMA ReaderStep ==
    ASSUME LadderInv, NEW pc \in {"idle", "start", "abort", "ending", "closing", "closed"},
           Goto(pc), Calmer, LogKeeps, client' \in ClientShape,
           client'.report \subseteq client.report \cup Episodes(log),
           UNCHANGED <<others, speech, wire>>
    PROVE  LadderInv'
<1>0. Shape
    BY DEF LadderInv
<1>1. reader' \in ReaderShape /\ reader'.pc = pc
    BY <1>0, Reads
<1>2. Naming'
    BY <1>1 DEF LadderInv, LogInv, Naming, Calmer, others
<1> QED
    BY <1>0, <1>1, <1>2, QuietStep DEF others, Calmer, Shape

LEMMA SameShape ==
    ASSUME LadderInv
    PROVE  /\ Shape /\ StreamInv /\ LogInv /\ Naming
           /\ det' = det => Calmer
           /\ log' = log => LogKeeps
           /\ client' = client =>
                /\ client' \in ClientShape /\ client'.report = client.report
                /\ client'.report \subseteq client.report \cup Episodes(log)
BY LogSame DEF LadderInv, LogInv, Shape, Calmer

\* The provider opens a session without having spoken.
LEMMA SessionStartStep == ASSUME LadderInv, SessionStart PROVE LadderInv'
<1>1. ~Spoke /\ det' = det /\ aiTurn' = aiTurn
    BY DEF SessionStart, LadderInv, LogInv, Naming, Spoke
<1>2. UNCHANGED <<others, speech, wire>> /\ Goto("idle") /\ log' = log /\ client' = client
    BY <1>1 DEF SessionStart, others
<1> QED
    BY <1>1, <1>2, SameShape, ReaderStep

LEMMA UserSpeechStartStep == ASSUME LadderInv, UserSpeechStart PROVE LadderInv'
<1>1. UNCHANGED <<others, speech, wire>> /\ Goto("start") /\ log' = log /\ client' = client
      /\ det' = det
    BY DEF UserSpeechStart, others
<1> QED
    BY <1>1, SameShape, ReaderStep

LEMMA UserSpeechStartHeardStep == ASSUME LadderInv, UserSpeechStartHeard PROVE LadderInv'
<1>1. UNCHANGED <<others, speech, wire>> /\ Goto("idle") /\ log' = log /\ client' = client
    BY DEF UserSpeechStartHeard, others
<1>2. Calmer
    BY SameShape, Starts DEF UserSpeechStartHeard
<1> QED
    BY <1>1, <1>2, SameShape, ReaderStep

LEMMA ClientTurnAbortStep == ASSUME LadderInv, ClientTurnAbort PROVE LadderInv'
<1>1. UNCHANGED <<others, speech, wire>> /\ Goto("abort") /\ log' = log /\ client' = client
      /\ det' = det
    BY DEF ClientTurnAbort, others
<1> QED
    BY <1>1, SameShape, ReaderStep

LEMMA ClientTurnAbortHeardStep == ASSUME LadderInv, ClientTurnAbortHeard PROVE LadderInv'
<1>1. UNCHANGED <<others, speech, wire>> /\ Goto("idle") /\ log' = log /\ client' = client
    BY DEF ClientTurnAbortHeard, others
<1>2. Calmer
    BY SameShape, Ends DEF ClientTurnAbortHeard
<1> QED
    BY <1>1, <1>2, SameShape, ReaderStep

LEMMA SessionEndStep == ASSUME LadderInv, SessionEnd PROVE LadderInv'
<1>1. UNCHANGED <<others, speech, wire>> /\ Goto("ending") /\ log' = log /\ client' = client
      /\ det' = det
    BY DEF SessionEnd, others
<1> QED
    BY <1>1, SameShape, ReaderStep

LEMMA LoopExitsStep == ASSUME LadderInv, LoopExits PROVE LadderInv'
<1>1. UNCHANGED <<others, speech, wire>> /\ Goto("closing") /\ log' = log /\ client' = client
      /\ det' = det
    BY DEF LoopExits, others
<1> QED
    BY <1>1, SameShape, ReaderStep

LEMMA PersistSessionStep ==
    ASSUME LadderInv, NEW ok \in BOOLEAN, PersistSession(ok)
    PROVE  LadderInv'
<1>1. UNCHANGED <<others, speech, wire>> /\ det' = det /\ log' = Sealed(log)
    BY DEF PersistSession, others
<1>2. LogKeeps
    BY <1>1, SameShape, Seals
<1>3. CASE ok
    <2>1. Goto("closing") /\ client' = [Report EXCEPT !.up = FALSE]
        BY <1>3 DEF PersistSession
    <2>2. client' \in ClientShape /\ client'.report = Episodes(log)
        BY <2>1, SameShape, Reports
    <2> QED
        BY <1>1, <1>2, <2>1, <2>2, SameShape, ReaderStep
<1>4. CASE ~ok
    <2>1. Goto("idle") /\ client' = client
        BY <1>4 DEF PersistSession
    <2> QED
        BY <1>1, <1>2, <2>1, SameShape, ReaderStep
<1> QED
    BY <1>3, <1>4

LEMMA persistOnExitStep ==
    ASSUME LadderInv, NEW ok \in BOOLEAN, persistOnExit(ok)
    PROVE  LadderInv'
<1>1. UNCHANGED <<others, speech, wire>> /\ det' = det /\ Goto("closed")
    BY DEF persistOnExit, others
<1>2. log' = log \/ log' = Sealed(log)
    BY DEF persistOnExit
<1>3. LogKeeps
    BY <1>2, SameShape, Seals
<1>4. client' = client \/ client' = Report
    BY DEF persistOnExit
<1>5. /\ client' \in ClientShape
      /\ client'.report \subseteq client.report \cup Episodes(log)
    BY <1>4, SameShape, Reports
<1> QED
    BY <1>1, <1>3, <1>5, SameShape, ReaderStep

LEMMA ClientGoneStep == ASSUME LadderInv, ClientGone PROVE LadderInv'
<1>1. UNCHANGED <<aiTurn, rung, collect, seq, turn, det, log, speech, reader, wire>>
    BY DEF ClientGone, others
<1>2. client' \in ClientShape /\ client'.report = client.report
    BY SameShape, HangsUp DEF ClientGone
<1>3. Naming'
    BY <1>1, SameShape DEF Naming
<1> QED
    BY <1>1, <1>2, <1>3, SameShape, QuietStep DEF Shape

LEMMA TickStep == ASSUME LadderInv, Tick PROVE LadderInv'
<1>1. UNCHANGED <<aiTurn, rung, collect, seq, turn, client, log, speech, reader, wire>>
    BY DEF Tick
<1>2. Calmer
    BY SameShape, Ages
<1>3. Naming'
    BY <1>1, <1>2, SameShape DEF Naming, Calmer
<1> QED
    BY <1>1, <1>2, <1>3, SameShape, QuietStep DEF Shape, Calmer

LEMMA UserSpeechEndStep ==
    ASSUME LadderInv, NEW said \in Says, UserSpeechEnd(said)
    PROVE  LadderInv'
<1>1. PICK name \in Turns : name = client.ended + 1
    BY SameShape, ClientType, LadderAssumption DEF UserSpeechEnd, Turns
<1>2. /\ UNCHANGED <<aiTurn, rung, collect, seq, det, log, speech, wire>>
      /\ reader' = [pc |-> "end", said |-> said, name |-> name, ref |-> 0]
      /\ client' = [client EXCEPT !.ended = name, !.owed = @ \cup {name}]
    BY <1>1 DEF UserSpeechEnd, others
<1>3. client' \in ClientShape /\ client'.report = client.report
    BY <1>2, SameShape, Utters
<1>4. reader' \in ReaderShape /\ reader'.pc = "end" /\ reader'.name = name
    BY <1>2, Numbers, LadderAssumption DEF ReaderShape
<1>5. Naming'
    BY <1>2, <1>4, SameShape DEF Naming
<1> QED
    BY <1>2, <1>3, <1>4, <1>5, SameShape, QuietStep DEF Shape

LEMMA UserSpeechEndHeardStep == ASSUME LadderInv, UserSpeechEndHeard PROVE LadderInv'
<1>1. /\ UNCHANGED <<aiTurn, rung, collect, seq, turn, log, speech, wire, client>>
      /\ Goto("stop") /\ reader.pc = "end"
    BY DEF UserSpeechEndHeard, others
<1>2. Calmer
    BY SameShape, Ends DEF UserSpeechEndHeard
<1>3. reader' \in ReaderShape /\ reader'.pc = "stop" /\ reader'.name = reader.name
    BY <1>1, SameShape, Reads
<1>4. Naming'
    BY <1>1, <1>2, <1>3, SameShape DEF Naming, Calmer
<1> QED
    BY <1>1, <1>2, <1>3, <1>4, SameShape, QuietStep DEF Shape, Calmer

LEMMA StartCollectTurnStep == ASSUME LadderInv, StartCollectTurn PROVE LadderInv'
<1>1. /\ UNCHANGED <<turn, det, aiTurn, speech, rung, seq, wire, client>>
      /\ reader' = IdleReader /\ reader.pc = "note"
    BY DEF StartCollectTurn
<1>2. LogKeeps
    BY SameShape, NotesIncomplete DEF StartCollectTurn
<1>3. reader' \in ReaderShape /\ reader'.pc = "idle"
    BY <1>1, Numbers DEF IdleReader, ReaderShape
<1>4. reader.name \in Turns
    BY <1>1, SameShape DEF Naming
<1>5. /\ (collect' \in Collect /\ collect'.pc \notin {"close", "open"}) \/ collect' = collect
      /\ collect'.pc # "idle" => collect'.name \in Turns
    <2>1. CASE collect.pc # "idle"
        <3>1. collect' = collect
            BY <2>1 DEF StartCollectTurn
        <3> QED
            BY <2>1, <3>1, SameShape DEF Naming, Shape
    <2>2. CASE collect.pc = "idle"
        <3>1. PICK b \in BOOLEAN : b = (reader.said # "nothing")
            OBVIOUS
        <3>2. collect' = [IdleCollect EXCEPT !.pc = "wait", !.name = reader.name, !.said = b]
            BY <2>2, <3>1 DEF StartCollectTurn
        <3>3. reader.name \in Names
            BY <1>4, Numbers
        <3>4. \A c \in Collect :
                [c EXCEPT !.pc = "wait", !.name = reader.name, !.said = b] \in Collect
            BY <3>3 DEF Collect
        <3>5. collect' \in Collect
            BY <3>2, <3>4, IdleCollectType
        <3>6. collect'.pc = "wait" /\ collect'.name = reader.name
            BY <3>2, IdleCollectType DEF Collect
        <3> QED
            BY <1>4, <3>5, <3>6
    <2> QED
        BY <2>1, <2>2
<1>6. collect' \in Collect
    BY <1>5, SameShape DEF Shape
<1>7. Naming'
    BY <1>1, <1>3, <1>5, SameShape DEF Naming
<1> QED
    BY <1>1, <1>2, <1>3, <1>6, <1>7, SameShape, QuietStep DEF Shape

\* The stop bumps the generation: no rung is current, until one is begun with a later stream.
LEMMA stopRescueSpeechStep == ASSUME LadderInv, stopRescueSpeech PROVE LadderInv'
<1>0. /\ UNCHANGED <<aiTurn, rung, collect, seq, turn, det, log, wire, client>>
      /\ reader.pc = "stop"
    BY DEF stopRescueSpeech, others
<1>1. CASE speech.turn = NoTurn
    <2>1. Goto("note") /\ speech' = speech
        BY <1>1 DEF stopRescueSpeech
    <2>2. reader' \in ReaderShape /\ reader'.pc = "note" /\ reader'.name = reader.name
        BY <2>1, SameShape, Reads
    <2>3. Naming'
        BY <1>0, <2>2, SameShape DEF Naming
    <2> QED
        BY <1>0, <2>1, <2>2, <2>3, SameShape, QuietStep DEF Shape
<1>2. CASE speech.turn # NoTurn
    <2>1. /\ speech' = [gen |-> speech.gen + 1, turn |-> NoTurn, ref |-> 0]
          /\ reader' = [reader EXCEPT !.pc = "interrupt", !.ref = speech.ref]
        BY <1>2 DEF stopRescueSpeech
    <2>2. /\ speech.gen \in Nat /\ speech.ref \in Nat /\ seq.ref \in Nat
          /\ speech.ref <= seq.ref /\ reader \in ReaderShape
        BY SameShape DEF Shape, StreamInv
    <2>3. reader' \in ReaderShape
        BY <2>1, <2>2 DEF ReaderShape
    <2>4. reader'.pc = "interrupt" /\ reader'.ref = speech.ref /\ reader'.name = reader.name
        BY <2>1, <2>2 DEF ReaderShape
    <2>5. /\ speech' \in [gen : Nat, turn : Names, ref : Nat] /\ speech'.gen = speech.gen + 1
          /\ speech'.ref = 0
        BY <2>1, <2>2, Numbers
    <2>6. Shape'
        BY <1>0, <2>3, <2>5, SameShape DEF Shape
    <2>7. Naming'
        BY <1>0, <2>4, SameShape DEF Naming
    <2>8. LogInv'
        BY <1>0, <2>7, SameShape, LogQuiet
    <2>9. StreamInv'
        <3>1. \A s \in Slots : Speaking(s)' =>
                Speaking(s) /\ Owned(s) /\ rung[s].token \in Nat /\ ~Current(s)'
            BY <1>0, <2>2, <2>5, SameShape, RungType DEF StreamInv, Speaking, Owned, Current
        <3>2. ASSUME NEW s \in Slots, Speaking(s)' PROVE Owned(s)'
            <4>1. Speaking(s) /\ Owned(s) /\ rung[s].token \in Nat /\ ~Current(s)'
                BY <3>1, <3>2
            <4>2. rung'[s].ref \in 1 .. seq'.ref /\ rung'[s].token <= speech'.gen
                BY <1>0, <2>2, <2>5, <4>1 DEF Owned
            <4> QED
                BY <1>0, <3>1, <4>1, <4>2 DEF Owned
        <3> QED
            BY <1>0, <2>2, <2>4, <2>5, <3>1, <3>2, SameShape DEF StreamInv
    <2> QED
        BY <2>6, <2>8, <2>9 DEF LadderInv
<1> QED
    BY <1>1, <1>2

\* The end it sends is for a stream that no current rung owns.
LEMMA StopSendsStep == ASSUME LadderInv, StopSends PROVE LadderInv'
<1>0. /\ UNCHANGED <<aiTurn, rung, collect, seq, turn, det, log, speech, client>>
      /\ reader.pc = "interrupt" /\ Goto("note")
    BY DEF StopSends, others
<1>1. reader' \in ReaderShape /\ reader'.pc = "note" /\ reader'.name = reader.name
    BY <1>0, SameShape, Reads
<1>2. reader.ref \in Nat
    BY SameShape DEF Shape, ReaderShape
<1>3. /\ wire' \in WireShape /\ wire'.rungs = wire.rungs
      /\ \A r \in 1 .. MaxRungs :
           /\ wire'.stream[r].late = wire.stream[r].late
           /\ r # reader.ref => wire'.stream[r].ends = wire.stream[r].ends
    <2>1. CASE wire' = wire
        BY <2>1, SameShape, WireType
    <2>2. CASE SendEnd(reader.ref)
        BY <1>2, <2>2, SameShape, SendsEnd
    <2> QED
        BY <2>1, <2>2 DEF StopSends
<1>4. Shape'
    BY <1>0, <1>1, <1>3, SameShape DEF Shape
<1>5. Naming'
    BY <1>0, <1>1, SameShape DEF Naming
<1>6. LogInv'
    BY <1>0, <1>3, <1>5, SameShape, LogQuiet
<1>7. StreamInv'
    <2>1. \A s \in Slots : /\ Speaking(s)' <=> Speaking(s)
                           /\ Current(s)' <=> Current(s)
        BY <1>0 DEF Speaking, Current
    <2>2. ASSUME NEW s \in Slots, Speaking(s)' PROVE Owned(s)'
        <3>1. Owned(s) /\ rung[s].ref \in Nat /\ rung[s].ref \in 1 .. seq.ref /\ seq.ref \in Nat
            BY <2>1, <2>2, SameShape, RungType DEF StreamInv, Owned, Shape
        <3>2. Current(s) => rung[s].ref > reader.ref
            BY <1>0, <2>1, <2>2, SameShape DEF StreamInv
        <3>3. rung[s].ref <= MaxRungs =>
                /\ wire'.stream[rung[s].ref].late = wire.stream[rung[s].ref].late
                /\ Current(s) => wire'.stream[rung[s].ref].ends = wire.stream[rung[s].ref].ends
            BY <1>2, <1>3, <3>1, <3>2, LadderAssumption
        <3> QED
            BY <1>0, <2>1, <3>1, <3>3 DEF Owned
    <2>3. \A r \in 1 .. MaxRungs :
            /\ wire'.stream[r].late <= 1
            /\ r > seq.ref => wire'.stream[r].ends = 0 /\ wire'.stream[r].late = 0
        <3>1. reader.ref <= seq.ref /\ seq.ref \in Nat
            BY <1>0, SameShape DEF StreamInv, Shape
        <3> QED
            BY <1>2, <1>3, <3>1, SameShape DEF StreamInv
    <2> QED
        BY <1>0, <1>1, <2>2, <2>3, SameShape DEF StreamInv
<1> QED
    BY <1>4, <1>6, <1>7 DEF LadderInv

-----------------------------------------------------------------------------
(* The poller and the client's request *)

LEMMA LaunchStep ==
    ASSUME LadderInv, NEW s \in Slots, NEW level \in Levels, NEW auto \in BOOLEAN,
           FreeSlot(s), Launch(s, level, auto), Calmer, det.open,
           client' = [client EXCEPT !.rungs = @ + 1],
           UNCHANGED <<turn, aiTurn, log, speech, reader, collect, seq, wire>>
    PROVE  LadderInv'
<1>1. Climbs(s, "gen", level, NoTurn, 0, 0)
    BY SameShape, Launches
<1>2. client' \in ClientShape /\ client'.report = client.report
    BY SameShape, CountsRung DEF FreeSlot
<1>3. aiTurn # NoTurn
    BY SameShape DEF Naming
<1>4. Shape'
    BY <1>1, <1>2, SameShape DEF Shape, Climbs, Calmer
<1>5. StreamInv'
    <2>1. speech.ref <= seq.ref
        BY SameShape DEF StreamInv
    <2> QED
        BY <1>1, <2>1, SameShape, StreamLeaves
<1>6. LogInv'
    BY <1>1, <1>2, <1>3, SameShape, LogClimbs DEF FreeSlot, Calmer
<1> QED
    BY <1>4, <1>5, <1>6 DEF LadderInv

LEMMA checkRescueStep ==
    ASSUME LadderInv, NEW s \in Slots, checkRescue(s)
    PROVE  LadderInv'
<1>1. Due # {} /\ Min(Due) \in Levels
    BY LeastDue DEF checkRescue, PollDue
<1>2. det.open
    BY <1>1 DEF Due, HasFloor
<1>3. Calmer
    BY <1>1, SameShape, Checks DEF checkRescue
<1> QED
    BY <1>1, <1>2, <1>3, LaunchStep DEF checkRescue

LEMMA requestRescueStep ==
    ASSUME LadderInv, NEW s \in Slots, requestRescue(s)
    PROVE  LadderInv'
<1>1. RequestedLevel \in Levels
    BY SameShape, RequestedType
<1>2. det.open
    BY DEF requestRescue, HasFloor
<1>3. Calmer
    BY SameShape, Requests DEF requestRescue
<1> QED
    BY <1>1, <1>2, <1>3, LaunchStep DEF requestRescue

-----------------------------------------------------------------------------
(* A rung, from its text to the end of its audio *)

LEMMA ReturnStep ==
    ASSUME LadderInv, NEW s \in Slots, RDone(s), rung[s].pc # "note",
           UNCHANGED <<turn, det, aiTurn, log, speech, reader, collect, seq, wire, client>>
    PROVE  LadderInv'
<1>1. Climbs(s, "idle", 0, NoTurn, 0, 0)
    BY SameShape, Returns
<1>2. Shape'
    BY <1>1, SameShape DEF Shape, Climbs
<1>3. StreamInv'
    <2>1. speech.ref <= seq.ref
        BY SameShape DEF StreamInv
    <2> QED
        BY <1>1, <2>1, SameShape, StreamLeaves
<1>4. LogInv'
    BY SameShape, LogReturns
<1> QED
    BY <1>2, <1>3, <1>4 DEF LadderInv

LEMMA rescueSnapshotStep ==
    ASSUME LadderInv, NEW s \in Slots, rescueSnapshot(s)
    PROVE  LadderInv'
<1>0. UNCHANGED <<turn, det, aiTurn, log, speech, reader, collect, seq, wire, client>>
      /\ rung[s].pc = "gen"
    BY DEF rescueSnapshot
<1>1. /\ aiTurn # NoTurn /\ aiTurn \in Replies /\ rung[s].level \in Levels
    BY <1>0, SameShape DEF LogInv, Named, Naming
<1>2. rung' = [rung EXCEPT ![s].pc = "deliver", ![s].turn = aiTurn]
    BY <1>1 DEF rescueSnapshot
<1>3. Climbs(s, "deliver", rung[s].level, aiTurn, rung[s].token, rung[s].ref)
    BY <1>1, <1>2, SameShape, GoesFor, Numbers DEF RungPCs
<1>4. Shape'
    BY <1>0, <1>3, SameShape DEF Shape, Climbs
<1>5. StreamInv'
    <2>1. speech.ref <= seq.ref
        BY SameShape DEF StreamInv
    <2> QED
        BY <1>0, <1>3, <2>1, SameShape, StreamLeaves
<1>6. LogInv'
    BY <1>0, <1>1, <1>3, SameShape, LogClimbs
<1> QED
    BY <1>4, <1>5, <1>6 DEF LadderInv

LEMMA DeliverTextStep ==
    ASSUME LadderInv, NEW s \in Slots, DeliverText(s)
    PROVE  LadderInv'
<1>0. UNCHANGED <<turn, det, aiTurn, log, speech, reader, collect, seq, client>>
      /\ rung[s].pc = "deliver"
    BY DEF DeliverText
<1>1. CASE ~client.up
    <2>1. RDone(s) /\ wire' = wire
        BY <1>1 DEF DeliverText
    <2> QED
        BY <1>0, <2>1, ReturnStep
<1>2. CASE client.up
    <2>1. /\ rung[s].level \in Levels /\ rung[s].turn \in Replies \cup {NoTurn}
          /\ rung[s].turn \in Names /\ aiTurn # NoTurn
        BY <1>0, SameShape, RungType DEF LogInv, Named
    <2>2. PICK d \in Names \X Levels :
            d = <<rung[s].turn, rung[s].level>> /\ d[2] = rung[s].level
        <3>1. \A n \in Names, l \in Levels : <<n, l>> \in Names \X Levels /\ <<n, l>>[2] = l
            OBVIOUS
        <3>2. <<rung[s].turn, rung[s].level>> \in Names \X Levels
            BY <2>1, <3>1
        <3>3. <<rung[s].turn, rung[s].level>>[2] = rung[s].level
            BY <2>1, <3>1
        <3> QED
            BY <3>2, <3>3
    <2>3. wire' = [wire EXCEPT !.rungs = @ \cup {d}] /\ RGoto(s, "note")
        BY <1>2, <2>2 DEF DeliverText
    <2>4. /\ wire' \in WireShape /\ wire'.rungs = wire.rungs \cup {d}
          /\ wire'.stream = wire.stream
        BY <2>3, SameShape, Shows
    <2>5. Climbs(s, "note", rung[s].level, rung[s].turn, rung[s].token, rung[s].ref)
        BY <2>3, SameShape, Goes DEF RungPCs
    <2>6. Shape'
        BY <1>0, <2>4, <2>5, SameShape DEF Shape, Climbs
    <2>7. StreamInv'
        <3>1. speech.ref <= seq.ref
            BY SameShape DEF StreamInv
        <3> QED
            BY <1>0, <2>4, <2>5, <3>1, SameShape, StreamLeaves
    <2>8. LogInv'
        <3>1. /\ wire.rungs \subseteq wire'.rungs
              /\ \A x \in wire'.rungs \ wire.rungs : "note" = "note" /\ rung[s].level = x[2]
              /\ <<rung[s].turn, rung[s].level>> \in wire'.rungs
            BY <2>2, <2>4
        <3> QED
            BY <1>0, <2>1, <2>5, <3>1, SameShape, LogClimbs
    <2> QED
        BY <2>6, <2>7, <2>8 DEF LadderInv
<1> QED
    BY <1>1, <1>2

\* What was shown is noted: the stuck point it opens or raises covers it from now on.
LEMMA NoteLadderStep ==
    ASSUME LadderInv, NEW s \in Slots, NoteLadder(s)
    PROVE  LadderInv'
<1>0. UNCHANGED <<turn, det, aiTurn, speech, reader, collect, seq, wire, client>>
      /\ rung[s].pc = "note" /\ RGoto(s, "synth") /\ noteLadder(rung[s].turn, rung[s].level)
    BY DEF NoteLadder
<1>1. PICK level \in Levels : level = rung[s].level
    BY <1>0, SameShape DEF LogInv, Named
<1>2. PICK name \in Names : name = rung[s].turn
    BY SameShape, RungType
<1>3. Climbs(s, "synth", level, name, rung[s].token, rung[s].ref)
    BY <1>0, <1>1, <1>2, SameShape, Goes DEF RungPCs
<1>4. /\ log' \in LogShape /\ IsFiniteSet(log'.sealed)
      /\ \A e \in Episodes(log) : \E f \in Episodes(log)' : f.level >= e.level
      /\ \E f \in Episodes(log)' : f.level >= level
      /\ \A f \in Episodes(log)' :
           /\ f.level = level \/ \E e \in Episodes(log) : f.level = e.level
           /\ f.turn = name \/ \E e \in Episodes(log) : f.turn = e.turn
    BY <1>0, <1>1, <1>2, SameShape, NotesLadder
<1>5. Shape'
    BY <1>0, <1>3, <1>4, SameShape DEF Shape, Climbs
<1>6. StreamInv'
    <2>1. speech.ref <= seq.ref
        BY SameShape DEF StreamInv
    <2> QED
        BY <1>0, <1>3, <2>1, SameShape, StreamLeaves
<1>7. ASSUME NEW f \in Episodes(log)' \cup client'.report PROVE Delivered(f)'
    <2>1. <<name, level>> \in wire.rungs /\ name \in Names /\ level \in Levels
        BY <1>0, <1>1, <1>2, SameShape DEF LogInv, Named
    <2>2. CASE f \in client'.report
        BY <1>0, <2>2, SameShape DEF LogInv, Delivered
    <2>3. CASE f \in Episodes(log)'
        <3>1. \E n \in Names : <<n, f.level>> \in wire.rungs
            <4>1. CASE f.level = level
                BY <2>1, <4>1
            <4>2. CASE \E e \in Episodes(log) : f.level = e.level
                BY <4>2, SameShape DEF LogInv, Delivered
            <4> QED
                BY <1>4, <2>3, <4>1, <4>2
        <3>2. \E l \in Levels : <<f.turn, l>> \in wire.rungs
            <4>1. CASE f.turn = name
                BY <2>1, <4>1
            <4>2. CASE \E e \in Episodes(log) : f.turn = e.turn
                BY <4>2, SameShape DEF LogInv, Delivered
            <4> QED
                BY <1>4, <2>3, <4>1, <4>2
        <3> QED
            BY <1>0, <3>1, <3>2 DEF Delivered
    <2> QED
        BY <2>2, <2>3
<1>8. ASSUME NEW d \in wire'.rungs PROVE Covered(d)'
    <2>0. d \in wire.rungs /\ d[2] \in 1 .. 3
        BY <1>0, <1>8, SameShape, WireType DEF Levels
    <2>1. \A f \in Episodes(log)' : f.level \in 1 .. 3
        <3>1. \A g \in Episodes(log) : g.level \in 1 .. 3
            BY SameShape, LogType DEF Point, Levels
        <3> QED
            BY <1>4, <3>1 DEF Levels
    <2>2. CASE \E e \in Episodes(log) : e.level >= d[2]
        <3>1. PICK e \in Episodes(log) : e.level >= d[2]
            BY <2>2
        <3>2. PICK f \in Episodes(log)' : f.level >= e.level
            BY <1>4
        <3>3. e.level \in 1 .. 3
            BY SameShape, LogType DEF Point, Levels
        <3>4. f.level >= d[2]
            BY <2>0, <2>1, <3>1, <3>2, <3>3
        <3> QED
            BY <3>4 DEF Covered
    <2>3. CASE level = d[2]
        BY <1>4, <2>3 DEF Covered
    <2>4. CASE \E t \in Slots : t # s /\ rung[t].pc = "note" /\ rung[t].level = d[2]
        BY <1>3, <2>4 DEF Covered, Climbs
    <2>5. Covered(d)
        BY <2>0, SameShape DEF LogInv
    <2> QED
        BY <1>1, <2>2, <2>3, <2>4, <2>5 DEF Covered
<1>9. ASSUME NEW t \in Slots PROVE Named(t)'
    <2>1. Named(t) /\ aiTurn' = aiTurn /\ wire' = wire
        BY <1>0, SameShape DEF LogInv
    <2>2. CASE t = s
        <3>1. /\ rung'[t].pc = "synth" /\ rung'[t].level = rung[t].level
              /\ rung'[t].turn = rung[t].turn /\ rung[t].pc = "note"
            BY <1>0, <1>1, <1>2, <1>3, <2>2 DEF Climbs
        <3> QED
            BY <2>1, <3>1 DEF Named
    <2>3. CASE t # s
        <3>1. rung'[t] = rung[t]
            BY <1>3, <2>3 DEF Climbs
        <3> QED
            BY <2>1, <3>1 DEF Named
    <2> QED
        BY <2>2, <2>3
<1>10. LogInv'
    <2>1. Naming'
        BY <1>0, SameShape DEF Naming
    <2> QED
        BY <1>7, <1>8, <1>9, <2>1 DEF LogInv
<1> QED
    BY <1>5, <1>6, <1>10 DEF LadderInv

\* The new rung's token and stream are later than every other's: it alone is current.
LEMMA beginRescueSpeechStep ==
    ASSUME LadderInv, NEW s \in Slots, NEW spoken \in BOOLEAN, beginRescueSpeech(s, spoken)
    PROVE  LadderInv'
<1>0. UNCHANGED <<turn, det, aiTurn, log, reader, collect, wire, client>> /\ rung[s].pc = "synth"
    BY DEF beginRescueSpeech
<1>1. /\ speech.gen \in Nat /\ seq \in [audio : Nat, ref : Nat] /\ seq.ref \in Nat
      /\ rung[s].turn \in Names /\ speech.ref \in Nat /\ reader.ref \in Nat
    BY SameShape, RungType DEF Shape, ReaderShape
<1>2. PICK token \in Nat : token = speech.gen + 1
    BY <1>1
<1>3. PICK ref \in Nat : ref = seq.ref + 1
    BY <1>1
<1>4. seq' \in [audio : Nat, ref : Nat] /\ seq'.ref = ref
    BY <1>1, <1>3 DEF beginRescueSpeech
<1>5. /\ speech' \in [gen : Nat, turn : Names, ref : Nat] /\ speech'.gen = token
      /\ speech'.ref = ref
    BY <1>1, <1>2, <1>3 DEF beginRescueSpeech
<1>6. \/ Climbs(s, "start", rung[s].level, rung[s].turn, token, ref)
      \/ RDone(s) /\ Climbs(s, "idle", 0, NoTurn, 0, 0)
    <2>1. CASE spoken
        <3>1. rung' = [rung EXCEPT ![s].pc = "start", ![s].token = token, ![s].ref = ref]
            BY <1>2, <1>3, <2>1 DEF beginRescueSpeech
        <3> QED
            BY <3>1, SameShape, GoesWith DEF RungPCs
    <2>2. CASE ~spoken
        BY <2>2, SameShape, Returns DEF beginRescueSpeech
    <2> QED
        BY <2>1, <2>2
<1>7. Shape'
    BY <1>0, <1>4, <1>5, <1>6, SameShape DEF Shape, Climbs
<1>8. LogInv'
    <2>1. CASE RDone(s)
        BY <1>0, <2>1, SameShape, LogReturns
    <2>2. CASE Climbs(s, "start", rung[s].level, rung[s].turn, token, ref)
        BY <1>0, <2>2, SameShape, LogGoes
    <2> QED
        BY <1>6, <2>1, <2>2
<1>9. StreamInv'
    <2>1. \A t \in Slots : t # s /\ Speaking(t)' =>
            /\ Speaking(t) /\ Owned(t) /\ rung'[t] = rung[t]
            /\ rung[t].token \in Nat /\ rung[t].ref \in Nat
            /\ rung[t].token < token /\ rung[t].ref < ref /\ rung[t].ref \in 1 .. seq.ref
            /\ ~Current(t)'
        <3> SUFFICES ASSUME NEW t \in Slots, t # s, Speaking(t)'
                     PROVE  /\ Speaking(t) /\ Owned(t) /\ rung'[t] = rung[t]
                            /\ rung[t].token \in Nat /\ rung[t].ref \in Nat
                            /\ rung[t].token < token /\ rung[t].ref < ref
                            /\ rung[t].ref \in 1 .. seq.ref
                            /\ ~Current(t)'
            OBVIOUS
        <3>1. rung'[t] = rung[t]
            BY <1>6 DEF Climbs
        <3>2. Speaking(t) /\ Owned(t)
            BY <3>1, SameShape DEF Speaking, StreamInv
        <3>3. rung[t].token \in Nat /\ rung[t].ref \in Nat
            BY SameShape, RungType
        <3>4. rung[t].token <= speech.gen /\ rung[t].ref \in 1 .. seq.ref
            BY <3>2 DEF Owned
        <3>5. rung[t].token < token /\ rung[t].ref < ref
            BY <1>1, <1>2, <1>3, <3>3, <3>4
        <3> QED
            BY <1>2, <1>5, <3>1, <3>2, <3>3, <3>4, <3>5 DEF Current
    <2>2. Speaking(s)' => rung'[s].pc = "start" /\ rung'[s].token = token /\ rung'[s].ref = ref
        BY <1>6 DEF Climbs, Speaking
    <2>3. ASSUME NEW t \in Slots, t # s, Speaking(t)' PROVE Owned(t)'
        <3>1. /\ Speaking(t) /\ Owned(t) /\ rung'[t] = rung[t] /\ ~Current(t)'
              /\ rung[t].token < token /\ rung[t].ref < ref /\ rung[t].ref \in 1 .. seq.ref
              /\ rung[t].token \in Nat /\ rung[t].ref \in Nat
            BY <2>1, <2>3
        <3>2. rung'[t].ref \in 1 .. seq'.ref /\ rung'[t].token <= speech'.gen
            BY <1>1, <1>3, <1>4, <1>5, <3>1
        <3>3. ASSUME NEW u \in Slots, u # t, Speaking(u)'
              PROVE  rung'[u].token # rung'[t].token /\ rung'[u].ref # rung'[t].ref
            <4>1. CASE u = s
                BY <2>2, <3>1, <3>3, <4>1
            <4>2. CASE u # s
                BY <2>1, <3>1, <3>3, <4>2 DEF Owned
            <4> QED
                BY <4>1, <4>2
        <3>4. rung'[t].ref <= MaxRungs =>
                (rung'[t].pc \in {"pace", "flush"} => wire'.stream[rung'[t].ref].late = 0)
            BY <1>0, <3>1 DEF Owned
        <3> QED
            BY <3>1, <3>2, <3>3, <3>4 DEF Owned
    <2>4. ASSUME Speaking(s)' PROVE Owned(s)'
        <3>1. rung'[s].pc = "start" /\ rung'[s].token = token /\ rung'[s].ref = ref
            BY <2>2, <2>4
        <3>2. rung'[s].ref \in 1 .. seq'.ref /\ rung'[s].token <= speech'.gen
            BY <1>1, <1>3, <1>4, <1>5, <3>1
        <3>3. ASSUME NEW u \in Slots, u # s, Speaking(u)'
              PROVE  rung'[u].token # rung'[s].token /\ rung'[u].ref # rung'[s].ref
            BY <2>1, <3>1, <3>3
        <3>4. ref <= MaxRungs => wire'.stream[ref].late = 0 /\ wire'.stream[ref].ends = 0
            <4>1. ref <= MaxRungs => ref \in 1 .. MaxRungs /\ ref > seq.ref
                BY <1>1, <1>3, LadderAssumption
            <4> QED
                BY <1>0, <4>1, SameShape DEF StreamInv
        <3> QED
            BY <3>1, <3>2, <3>3, <3>4 DEF Owned
    <2>5. \A t \in Slots : Speaking(t)' => Owned(t)'
        BY <2>3, <2>4
    <2>6. (reader.pc = "interrupt" =>
             /\ reader.ref <= seq.ref
             /\ \A t \in Slots : Speaking(t) /\ Current(t) => rung[t].ref > reader.ref)'
        <3> SUFFICES ASSUME reader'.pc = "interrupt"
                     PROVE  /\ reader'.ref <= seq'.ref
                            /\ \A t \in Slots : Speaking(t)' /\ Current(t)' =>
                                 rung'[t].ref > reader'.ref
            OBVIOUS
        <3>1. reader.ref <= seq.ref
            BY <1>0, SameShape DEF StreamInv
        <3>2. reader'.ref < ref
            BY <1>0, <1>1, <1>3, <3>1
        <3>3. \A t \in Slots : Speaking(t)' /\ Current(t)' => t = s
            BY <2>1
        <3> QED
            BY <1>0, <1>1, <1>4, <2>2, <3>2, <3>3
    <2>7. \A r \in 1 .. MaxRungs :
            /\ wire'.stream[r].late <= 1
            /\ r > seq'.ref => wire'.stream[r].ends = 0 /\ wire'.stream[r].late = 0
        <3>1. \A r \in 1 .. MaxRungs : r > ref => r > seq.ref
            BY <1>1, <1>3
        <3> QED
            BY <1>0, <1>4, <3>1, SameShape DEF StreamInv
    <2>8. speech'.ref <= seq'.ref
        BY <1>4, <1>5
    <2> QED
        BY <2>5, <2>6, <2>7, <2>8 DEF StreamInv
<1> QED
    BY <1>7, <1>8, <1>9 DEF LadderInv

\* A rung that speaks on, with what it has written to its own stream.
LEMMA SpeakStep ==
    ASSUME LadderInv, NEW s \in Slots,
           NEW pc \in {"start", "live", "pace", "check", "flush", "end", "finish"},
           Climbs(s, pc, rung[s].level, rung[s].turn, rung[s].token, rung[s].ref), Speaking(s),
           UNCHANGED <<turn, det, aiTurn, log, speech, reader, collect, client>>,
           seq' \in [audio : Nat, ref : Nat], seq'.ref = seq.ref,
           wire' \in WireShape, wire'.rungs = wire.rungs,
           \A r \in 1 .. MaxRungs :
             /\ wire'.stream[r].late <= 1
             /\ r # rung[s].ref => /\ wire'.stream[r].late = wire.stream[r].late
                                   /\ wire'.stream[r].ends = wire.stream[r].ends,
           rung[s].ref <= MaxRungs =>
             /\ pc \in {"pace", "flush"} => wire'.stream[rung[s].ref].late = 0
             /\ Current(s) => /\ wire'.stream[rung[s].ref].late = 0
                              /\ pc # "finish" => wire'.stream[rung[s].ref].ends = 0
    PROVE  LadderInv'
<1>1. Shape'
    BY SameShape DEF Shape, Climbs
<1>2. StreamInv'
    BY SameShape, StreamStays
<1>3. LogInv'
    <2>1. rung[s].pc \notin {"note", "idle"} /\ pc # "note"
        BY DEF Speaking
    <2> QED
        BY <2>1, SameShape, LogGoes
<1> QED
    BY <1>1, <1>2, <1>3 DEF LadderInv

\* What a speaking rung may rely on.
LEMMA SpeakerHas ==
    ASSUME LadderInv, NEW s \in Slots, Speaking(s)
    PROVE  /\ rung[s].ref \in Nat /\ rung[s].first \in Nat /\ rung[s].left \in Int
           /\ rung[s].ref <= MaxRungs =>
                /\ rung[s].ref \in 1 .. MaxRungs
                /\ rung[s].pc \in {"pace", "flush"} => wire.stream[rung[s].ref].late = 0
                /\ Current(s) => /\ wire.stream[rung[s].ref].late = 0
                                 /\ rung[s].pc # "finish" => wire.stream[rung[s].ref].ends = 0
           /\ \A r \in 1 .. MaxRungs : /\ wire.stream[r].late <= 1 /\ wire.stream[r].late \in Nat
                                       /\ wire.stream[r].ends \in Nat
<1>1. Owned(s) /\ rung[s].ref \in Nat /\ seq.ref \in Nat
    BY SameShape, RungType DEF StreamInv, Shape
<1>2. rung[s].ref <= MaxRungs => rung[s].ref \in 1 .. MaxRungs
    BY <1>1, LadderAssumption DEF Owned
<1> QED
    BY <1>1, <1>2, SameShape, RungType, WireType DEF Owned, StreamInv

LEMMA beginUtteranceStep ==
    ASSUME LadderInv, NEW s \in Slots, beginUtterance(s)
    PROVE  LadderInv'
<1>0. UNCHANGED <<turn, det, aiTurn, log, speech, reader, collect, client>>
      /\ rung[s].pc = "start" /\ Speaking(s)
    BY DEF beginUtterance, Speaking
<1>1. CASE ~client.up
    <2>1. RDone(s) /\ wire' = wire /\ seq' = seq
        BY <1>1 DEF beginUtterance
    <2> QED
        BY <1>0, <2>1, ReturnStep
<1>2. CASE client.up
    <2>0. seq \in [audio : Nat, ref : Nat] /\ seq.audio \in Nat
        BY SameShape DEF Shape
    <2>1. PICK first \in Nat : first = seq.audio + 1
        BY <2>0
    <2>2. PICK left \in Int : left = FrameCount
        BY LadderAssumption
    <2>3. rung' = [rung EXCEPT ![s].pc = "live", ![s].first = first, ![s].left = left]
        BY <1>2, <2>1, <2>2 DEF beginUtterance
    <2>4. Climbs(s, "live", rung[s].level, rung[s].turn, rung[s].token, rung[s].ref)
        BY <2>3, SameShape, GoesOn DEF RungPCs
    <2>5. seq' \in [audio : Nat, ref : Nat] /\ seq'.ref = seq.ref
        BY <1>2, <2>0, LadderAssumption DEF beginUtterance, Framed
    <2>6. /\ wire' \in WireShape /\ wire'.rungs = wire.rungs
          /\ \A r \in 1 .. MaxRungs :
               /\ wire'.stream[r].ends = wire.stream[r].ends
               /\ wire'.stream[r].late = wire.stream[r].late
        BY <1>0, <1>2, SpeakerHas, SameShape, StartsStream DEF beginUtterance
    <2> QED
        BY <1>0, <2>4, <2>5, <2>6, SpeakerHas, SpeakStep
<1> QED
    BY <1>1, <1>2

LEMMA CheckLiveStep ==
    ASSUME LadderInv, NEW s \in Slots, CheckLive(s)
    PROVE  LadderInv'
<1>0. UNCHANGED <<turn, det, aiTurn, log, speech, reader, collect, seq, wire, client>>
      /\ rung[s].pc = "live" /\ Speaking(s)
    BY DEF CheckLive, Speaking
<1>1. PICK pc \in {"pace", "check"} :
        /\ pc = IF Current(s) /\ rung[s].left > 0 THEN "pace" ELSE "check"
        /\ pc = "pace" => Current(s)
    OBVIOUS
<1>2. Climbs(s, pc, rung[s].level, rung[s].turn, rung[s].token, rung[s].ref)
    <2>1. RGoto(s, pc)
        BY <1>1 DEF CheckLive
    <2> QED
        BY <2>1, SameShape, Goes DEF RungPCs
<1> QED
    BY <1>0, <1>1, <1>2, SpeakerHas, SpeakStep, SameShape DEF Shape

LEMMA SendFrameStep ==
    ASSUME LadderInv, NEW s \in Slots, SendFrame(s)
    PROVE  LadderInv'
<1>0. UNCHANGED <<turn, det, aiTurn, log, speech, reader, collect, seq, client>>
      /\ rung[s].pc = "pace" /\ Speaking(s)
    BY DEF SendFrame, Speaking
<1>1. CASE ~client.up
    <2>1. RDone(s) /\ wire' = wire
        BY <1>1 DEF SendFrame
    <2> QED
        BY <1>0, <2>1, ReturnStep
<1>2. CASE client.up
    <2>1. PICK first \in Nat : first = rung[s].first + 1
        BY <1>0, SpeakerHas
    <2>2. PICK left \in Int : left = rung[s].left - 1
        BY <1>0, SpeakerHas
    <2>3. rung' = [rung EXCEPT ![s].pc = "live", ![s].first = first, ![s].left = left]
        BY <1>2, <2>1, <2>2 DEF SendFrame
    <2>4. Climbs(s, "live", rung[s].level, rung[s].turn, rung[s].token, rung[s].ref)
        BY <2>3, SameShape, GoesOn DEF RungPCs
    <2>5. /\ wire' \in WireShape /\ wire'.rungs = wire.rungs
          /\ \A r \in 1 .. MaxRungs :
                /\ wire'.stream[r].ends = wire.stream[r].ends
                /\ wire'.stream[r].late = IF r = rung[s].ref /\ wire.stream[r].ends > 0
                                          THEN wire.stream[r].late + 1 ELSE wire.stream[r].late
        BY <1>0, <1>2, SpeakerHas, SameShape, WritesAudio DEF SendFrame
    <2>6. \A r \in 1 .. MaxRungs : wire'.stream[r].late <= 1
        BY <1>0, <2>5, SpeakerHas
    <2>7. rung[s].ref <= MaxRungs /\ Current(s) =>
            wire'.stream[rung[s].ref].late = 0 /\ wire'.stream[rung[s].ref].ends = 0
        BY <1>0, <2>5, SpeakerHas
    <2> QED
        BY <1>0, <2>4, <2>5, <2>6, <2>7, SpeakStep, SameShape DEF Shape
<1> QED
    BY <1>1, <1>2

LEMMA rescueSpeechCurrentStep ==
    ASSUME LadderInv, NEW s \in Slots, rescueSpeechCurrent(s)
    PROVE  LadderInv'
<1>0. UNCHANGED <<turn, det, aiTurn, log, speech, reader, collect, seq, wire, client>>
      /\ rung[s].pc = "check" /\ Speaking(s)
    BY DEF rescueSpeechCurrent, Speaking
<1>1. CASE ~Current(s)
    BY <1>0, <1>1, ReturnStep DEF rescueSpeechCurrent
<1>2. CASE Current(s)
    <2>1. Climbs(s, "flush", rung[s].level, rung[s].turn, rung[s].token, rung[s].ref)
        BY <1>2, SameShape, Goes DEF RungPCs, rescueSpeechCurrent
    <2> QED
        BY <1>0, <1>2, <2>1, SpeakerHas, SpeakStep, SameShape DEF Shape
<1> QED
    BY <1>1, <1>2

LEMMA FlushTailStep ==
    ASSUME LadderInv, NEW s \in Slots, FlushTail(s)
    PROVE  LadderInv'
<1>0. UNCHANGED <<turn, det, aiTurn, log, speech, reader, collect, client>>
      /\ rung[s].pc = "flush" /\ Speaking(s)
    BY DEF FlushTail, Speaking
<1>1. Climbs(s, "end", rung[s].level, rung[s].turn, rung[s].token, rung[s].ref)
    BY SameShape, Goes DEF RungPCs, FlushTail
<1>2. CASE Tail /\ client.up
    <2>0. seq \in [audio : Nat, ref : Nat] /\ seq.audio \in Nat
        BY SameShape DEF Shape
    <2>1. seq' \in [audio : Nat, ref : Nat] /\ seq'.ref = seq.ref
        BY <1>2, <2>0 DEF FlushTail
    <2>2. PICK number \in Nat : number = seq.audio + 1
        BY <2>0
    <2>3. /\ wire' \in WireShape /\ wire'.rungs = wire.rungs
          /\ \A r \in 1 .. MaxRungs :
                /\ wire'.stream[r].ends = wire.stream[r].ends
                /\ wire'.stream[r].late = IF r = rung[s].ref /\ wire.stream[r].ends > 0
                                          THEN wire.stream[r].late + 1 ELSE wire.stream[r].late
        BY <1>0, <1>2, <2>2, SpeakerHas, SameShape, WritesAudio DEF FlushTail
    <2>4. \A r \in 1 .. MaxRungs : wire'.stream[r].late <= 1
        BY <1>0, <2>3, SpeakerHas
    <2>5. rung[s].ref <= MaxRungs /\ Current(s) =>
            wire'.stream[rung[s].ref].late = 0 /\ wire'.stream[rung[s].ref].ends = 0
        BY <1>0, <2>3, SpeakerHas
    <2> QED
        BY <1>0, <1>1, <2>1, <2>3, <2>4, <2>5, SpeakStep
<1>3. CASE ~(Tail /\ client.up)
    <2>1. seq' = seq /\ wire' = wire
        BY <1>3 DEF FlushTail
    <2> QED
        BY <1>0, <1>1, <2>1, SpeakerHas, SpeakStep, SameShape DEF Shape
<1> QED
    BY <1>2, <1>3

LEMMA EndUtteranceStep ==
    ASSUME LadderInv, NEW s \in Slots, EndUtterance(s)
    PROVE  LadderInv'
<1>0. UNCHANGED <<turn, det, aiTurn, log, speech, reader, collect, seq, client>>
      /\ rung[s].pc = "end" /\ Speaking(s)
    BY DEF EndUtterance, Speaking
<1>1. CASE ~client.up
    BY <1>0, <1>1, ReturnStep DEF EndUtterance
<1>2. CASE client.up
    <2>1. Climbs(s, "finish", rung[s].level, rung[s].turn, rung[s].token, rung[s].ref)
        BY <1>2, SameShape, Goes DEF RungPCs, EndUtterance
    <2>2. /\ wire' \in WireShape /\ wire'.rungs = wire.rungs
          /\ \A r \in 1 .. MaxRungs :
               /\ wire'.stream[r].late = wire.stream[r].late
               /\ r # rung[s].ref => wire'.stream[r].ends = wire.stream[r].ends
        BY <1>0, <1>2, SpeakerHas, SameShape, SendsEnd DEF EndUtterance
    <2> QED
        BY <1>0, <2>1, <2>2, SpeakerHas, SpeakStep, SameShape DEF Shape
<1> QED
    BY <1>1, <1>2

LEMMA finishRescueSpeechStep ==
    ASSUME LadderInv, NEW s \in Slots, finishRescueSpeech(s)
    PROVE  LadderInv'
<1>0. UNCHANGED <<turn, det, aiTurn, log, reader, collect, seq, wire, client>>
      /\ rung[s].pc = "finish" /\ RDone(s)
    BY DEF finishRescueSpeech
<1>1. Climbs(s, "idle", 0, NoTurn, 0, 0)
    BY <1>0, SameShape, Returns
<1>2. /\ speech \in [gen : Nat, turn : Names, ref : Nat] /\ seq.ref \in Nat
      /\ speech.ref <= seq.ref
    BY SameShape DEF Shape, StreamInv
<1>3. /\ speech' \in [gen : Nat, turn : Names, ref : Nat] /\ speech'.gen = speech.gen
      /\ speech'.ref <= seq.ref
    <2>1. CASE speech' = speech
        BY <1>2, <2>1
    <2>2. CASE speech' = [speech EXCEPT !.turn = NoTurn, !.ref = 0]
        <3>1. NoTurn \in Names /\ 0 \in Nat /\ 0 <= seq.ref
            BY <1>2, Numbers
        <3>2. \A x \in [gen : Nat, turn : Names, ref : Nat] :
                [x EXCEPT !.turn = NoTurn, !.ref = 0] \in [gen : Nat, turn : Names, ref : Nat]
            BY <3>1
        <3>3. speech'.gen = speech.gen /\ speech'.ref = 0
            BY <1>2, <2>2
        <3> QED
            BY <1>2, <2>2, <3>1, <3>2, <3>3
    <2> QED
        BY <2>1, <2>2 DEF finishRescueSpeech
<1>4. Shape'
    BY <1>0, <1>1, <1>3, SameShape DEF Shape, Climbs
<1>5. StreamInv'
    BY <1>0, <1>1, <1>3, SameShape, StreamLeaves
<1>6. LogInv'
    BY <1>0, SameShape, LogReturns
<1> QED
    BY <1>4, <1>5, <1>6 DEF LadderInv

LEMMA RungSteps ==
    ASSUME LadderInv, NEW s \in Slots, RungStep(s)
    PROVE  LadderInv'
BY rescueSnapshotStep, DeliverTextStep, NoteLadderStep, beginRescueSpeechStep,
   beginUtteranceStep, CheckLiveStep, SendFrameStep, rescueSpeechCurrentStep, FlushTailStep,
   EndUtteranceStep, finishRescueSpeechStep DEF RungStep

-----------------------------------------------------------------------------
(* The collect goroutine *)

LEMMA CollectQuiet ==
    ASSUME LadderInv, collect.pc # "idle", collect' \in Collect,
           collect'.name = collect.name \/ collect'.pc = "idle",
           aiTurn' = aiTurn \/ aiTurn' \in Replies, det' \in Detector,
           det'.open \/ collect'.pc \in {"close", "open"} => aiTurn' # NoTurn,
           LogKeeps, client' \in ClientShape, client'.report = client.report,
           wire' \in WireShape, wire'.stream = wire.stream, wire'.rungs = wire.rungs,
           seq' \in [audio : Nat, ref : Nat], seq'.ref = seq.ref,
           UNCHANGED <<speech, rung, reader>>
    PROVE  LadderInv'
<1>1. Naming'
    BY SameShape DEF Naming
<1> QED
    BY <1>1, SameShape, QuietStep DEF Shape

LEMMA CollectHas ==
    ASSUME LadderInv
    PROVE  /\ det \in Detector /\ collect \in Collect /\ seq \in [audio : Nat, ref : Nat]
           /\ seq.audio \in Nat /\ wire \in WireShape
           /\ collect.pc # "idle" => collect.name \in Turns
           /\ det.open \/ collect.pc \in {"close", "open"} => aiTurn # NoTurn
           /\ \A n \in Turns : \A m \in canonicalTurnID(n) : m \in Replies /\ m # NoTurn
<1>1. \A n \in Turns : \A m \in canonicalTurnID(n) : m \in Replies /\ m # NoTurn
    BY LadderAssumption DEF canonicalTurnID, Replies, Turns, SessionName, NoTurn
<1> QED
    BY <1>1, SameShape, Numbers DEF Shape, Naming

LEMMA AITextDeltaStep == ASSUME LadderInv, AITextDelta PROVE LadderInv'
<1>1. /\ UNCHANGED <<det, log, speech, rung, reader, collect, seq, wire, client>>
      /\ collect.pc = "wait" /\ aiTurn' \in canonicalTurnID(collect.name)
    BY DEF AITextDelta, Waiting
<1>2. aiTurn' \in Replies /\ aiTurn' # NoTurn
    BY <1>1, CollectHas
<1> QED
    BY <1>1, <1>2, CollectHas, SameShape, CollectQuiet

LEMMA AIAudioStep == ASSUME LadderInv, AIAudio PROVE LadderInv'
<1>1. /\ UNCHANGED <<det, aiTurn, log, speech, rung, reader, wire, client>>
      /\ collect.pc = "wait" /\ collect.frames < MaxReplies
    BY DEF AIAudio, Waiting
<1>2. seq' \in [audio : Nat, ref : Nat] /\ seq'.ref = seq.ref
    BY CollectHas DEF AIAudio
<1>3. PICK f \in 0 .. MaxReplies : f = collect.frames + 1
    BY <1>1, CollectHas, LadderAssumption DEF Collect
<1>4. PICK n \in Nat : n = seq.audio + 1
    BY CollectHas
<1>5. collect' = [collect EXCEPT !.pc = "write", !.frames = f, !.number = n]
    BY <1>3, <1>4 DEF AIAudio
<1>6. \A c \in Collect : [c EXCEPT !.pc = "write", !.frames = f, !.number = n] \in Collect
    BY DEF Collect
<1>7. collect' \in Collect
    BY <1>5, <1>6, CollectHas
<1>8. collect'.pc = "write" /\ collect'.name = collect.name
    BY <1>5, CollectHas DEF Collect
<1> QED
    BY <1>1, <1>2, <1>7, <1>8, CollectHas, SameShape, CollectQuiet

LEMMA AIAudioWriteStep == ASSUME LadderInv, AIAudioWrite PROVE LadderInv'
<1>1. /\ UNCHANGED <<det, aiTurn, log, speech, rung, reader, seq, client>>
      /\ collect.pc = "write"
    BY DEF AIAudioWrite
<1>2. collect' \in Collect /\ collect'.pc = "wait" /\ collect'.name = collect.name
    BY SameShape, Collects DEF AIAudioWrite
<1>3. wire' \in WireShape /\ wire'.stream = wire.stream /\ wire'.rungs = wire.rungs
    <2>1. PICK n \in Nat : n = collect.number
        BY CollectHas DEF Collect
    <2>2. wire' = wire \/ wire' = [wire EXCEPT !.last = n]
        BY <2>1 DEF AIAudioWrite
    <2>3. \A w \in WireShape : [w EXCEPT !.last = n] \in WireShape
        BY DEF WireShape
    <2>4. wire' \in WireShape
        BY <2>2, <2>3, CollectHas
    <2> QED
        BY <2>2, <2>4, CollectHas DEF WireShape
<1> QED
    BY <1>1, <1>2, <1>3, CollectHas, SameShape, CollectQuiet

LEMMA ReplyEndsStep ==
    ASSUME LadderInv, NEW mark \in Marks, NEW failed \in BOOLEAN, ReplyEnds(mark, failed)
    PROVE  LadderInv'
<1>1. /\ UNCHANGED <<det, aiTurn, log, speech, rung, reader, seq, wire, client>>
      /\ collect.pc = "wait"
      /\ collect' = [collect EXCEPT !.pc = "mark", !.mark = mark, !.failed = failed]
    BY DEF ReplyEnds, Waiting
<1>2. \A c \in Collect : [c EXCEPT !.pc = "mark", !.mark = mark, !.failed = failed] \in Collect
    BY DEF Collect
<1>3. collect' \in Collect
    BY <1>1, <1>2, CollectHas
<1>4. collect'.pc = "mark" /\ collect'.name = collect.name
    BY <1>1, CollectHas DEF Collect
<1> QED
    BY <1>1, <1>3, <1>4, CollectHas, SameShape, CollectQuiet

\* The turn gets its name before the window opens.
LEMMA AIEndMarkStep == ASSUME LadderInv, AIEndMark PROVE LadderInv'
<1>1. /\ UNCHANGED <<det, log, speech, rung, reader, seq, wire, client>>
      /\ collect.pc = "mark"
    BY DEF AIEndMark
<1>2. CASE Spoke /\ turnOutcomeSpoke
    <2>1. aiTurn' \in canonicalTurnID(collect.name) /\ CGoto("close")
        BY <1>2 DEF AIEndMark
    <2>2. collect' \in Collect /\ collect'.pc = "close" /\ collect'.name = collect.name
        BY <2>1, SameShape, Collects
    <2>3. aiTurn' \in Replies /\ aiTurn' # NoTurn
        BY <1>1, <2>1, CollectHas
    <2> QED
        BY <1>1, <2>2, <2>3, CollectHas, SameShape, CollectQuiet
<1>3. CASE ~(Spoke /\ turnOutcomeSpoke)
    <2>1. aiTurn' = aiTurn /\ collect' = NextMark
        BY <1>3 DEF AIEndMark
    <2>2. /\ collect' \in Collect /\ collect'.name = collect.name
          /\ collect'.pc \in {"mark", "answer"}
        BY <2>1, SameShape, NextMarks
    <2> QED
        BY <1>1, <2>1, <2>2, CollectHas, SameShape, CollectQuiet
<1> QED
    BY <1>2, <1>3

LEMMA NoteCloseStep == ASSUME LadderInv, NoteClose PROVE LadderInv'
<1>1. /\ UNCHANGED <<det, aiTurn, speech, rung, reader, seq, wire, client>>
      /\ collect.pc = "close"
    BY DEF NoteClose
<1>2. collect' \in Collect /\ collect'.pc = "open" /\ collect'.name = collect.name
    BY SameShape, Collects DEF NoteClose
<1>3. LogKeeps
    BY SameShape, Seals DEF NoteClose, closeEpisode
<1> QED
    BY <1>1, <1>2, <1>3, CollectHas, SameShape, CollectQuiet

LEMMA NoteOpenStep == ASSUME LadderInv, NoteOpen PROVE LadderInv'
<1>1. /\ UNCHANGED <<aiTurn, log, speech, rung, reader, seq, wire, client>>
      /\ collect.pc = "open"
    BY DEF NoteOpen
<1>2. /\ collect' \in Collect /\ collect'.name = collect.name
      /\ collect'.pc \in {"mark", "answer"}
    BY SameShape, NextMarks DEF NoteOpen
<1>3. det' \in Detector
    BY Opens DEF NoteOpen
<1> QED
    BY <1>1, <1>2, <1>3, CollectHas, SameShape, CollectQuiet

LEMMA AnswerWrittenStep == ASSUME LadderInv, AnswerWritten PROVE LadderInv'
<1>1. /\ UNCHANGED <<det, aiTurn, log, speech, rung, reader, seq, wire>>
      /\ collect.pc = "answer"
    BY DEF AnswerWritten
<1>2. CASE client.up
    <2>1. collect' \in Collect /\ collect'.pc = "text" /\ collect'.name = collect.name
        BY <1>2, SameShape, Collects DEF AnswerWritten
    <2>2. client' \in ClientShape /\ client'.report = client.report
        BY <1>2, SameShape, AnswersClient DEF AnswerWritten
    <2> QED
        BY <1>1, <2>1, <2>2, CollectHas, SameShape, CollectQuiet
<1>3. CASE ~client.up
    <2>1. collect' = IdleCollect /\ client' = client
        BY <1>3 DEF AnswerWritten
    <2> QED
        BY <1>1, <2>1, IdleCollectType, CollectHas, SameShape, CollectQuiet
<1> QED
    BY <1>2, <1>3

LEMMA NoteUserTextStep ==
    ASSUME LadderInv, NEW heard \in BOOLEAN, NoteUserText(heard)
    PROVE  LadderInv'
<1>1. /\ UNCHANGED <<det, aiTurn, speech, rung, reader, seq, wire, client>>
      /\ collect.pc = "text" /\ collect' = IdleCollect
    BY DEF NoteUserText
<1>2. LogKeeps
    BY SameShape, NotesText DEF NoteUserText
<1> QED
    BY <1>1, <1>2, IdleCollectType, CollectHas, SameShape, CollectQuiet

LEMMA CollectFailsStep == ASSUME LadderInv, CollectFails PROVE LadderInv'
<1>1. /\ UNCHANGED <<det, aiTurn, log, speech, rung, reader, seq, wire>>
      /\ collect.pc = "wait" /\ collect' = IdleCollect
    BY DEF CollectFails, Waiting
<1>2. client' \in ClientShape /\ client'.report = client.report
    BY SameShape, AnswersClient DEF CollectFails
<1> QED
    BY <1>1, <1>2, IdleCollectType, CollectHas, SameShape, CollectQuiet

LEMMA CollectSteps ==
    ASSUME LadderInv, CollectStep
    PROVE  LadderInv'
BY AITextDeltaStep, AIAudioStep, AIAudioWriteStep, ReplyEndsStep, AIEndMarkStep, NoteCloseStep,
   NoteOpenStep, AnswerWrittenStep, NoteUserTextStep, CollectFailsStep DEF CollectStep

-----------------------------------------------------------------------------
(* The invariant, and what follows from it *)

LEMMA InitLadder ==
    ASSUME Init
    PROVE  LadderInv
<1>1. Shape
    <2>1. det \in Detector /\ collect \in Collect
        BY WindowType, IdleCollectType DEF Init
    <2>2. log \in LogShape /\ IsFiniteSet(log.sealed)
        BY FS_EmptySet DEF Init, LogShape
    <2>3. rung \in [Slots -> RungShape]
        BY IdleRungType DEF Init
    <2>4. reader \in ReaderShape
        <3>1. IdleReader \in ReaderShape
            BY Numbers DEF IdleReader, ReaderShape
        <3> QED
            BY <3>1 DEF Init, ReaderShape
    <2>5. wire \in WireShape
        <3>1. [r \in 1 .. MaxRungs |-> [started |-> FALSE, ends |-> 0, late |-> 0]]
                \in [1 .. MaxRungs -> StreamShape]
            BY DEF StreamShape
        <3> QED
            BY <3>1 DEF Init, WireShape
    <2>6. client \in ClientShape
        <3>1. 0 \in 0 .. MaxTurns /\ 0 \in 0 .. MaxRungs
            BY LadderAssumption
        <3> QED
            BY <3>1 DEF Init, ClientShape
    <2> QED
        BY <2>1, <2>2, <2>3, <2>4, <2>5, <2>6, Numbers DEF Init, Shape
<1>2. \A s \in Slots : rung[s] = IdleRung /\ ~Speaking(s)
    BY DEF Init, IdleRung, Speaking
<1>3. StreamInv
    <2>1. reader.pc = "opening" /\ speech.ref = 0 /\ seq.ref = 0
        BY DEF Init, IdleReader
    <2>2. \A r \in 1 .. MaxRungs : wire.stream[r].late = 0 /\ wire.stream[r].ends = 0
        BY DEF Init
    <2> QED
        BY <1>2, <2>1, <2>2 DEF StreamInv
<1>4. LogInv
    <2>1. Episodes(log) = {} /\ client.report = {} /\ wire.rungs = {}
        BY DEF Init, Episodes
    <2>2. \A s \in Slots : Named(s)
        BY <1>2 DEF Named, IdleRung
    <2>3. Naming
        BY DEF Init, Naming, NoWindow, IdleCollect, IdleReader
    <2> QED
        BY <2>1, <2>2, <2>3 DEF LogInv
<1> QED
    BY <1>1, <1>3, <1>4 DEF LadderInv

LEMMA NextLadder ==
    ASSUME LadderInv, [Next]_vars
    PROVE  LadderInv'
<1>1. CASE Handling
    BY <1>1, SessionStartStep, UserSpeechStartHeardStep, UserSpeechEndHeardStep,
       stopRescueSpeechStep, StopSendsStep, StartCollectTurnStep, ClientTurnAbortHeardStep,
       PersistSessionStep, persistOnExitStep DEF Handling
<1>2. CASE UNCHANGED vars
    <2>1. UNCHANGED <<turn, det, aiTurn, log, speech, rung, reader, collect, seq, wire, client>>
        BY <1>2 DEF vars
    <2>2. Naming'
        BY <2>1, SameShape DEF Naming
    <2> QED
        BY <2>1, <2>2, SameShape, QuietStep DEF Shape
<1>3. CASE CollectStep
    BY <1>3, CollectSteps
<1>4. CASE \E s \in Slots : checkRescue(s) \/ requestRescue(s) \/ RungStep(s)
    BY <1>4, checkRescueStep, requestRescueStep, RungSteps
<1>5. CASE \E said \in Says : UserSpeechEnd(said)
    BY <1>5, UserSpeechEndStep
<1>6. CASE UserSpeechStart \/ ClientTurnAbort \/ SessionEnd \/ ClientGone \/ LoopExits \/ Tick
    BY <1>6, UserSpeechStartStep, ClientTurnAbortStep, SessionEndStep, ClientGoneStep,
       LoopExitsStep, TickStep
<1> QED
    BY <1>1, <1>2, <1>3, <1>4, <1>5, <1>6 DEF Next

LEMMA LadderAlways == Spec => []LadderInv
<1>1. Init => LadderInv
    BY InitLadder
<1>2. LadderInv /\ [Next]_vars => LadderInv'
    BY NextLadder
<1> QED
    BY <1>1, <1>2, PTL DEF Spec

(* Of the goroutines that speak a rung at most one is current, however     *)
(* many rungs the poller and the client's requests have started: every     *)
(* beginRescueSpeech makes a generation of its own (rescueSpeechGen).      *)
THEOREM OneRungIsLive == Spec => []OneLiveRung
<1>1. LadderInv => OneLiveRung
    <2> SUFFICES ASSUME LadderInv, NEW s \in Slots, NEW t \in Slots,
                        Speaking(s), Speaking(t), Current(s), Current(t), s # t
                 PROVE  FALSE
        BY DEF OneLiveRung
    <2>1. rung[t].token # rung[s].token
        BY SameShape DEF StreamInv, Owned
    <2> QED
        BY <2>1 DEF Current
<1> QED
    BY <1>1, LadderAlways, PTL

(* A stopped rung sends at most one more audio frame, wherever the stop    *)
(* finds it: each frame is preceded by the check of streamWriter.Audio,    *)
(* and the end the stop sends is for a stream no later rung shares.        *)
THEOREM TalkOverIsBounded == Spec => []TalkOverBounded
<1>1. LadderInv => TalkOverBounded
    BY SameShape DEF StreamInv, TalkOverBounded
<1> QED
    BY <1>1, LadderAlways, PTL

(* Whatever the session reports, by session.end or on its exit, was shown: *)
(* noteLadder runs after the write of the rung's text, and neither sealing *)
(* an episode nor the learner's own text changes its level or its turn.    *)
THEOREM ReportsAreDelivered == Spec => []ReportedWasDelivered
<1>1. LadderInv => ReportedWasDelivered
    BY SameShape DEF LogInv, Delivered, ReportedWasDelivered
<1> QED
    BY <1>1, LadderAlways, PTL

(* A rung runs only after a reply has been named: a window is opened by    *)
(* noteAITurnEnd alone, which names the reply's turn first, and the turn   *)
(* machine tells the frame that announces the session from a reply.        *)
THEOREM RungsFollowReplies == Spec => []RungFollowsReply
<1>1. SessionName # BootstrapTurn /\ BootstrapTurn \notin Turns
    BY LadderAssumption DEF SessionName, BootstrapTurn, Turns
<1>2. LadderInv => RungFollowsReply
    BY <1>1, SameShape DEF LogInv, Named, Naming, Replies, RungFollowsReply
<1> QED
    BY <1>2, LadderAlways, PTL

(* The report a session writes on its exit covers every rung it showed:    *)
(* the exit waits for the rungs, so none is between its write and its note.*)
THEOREM ExitReportsAll == Spec => ExitReportComplete
<1>1. LadderInv /\ [Next]_vars =>
        [reader.pc = "closing" /\ client'.reported # client.reported
           => \A d \in wire.rungs : \E e \in client'.report : e.level >= d[2]]_vars
    <2> SUFFICES ASSUME LadderInv, Next, reader.pc = "closing",
                        client'.reported # client.reported, NEW d \in wire.rungs
                 PROVE  \E e \in client'.report : e.level >= d[2]
        BY DEF vars
    <2>0. client \in ClientShape /\ collect \in Collect
        BY SameShape, ClientType DEF Shape
    <2>1. CASE \E ok \in BOOLEAN : persistOnExit(ok)
        <3>1. PICK ok \in BOOLEAN : persistOnExit(ok)
            BY <2>1
        <3>2. client' = Report /\ \A s \in Slots : rung[s].pc = "idle"
            BY <3>1 DEF persistOnExit
        <3>3. client'.report = Episodes(log)
            BY <3>2, SameShape, Reports
        <3>4. Covered(d)
            BY SameShape DEF LogInv
        <3> QED
            BY <3>2, <3>3, <3>4 DEF Covered
    <2>2. ASSUME ~ \E ok \in BOOLEAN : persistOnExit(ok)
          PROVE  client'.reported = client.reported
        <3>1. CASE Handling
            BY <2>2, <3>1 DEF Handling, SessionStart, UserSpeechStartHeard, UserSpeechEndHeard,
               stopRescueSpeech, StopSends, StartCollectTurn, ClientTurnAbortHeard, PersistSession
        <3>2. CASE UserSpeechStart \/ ClientTurnAbort \/ SessionEnd \/ LoopExits
            BY <3>2 DEF UserSpeechStart, ClientTurnAbort, SessionEnd, LoopExits
        <3>3. CASE ClientGone
            BY <2>0, <3>3 DEF ClientGone, ClientShape
        <3>4. CASE \E said \in Says : UserSpeechEnd(said)
            BY <3>4 DEF UserSpeechEnd, Ready
        <3>5. CASE \E s \in Slots : checkRescue(s)
            BY <2>0, <3>5 DEF checkRescue, PollDue
        <3>6. CASE \E s \in Slots : requestRescue(s)
            BY <3>6 DEF requestRescue, Ready
        <3>7. CASE \E s \in Slots : RungStep(s)
            BY <3>7 DEF RungStep, rescueSnapshot, DeliverText, NoteLadder, beginRescueSpeech,
               beginUtterance, CheckLive, SendFrame, rescueSpeechCurrent, FlushTail,
               EndUtterance, finishRescueSpeech
        <3>8. CASE CollectStep
            <4>1. client' = client \/ Answered
                BY <3>8 DEF CollectStep, AITextDelta, AIAudio, AIAudioWrite, ReplyEnds,
                   AIEndMark, NoteClose, NoteOpen, AnswerWritten, NoteUserText, CollectFails
            <4> QED
                BY <2>0, <4>1 DEF Answered, ClientShape
        <3>9. CASE Tick
            BY <3>9 DEF Tick
        <3> QED
            BY <3>1, <3>2, <3>3, <3>4, <3>5, <3>6, <3>7, <3>8, <3>9 DEF Next
    <2> QED
        BY <2>1, <2>2
<1> QED
    BY <1>1, LadderAlways, PTL DEF Spec, ExitReportComplete

-----------------------------------------------------------------------------
(* How much there can be: a rung takes one stream and opens one stuck point at most *)

At(P) == {s \in Slots : rung[s].pc \in P}
Unnoted == {"gen", "deliver", "note"}
Unspoken == Unnoted \cup {"synth"}

TurnInv == turn \in [state : TurnStates] /\ inFlight \in BOOLEAN

\* Streams are no more than the rungs that have come as far as to speak.
RefInv ==
    /\ seq.ref + Cardinality(At(Unspoken)) <= client.rungs
    /\ \A s \in Slots : rung[s].ref <= seq.ref
    /\ reader.ref <= seq.ref

LeftInv == \A s \in Slots : rung[s].left \in 0 .. FrameCount /\ (rung[s].pc = "pace" => rung[s].left > 0)

EndsInv == \A r \in 1 .. MaxRungs : wire.stream[r].ends <= 2

\* Stuck points are no more than the rungs that were noted.
Points(l) == Cardinality(l.sealed) + IF l.open = NoEpisode THEN 0 ELSE 1

PointInv ==
    /\ Points(log) + Cardinality(At(Unnoted)) <= client.rungs
    /\ \A e \in Episodes(log) \cup client.report : e.seq <= client.rungs

BoundInv == TurnInv /\ RefInv /\ LeftInv /\ EndsInv /\ PointInv

LEMMA AtIsCounted == ASSUME NEW P PROVE IsFiniteSet(At(P)) /\ Cardinality(At(P)) \in Nat
<1>1. IsFiniteSet(At(P))
    BY LadderAssumption, FS_Subset DEF At
<1> QED
    BY <1>1, FS_CardinalityType

LEMMA NextAtIsCounted == ASSUME NEW P PROVE IsFiniteSet(At(P)') /\ Cardinality(At(P)') \in Nat
<1>1. IsFiniteSet(At(P)')
    BY LadderAssumption, FS_Subset DEF At
<1> QED
    BY <1>1, FS_CardinalityType

\* One rung moves.
LEMMA OneMoves ==
    ASSUME NEW P, NEW s \in Slots, \A t \in Slots : t # s => rung'[t] = rung[t]
    PROVE  /\ Cardinality(At(P)') <= Cardinality(At(P)) + 1
           /\ rung[s].pc \in P \/ rung'[s].pc \notin P => Cardinality(At(P)') <= Cardinality(At(P))
           /\ rung[s].pc \in P /\ rung'[s].pc \notin P => Cardinality(At(P)') + 1 = Cardinality(At(P))
<1>1. /\ IsFiniteSet(At(P)) /\ Cardinality(At(P)) \in Nat
      /\ IsFiniteSet(At(P)') /\ Cardinality(At(P)') \in Nat
    BY AtIsCounted, NextAtIsCounted
<1>2. At(P)' \subseteq At(P) \cup {s}
    BY DEF At
<1>3. Cardinality(At(P) \cup {s}) <= Cardinality(At(P)) + 1 /\ IsFiniteSet(At(P) \cup {s})
    BY <1>1, FS_AddElement
<1>4. Cardinality(At(P)') <= Cardinality(At(P)) + 1
    <2>1. Cardinality(At(P)') <= Cardinality(At(P) \cup {s}) /\ Cardinality(At(P) \cup {s}) \in Nat
        BY <1>2, <1>3, FS_Subset, FS_CardinalityType
    <2> QED
        BY <1>1, <1>3, <2>1
<1>5. ASSUME rung[s].pc \in P \/ rung'[s].pc \notin P PROVE Cardinality(At(P)') <= Cardinality(At(P))
    <2>1. At(P)' \subseteq At(P)
        BY <1>5 DEF At
    <2> QED
        BY <1>1, <2>1, FS_Subset
<1>6. ASSUME rung[s].pc \in P, rung'[s].pc \notin P PROVE Cardinality(At(P)') + 1 = Cardinality(At(P))
    <2>1. At(P) = At(P)' \cup {s} /\ s \notin At(P)'
        BY <1>6 DEF At
    <2>2. Cardinality(At(P)' \cup {s}) = Cardinality(At(P)') + 1
        BY <1>1, <2>1, FS_AddElement
    <2> QED
        BY <2>1, <2>2
<1> QED
    BY <1>4, <1>5, <1>6

\* What a step of a rung does to its place and its stream.
Places(s, from, to, ref) ==
    /\ \A t \in Slots : t # s => rung'[t] = rung[t]
    /\ rung[s].pc = from /\ rung'[s].pc = to /\ rung'[s].ref = ref

LEMMA ClimbsPlaces ==
    ASSUME NEW s, NEW pc, NEW level, NEW name, NEW token, NEW ref, Climbs(s, pc, level, name, token, ref)
    PROVE  Places(s, rung[s].pc, pc, ref)
BY DEF Climbs, Places

LEMMA ReturnPlaces ==
    ASSUME Shape, NEW s \in Slots, RDone(s)
    PROVE  Places(s, rung[s].pc, "idle", 0) /\ rung'[s].left = 0
<1>1. rung'[s] = IdleRung
    BY RungType DEF RDone
<1> QED
    BY <1>1, Returns, ClimbsPlaces DEF IdleRung

LEMMA GotoPlaces ==
    ASSUME Shape, NEW s \in Slots, NEW pc \in RungPCs, RGoto(s, pc)
    PROVE  Places(s, rung[s].pc, pc, rung[s].ref) /\ rung'[s].left = rung[s].left
<1>1. rung'[s] = [rung[s] EXCEPT !.pc = pc] /\ rung[s] \in RungShape
    BY RungType DEF RGoto
<1> QED
    BY <1>1, Goes, ClimbsPlaces DEF RungShape

\* A rung that is not yet noted, and one that speaks, take no stream and no stuck point.
Passes(s) ==
    /\ \E from, to \in RungPCs, ref \in {0, rung[s].ref} :
         /\ Places(s, from, to, ref)
         /\ to \in Unspoken => from \in Unspoken
         /\ to \in Unnoted => from \in Unnoted
    /\ UNCHANGED <<log, reader, client>> /\ seq'.ref = seq.ref
    /\ rung'[s].left \in 0 .. FrameCount /\ (rung'[s].pc = "pace" => rung'[s].left > 0)

LEMMA ReturnPasses ==
    ASSUME Shape, NEW s \in Slots, RDone(s), UNCHANGED <<log, reader, client>>, seq'.ref = seq.ref
    PROVE  Passes(s)
<1>1. Places(s, rung[s].pc, "idle", 0) /\ rung'[s].left = 0 /\ rung'[s].pc = "idle"
    BY ReturnPlaces DEF Places
<1>2. rung[s].pc \in RungPCs /\ "idle" \in RungPCs /\ "idle" \notin Unspoken /\ "idle" \notin Unnoted
    BY RungType DEF RungPCs, Unspoken, Unnoted
<1>3. 0 \in 0 .. FrameCount
    BY LadderAssumption
<1> QED
    BY <1>1, <1>2, <1>3 DEF Passes

LEMMA GotoPasses ==
    ASSUME Shape, LeftInv, NEW s \in Slots, NEW pc \in RungPCs \ Unspoken, RGoto(s, pc),
           pc = "pace" => rung[s].left > 0, UNCHANGED <<log, reader, client>>, seq'.ref = seq.ref
    PROVE  Passes(s)
<1>1. Places(s, rung[s].pc, pc, rung[s].ref) /\ rung'[s].left = rung[s].left /\ rung'[s].pc = pc
    BY GotoPlaces DEF Places
<1>2. rung[s].pc \in RungPCs /\ pc \in RungPCs /\ pc \notin Unspoken /\ pc \notin Unnoted
    BY RungType DEF Unspoken
<1> QED
    BY <1>1, <1>2 DEF Passes, LeftInv

LEMMA SnapshotPasses == ASSUME LadderInv, LeftInv, NEW s \in Slots, rescueSnapshot(s) PROVE Passes(s)
<1>0. Shape /\ rung[s] \in RungShape /\ rung[s].pc = "gen" /\ UNCHANGED <<log, reader, client, seq>>
    BY SameShape, RungType DEF rescueSnapshot
<1>1. PICK name : rung' = [rung EXCEPT ![s].pc = "deliver", ![s].turn = name] /\ name \in Names
    BY Numbers, SameShape DEF rescueSnapshot, Shape
<1>2. rung'[s] = [rung[s] EXCEPT !.pc = "deliver", !.turn = name]
    BY <1>0, <1>1, RungType
<1>3. rung'[s].left = rung[s].left /\ rung'[s].pc = "deliver"
    BY <1>0, <1>2 DEF RungShape
<1>4. Places(s, "gen", "deliver", rung[s].ref)
    <2>1. Climbs(s, "deliver", rung[s].level, name, rung[s].token, rung[s].ref)
        BY <1>0, <1>1, GoesFor DEF RungPCs
    <2> QED
        BY <1>0, <2>1, ClimbsPlaces
<1>5. "gen" \in Unspoken \cap Unnoted /\ {"gen", "deliver"} \subseteq RungPCs
    BY DEF RungPCs, Unspoken, Unnoted
<1> QED
    BY <1>0, <1>3, <1>4, <1>5 DEF Passes, LeftInv

LEMMA DeliverPasses == ASSUME LadderInv, LeftInv, NEW s \in Slots, DeliverText(s) PROVE Passes(s)
<1>0. Shape /\ rung[s].pc = "deliver" /\ UNCHANGED <<log, reader, client, seq>> /\ (RDone(s) \/ RGoto(s, "note"))
    BY SameShape DEF DeliverText
<1>1. CASE RDone(s)
    BY <1>0, <1>1, ReturnPasses
<1>2. CASE RGoto(s, "note")
    <2>1. Places(s, "deliver", "note", rung[s].ref) /\ rung'[s].left = rung[s].left /\ rung'[s].pc = "note"
        BY <1>0, <1>2, GotoPlaces DEF RungPCs, Places
    <2> QED
        BY <1>0, <2>1 DEF Passes, LeftInv, RungPCs, Unspoken, Unnoted
<1> QED
    BY <1>0, <1>1, <1>2

LEMMA OnPasses ==
    ASSUME Shape, NEW s \in Slots, NEW first \in Nat, NEW left \in 0 .. FrameCount,
           rung' = [rung EXCEPT ![s].pc = "live", ![s].first = first, ![s].left = left],
           UNCHANGED <<log, reader, client>>, seq'.ref = seq.ref
    PROVE  Passes(s)
<1>0. rung[s] \in RungShape /\ rung[s].pc \in RungPCs /\ left \in Int
    BY RungType
<1>1. rung'[s] = [rung[s] EXCEPT !.pc = "live", !.first = first, !.left = left]
    BY RungType
<1>2. rung'[s].left = left
    <2>1. DOMAIN rung[s] = {"pc", "level", "auto", "turn", "token", "ref", "first", "left"}
        BY <1>0 DEF RungShape
    <2> QED
        BY <1>1, <2>1, Zenon
<1>3. Places(s, rung[s].pc, "live", rung[s].ref) /\ rung'[s].pc = "live"
    <2>1. Climbs(s, "live", rung[s].level, rung[s].turn, rung[s].token, rung[s].ref)
        BY <1>0, GoesOn DEF RungPCs
    <2> QED
        BY <2>1, ClimbsPlaces DEF Climbs
<1>4. "live" \in RungPCs /\ "live" \notin Unspoken /\ "live" \notin Unnoted
    BY DEF RungPCs, Unspoken, Unnoted
<1> QED
    BY <1>0, <1>2, <1>3, <1>4 DEF Passes

LEMMA UtterancePasses == ASSUME LadderInv, NEW s \in Slots, beginUtterance(s) PROVE Passes(s)
<1>0. Shape /\ UNCHANGED <<log, reader, client>> /\ seq \in [audio : Nat, ref : Nat]
    BY SameShape DEF beginUtterance, Shape
<1>1. CASE ~client.up
    BY <1>0, <1>1, ReturnPasses DEF beginUtterance
<1>2. CASE client.up
    <2>1. Framed /\ rung' = [rung EXCEPT ![s].pc = "live", ![s].first = seq.audio + 1, ![s].left = FrameCount]
        BY <1>2 DEF beginUtterance
    <2>2. seq'.ref = seq.ref
        BY <1>0, <2>1 DEF Framed
    <2>3. seq.audio + 1 \in Nat /\ FrameCount \in 0 .. FrameCount
        BY <1>0, LadderAssumption
    <2> QED
        BY <1>0, <2>1, <2>2, <2>3, OnPasses
<1> QED
    BY <1>1, <1>2

LEMMA FramePasses == ASSUME LadderInv, LeftInv, NEW s \in Slots, SendFrame(s) PROVE Passes(s)
<1>0. Shape /\ UNCHANGED <<log, reader, client, seq>> /\ rung[s].pc = "pace"
    BY SameShape DEF SendFrame
<1>1. CASE ~client.up
    BY <1>0, <1>1, ReturnPasses DEF SendFrame
<1>2. CASE client.up
    <2>1. PICK first \in Nat : first = rung[s].first + 1
        BY <1>0, RungType
    <2>2. PICK left \in 0 .. FrameCount : left = rung[s].left - 1
        BY <1>0, LadderAssumption DEF LeftInv
    <2>3. rung' = [rung EXCEPT ![s].pc = "live", ![s].first = first, ![s].left = left]
        BY <1>2, <2>1, <2>2 DEF SendFrame
    <2> QED
        BY <1>0, <2>3, OnPasses
<1> QED
    BY <1>1, <1>2

LEMMA SpeakerPasses ==
    ASSUME LadderInv, LeftInv, NEW s \in Slots,
           CheckLive(s) \/ rescueSpeechCurrent(s) \/ FlushTail(s) \/ EndUtterance(s) \/ finishRescueSpeech(s)
    PROVE  Passes(s)
<1>0. Shape /\ seq \in [audio : Nat, ref : Nat]
    BY SameShape DEF Shape
<1>1. UNCHANGED <<log, reader, client>>
    BY DEF CheckLive, rescueSpeechCurrent, FlushTail, EndUtterance, finishRescueSpeech
<1>2. seq'.ref = seq.ref
    BY <1>0 DEF CheckLive, rescueSpeechCurrent, FlushTail, EndUtterance, finishRescueSpeech
<1>3. \/ RDone(s) \/ (RGoto(s, "pace") /\ rung[s].left > 0)
      \/ RGoto(s, "check") \/ RGoto(s, "flush") \/ RGoto(s, "end") \/ RGoto(s, "finish")
    BY DEF CheckLive, rescueSpeechCurrent, FlushTail, EndUtterance, finishRescueSpeech
<1>4. {"pace", "check", "flush", "end", "finish"} \subseteq RungPCs \ Unspoken
    BY DEF RungPCs, Unspoken, Unnoted
<1> QED
    BY <1>0, <1>1, <1>2, <1>3, <1>4, ReturnPasses, GotoPasses

LEMMA CountTypes ==
    ASSUME Shape
    PROVE  /\ seq.ref \in Nat /\ client.rungs \in Nat /\ client.rungs <= MaxRungs
           /\ reader.ref \in Nat /\ speech.ref \in Nat /\ Cardinality(log.sealed) \in Nat /\ Points(log) \in Nat
           /\ \A s \in Slots : rung[s].ref \in Nat
           /\ \A e \in Episodes(log) \cup client.report : e.seq \in Nat
<1>1. seq.ref \in Nat /\ reader.ref \in Nat /\ speech.ref \in Nat
    BY DEF Shape, ReaderShape
<1>2. client.rungs \in Nat /\ client.rungs <= MaxRungs
    BY ClientType, LadderAssumption
<1>3. Cardinality(log.sealed) \in Nat
    BY LogType, FS_CardinalityType
<1>4. \A e \in Episodes(log) \cup client.report : e \in Point
    BY LogType, ClientType
<1>5. \A e \in Point : e.seq \in Nat
    BY DEF Point
<1> QED
    BY <1>1, <1>2, <1>3, <1>4, <1>5, RungType DEF Points

LEMMA PassKeeps ==
    ASSUME LadderInv, RefInv, LeftInv, PointInv, NEW s \in Slots, Passes(s)
    PROVE  RefInv' /\ LeftInv' /\ PointInv'
<1>0. Shape
    BY SameShape
<1>1. /\ \A t \in Slots : t # s => rung'[t] = rung[t]
      /\ rung'[s].ref = 0 \/ rung'[s].ref = rung[s].ref
      /\ rung'[s].pc \in Unspoken => rung[s].pc \in Unspoken
      /\ rung'[s].pc \in Unnoted => rung[s].pc \in Unnoted
    BY DEF Passes, Places
<1>2. /\ Cardinality(At(Unspoken)') <= Cardinality(At(Unspoken))
      /\ Cardinality(At(Unnoted)') <= Cardinality(At(Unnoted))
    BY <1>1, OneMoves
<1>3. /\ Cardinality(At(Unspoken)') \in Nat /\ Cardinality(At(Unspoken)) \in Nat
      /\ Cardinality(At(Unnoted)') \in Nat /\ Cardinality(At(Unnoted)) \in Nat
    BY AtIsCounted, NextAtIsCounted
<1>4. UNCHANGED <<log, reader, client>> /\ seq'.ref = seq.ref
    BY DEF Passes
<1>5. RefInv'
    BY <1>0, <1>1, <1>2, <1>3, <1>4, CountTypes DEF RefInv
<1>6. LeftInv'
    BY <1>1 DEF LeftInv, Passes
<1>7. PointInv'
    <2>1. Points(log)' = Points(log) /\ Episodes(log)' = Episodes(log)
        BY <1>4 DEF Points, Episodes
    <2> QED
        BY <1>0, <1>2, <1>3, <1>4, <2>1, CountTypes DEF PointInv
<1> QED
    BY <1>5, <1>6, <1>7

\* What a step of the log leaves.
LogStays ==
    /\ Points(log)' <= Points(log)
    /\ \A e \in Episodes(log)' : \E f \in Episodes(log) : e.seq = f.seq

LEMMA LogUnchanged == ASSUME Shape, log' = log PROVE LogStays
BY CountTypes DEF LogStays, Points, Episodes

LEMMA SealStays ==
    ASSUME Shape, log' = Sealed(log) \/ closeEpisode
    PROVE  LogStays
<1>1. log'.sealed = Episodes(log) /\ log'.open = NoEpisode
    <2>1. Sealed(log).sealed = Episodes(log) /\ Sealed(log).open = NoEpisode
          /\ DOMAIN Sealed(log) = {"open", "pending", "sealed"}
        BY LogType DEF Sealed, LogShape
    <2> QED
        BY <2>1 DEF closeEpisode
<1>2. Episodes(log)' = Episodes(log)
    BY <1>1 DEF Episodes
<1>3. Cardinality(Episodes(log)) <= Points(log)
    <2>1. CASE log.open = NoEpisode
        <3>1. Episodes(log) = log.sealed
            BY <2>1 DEF Episodes
        <3> QED
            BY <2>1, <3>1, CountTypes DEF Points
    <2>2. CASE log.open # NoEpisode
        <3>1. Episodes(log) = log.sealed \cup {log.open}
            BY <2>2 DEF Episodes
        <3>2. PICK n \in Nat : n = Cardinality(log.sealed)
            BY CountTypes
        <3>3. Cardinality(log.sealed \cup {log.open}) = n \/ Cardinality(log.sealed \cup {log.open}) = n + 1
            BY <3>2, LogType, FS_AddElement
        <3> QED
            BY <2>2, <3>1, <3>2, <3>3 DEF Points
    <2> QED
        BY <2>1, <2>2
<1>4. Points(log)' = Cardinality(Episodes(log))
    <2>1. Cardinality(Episodes(log)) \in Nat
        BY LogType, FS_CardinalityType
    <2> QED
        BY <1>1, <2>1 DEF Points
<1> QED
    BY <1>2, <1>3, <1>4 DEF LogStays

LEMMA IncompleteStays == ASSUME Shape, noteIncompleteUtterance PROVE LogStays
<1>1. log'.sealed = log.sealed /\ log'.open = log.open
    BY LogType DEF noteIncompleteUtterance, LogShape
<1> QED
    BY <1>1, CountTypes DEF LogStays, Points, Episodes

LEMMA TextStays == ASSUME Shape, noteUserText PROVE LogStays
<1>1. CASE log.open = NoEpisode
    BY <1>1, LogUnchanged DEF noteUserText
<1>2. CASE log.open # NoEpisode
    <2>0. log.open \in Point
        BY <1>2, LogType
    <2>1. PICK p : p = [log.open EXCEPT !.opened = TRUE]
        OBVIOUS
    <2>2. p.seq = log.open.seq
        BY <2>0, <2>1 DEF Point
    <2>3. log' = [log EXCEPT !.open = p]
        BY <1>2, <2>1 DEF noteUserText
    <2>4. log'.sealed = log.sealed /\ log'.open = p
        BY <2>3, LogType DEF LogShape
    <2>5. Points(log)' <= Points(log)
        BY <1>2, <2>4, CountTypes DEF Points
    <2>6. Episodes(log)' \subseteq log.sealed \cup {p} /\ Episodes(log) = log.sealed \cup {log.open}
        BY <1>2, <2>4 DEF Episodes
    <2> QED
        BY <2>2, <2>5, <2>6 DEF LogStays
<1> QED
    BY <1>1, <1>2

\* A rung that is noted raises the open stuck point, or opens the next one.
LEMMA LadderCounts ==
    ASSUME Shape, NEW name, NEW level \in Levels, noteLadder(name, level)
    PROVE  /\ Points(log)' <= Points(log) + 1
           /\ \A e \in Episodes(log)' : e.seq <= Points(log) + 1 \/ \E f \in Episodes(log) : e.seq = f.seq
<1>0. DOMAIN log = {"open", "pending", "sealed"}
    BY LogType DEF LogShape
<1>1. CASE log.open = NoEpisode
    <2>1. PICK p : p = [seq |-> Cardinality(log.sealed) + 1, turn |-> name,
                        path |-> IF log.pending THEN "incomplete" ELSE "silent",
                        level |-> level, opened |-> log.pending]
        OBVIOUS
    <2>2. log' = [log EXCEPT !.open = p, !.pending = FALSE]
        BY <1>1, <2>1 DEF noteLadder
    <2>3. log'.sealed = log.sealed /\ log'.open = p /\ p.seq = Cardinality(log.sealed) + 1
        BY <1>0, <2>1, <2>2
    <2>4. Points(log) = Cardinality(log.sealed) /\ Episodes(log) = log.sealed
        BY <1>1, CountTypes DEF Points, Episodes
    <2>5. Points(log)' <= Points(log) + 1 /\ Episodes(log)' \subseteq log.sealed \cup {p}
        BY <2>3, <2>4, CountTypes DEF Points, Episodes
    <2> QED
        BY <2>3, <2>4, <2>5, CountTypes
<1>2. CASE log.open # NoEpisode
    <2>0. log.open \in Point
        BY <1>2, LogType
    <2>1. PICK p : p = [log.open EXCEPT !.level = Max({@, level})]
        OBVIOUS
    <2>2. p.seq = log.open.seq
        BY <2>0, <2>1 DEF Point
    <2>3. log' = [log EXCEPT !.open = p]
        BY <1>2, <2>1 DEF noteLadder
    <2>4. log'.sealed = log.sealed /\ log'.open = p
        BY <1>0, <2>3
    <2>5. Points(log)' <= Points(log)
        BY <1>2, <2>4, CountTypes DEF Points
    <2>6. Episodes(log)' \subseteq log.sealed \cup {p} /\ Episodes(log) = log.sealed \cup {log.open}
        BY <1>2, <2>4 DEF Episodes
    <2>7. Points(log)' <= Points(log) + 1
        <3>1. Points(log)' \in Nat
            BY <2>4, CountTypes DEF Points
        <3> QED
            BY <2>5, <3>1, CountTypes
    <2> QED
        BY <2>2, <2>6, <2>7
<1> QED
    BY <1>1, <1>2

LEMMA NextPoints == ASSUME Shape' PROVE Points(log)' \in Nat
<1>1. IsFiniteSet(log'.sealed)
    BY DEF Shape
<1>2. Cardinality(log'.sealed) \in Nat
    BY <1>1, FS_CardinalityType
<1> QED
    BY <1>2 DEF Points

\* No rung moves, and none is counted.
Quiet ==
    /\ rung' = rung /\ seq'.ref = seq.ref /\ client'.rungs = client.rungs
    /\ reader'.ref <= seq.ref /\ LogStays
    /\ client'.report \subseteq client.report \cup Episodes(log)

LEMMA QuietKeeps ==
    ASSUME LadderInv, Shape', RefInv, LeftInv, PointInv, Quiet
    PROVE  RefInv' /\ LeftInv' /\ PointInv'
<1>0. Shape
    BY SameShape
<1>1. At(Unspoken)' = At(Unspoken) /\ At(Unnoted)' = At(Unnoted)
    BY DEF Quiet, At
<1>2. RefInv' /\ LeftInv'
    BY <1>1 DEF Quiet, RefInv, LeftInv
<1>3. Points(log)' + Cardinality(At(Unnoted)') <= client'.rungs
    <2>1. Points(log)' <= Points(log) /\ Points(log) + Cardinality(At(Unnoted)) <= client.rungs
        BY DEF Quiet, LogStays, PointInv
    <2> QED
        BY <1>0, <1>1, <2>1, NextPoints, CountTypes, AtIsCounted DEF Quiet
<1>4. \A e \in Episodes(log)' \cup client'.report : e.seq <= client'.rungs
    BY DEF Quiet, LogStays, PointInv
<1> QED
    BY <1>2, <1>3, <1>4 DEF PointInv

LEMMA QuietClient ==
    ASSUME Shape,
           \/ client' = client \/ Answered \/ client' = [client EXCEPT !.up = FALSE]
           \/ \E name : client' = [client EXCEPT !.ended = name, !.owed = @ \cup {name}]
           \/ client' = Report \/ client' = [Report EXCEPT !.up = FALSE]
    PROVE  client'.rungs = client.rungs /\ client'.report \subseteq client.report \cup Episodes(log)
<1>0. DOMAIN client = {"ended", "owed", "rungs", "up", "reported", "report"}
    BY ClientType DEF ClientShape
<1>1. CASE client' = Report \/ client' = [Report EXCEPT !.up = FALSE]
    <2>1. client'.rungs = client.rungs
        BY <1>0, <1>1 DEF Report
    <2> QED
        BY <1>1, <2>1, Reports
<1>2. CASE \E name : client' = [client EXCEPT !.ended = name, !.owed = @ \cup {name}]
    BY <1>0, <1>2
<1> QED
    BY <1>0, <1>1, <1>2 DEF Answered

\* The read loop moves on, with the stream it has.
LEMMA GotoQuiet ==
    ASSUME LadderInv, RefInv, NEW pc \in {"idle", "start", "end", "stop", "interrupt", "note", "abort",
                                          "ending", "closing", "closed"}, Goto(pc)
    PROVE  reader'.ref <= seq.ref
BY SameShape, Reads DEF RefInv

LEMMA FrameQuiet ==
    ASSUME LadderInv, RefInv,
           \/ SessionStart \/ UserSpeechStart \/ UserSpeechStartHeard \/ UserSpeechEndHeard \/ StopSends
           \/ ClientTurnAbort \/ ClientTurnAbortHeard \/ SessionEnd \/ LoopExits
    PROVE  Quiet
<1>0. Shape
    BY SameShape
<1>1. UNCHANGED <<rung, seq, log, client>>
    BY DEF SessionStart, UserSpeechStart, UserSpeechStartHeard, UserSpeechEndHeard, StopSends,
           ClientTurnAbort, ClientTurnAbortHeard, SessionEnd, LoopExits, others
<1>2. \/ Goto("idle") \/ Goto("start") \/ Goto("stop") \/ Goto("note") \/ Goto("abort") \/ Goto("ending")
      \/ Goto("closing")
    BY DEF SessionStart, UserSpeechStart, UserSpeechStartHeard, UserSpeechEndHeard, StopSends,
           ClientTurnAbort, ClientTurnAbortHeard, SessionEnd, LoopExits
<1> QED
    BY <1>0, <1>1, <1>2, GotoQuiet, LogUnchanged DEF Quiet

LEMMA StopQuiet == ASSUME LadderInv, RefInv, stopRescueSpeech PROVE Quiet
<1>0. Shape
    BY SameShape
<1>1. UNCHANGED <<rung, seq, log, client>>
    BY DEF stopRescueSpeech, others
<1>2. reader'.ref <= seq.ref
    <2>1. CASE Goto("note")
        BY <2>1, GotoQuiet
    <2>2. CASE reader' = [reader EXCEPT !.pc = "interrupt", !.ref = speech.ref]
        <3>1. reader'.ref = speech.ref
            BY <1>0, <2>2 DEF Shape, ReaderShape
        <3> QED
            BY <3>1 DEF LadderInv, StreamInv
    <2> QED
        BY <2>1, <2>2 DEF stopRescueSpeech
<1> QED
    BY <1>0, <1>1, <1>2, LogUnchanged DEF Quiet

LEMMA UserSpeechEndQuiet == ASSUME LadderInv, RefInv, NEW said, UserSpeechEnd(said) PROVE Quiet
<1>0. Shape
    BY SameShape
<1>1. UNCHANGED <<rung, seq, log>>
    BY DEF UserSpeechEnd, others
<1>2. reader'.ref = 0 /\ \E name : client' = [client EXCEPT !.ended = name, !.owed = @ \cup {name}]
    BY DEF UserSpeechEnd
<1>3. client'.rungs = client.rungs /\ client'.report \subseteq client.report \cup Episodes(log)
    BY <1>0, <1>2, QuietClient
<1>4. reader'.ref <= seq.ref /\ seq'.ref = seq.ref
    BY <1>0, <1>1, <1>2, CountTypes
<1>5. LogStays
    BY <1>0, <1>1, LogUnchanged
<1> QED
    BY <1>1, <1>3, <1>4, <1>5 DEF Quiet

LEMMA StartCollectTurnQuiet == ASSUME LadderInv, RefInv, StartCollectTurn PROVE Quiet
<1>0. Shape
    BY SameShape
<1>1. UNCHANGED <<rung, seq, client>> /\ (log' = log \/ noteIncompleteUtterance)
    BY DEF StartCollectTurn
<1>2. reader'.ref = 0
    BY DEF StartCollectTurn, IdleReader
<1> QED
    BY <1>0, <1>1, <1>2, LogUnchanged, IncompleteStays, CountTypes DEF Quiet

LEMMA EndingQuiet ==
    ASSUME LadderInv, RefInv, NEW ok \in BOOLEAN, PersistSession(ok) \/ persistOnExit(ok)
    PROVE  Quiet
<1>0. Shape
    BY SameShape
<1>1. UNCHANGED <<rung, seq>>
    BY DEF PersistSession, persistOnExit, others
<1>2. Goto("closing") \/ Goto("idle") \/ Goto("closed")
    BY DEF PersistSession, persistOnExit
<1>3. log' = log \/ log' = Sealed(log)
    BY DEF PersistSession, persistOnExit
<1>4. client' = client \/ client' = Report \/ client' = [Report EXCEPT !.up = FALSE]
    BY DEF PersistSession, persistOnExit
<1> QED
    BY <1>0, <1>1, <1>2, <1>3, <1>4, GotoQuiet, LogUnchanged, SealStays, QuietClient DEF Quiet

LEMMA WaitQuiet == ASSUME LadderInv, RefInv, ClientGone \/ Tick PROVE Quiet
<1>0. Shape
    BY SameShape
<1>1. UNCHANGED <<rung, seq, log, reader>> /\ (client' = client \/ client' = [client EXCEPT !.up = FALSE])
    BY DEF ClientGone, Tick, others
<1> QED
    BY <1>0, <1>1, LogUnchanged, QuietClient DEF Quiet, RefInv

LEMMA CollectQuietly == ASSUME LadderInv, RefInv, CollectStep PROVE Quiet
<1>0. Shape /\ seq \in [audio : Nat, ref : Nat]
    BY SameShape DEF Shape
<1>1. UNCHANGED <<rung, reader>>
    BY DEF CollectStep, AITextDelta, AIAudio, AIAudioWrite, ReplyEnds, AIEndMark, NoteClose, NoteOpen,
           AnswerWritten, NoteUserText, CollectFails
<1>2. client' = client \/ Answered
    BY DEF CollectStep, AITextDelta, AIAudio, AIAudioWrite, ReplyEnds, AIEndMark, NoteClose, NoteOpen,
           AnswerWritten, NoteUserText, CollectFails
<1>3. seq' = seq \/ seq' = [seq EXCEPT !.audio = @ + 1]
    BY DEF CollectStep, AITextDelta, AIAudio, AIAudioWrite, ReplyEnds, AIEndMark, NoteClose, NoteOpen,
           AnswerWritten, NoteUserText, CollectFails
<1>4. log' = log \/ closeEpisode \/ noteUserText
    BY DEF CollectStep, AITextDelta, AIAudio, AIAudioWrite, ReplyEnds, AIEndMark, NoteClose, NoteOpen,
           AnswerWritten, NoteUserText, CollectFails
<1>5. seq'.ref = seq.ref
    BY <1>0, <1>3
<1>6. LogStays
    BY <1>0, <1>4, LogUnchanged, SealStays, TextStays
<1> QED
    BY <1>0, <1>1, <1>2, <1>5, <1>6, QuietClient DEF Quiet, RefInv

\* A rung is started, and counted.
LEMMA LaunchBound ==
    ASSUME LadderInv, RefInv, LeftInv, PointInv, NEW s \in Slots, NEW level \in Levels, NEW auto \in BOOLEAN,
           FreeSlot(s), Launch(s, level, auto), client' = [client EXCEPT !.rungs = @ + 1],
           UNCHANGED <<log, reader, seq>>
    PROVE  RefInv' /\ LeftInv' /\ PointInv'
<1>0. Shape
    BY SameShape
<1>1. Places(s, "idle", "gen", 0)
    BY <1>0, Launches, ClimbsPlaces DEF FreeSlot
<1>2. rung'[s].left = 0 /\ rung'[s].pc = "gen"
    <2>1. rung'[s] = [IdleRung EXCEPT !.pc = "gen", !.level = level, !.auto = auto]
        BY <1>0, RungType DEF Launch
    <2>2. rung'[s].left = 0
        BY <2>1 DEF IdleRung
    <2> QED
        BY <1>1, <2>2 DEF Places
<1>3. client'.rungs = client.rungs + 1 /\ client'.report = client.report
    BY <1>0, ClientType DEF ClientShape
<1>4. /\ Cardinality(At(Unspoken)') <= Cardinality(At(Unspoken)) + 1
      /\ Cardinality(At(Unnoted)') <= Cardinality(At(Unnoted)) + 1
    BY <1>1, OneMoves DEF Places
<1>5. /\ Cardinality(At(Unspoken)') \in Nat /\ Cardinality(At(Unspoken)) \in Nat
      /\ Cardinality(At(Unnoted)') \in Nat /\ Cardinality(At(Unnoted)) \in Nat
    BY AtIsCounted, NextAtIsCounted
<1>6. RefInv'
    <2>1. seq'.ref + Cardinality(At(Unspoken)') <= client'.rungs
        BY <1>0, <1>3, <1>4, <1>5, CountTypes DEF RefInv
    <2>2. \A t \in Slots : rung'[t].ref <= seq'.ref
        BY <1>0, <1>1, CountTypes DEF RefInv, Places
    <2> QED
        BY <2>1, <2>2 DEF RefInv
<1>7. LeftInv'
    <2>1. 0 \in 0 .. FrameCount /\ "gen" # "pace"
        BY LadderAssumption
    <2> QED
        BY <1>1, <1>2, <2>1 DEF LeftInv, Places
<1>8. PointInv'
    <2>1. Points(log)' = Points(log) /\ Episodes(log)' = Episodes(log)
        BY DEF Points, Episodes
    <2>2. Points(log)' + Cardinality(At(Unnoted)') <= client'.rungs
        BY <1>0, <1>3, <1>4, <1>5, <2>1, CountTypes DEF PointInv
    <2>3. \A e \in Episodes(log)' \cup client'.report : e.seq <= client'.rungs
        BY <1>0, <1>3, <2>1, CountTypes DEF PointInv
    <2> QED
        BY <2>2, <2>3 DEF PointInv
<1> QED
    BY <1>6, <1>7, <1>8

LEMMA NoteBound ==
    ASSUME LadderInv, Shape', RefInv, LeftInv, PointInv, NEW s \in Slots, NoteLadder(s)
    PROVE  RefInv' /\ LeftInv' /\ PointInv'
<1>0. Shape /\ UNCHANGED <<reader, seq, client>> /\ rung[s].pc = "note" /\ RGoto(s, "synth")
    BY SameShape DEF NoteLadder
<1>1. Places(s, "note", "synth", rung[s].ref) /\ rung'[s].left = rung[s].left
    BY <1>0, GotoPlaces DEF RungPCs
<1>2. /\ "note" \in Unspoken /\ "note" \in Unnoted
      /\ "synth" \in Unspoken /\ "synth" \notin Unnoted /\ "synth" # "pace"
    BY DEF Unspoken, Unnoted
<1>3. /\ Cardinality(At(Unspoken)') <= Cardinality(At(Unspoken))
      /\ Cardinality(At(Unnoted)') + 1 = Cardinality(At(Unnoted))
    BY <1>1, <1>2, OneMoves DEF Places
<1>4. /\ Cardinality(At(Unspoken)') \in Nat /\ Cardinality(At(Unspoken)) \in Nat
      /\ Cardinality(At(Unnoted)') \in Nat /\ Cardinality(At(Unnoted)) \in Nat
    BY AtIsCounted, NextAtIsCounted
<1>5. RefInv'
    <2>1. seq'.ref + Cardinality(At(Unspoken)') <= client'.rungs
        BY <1>0, <1>3, <1>4, CountTypes DEF RefInv
    <2>2. \A t \in Slots : rung'[t].ref <= seq'.ref
        BY <1>0, <1>1 DEF RefInv, Places
    <2> QED
        BY <1>0, <2>1, <2>2 DEF RefInv
<1>6. LeftInv'
    BY <1>1, <1>2 DEF LeftInv, Places
<1>7. PointInv'
    <2>1. rung[s].level \in Levels
        BY <1>0, SameShape DEF LogInv, Named
    <2>2. /\ Points(log)' <= Points(log) + 1
          /\ \A e \in Episodes(log)' :
               e.seq <= Points(log) + 1 \/ \E f \in Episodes(log) : e.seq = f.seq
        BY <1>0, <2>1, LadderCounts DEF NoteLadder
    <2>3. Points(log) + Cardinality(At(Unnoted)) <= client.rungs
        BY DEF PointInv
    <2>4. Points(log)' + Cardinality(At(Unnoted)') <= client'.rungs
        BY <1>0, <1>3, <1>4, <2>2, <2>3, NextPoints, CountTypes
    <2>5. Points(log) + 1 <= client.rungs
        BY <1>0, <1>3, <1>4, <2>3, CountTypes
    <2>6. ASSUME NEW e \in Episodes(log)' PROVE e.seq <= client.rungs
        <3>1. e.seq \in Nat
            <4>1. e \in Point
                BY DEF Shape, LogShape, Episodes
            <4> QED
                BY <4>1 DEF Point
        <3>2. CASE e.seq <= Points(log) + 1
            BY <1>0, <2>5, <3>1, <3>2, CountTypes
        <3> QED
            BY <2>2, <3>2 DEF PointInv
    <2> QED
        BY <1>0, <2>4, <2>6 DEF PointInv
<1> QED
    BY <1>5, <1>6, <1>7

LEMMA SpeechBound ==
    ASSUME LadderInv, RefInv, LeftInv, PointInv, NEW s \in Slots, NEW spoken \in BOOLEAN,
           beginRescueSpeech(s, spoken)
    PROVE  RefInv' /\ LeftInv' /\ PointInv'
<1>0. Shape /\ UNCHANGED <<log, reader, client>> /\ rung[s].pc = "synth"
    BY SameShape DEF beginRescueSpeech
<1>1. seq'.ref = seq.ref + 1
    BY <1>0 DEF beginRescueSpeech, Shape
<1>2. /\ \A t \in Slots : t # s => rung'[t] = rung[t]
      /\ rung'[s].pc \in {"idle", "start"} /\ rung'[s].ref \in {0, seq.ref + 1}
      /\ rung'[s].left \in {0, rung[s].left}
    <2>1. CASE RDone(s)
        BY <1>0, <2>1, ReturnPlaces DEF Places
    <2>2. CASE ~RDone(s)
        <3>1. PICK token, ref \in Nat : ref = seq.ref + 1
                /\ rung' = [rung EXCEPT ![s].pc = "start", ![s].token = token, ![s].ref = ref]
            <4>1. speech.gen + 1 \in Nat /\ seq.ref + 1 \in Nat
                BY <1>0 DEF Shape
            <4> QED
                BY <2>2, <4>1 DEF beginRescueSpeech
        <3>2. Places(s, "synth", "start", ref)
            BY <1>0, <3>1, GoesWith, ClimbsPlaces DEF RungPCs
        <3>3. rung'[s] = [rung[s] EXCEPT !.pc = "start", !.token = token, !.ref = ref]
            BY <1>0, <3>1, RungType
        <3>4. rung'[s].left = rung[s].left
            BY <1>0, <3>3, RungType DEF RungShape
        <3> QED
            BY <3>1, <3>2, <3>4 DEF Places
    <2> QED
        BY <2>1, <2>2
<1>3. /\ "synth" \in Unspoken /\ "synth" \notin Unnoted
      /\ rung'[s].pc \notin Unspoken /\ rung'[s].pc \notin Unnoted /\ rung'[s].pc # "pace"
    BY <1>2 DEF Unspoken, Unnoted
<1>4. /\ Cardinality(At(Unspoken)') + 1 = Cardinality(At(Unspoken))
      /\ Cardinality(At(Unnoted)') <= Cardinality(At(Unnoted))
    BY <1>0, <1>2, <1>3, OneMoves
<1>5. /\ Cardinality(At(Unspoken)') \in Nat /\ Cardinality(At(Unspoken)) \in Nat
      /\ Cardinality(At(Unnoted)') \in Nat /\ Cardinality(At(Unnoted)) \in Nat
    BY AtIsCounted, NextAtIsCounted
<1>6. RefInv'
    <2>1. seq'.ref + Cardinality(At(Unspoken)') <= client'.rungs
        BY <1>0, <1>1, <1>4, <1>5, CountTypes DEF RefInv
    <2>2. \A t \in Slots : rung'[t].ref <= seq'.ref
        BY <1>0, <1>1, <1>2, CountTypes DEF RefInv
    <2>3. reader'.ref <= seq'.ref
        BY <1>0, <1>1, CountTypes DEF RefInv
    <2> QED
        BY <2>1, <2>2, <2>3 DEF RefInv
<1>7. LeftInv'
    <2>1. 0 \in 0 .. FrameCount
        BY LadderAssumption
    <2> QED
        BY <1>2, <1>3, <2>1 DEF LeftInv
<1>8. PointInv'
    <2>1. Points(log)' = Points(log) /\ Episodes(log)' = Episodes(log)
        BY <1>0 DEF Points, Episodes
    <2> QED
        BY <1>0, <1>4, <1>5, <2>1, CountTypes DEF PointInv
<1> QED
    BY <1>6, <1>7, <1>8

-----------------------------------------------------------------------------
(* The turn machine, the busy flag and the ends of the streams *)

LEMMA AfterType == ASSUME TurnInv, NEW ev PROVE After_(ev) \in TurnStates
<1>1. turn.state \in {"idle", "listening", "finalizing", "speaking", "closed"}
    BY DEF TurnInv, TurnStates
<1>2. CASE turn.state = "idle"
    BY <1>2 DEF After_, Allowed, turnTransitions, TurnStates
<1>3. CASE turn.state = "listening"
    BY <1>3 DEF After_, Allowed, turnTransitions, TurnStates
<1>4. CASE turn.state = "finalizing"
    BY <1>4 DEF After_, Allowed, turnTransitions, TurnStates
<1>5. CASE turn.state = "speaking"
    BY <1>5 DEF After_, Allowed, turnTransitions, TurnStates
<1>6. CASE turn.state = "closed"
    BY <1>6 DEF After_, Allowed, turnTransitions, TurnStates
<1> QED
    BY <1>1, <1>2, <1>3, <1>4, <1>5, <1>6

LEMMA TurnApplies ==
    ASSUME TurnInv, \E ev : Apply(ev)
    PROVE  turn' \in [state : TurnStates]
<1>1. turn \in [state : TurnStates]
    BY DEF TurnInv
<1>2. ASSUME NEW ev, Apply(ev) PROVE turn' \in [state : TurnStates]
    <2>1. PICK st \in TurnStates : st = After_(ev)
        BY AfterType
    <2> QED
        BY <1>1, <1>2, <2>1 DEF Apply
<1> QED
    BY <1>2

LEMMA FlagStep ==
    ASSUME TurnInv, Next
    PROVE  inFlight' \in BOOLEAN
<1>0. inFlight \in BOOLEAN
    BY DEF TurnInv
<1>1. CASE Handling \/ UserSpeechStart \/ ClientTurnAbort \/ SessionEnd \/ ClientGone \/ LoopExits \/ CollectStep
           \/ Tick \/ \E said \in Says : UserSpeechEnd(said)
    <2>1. inFlight' = inFlight
        BY <1>1 DEF Handling, SessionStart, UserSpeechStartHeard, UserSpeechEndHeard, stopRescueSpeech, StopSends,
               StartCollectTurn, ClientTurnAbortHeard, PersistSession, persistOnExit, UserSpeechStart,
               ClientTurnAbort, SessionEnd, ClientGone, LoopExits, UserSpeechEnd, Tick, CollectStep, AITextDelta,
               AIAudio, AIAudioWrite, ReplyEnds, AIEndMark, NoteClose, NoteOpen, AnswerWritten, NoteUserText,
               CollectFails
    <2> QED
        BY <1>0, <2>1
<1>2. ASSUME NEW s \in Slots, checkRescue(s) \/ requestRescue(s) PROVE inFlight' \in BOOLEAN
    BY <1>0, <1>2 DEF checkRescue, requestRescue
<1>3. ASSUME NEW s \in Slots, RungStep(s) PROVE inFlight' \in BOOLEAN
    <2>1. inFlight' = inFlight \/ RDone(s)
        BY <1>3, Zenon DEF RungStep, rescueSnapshot, DeliverText, NoteLadder, beginRescueSpeech, beginUtterance,
               CheckLive, SendFrame, rescueSpeechCurrent, FlushTail, EndUtterance, finishRescueSpeech
    <2>2. ASSUME RDone(s) PROVE inFlight' \in BOOLEAN
        BY <2>2, Zenon DEF RDone
    <2> QED
        BY <1>0, <2>1, <2>2
<1> QED
    BY <1>1, <1>2, <1>3 DEF Next

LEMMA TurnStep ==
    ASSUME Shape, TurnInv, Next
    PROVE  TurnInv'
<1>1. CASE turn' = turn
    BY <1>1, FlagStep DEF TurnInv
<1>2. CASE \E ev : Apply(ev)
    BY <1>2, TurnApplies, FlagStep DEF TurnInv
<1>3. CASE Handling \/ UserSpeechStart \/ ClientTurnAbort \/ SessionEnd \/ ClientGone \/ LoopExits \/ Tick
    <2>1. turn' = turn \/ Apply("aiEnd") \/ Apply("start") \/ Apply("abort")
        BY <1>3 DEF Handling, SessionStart, UserSpeechStartHeard, UserSpeechEndHeard, stopRescueSpeech, StopSends,
               StartCollectTurn, ClientTurnAbortHeard, PersistSession, persistOnExit, UserSpeechStart,
               ClientTurnAbort, SessionEnd, ClientGone, LoopExits, Tick, NoteAIEnd
    <2> QED
        BY <1>1, <1>2, <2>1
<1>4. CASE CollectStep
    <2>1. turn' = turn \/ Apply("aiEnd") \/ Apply("output")
        BY <1>4 DEF CollectStep, AITextDelta, AIAudio, AIAudioWrite, ReplyEnds, AIEndMark, NoteClose, NoteOpen,
               AnswerWritten, NoteUserText, CollectFails, NoteFirstOutput, NoteAIEnd
    <2> QED
        BY <1>1, <1>2, <2>1
<1>5. ASSUME NEW s \in Slots, checkRescue(s) \/ requestRescue(s) \/ RungStep(s) PROVE turn' = turn
    BY <1>5 DEF checkRescue, requestRescue, RungStep, rescueSnapshot, DeliverText, NoteLadder, beginRescueSpeech,
           beginUtterance, CheckLive, SendFrame, rescueSpeechCurrent, FlushTail, EndUtterance, finishRescueSpeech
<1> QED
    BY <1>1, <1>2, <1>3, <1>4, <1>5 DEF Next, UserSpeechEnd, ApplySpeechEnd

LEMMA SendEndBound ==
    ASSUME Shape, EndsInv, NEW ref \in Nat, SendEnd(ref)
    PROVE  EndsInv'
<1>1. SUFFICES ASSUME NEW r \in 1 .. MaxRungs PROVE wire'.stream[r].ends <= 2
    BY DEF EndsInv
<1>2. CASE r # ref
    BY <1>2, SendsEnd DEF EndsInv
<1>3. CASE r = ref
    <2>1. PICK n \in Int : n = Min({wire.stream[r].ends + 1, 2}) /\ n <= 2
        <3>1. wire.stream[r].ends + 1 \in Int
            BY WireType
        <3>2. PICK m \in Int : m = wire.stream[r].ends + 1
            BY <3>1
        <3>3. Min({m, 2}) = IF m <= 2 THEN m ELSE 2
            BY MinOfTwo
        <3> QED
            BY <3>2, <3>3
    <2>2. wire'.stream = [wire.stream EXCEPT ![r].ends = n]
        BY <1>3, <2>1, WireType DEF SendEnd, WireShape
    <2>3. wire'.stream[r] = [wire.stream[r] EXCEPT !.ends = n]
        BY <2>2, WireType
    <2>4. wire'.stream[r].ends = n
        BY <2>3, WireType DEF StreamShape
    <2> QED
        BY <2>1, <2>4
<1> QED
    BY <1>2, <1>3

LEMMA EndsSame ==
    ASSUME EndsInv, \A r \in 1 .. MaxRungs : wire'.stream[r].ends = wire.stream[r].ends
    PROVE  EndsInv'
BY DEF EndsInv

LEMMA EndsStep ==
    ASSUME LadderInv, EndsInv, Next
    PROVE  EndsInv'
<1>0. Shape
    BY SameShape
<1>1. CASE wire' = wire
    BY <1>1, EndsSame
<1>2. CASE CollectStep
    <2>1. wire' = wire \/ wire' = [wire EXCEPT !.last = collect.number]
        BY <1>2 DEF CollectStep, AITextDelta, AIAudio, AIAudioWrite, ReplyEnds, AIEndMark, NoteClose, NoteOpen,
               AnswerWritten, NoteUserText, CollectFails
    <2>2. CASE wire' = [wire EXCEPT !.last = collect.number]
        <3>1. wire'.stream = wire.stream
            BY <1>0, <2>2, WireType DEF WireShape
        <3> QED
            BY <3>1, EndsSame
    <2> QED
        BY <1>1, <2>1, <2>2
<1>3. CASE Handling \/ UserSpeechStart \/ ClientTurnAbort \/ SessionEnd \/ ClientGone \/ LoopExits \/ Tick
           \/ \E said \in Says : UserSpeechEnd(said)
    <2>1. wire' = wire \/ SendEnd(reader.ref)
        BY <1>3 DEF Handling, SessionStart, UserSpeechStartHeard, UserSpeechEndHeard, stopRescueSpeech, StopSends,
               StartCollectTurn, ClientTurnAbortHeard, PersistSession, persistOnExit, UserSpeechStart,
               ClientTurnAbort, SessionEnd, ClientGone, LoopExits, Tick, UserSpeechEnd
    <2> QED
        BY <1>0, <1>1, <2>1, CountTypes, SendEndBound
<1>4. ASSUME NEW s \in Slots, checkRescue(s) \/ requestRescue(s) PROVE wire' = wire
    BY <1>4 DEF checkRescue, requestRescue
<1>5. ASSUME NEW s \in Slots, RungStep(s) PROVE EndsInv'
    <2>1. PICK ref \in Nat : ref = rung[s].ref
        BY <1>0, RungType
    <2>2. \/ wire' = wire
          \/ wire' = [wire EXCEPT !.rungs = @ \cup {<<rung[s].turn, rung[s].level>>}]
          \/ wire' = [wire EXCEPT !.stream[rung[s].ref].started = TRUE]
          \/ WriteAudio(rung[s].ref, rung[s].first) \/ WriteAudio(rung[s].ref, seq.audio + 1)
          \/ SendEnd(rung[s].ref)
        BY <1>5 DEF RungStep, rescueSnapshot, DeliverText, NoteLadder, beginRescueSpeech, beginUtterance,
               CheckLive, SendFrame, rescueSpeechCurrent, FlushTail, EndUtterance, finishRescueSpeech
    <2>3. CASE wire' = [wire EXCEPT !.rungs = @ \cup {<<rung[s].turn, rung[s].level>>}]
        <3>1. wire'.stream = wire.stream
            BY <1>0, <2>3, WireType DEF WireShape
        <3> QED
            BY <3>1, EndsSame
    <2>4. CASE wire' = [wire EXCEPT !.stream[rung[s].ref].started = TRUE]
        BY <1>0, <2>1, <2>4, StartsStream, EndsSame
    <2>5. CASE WriteAudio(rung[s].ref, rung[s].first) \/ WriteAudio(rung[s].ref, seq.audio + 1)
        <3>1. rung[s].first \in Nat /\ seq.audio + 1 \in Nat
            BY <1>0, RungType DEF Shape
        <3>2. PICK number \in Nat : WriteAudio(ref, number)
            BY <2>1, <2>5, <3>1
        <3> QED
            BY <1>0, <3>2, WritesAudio, EndsSame
    <2> QED
        BY <1>0, <1>1, <2>1, <2>2, <2>3, <2>4, <2>5, SendEndBound
<1> QED
    BY <1>1, <1>2, <1>3, <1>4, <1>5 DEF Next

-----------------------------------------------------------------------------
(* The bounds hold, and with them the types *)

LEMMA InitBound == ASSUME Init PROVE BoundInv
<1>0. Shape
    BY InitLadder DEF LadderInv
<1>1. TurnInv
    BY Numbers DEF Init, TurnInv, TurnStates
<1>2. \A s \in Slots : rung[s].pc = "idle" /\ rung[s].ref = 0 /\ rung[s].left = 0
    BY DEF Init, IdleRung
<1>3. At(Unspoken) = {} /\ At(Unnoted) = {}
    BY <1>2 DEF At, Unspoken, Unnoted
<1>4. Cardinality(At(Unspoken)) = 0 /\ Cardinality(At(Unnoted)) = 0
    BY <1>3, FS_EmptySet
<1>5. RefInv
    BY <1>2, <1>4 DEF Init, RefInv, IdleReader
<1>6. LeftInv
    BY <1>2, LadderAssumption DEF LeftInv
<1>7. EndsInv
    BY DEF Init, EndsInv
<1>8. PointInv
    <2>1. Points(log) = 0
        BY FS_EmptySet DEF Init, Points
    <2>2. Episodes(log) = {} /\ client.report = {} /\ client.rungs = 0
        BY DEF Init, Episodes
    <2> QED
        BY <1>4, <2>1, <2>2 DEF PointInv
<1> QED
    BY <1>1, <1>5, <1>6, <1>7, <1>8 DEF BoundInv

LEMMA RungBound ==
    ASSUME LadderInv, Shape', RefInv, LeftInv, PointInv, NEW s \in Slots, RungStep(s)
    PROVE  RefInv' /\ LeftInv' /\ PointInv'
<1>1. CASE NoteLadder(s)
    BY <1>1, NoteBound
<1>2. CASE \E spoken \in BOOLEAN : beginRescueSpeech(s, spoken)
    BY <1>2, SpeechBound
<1>3. CASE ~NoteLadder(s) /\ ~\E spoken \in BOOLEAN : beginRescueSpeech(s, spoken)
    <2>1. Passes(s)
        BY <1>3, SnapshotPasses, DeliverPasses, UtterancePasses, FramePasses, SpeakerPasses DEF RungStep
    <2> QED
        BY <2>1, PassKeeps
<1> QED
    BY <1>1, <1>2, <1>3

LEMMA NextBound ==
    ASSUME LadderInv, BoundInv, [Next]_vars
    PROVE  BoundInv'
<1>0. Shape /\ LadderInv' /\ Shape' /\ RefInv /\ LeftInv /\ PointInv /\ EndsInv /\ TurnInv
    BY SameShape, NextLadder DEF LadderInv, BoundInv
<1>1. CASE UNCHANGED vars
    <2>1. UNCHANGED <<turn, inFlight, log, rung, reader, seq, wire, client>>
        BY <1>1 DEF vars
    <2>2. TurnInv' /\ EndsInv'
        BY <1>0, <2>1 DEF TurnInv, EndsInv
    <2>3. Quiet
        BY <1>0, <2>1, LogUnchanged DEF Quiet, RefInv
    <2> QED
        BY <1>0, <2>2, <2>3, QuietKeeps DEF BoundInv
<1>2. CASE Next
    <2>1. TurnInv' /\ EndsInv'
        BY <1>0, <1>2, TurnStep, EndsStep
    <2>2. ASSUME \/ Handling \/ CollectStep \/ Tick \/ UserSpeechStart \/ ClientTurnAbort \/ SessionEnd
                 \/ ClientGone \/ LoopExits \/ \E said \in Says : UserSpeechEnd(said)
          PROVE  RefInv' /\ LeftInv' /\ PointInv'
        <3>1. Quiet
            <4>1. CASE Handling
                BY <1>0, <4>1, FrameQuiet, StopQuiet, StartCollectTurnQuiet, EndingQuiet DEF Handling
            <4>2. CASE UserSpeechStart \/ ClientTurnAbort \/ SessionEnd \/ LoopExits
                BY <1>0, <4>2, FrameQuiet
            <4>3. CASE ClientGone \/ Tick
                BY <1>0, <4>3, WaitQuiet
            <4> QED
                BY <1>0, <2>2, <4>1, <4>2, <4>3, CollectQuietly, UserSpeechEndQuiet
        <3> QED
            BY <1>0, <3>1, QuietKeeps
    <2>3. ASSUME NEW s \in Slots, checkRescue(s) PROVE RefInv' /\ LeftInv' /\ PointInv'
        <3>1. Min(Due) \in Levels
            BY <2>3, LeastDue DEF checkRescue, PollDue
        <3> QED
            BY <1>0, <2>3, <3>1, LaunchBound DEF checkRescue
    <2>4. ASSUME NEW s \in Slots, requestRescue(s) PROVE RefInv' /\ LeftInv' /\ PointInv'
        <3>1. RequestedLevel \in Levels
            BY <1>0, RequestedType
        <3> QED
            BY <1>0, <2>4, <3>1, LaunchBound DEF requestRescue
    <2>5. ASSUME NEW s \in Slots, RungStep(s) PROVE RefInv' /\ LeftInv' /\ PointInv'
        BY <1>0, <2>5, RungBound
    <2>6. RefInv' /\ LeftInv' /\ PointInv'
        BY <1>2, <2>2, <2>3, <2>4, <2>5 DEF Next
    <2> QED
        BY <2>1, <2>6 DEF BoundInv
<1> QED
    BY <1>1, <1>2

LEMMA BoundImpliesType == ASSUME LadderInv, BoundInv PROVE TypeOK
<1>0. Shape
    BY SameShape
<1>1. MaxRungs \in Nat /\ client.rungs \in Nat /\ client.rungs <= MaxRungs
    BY <1>0, CountTypes, LadderAssumption
<1>2. seq.ref \in Nat /\ seq.ref <= client.rungs
    BY <1>0, <1>1, CountTypes, AtIsCounted DEF BoundInv, RefInv
<1>3. seq.ref \in 0 .. MaxRungs /\ \A n \in Nat : n <= seq.ref => n \in 0 .. MaxRungs
    BY <1>1, <1>2
<1>4. seq \in [audio : Nat, ref : 0 .. MaxRungs]
    BY <1>0, <1>3 DEF Shape
<1>5. speech \in [gen : Nat, turn : Names, ref : 0 .. MaxRungs]
    <2>1. speech.ref \in 0 .. MaxRungs
        BY <1>0, <1>3, CountTypes DEF LadderInv, StreamInv
    <2> QED
        BY <1>0, <2>1 DEF Shape
<1>6. reader \in Reader
    <2>1. reader.ref \in 0 .. MaxRungs
        BY <1>0, <1>3, CountTypes DEF BoundInv, RefInv
    <2> QED
        BY <1>0, <2>1 DEF Shape, ReaderShape, Reader
<1>7. rung \in [Slots -> Rung]
    <2>1. ASSUME NEW s \in Slots PROVE rung[s] \in Rung
        <3>1. rung[s].ref \in 0 .. MaxRungs
            BY <1>0, <1>3, CountTypes DEF BoundInv, RefInv
        <3>2. rung[s].left \in 0 .. FrameCount
            BY DEF BoundInv, LeftInv
        <3> QED
            BY <1>0, <3>1, <3>2, RungType DEF RungShape, Rung
    <2> QED
        BY <1>0, <2>1 DEF Shape
<1>8. wire.last \in Nat /\ wire.stream \in [1 .. MaxRungs -> Stream] /\ wire.rungs \subseteq Names \X Levels
    <2>1. ASSUME NEW r \in 1 .. MaxRungs PROVE wire.stream[r] \in Stream
        <3>1. wire.stream[r] \in StreamShape /\ wire.stream[r].ends \in Nat /\ wire.stream[r].late \in Nat
            BY <1>0, WireType
        <3>2. wire.stream[r].ends \in 0 .. 2
            BY <3>1 DEF BoundInv, EndsInv
        <3>3. wire.stream[r].late \in 0 .. FrameCount + 1
            BY <3>1, LadderAssumption DEF LadderInv, StreamInv
        <3> QED
            BY <3>1, <3>2, <3>3 DEF StreamShape, Stream
    <2> QED
        BY <1>0, <2>1, WireType
<1>9. ASSUME NEW e \in Episodes(log) \cup client.report PROVE e \in Episode
    <2>1. e \in Point
        BY <1>0, LogType, ClientType
    <2>2. e.seq \in 1 .. MaxRungs
        <3>1. e.seq \in Nat \ {0}
            BY <2>1 DEF Point
        <3>2. e.seq <= client.rungs
            BY DEF BoundInv, PointInv
        <3> QED
            BY <1>1, <3>1, <3>2
    <2> QED
        BY <2>1, <2>2 DEF Point, Episode
<1>10. log.open \in Episode \cup {NoEpisode} /\ log.sealed \subseteq Episode /\ log.pending \in BOOLEAN
    BY <1>0, <1>9, LogType DEF Episodes
<1>11. client \in [ended : 0 .. MaxTurns, owed : SUBSET Turns, rungs : 0 .. MaxRungs, up : BOOLEAN,
                   reported : BOOLEAN, report : SUBSET Episode]
    <2>1. client.report \in SUBSET Episode
        BY <1>9
    <2> QED
        BY <1>0, <2>1, ClientType DEF ClientShape
<1> QED
    BY <1>0, <1>4, <1>5, <1>6, <1>7, <1>8, <1>10, <1>11 DEF TypeOK, Shape, BoundInv, TurnInv

LEMMA BoundAlways == Spec => []BoundInv
<1>1. Init => BoundInv
    BY InitBound
<1>2. LadderInv /\ BoundInv /\ [Next]_vars => BoundInv'
    BY NextBound
<1> QED
    BY <1>1, <1>2, LadderAlways, PTL DEF Spec

(* However the client, the poller and the rungs' goroutines interleave, a  *)
(* session hands out no more streams and logs no more stuck points than    *)
(* rungs were started, no rung sends more frames than its audio has, and   *)
(* every number the gateway keeps stays within its bound: the streams'     *)
(* numbers of beginRescueSpeech, the sequence numbers of rescueLog, the    *)
(* levels of the detector, the names of the turns.                         *)
THEOREM LadderTypeCorrect == Spec => []TypeOK
<1>1. LadderInv /\ BoundInv => TypeOK
    BY BoundImpliesType
<1> QED
    BY <1>1, LadderAlways, BoundAlways, PTL

-----------------------------------------------------------------------------
(* The numbers of the stuck points *)

LogNumbered(l) ==
    /\ Numbered(l.sealed)
    /\ l.open # NoEpisode => l.open.seq = Cardinality(l.sealed) + 1

NumberInv == LogNumbered(log) /\ Numbered(client.report)

LEMMA EpisodesNumbered ==
    ASSUME Shape, LogNumbered(log)
    PROVE  Numbered(Episodes(log)) /\ Cardinality(Episodes(log)) = Points(log)
<1>0. PICK n \in Nat : n = Cardinality(log.sealed)
    BY CountTypes
<1>1. CASE log.open = NoEpisode
    <2>1. Episodes(log) = log.sealed
        BY <1>1 DEF Episodes
    <2> QED
        BY <1>0, <1>1, <2>1 DEF LogNumbered, Points
<1>2. CASE log.open # NoEpisode
    <2>1. Episodes(log) = log.sealed \cup {log.open} /\ log.open.seq = n + 1
        BY <1>0, <1>2 DEF Episodes, LogNumbered
    <2>2. \A e \in log.sealed : e.seq \in 1 .. n
        BY <1>0 DEF LogNumbered, Numbered
    <2>3. log.open \notin log.sealed
        BY <1>0, <2>1, <2>2
    <2>4. Cardinality(log.sealed \cup {log.open}) = n + 1
        BY <1>0, <2>3, LogType, FS_AddElement
    <2>5. \A e \in Episodes(log) : e.seq \in 1 .. n + 1
        BY <1>0, <2>1, <2>2
    <2>6. \A e, f \in log.sealed : e.seq = f.seq => e = f
        BY DEF LogNumbered, Numbered
    <2>7. \A e, f \in Episodes(log) : e.seq = f.seq => e = f
        BY <1>0, <2>1, <2>2, <2>6
    <2>8. Points(log) = n + 1
        BY <1>0, <1>2 DEF Points
    <2> QED
        BY <2>1, <2>4, <2>5, <2>7, <2>8 DEF Numbered
<1> QED
    BY <1>1, <1>2

LEMMA SealNumbers ==
    ASSUME Shape, LogNumbered(log), log' = Sealed(log) \/ closeEpisode
    PROVE  LogNumbered(log')
<1>1. log'.sealed = Episodes(log) /\ log'.open = NoEpisode
    <2>1. Sealed(log).sealed = Episodes(log) /\ Sealed(log).open = NoEpisode
          /\ DOMAIN Sealed(log) = {"open", "pending", "sealed"}
        BY LogType DEF Sealed, LogShape
    <2> QED
        BY <2>1 DEF closeEpisode
<1> QED
    BY <1>1, EpisodesNumbered DEF LogNumbered

LEMMA TextNumbers ==
    ASSUME Shape, LogNumbered(log), noteUserText \/ noteIncompleteUtterance
    PROVE  LogNumbered(log')
<1>0. DOMAIN log = {"open", "pending", "sealed"}
    BY LogType DEF LogShape
<1>1. CASE log.open = NoEpisode \/ noteIncompleteUtterance
    <2>1. log'.sealed = log.sealed /\ log'.open = log.open
        BY <1>0, <1>1 DEF noteUserText, noteIncompleteUtterance
    <2> QED
        BY <2>1 DEF LogNumbered
<1>2. CASE log.open # NoEpisode /\ noteUserText
    <2>1. PICK p : p = [log.open EXCEPT !.opened = TRUE]
        OBVIOUS
    <2>2. p.seq = log.open.seq
        BY <1>2, <2>1, LogType DEF Point
    <2>3. log' = [log EXCEPT !.open = p]
        BY <1>2, <2>1 DEF noteUserText
    <2>4. log'.sealed = log.sealed /\ log'.open = p
        BY <1>0, <2>3
    <2> QED
        BY <1>2, <2>2, <2>4 DEF LogNumbered
<1> QED
    BY <1>1, <1>2

LEMMA LadderNumbers ==
    ASSUME Shape, LogNumbered(log), NEW name, NEW level \in Levels, noteLadder(name, level)
    PROVE  LogNumbered(log')
<1>0. DOMAIN log = {"open", "pending", "sealed"}
    BY LogType DEF LogShape
<1>1. CASE log.open = NoEpisode
    <2>1. PICK p : p = [seq |-> Cardinality(log.sealed) + 1, turn |-> name,
                        path |-> IF log.pending THEN "incomplete" ELSE "silent",
                        level |-> level, opened |-> log.pending]
        OBVIOUS
    <2>2. log' = [log EXCEPT !.open = p, !.pending = FALSE]
        BY <1>1, <2>1 DEF noteLadder
    <2>3. log'.sealed = log.sealed /\ log'.open = p /\ p.seq = Cardinality(log.sealed) + 1
        BY <1>0, <2>1, <2>2
    <2> QED
        BY <2>3 DEF LogNumbered
<1>2. CASE log.open # NoEpisode
    <2>1. PICK p : p = [log.open EXCEPT !.level = Max({@, level})]
        OBVIOUS
    <2>2. p.seq = log.open.seq
        BY <1>2, <2>1, LogType DEF Point
    <2>3. log' = [log EXCEPT !.open = p]
        BY <1>2, <2>1 DEF noteLadder
    <2>4. log'.sealed = log.sealed /\ log'.open = p
        BY <1>0, <2>3
    <2> QED
        BY <1>2, <2>2, <2>4 DEF LogNumbered
<1> QED
    BY <1>1, <1>2

LEMMA NextNumbers ==
    ASSUME LadderInv, NumberInv, [Next]_vars
    PROVE  NumberInv'
<1>0. Shape /\ LogNumbered(log) /\ Numbered(client.report)
    BY SameShape DEF NumberInv
<1>1. \/ log' = log \/ noteIncompleteUtterance \/ noteUserText \/ log' = Sealed(log) \/ closeEpisode
      \/ \E s \in Slots : NoteLadder(s)
    <2>1. CASE Handling \/ UserSpeechStart \/ ClientTurnAbort \/ SessionEnd \/ ClientGone \/ LoopExits \/ Tick
               \/ \E said \in Says : UserSpeechEnd(said)
        BY <2>1 DEF Handling, SessionStart, UserSpeechStartHeard, UserSpeechEndHeard, stopRescueSpeech, StopSends,
               StartCollectTurn, ClientTurnAbortHeard, PersistSession, persistOnExit, UserSpeechStart,
               ClientTurnAbort, SessionEnd, ClientGone, LoopExits, Tick, UserSpeechEnd
    <2>2. CASE CollectStep
        BY <2>2 DEF CollectStep, AITextDelta, AIAudio, AIAudioWrite, ReplyEnds, AIEndMark, NoteClose, NoteOpen,
               AnswerWritten, NoteUserText, CollectFails
    <2>3. ASSUME NEW s \in Slots, checkRescue(s) \/ requestRescue(s) \/ RungStep(s)
          PROVE  log' = log \/ NoteLadder(s)
        BY <2>3 DEF checkRescue, requestRescue, RungStep, rescueSnapshot, DeliverText, beginRescueSpeech,
               beginUtterance, CheckLive, SendFrame, rescueSpeechCurrent, FlushTail, EndUtterance, finishRescueSpeech
    <2>4. CASE UNCHANGED vars
        BY <2>4 DEF vars
    <2> QED
        BY <2>1, <2>2, <2>3, <2>4 DEF Next
<1>2. LogNumbered(log')
    <2>1. ASSUME NEW s \in Slots, NoteLadder(s) PROVE LogNumbered(log')
        <3>1. rung[s].level \in Levels
            BY <2>1, SameShape DEF NoteLadder, LogInv, Named
        <3> QED
            BY <1>0, <2>1, <3>1, LadderNumbers DEF NoteLadder
    <2> QED
        BY <1>0, <1>1, <2>1, SealNumbers, TextNumbers
<1>3. client'.report = client.report \/ client'.report = Episodes(log)
    <2>0. DOMAIN client = {"ended", "owed", "rungs", "up", "reported", "report"}
        BY <1>0, ClientType DEF ClientShape
    <2>1. CASE client' = client \/ client' = [client EXCEPT !.up = FALSE] \/ Answered
               \/ client' = [client EXCEPT !.rungs = @ + 1]
        BY <2>0, <2>1 DEF Answered
    <2>2. CASE \E name : client' = [client EXCEPT !.ended = name, !.owed = @ \cup {name}]
        BY <2>0, <2>2
    <2>3. CASE client' = Report \/ client' = [Report EXCEPT !.up = FALSE]
        BY <1>0, <2>3, Reports
    <2>4. CASE Handling \/ UserSpeechStart \/ ClientTurnAbort \/ SessionEnd \/ ClientGone \/ LoopExits \/ Tick
        <3>1. \/ client' = client \/ client' = [client EXCEPT !.up = FALSE]
              \/ client' = Report \/ client' = [Report EXCEPT !.up = FALSE]
            BY <2>4 DEF Handling, SessionStart, UserSpeechStartHeard, UserSpeechEndHeard, stopRescueSpeech, StopSends,
                   StartCollectTurn, ClientTurnAbortHeard, PersistSession, persistOnExit, UserSpeechStart,
                   ClientTurnAbort, SessionEnd, ClientGone, LoopExits, Tick
        <3> QED
            BY <2>1, <2>3, <3>1
    <2>5. CASE CollectStep
        <3>1. client' = client \/ Answered
            BY <2>5 DEF CollectStep, AITextDelta, AIAudio, AIAudioWrite, ReplyEnds, AIEndMark, NoteClose, NoteOpen,
                   AnswerWritten, NoteUserText, CollectFails
        <3> QED
            BY <2>1, <3>1
    <2>6. ASSUME NEW s \in Slots, checkRescue(s) \/ requestRescue(s) \/ RungStep(s)
          PROVE  client' = client \/ client' = [client EXCEPT !.rungs = @ + 1]
        BY <2>6 DEF checkRescue, requestRescue, RungStep, rescueSnapshot, DeliverText, NoteLadder, beginRescueSpeech,
               beginUtterance, CheckLive, SendFrame, rescueSpeechCurrent, FlushTail, EndUtterance, finishRescueSpeech
    <2>7. ASSUME NEW said \in Says, UserSpeechEnd(said)
          PROVE  \E name : client' = [client EXCEPT !.ended = name, !.owed = @ \cup {name}]
        BY <2>7 DEF UserSpeechEnd
    <2>8. CASE UNCHANGED vars
        BY <2>8 DEF vars
    <2> QED
        BY <2>1, <2>2, <2>4, <2>5, <2>6, <2>7, <2>8 DEF Next
<1> QED
    BY <1>0, <1>2, <1>3, EpisodesNumbered DEF NumberInv

(* The stuck points of a session are numbered 1 .. n whatever the poller,  *)
(* the requests and the turn ends do to the log, and a report carries each *)
(* of them once: the counter of rescueLog is the length of its list.       *)
THEOREM PointsAreNumbered == Spec => []PointsNumbered
<1>1. Init => NumberInv
    <2>1. ASSUME Init PROVE log.sealed = {} /\ log.open = NoEpisode /\ client.report = {}
        BY <2>1 DEF Init
    <2> QED
        BY <2>1 DEF NumberInv, LogNumbered, Numbered
<1>2. LadderInv /\ NumberInv /\ [Next]_vars => NumberInv'
    BY NextNumbers
<1>3. LadderInv /\ BoundInv /\ NumberInv => PointsNumbered
    <2> SUFFICES ASSUME LadderInv, BoundInv, NumberInv PROVE PointsNumbered
        OBVIOUS
    <2>1. Shape
        BY SameShape
    <2>2. Points(log) <= client.rungs
        BY <2>1, CountTypes, AtIsCounted DEF BoundInv, PointInv
    <2> QED
        BY <2>1, <2>2, EpisodesNumbered DEF PointsNumbered, NumberInv
<1> QED
    BY <1>1, <1>2, <1>3, LadderAlways, BoundAlways, PTL DEF Spec

=============================================================================
