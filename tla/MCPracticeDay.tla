---------------------------- MODULE MCPracticeDay ---------------------------
(***************************************************************************)
(* Small instances of PracticeDay: two phrases at the start, two requests  *)
(* of each kind under way at the same time.                                *)
(***************************************************************************)
EXTENDS PracticeDay

\* A review that offers a phrase already owned, and one that offers a new one twice.
MCBatches == {<<<<"A", 1>>>>, <<<<"C", 1>>, <<"C", 2>>>>}

\* The kinds of requests that meet in a behaviour: pages against writes, cards against the corpus,
\* badges against the corpus, reads against a merge, speech and models against their vendors, the
\* history against the sessions that start, end and are deleted.
Mix(kinds, requests, errors, until) == [kinds |-> kinds, requests |-> requests, faults |-> errors, until |-> until]

MCMixes ==
    {Mix({"sync", "favorite", "delete", "accept"}, 3, 0, 1),
     Mix({"sync", "edit", "wipe", "restore"}, 3, 0, 1),
     Mix({"sync", "guest", "restore"}, 3, 0, 2),
     Mix({"browse", "pin", "delete"}, 3, 0, 1),
     Mix({"browse", "edit", "accept"}, 3, 0, 1),
     Mix({"browse", "edit", "accept", "favorite"}, 2, 1, 1),
     Mix({"feedback", "wipe", "restore", "starter", "delete"}, 3, 0, 1),
     Mix({"topics", "checkin"}, 3, 0, 2),
     Mix({"topics", "checkin"}, 3, 1, 1),
     Mix({"topics", "checkin", "dismiss", "wipe", "restore", "delete"}, 3, 0, 0),
     Mix({"badges", "delete"}, 3, 1, 0),
     Mix({"badges", "sync"}, 3, 0, 2),
     Mix({"badges", "edit"}, 3, 0, 0),
     Mix({"topics", "checkin", "edit"}, 3, 0, 0),
     Mix({"reads", "merge"}, 3, 1, 1),
     Mix({"models", "anonymize"}, 3, 0, 1),
     Mix({"models"}, 2, 1, 1),
     Mix({"speech"}, 2, 3, 0),
     Mix({"history", "list", "forget"}, 4, 0, 1),
     Mix({"history", "end", "detail"}, 4, 2, 0)}

MCFirstWords == 1 :> "A" @@ 2 :> "B"
MCTokensOf == ("A" :> <<"blocked", "on">>) @@ ("B" :> <<"blocked">>) @@ ("C" :> <<"on">>)
MCAnchorOf == ("A" :> <<>>) @@ ("B" :> <<"blocked">>) @@ ("C" :> <<>>)
MCLengthOf == ("A" :> 2) @@ ("B" :> 1) @@ ("C" :> 1)
MCTexts == {<<"blocked">>, <<"on", "it">>}
MCQuotes == {{1}, {1, 2}}

MCClaims == {{1, 2}}

MCRoutes == "daily.read" :> "ep-read"
MCServes == ("ep-read" :> "seed-mini") @@ ("ep-review" :> "seed-pro")
MCKeyRank == ("daily.read" :> 1) @@ ("drill.judge" :> 2) @@ ("review.eval" :> 3) @@ ("voice.tts" :> 4)
             @@ ("jupiter" :> 1) @@ ("seed-mini" :> 2) @@ ("seed-pro" :> 3) @@ ("uranus" :> 4)
MCUsages == {<<2, 1>>}
MCArkPricing == "mini" :> [input |-> 2, output |-> 3]
MCEndpointToModel == "ep-read" :> "seed-mini"
MCFamilyOf == ("seed-mini" :> "mini") @@ ("seed-pro" :> "pro")

MCLookupVoice == ("rescue_ladder" :> "uranus") @@ ("other" :> "jupiter")
MCPiecesOf == ("x" :> 3) @@ ("y" :> 2)

\* A learner who spoke and was helped; a number used twice; a report of the other party alone whose
\* ladder has no such level.
Said(seq, speaker) == [seq |-> seq, speaker |-> speaker, text |-> "t"]
Ladder(seq, level) == [seq |-> seq, level |-> level, path |-> "", opened |-> TRUE, anchor |-> "a"]
MCReports ==
    {[said |-> <<Said(1, "ai"), Said(2, "user")>>, ladders |-> <<Ladder(1, 2), Ladder(1, 1)>>],
     [said |-> <<Said(1, "ai"), Said(1, "user")>>, ladders |-> <<>>],
     [said |-> <<Said(1, "ai")>>, ladders |-> <<Ladder(1, 9)>>]}

\* The requests of the different parts go by the same two names.
Symmetric == Permutations(Calls)
=============================================================================
