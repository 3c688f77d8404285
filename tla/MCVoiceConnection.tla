------------------------ MODULE MCVoiceConnection ------------------------
(* VoiceConnection with the events of a reply in the vendor's order. *)
EXTENDS VoiceConnection

MCReplyOrder == <<"committed", "text", "audio", "done">>
=============================================================================
