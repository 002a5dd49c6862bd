------------------------ MODULE MCTranscriptionQueue ------------------------
(* TLC instances of TranscriptionQueue. *)
EXTENDS TranscriptionQueue

\* Two calls on a talkgroup each; the second one may be too short.
MCTalkgroupOf == <<"fire", "ems">>
=============================================================================
