--------------------------- MODULE MCRecorderQueue ---------------------------
(* Instance of RecorderQueue for TLC: clip 3 is younger than clip 1.         *)
EXTENDS RecorderQueue

MCStampOf(c) == IF c = 3 THEN 2 ELSE 1
=============================================================================
