---------------------------- MODULE MCCallArchive ----------------------------
(* Instance of CallArchive for TLC: the third call is as old as the first    *)
(* one, belongs to its day, and arrives late.                                *)
EXTENDS CallArchive

MCDateOf(c) == IF c = 2 THEN 1 ELSE 0
MCDayOf(c) == MCDateOf(c)
=============================================================================
