----------------------------- MODULE MCIncidents -----------------------------
(* Instance of Incidents for TLC: one incident of either exposure, and two    *)
(* requests that may overlap.                                                 *)
EXTENDS Incidents
=============================================================================
