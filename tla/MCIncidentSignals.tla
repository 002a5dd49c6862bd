-------------------------- MODULE MCIncidentSignals --------------------------
(* Instance of IncidentSignals for TLC: a tornado warning, another alert      *)
(* without a template, and a storm report, in one area.                       *)
EXTENDS IncidentSignals

CONSTANTS tornado, wind, report, oklahoma
OneArea == [a \in Alerts |-> oklahoma]
OpenOnly == {[suggest |-> FALSE, open |-> TRUE, areas |-> Areas]}
=============================================================================
