----------------------------- MODULE MCHubPeering -----------------------------
(* A hub that the environment puts into the federation and one that is official. *)
EXTENDS HubPeering
MCLevels == {"community", "official"}
=============================================================================
