------------------------- MODULE MCFederationImport -------------------------
(* Instance of FederationImport for TLC: the constants are in the cfg file.   *)
EXTENDS FederationImport
=============================================================================
