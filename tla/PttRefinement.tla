---------------------------- MODULE PttRefinement ----------------------------
(***************************************************************************)
(* Push-to-talk delivery as an implementation of Delivery. A call whose     *)
(* record failed (unlinked) has no part in the promise: the hub pushes it   *)
(* and answers with it, and a retry stores and pushes another one.          *)
(***************************************************************************)
EXTENDS PttDelivery

D == INSTANCE Delivery WITH
        chosen <- uploads,
        sent   <- delivered \ unlinked,
        told   <- {a \in answers : a[2] \notin unlinked},
        cut    <- orphaned \ unlinked

\* ptt.go:30-31 and 297-298: whatever requests, retries, failures and restarts do
\* to each other, the recorded calls behave as one call per key, pushed once or
\* cut off, and named by every answer; and none of them waits for ever.
ImplementsDelivery == D!Spec /\ D!NoneWaits
=============================================================================
