------------------------------- MODULE Delivery -------------------------------
(***************************************************************************)
(* What push-to-talk promises a client, without requests, radio sets or a   *)
(* database: a key names one call for good, that call is pushed to the      *)
(* listeners once or is cut off by a restart, and whoever asks is told it.  *)
(* (src/server/internal/api/ptt.go: what retries rely on)                   *)
(***************************************************************************)
EXTENDS Naturals

CONSTANTS Keys, Ids

VARIABLES
    chosen,     \* chosen[k]: the call of key k, 0 until there is one
    sent,       \* calls pushed to the listeners
    told,       \* <<key, call>> pairs that clients were answered
    cut         \* calls that a restart kept from being pushed

dvars == <<chosen, sent, told, cut>>

Init ==
    /\ chosen = [k \in Keys |-> 0]
    /\ sent = {} /\ told = {} /\ cut = {}

Waiting(k) == chosen[k] # 0 /\ chosen[k] \notin sent \cup cut

\* A key is given a call of its own, once.
Choose(k, id) ==
    /\ chosen[k] = 0
    /\ \A j \in Keys : chosen[j] # id
    /\ id \notin sent \cup cut
    /\ chosen' = [chosen EXCEPT ![k] = id]
    /\ UNCHANGED <<sent, told, cut>>

Tell(k) ==
    /\ chosen[k] # 0
    /\ told' = told \cup {<<k, chosen[k]>>}
    /\ UNCHANGED <<chosen, sent, cut>>

\* The one push of a call, and the answer to the request that stored it.
Send(k) ==
    /\ Waiting(k)
    /\ sent' = sent \cup {chosen[k]}
    /\ told' = told \cup {<<k, chosen[k]>>}
    /\ UNCHANGED <<chosen, cut>>

CutOff(K) ==
    /\ K # {} /\ \A k \in K : Waiting(k)
    /\ cut' = cut \cup {chosen[k] : k \in K}
    /\ UNCHANGED <<chosen, sent, told>>

Next ==
    \/ \E k \in Keys : Tell(k) \/ Send(k) \/ \E id \in Ids : Choose(k, id)
    \/ \E K \in SUBSET Keys : CutOff(K)

Spec == Init /\ [][Next]_dvars

\* No chosen call waits for ever.
NoneWaits == \A k \in Keys : Waiting(k) ~> ~Waiting(k)

=============================================================================
