------------------------------ MODULE HubPeering ------------------------------
(***************************************************************************)
(* Hubs of a federation: the one identity row of each, which every handler  *)
(* reads first and some write back whole, and the handshake that turns an   *)
(* invite into a peer row on both sides. Requests, the daily directory      *)
(* refresh and failures interleave on each hub and between two of them.     *)
(* (src/server/internal/api/hub_identity.go, database/hub_identity.go)      *)
(***************************************************************************)
EXTENDS Naturals, FiniteSets

CONSTANTS
    Hubs,
    Configured,     \* hubs with HUB_FEDERATION_ENABLED=true
    Known,          \* hubs that have run before, federation switched on by their admin
    Official,       \* hubs with a HUB_TRUST_LEVEL above community
    Levels,         \* trust levels the public directory may show
    MaxInvites,     \* bound: invites ever made
    MaxActs         \* bound: requests and refreshes ever started

ASSUME HubAssumption ==
    /\ Hubs # {}
    /\ Configured \subseteq Hubs
    /\ Known \subseteq Hubs
    /\ Official \subseteq Hubs
    /\ "community" \in Levels /\ "official" \in Levels
    /\ MaxInvites \in Nat
    /\ MaxActs \in Nat

VARIABLES
    row,        \* row[h]: the row of hub_identity; id NoId: not there yet
    invites,    \* invites[t]: the row of hub_invites
    minted,     \* invites so far
    peers,      \* peers[h]: the hub ids in hub_peers
    act,        \* act[n]: what handler n has read and where it is
    acts,       \* handlers so far
    admitted,   \* admitted[t]: handlers that redeemed invite t (history)
    generated,  \* generated[h]: key pairs ever stored (history)
    wanted,     \* wanted[h]: the last value given to each setting (history)
    stale,      \* hubs where a row read before was written back over a newer one (history)
    cut         \* pairs of hubs whose last handshake was broken or undone (history)

tables == <<row, invites, minted, peers>>
past == <<admitted, generated, wanted, stale, cut>>
vars == <<tables, act, acts, past>>

Acts == 1..MaxActs
Invites == 1..MaxInvites
NoId == <<>>
HubIds == Hubs \X (0..MaxActs)
Kinds == {"edit", "refresh", "labels", "keygen", "invite", "connect"}

\* Labels and keys are named by the handler that made them.
Row == [id: HubIds \cup {NoId}, fed: BOOLEAN, trust: Levels,
        labels: 0..MaxActs, key: 0..MaxActs]
Settings == [fed: BOOLEAN, trust: Levels, labels: 0..MaxActs]
Invite == [hub: Hubs, used: BOOLEAN, revoked: BOOLEAN, expired: BOOLEAN]
Stages == {"off", "ensure", "settle", "write", "send", "check", "redeem", "store",
           "answer"}
Act == [kind: Kinds, hub: Hubs, at: Hubs, pc: Stages, seen: Row,
        me: HubIds \cup {NoId}, invite: 0..MaxInvites, target: Hubs]

TypeOK ==
    /\ row \in [Hubs -> Row]
    /\ invites \in [Invites -> Invite]
    /\ minted \in 0..MaxInvites
    /\ peers \in [Hubs -> SUBSET HubIds]
    /\ act \in [Acts -> Act]
    /\ acts \in 0..MaxActs
    /\ admitted \in [Invites -> SUBSET Acts]
    /\ generated \in [Hubs -> SUBSET Acts]
    /\ wanted \in [Hubs -> Settings]
    /\ stale \subseteq Hubs
    /\ cut \subseteq SUBSET Hubs

\* What the environment prescribes for a hub without a row.
Fresh(h, id) ==
    [id |-> id, fed |-> h \in Configured,
     trust |-> IF h \in Official THEN "official" ELSE "community",
     labels |-> 0, key |-> 0]

SettingsOf(r) == [fed |-> r.fed, trust |-> r.trust, labels |-> r.labels]

AnyHub == CHOOSE h \in Hubs : TRUE
NoInvite == [hub |-> AnyHub, used |-> FALSE, revoked |-> FALSE, expired |-> FALSE]
NoAct == [kind |-> "edit", hub |-> AnyHub, at |-> AnyHub, pc |-> "off",
          seen |-> Fresh(AnyHub, NoId), me |-> NoId, invite |-> 0, target |-> AnyHub]

First(h) ==
    IF h \in Known THEN [Fresh(h, <<h, 0>>) EXCEPT !.fed = TRUE] ELSE Fresh(h, NoId)

Init ==
    /\ row = [h \in Hubs |-> First(h)]
    /\ invites = [t \in Invites |-> NoInvite]
    /\ minted = 0
    /\ peers = [h \in Hubs |-> {}]
    /\ act = [n \in Acts |-> NoAct]
    /\ acts = 0
    /\ admitted = [t \in Invites |-> {}]
    /\ generated = [h \in Hubs |-> {}]
    /\ wanted = [h \in Hubs |-> SettingsOf(First(h))]
    /\ stale = {}
    /\ cut = {}

-----------------------------------------------------------------------------
(* The identity row *)

FaultUpserted(old, new) ==
    IF old.id = NoId THEN new ELSE [new EXCEPT !.id = old.id]

\* ON CONFLICT: the id stays, and a pair of keys is never replaced by an empty one.
Upserted(old, new) ==
    IF old.id = NoId THEN new
    ELSE [new EXCEPT !.id = old.id, !.key = IF @ = 0 THEN old.key ELSE @]

\* A whole row is written back: what others wrote since it was read is overwritten.
Upsert(h, seen, new) ==
    /\ row' = [row EXCEPT ![h] = Upserted(@, new)]
    /\ stale' = IF SettingsOf(row[h]) = SettingsOf(seen) THEN stale ELSE stale \cup {h}

\* What the environment overrules: federation switched on, a level above community.
Prescribed(h, r) ==
    [r EXCEPT !.fed = @ \/ h \in Configured,
              !.trust = IF h \in Official THEN "official" ELSE @]

Go(n, pc) == act' = [act EXCEPT ![n].pc = pc]
Done(n) == Go(n, "off")

FaultOnward(n) == IF act[n].kind = "connect" THEN "check" ELSE "write"
\* Where a handler goes on with the identity it has read.
Onward(n) ==
    IF act[n].kind # "connect" THEN "write"
    ELSE IF act[n].me = NoId THEN "send" ELSE "check"

\* ensureHubIdentity: read the row; it is used as it is, or written first.
Ensure(n) ==
    LET h == act[n].at
        r == row[h]
    IN  /\ act[n].pc = "ensure"
        /\ IF r.id # NoId /\ Prescribed(h, r) = r
           THEN act' = [act EXCEPT ![n].seen = r, ![n].pc = Onward(n)]
           ELSE act' = [act EXCEPT ![n].seen = r, ![n].pc = "settle"]
        /\ UNCHANGED <<tables, acts, past>>

\* The row as it is saved is the identity the handler goes on with.
Returned(h, r, new) == row'[h]

\* The row is created, or brought in line with the environment.
Settle(n) ==
    LET h == act[n].at
        r == act[n].seen
        new == IF r.id = NoId THEN Fresh(h, <<h, n>>) ELSE Prescribed(h, r)
    IN  /\ act[n].pc = "settle"
        /\ Upsert(h, r, new)
        /\ wanted' = [wanted EXCEPT
              ![h].fed = @ \/ h \in Configured,
              ![h].trust = IF h \in Official THEN "official" ELSE @]
        /\ act' = [act EXCEPT ![n].seen = Returned(h, r, new), ![n].pc = Onward(n)]
        /\ UNCHANGED <<invites, minted, peers, acts, admitted, generated, cut>>

-----------------------------------------------------------------------------
(* Requests and refreshes *)

Start(kind, h) ==
    /\ acts < MaxActs
    /\ acts' = acts + 1
    /\ \E b \in Hubs, t \in 0..minted :
         /\ IF kind = "connect" THEN t # 0 ELSE b = h /\ t = 0
         /\ act' = [act EXCEPT ![acts + 1] =
              [kind |-> kind, hub |-> h, at |-> h, pc |-> "ensure",
               seen |-> Fresh(h, NoId), me |-> NoId, invite |-> t, target |-> b]]
    /\ UNCHANGED <<tables, past>>

AtWrite(n, kind) == act[n].pc = "write" /\ act[n].kind = kind

\* handleUpdateHubIdentity
SaveIdentity(n) ==
    LET h == act[n].hub IN
    /\ AtWrite(n, "edit")
    /\ \E fed \in BOOLEAN :
         /\ Upsert(h, act[n].seen, [act[n].seen EXCEPT !.fed = fed])
         /\ wanted' = [wanted EXCEPT ![h].fed = fed]
    /\ Done(n)
    /\ UNCHANGED <<invites, minted, peers, acts, admitted, generated, cut>>

\* refreshHubDirectory, on request or once a day: the directory has answered.
SaveTrust(n) ==
    LET h == act[n].hub IN
    /\ AtWrite(n, "refresh")
    /\ \E level \in Levels :
         /\ Upsert(h, act[n].seen, [act[n].seen EXCEPT !.trust = level])
         /\ wanted' = [wanted EXCEPT ![h].trust = level]
    /\ Done(n)
    /\ UNCHANGED <<invites, minted, peers, acts, admitted, generated, cut>>

\* handleUpdateIncidentSettings writes its own columns alone, the labels as it read
\* them if the request has none.
SaveLabels(n) ==
    LET h == act[n].hub IN
    /\ AtWrite(n, "labels")
    /\ \E l \in {n, act[n].seen.labels} :
         /\ row' = [row EXCEPT ![h].labels = l]
         /\ wanted' = IF l = n THEN [wanted EXCEPT ![h].labels = l] ELSE wanted
         /\ stale' = IF l # n /\ row[h].labels # l THEN stale \cup {h} ELSE stale
    /\ Done(n)
    /\ UNCHANGED <<invites, minted, peers, acts, admitted, generated, cut>>

\* handleGenerateHubKeyPair
SaveKeys(n) ==
    LET h == act[n].hub IN
    /\ AtWrite(n, "keygen")
    /\ IF act[n].seen.key # 0
       THEN UNCHANGED <<row, generated>>
       ELSE /\ row' = [row EXCEPT ![h].key = n]
            /\ generated' = [generated EXCEPT ![h] = @ \cup {n}]
    /\ Done(n)
    /\ UNCHANGED <<invites, minted, peers, acts, admitted, wanted, stale, cut>>

\* handleCreateHubInvite
CreateInvite(n) ==
    /\ AtWrite(n, "invite")
    /\ IF act[n].seen.fed /\ minted < MaxInvites
       THEN /\ minted' = minted + 1
            /\ invites' = [invites EXCEPT ![minted + 1].hub = act[n].hub]
       ELSE UNCHANGED <<minted, invites>>
    /\ Done(n)
    /\ UNCHANGED <<row, peers, acts, past>>

-----------------------------------------------------------------------------
(* The handshake *)

\* handleConnectHubPeer: the request with the own identity goes to the other hub.
Send(n) ==
    /\ act[n].pc = "send"
    /\ IF act[n].seen.fed
       THEN act' = [act EXCEPT ![n].me = act[n].seen.id, ![n].at = act[n].target,
                               ![n].pc = "ensure"]
       ELSE Done(n)
    /\ UNCHANGED <<tables, acts, past>>

Valid(t, h) ==
    invites[t].hub = h /\ ~invites[t].used /\ ~invites[t].revoked /\ ~invites[t].expired

\* handleAcceptHubInvite: federation, no peering with itself, the invite as selected.
Check(n) ==
    LET a == act[n] IN
    /\ a.pc = "check"
    /\ Go(n, IF a.seen.fed /\ a.me # a.seen.id /\ Valid(a.invite, a.at)
             THEN "redeem" ELSE "off")
    /\ UNCHANGED <<tables, acts, past>>

FaultRedeemable(i) == ~i.revoked
Redeemable(i) == ~i.used /\ ~i.revoked

\* The UPDATE of RedeemHubInvite: its conditions again, with the same clock.
Redeem(n) ==
    LET t == act[n].invite IN
    /\ act[n].pc = "redeem"
    /\ IF Redeemable(invites[t])
       THEN /\ invites' = [invites EXCEPT ![t].used = TRUE]
            /\ admitted' = [admitted EXCEPT ![t] = @ \cup {n}]
            /\ Go(n, "store")
       ELSE UNCHANGED <<invites, admitted>> /\ Done(n)
    /\ UNCHANGED <<row, minted, peers, acts, generated, wanted, stale, cut>>

Lists(h, b) == row[b].id \in peers[h]
Pair(n) == {act[n].hub, act[n].target}

\* UpsertHubPeer of the inviting hub.
StorePeer(n) ==
    /\ act[n].pc = "store"
    /\ peers' = [peers EXCEPT ![act[n].at] = @ \cup {act[n].me}]
    /\ cut' = cut \cup {Pair(n)}
    /\ Go(n, "answer")
    /\ UNCHANGED <<row, invites, minted, acts, admitted, generated, wanted, stale>>

Answered(n) == act[n].seen.id

\* UpsertHubPeer of the invited hub: from here the two list each other, if nobody
\* deleted the first row meanwhile.
SavePeer(n) ==
    /\ act[n].pc = "answer"
    /\ peers' = [peers EXCEPT ![act[n].hub] = @ \cup {Answered(n)}]
    /\ cut' = IF Lists(act[n].target, act[n].hub) THEN cut \ {Pair(n)} ELSE cut
    /\ Done(n)
    /\ UNCHANGED <<row, invites, minted, acts, admitted, generated, wanted, stale>>

\* A statement or a request fails, an answer is lost, a hub stops: what is written stays.
Fail(n) ==
    /\ act[n].pc # "off"
    /\ Done(n)
    /\ UNCHANGED <<tables, acts, past>>

-----------------------------------------------------------------------------
(* Other requests *)

\* handleRevokeHubInvite, also of an invite that is used up.
Revoke(t) ==
    /\ t <= minted /\ ~invites[t].revoked
    /\ invites' = [invites EXCEPT ![t].revoked = TRUE]
    /\ UNCHANGED <<row, minted, peers, act, acts, past>>

Expire(t) ==
    /\ t <= minted /\ ~invites[t].expired
    /\ invites' = [invites EXCEPT ![t].expired = TRUE]
    /\ UNCHANGED <<row, minted, peers, act, acts, past>>

\* handleDeleteHubPeer; the imports go in the background (FederationImport).
DeletePeer(h, id) ==
    /\ id \in peers[h]
    /\ peers' = [peers EXCEPT ![h] = @ \ {id}]
    /\ cut' = cut \cup {{h, id[1]}}
    /\ UNCHANGED <<row, invites, minted, act, acts, admitted, generated, wanted, stale>>

-----------------------------------------------------------------------------
Identity(n) == Ensure(n) \/ Settle(n) \/ SaveIdentity(n) \/ SaveTrust(n)
                 \/ SaveLabels(n) \/ SaveKeys(n)
Handshake(n) == CreateInvite(n) \/ Send(n) \/ Check(n) \/ Redeem(n) \/ StorePeer(n)
                 \/ SavePeer(n)

Next ==
    \/ \E kind \in Kinds, h \in Hubs : Start(kind, h)
    \/ \E n \in Acts : Identity(n) \/ Handshake(n) \/ Fail(n)
    \/ \E t \in Invites : Revoke(t) \/ Expire(t)
    \/ \E h \in Hubs, id \in HubIds : DeletePeer(h, id)

Spec == Init /\ [][Next]_vars

-----------------------------------------------------------------------------
(* Properties *)

\* An invite lets one hub in, however many requests hold it at once (RedeemHubInvite:
\* selected by all of them before one updates it).
InviteAdmitsOne == \A t \in Invites : Cardinality(admitted[t]) <= 1

\* A peer row is the work of a handshake between the two hubs that redeemed an invite
\* (handleAcceptHubInvite, handleConnectHubPeer).
PeersInvited ==
    \A h \in Hubs : \A id \in peers[h] :
        \E t \in Invites, n \in Acts : n \in admitted[t] /\ Pair(n) = {h, id[1]}

\* Two hubs list each other or neither does, unless the last handshake between them
\* was cut off half way or one of them deleted the other.
PeeringMutual ==
    \A g, h \in Hubs : Lists(g, h) => Lists(h, g) \/ {g, h} \in cut

\* hub_identity.go: what a handshake with failures and competitors leaves behind.
HandshakeSound == InviteAdmitsOne /\ PeersInvited /\ PeeringMutual

\* database/hub_identity.go: "Never wipe an existing keypair with empty values from a
\* partial upsert", however old the row is that a handler writes back.
KeyKept == \A h \in Hubs : generated[h] # {} => row[h].key \in generated[h]

\* Handlers that find no row each make an id, and one is the hub's for good: every
\* hub knows it under that one (ensureHubIdentity, UpsertHubIdentity).
OneIdentity ==
    /\ \A h \in Hubs : \A id \in peers[h] : id = row[id[1]].id
    /\ \A n \in Acts : act[n].me # NoId => act[n].me = row[act[n].hub].id

\* A setting has the value it was given last, unless a handler wrote back a row that
\* it had read before (handleUpdateHubIdentity, refreshHubDirectory).
SettingsStand == \A h \in Hubs \ stale : SettingsOf(row[h]) = wanted[h]

\* hub_identity.go: the row that every handler rewrites.
IdentitySound == KeyKept /\ OneIdentity /\ SettingsStand
=============================================================================
