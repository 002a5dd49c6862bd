----------------------- MODULE PeeringAndImport_proofs -----------------------
(***************************************************************************)
(* Proofs about two components that share neither a variable nor a name.    *)
(*                                                                          *)
(* Part 1, HubPeering: types; a handshake admits one hub and leaves peers   *)
(* on both sides or a named break; ids, key pairs and settings survive      *)
(* handlers that write back whole rows.  For every set of hubs and every    *)
(* number of handlers and invites.                                          *)
(*                                                                          *)
(* Part 2, FederationImport: pages fit, a remote call is announced once,    *)
(* the back-fill stays within its cap and the deletion of a peer leaves     *)
(* nothing of it.  For every cap, size of a page, number of remote calls,   *)
(* deletions, failures and restarts.                                        *)
(***************************************************************************)
EXTENDS HubPeering, FederationImport, FiniteSetTheorems, TLAPS

-----------------------------------------------------------------------------
(* Part 1: peering. What rows, handlers and peers have to do with another.  *)

\* A row that is not there yet is what the environment prescribes, and has no keys.
Blank == \A h \in Hubs :
    /\ row[h].id = NoId => row[h] = Fresh(h, NoId) /\ generated[h] = {}
    /\ row[h].id # NoId => row[h].id[1] = h

\* The keys of a row were generated, whatever was written back over them.
KeysMade == \A h \in Hubs : row[h].key # 0 => row[h].key \in generated[h]

\* What a handler has read: the id is the hub's for good, the keys may be older.
Read == \A n \in Acts :
    LET s == act[n].seen
        h == act[n].at
    IN  act[n].pc \notin {"off", "ensure"} =>
            /\ s.id = NoId => act[n].pc = "settle" /\ s = Fresh(h, NoId)
            /\ s.id # NoId => s.id = row[h].id
            /\ s.key # 0 => s.key \in generated[h]

\* Where a handler is: at home, or on the hub it asked, with its own id.
CourseOf(n) == act[n].pc # "off" =>
    /\ n <= acts
    /\ act[n].me = NoId => act[n].at = act[n].hub
    /\ act[n].me # NoId => act[n].at = act[n].target /\ act[n].kind = "connect"
    /\ act[n].kind = "connect" => act[n].invite \in Invites
    /\ act[n].pc \in {"send", "check", "redeem", "store", "answer"} => act[n].kind = "connect"
    /\ act[n].pc = "send" => act[n].me = NoId
    /\ act[n].pc \in {"check", "redeem", "store", "answer"} => act[n].me # NoId
    /\ act[n].pc \in {"store", "answer"} => n \in admitted[act[n].invite]
Course == \A n \in Acts : CourseOf(n)

\* An invite that admitted a handler is used up, and the handler's past.
Used == \A t \in Invites :
    /\ ~invites[t].used => admitted[t] = {}
    /\ \A m, n \in admitted[t] : m = n
    /\ \A n \in admitted[t] : n <= acts

\* A peer row of the inviting hub without its counterpart is a broken handshake, or one
\* that is about to be answered.
Answering == \A n \in Acts :
    act[n].pc = "answer" => Lists(act[n].target, act[n].hub) \/ Pair(n) \in cut

Rows == Blank /\ KeysMade /\ KeyKept /\ Read
IInv == TypeOK /\ Rows /\ Course /\ Used /\ Answering
           /\ PeersInvited /\ PeeringMutual /\ OneIdentity /\ SettingsStand

-----------------------------------------------------------------------------
LEMMA NoIdApart == NoId \notin HubIds
  BY DEF NoId, HubIds

LEMMA FreshIsRow ==
  ASSUME NEW h \in Hubs, NEW id \in HubIds \cup {NoId}
  PROVE  Fresh(h, id) \in Row /\ Fresh(h, id).id = id /\ Fresh(h, id).key = 0
  BY HubAssumption DEF Fresh, Row

LEMMA RowSet ==
  ASSUME NEW r \in Row, NEW b \in BOOLEAN, NEW l \in Levels
  PROVE  /\ [r EXCEPT !.fed = b] \in Row
         /\ [r EXCEPT !.fed = b].id = r.id /\ [r EXCEPT !.fed = b].key = r.key
         /\ [r EXCEPT !.trust = l] \in Row
         /\ [r EXCEPT !.trust = l].id = r.id /\ [r EXCEPT !.trust = l].key = r.key
  BY DEF Row

LEMMA InviteSet ==
  ASSUME NEW i \in Invite, NEW b \in BOOLEAN
  PROVE  /\ [i EXCEPT !.used = b] \in Invite /\ [i EXCEPT !.used = b].used = b
         /\ [i EXCEPT !.revoked = b] \in Invite /\ [i EXCEPT !.revoked = b].used = i.used
         /\ [i EXCEPT !.expired = b] \in Invite /\ [i EXCEPT !.expired = b].used = i.used
  BY DEF Invite

LEMMA PrescribedIsRow ==
  ASSUME NEW h \in Hubs, NEW r \in Row
  PROVE  /\ Prescribed(h, r) \in Row
         /\ Prescribed(h, r).id = r.id /\ Prescribed(h, r).key = r.key
  BY HubAssumption DEF Prescribed, Row

\* A row that is written back keeps the id, and its keys if the writer has none.
LEMMA UpsertedIsRow ==
  ASSUME NEW old \in Row, NEW new \in Row
  PROVE  /\ Upserted(old, new) \in Row
         /\ Upserted(old, new).id = IF old.id = NoId THEN new.id ELSE old.id
         /\ Upserted(old, new).key = IF old.id # NoId /\ new.key = 0 THEN old.key ELSE new.key
         /\ SettingsOf(Upserted(old, new)) = SettingsOf(new)
  BY DEF Upserted, Row, SettingsOf

\* A setting changed in the row is the same setting changed in what the row says.
LEMMA FedMoves ==
  ASSUME NEW r \in Row, NEW s \in Settings, NEW b \in BOOLEAN
  PROVE  /\ [r EXCEPT !.fed = b] \in Row /\ [s EXCEPT !.fed = b] \in Settings
         /\ SettingsOf([r EXCEPT !.fed = b]) = [SettingsOf(r) EXCEPT !.fed = b]
  BY DEF SettingsOf, Row, Settings

LEMMA TrustMoves ==
  ASSUME NEW r \in Row, NEW s \in Settings, NEW l \in Levels
  PROVE  /\ [r EXCEPT !.trust = l] \in Row /\ [s EXCEPT !.trust = l] \in Settings
         /\ SettingsOf([r EXCEPT !.trust = l]) = [SettingsOf(r) EXCEPT !.trust = l]
  BY DEF SettingsOf, Row, Settings

LEMMA BothMove ==
  ASSUME NEW r \in Row, NEW b \in BOOLEAN, NEW l \in Levels
  PROVE  SettingsOf([r EXCEPT !.fed = b, !.trust = l])
           = [SettingsOf(r) EXCEPT !.fed = b, !.trust = l]
<1>1. SettingsOf(r) \in Settings
  BY DEF SettingsOf, Settings, Row
<1>2. [SettingsOf(r) EXCEPT !.fed = b, !.trust = l]
        = [[SettingsOf(r) EXCEPT !.fed = b] EXCEPT !.trust = l]
  BY <1>1 DEF Settings
<1>3. [r EXCEPT !.fed = b, !.trust = l] = [[r EXCEPT !.fed = b] EXCEPT !.trust = l]
  BY DEF Row
<1>4. [r EXCEPT !.fed = b] \in Row
      /\ SettingsOf([r EXCEPT !.fed = b]) = [SettingsOf(r) EXCEPT !.fed = b]
  BY <1>1, FedMoves
<1> DEFINE q == [r EXCEPT !.fed = b]
<1>5. SettingsOf([q EXCEPT !.trust = l]) = [SettingsOf(q) EXCEPT !.trust = l]
  BY <1>1, <1>4, TrustMoves
<1> QED BY <1>2, <1>3, <1>4, <1>5

LEMMA SameSettings ==
  ASSUME NEW s \in Settings
  PROVE  [s EXCEPT !.fed = s.fed, !.trust = s.trust] = s
  BY DEF Settings

\* The environment overrules a row as it overrules what the row says.
LEMMA SettingsPrescribed ==
  ASSUME NEW r \in Row, NEW h \in Hubs
  PROVE  SettingsOf(Prescribed(h, r)) =
           [SettingsOf(r) EXCEPT !.fed = @ \/ h \in Configured,
                                 !.trust = IF h \in Official THEN "official" ELSE @]
<1> DEFINE b == r.fed \/ h \in Configured
           l == IF h \in Official THEN "official" ELSE r.trust
<1>1. b \in BOOLEAN /\ l \in Levels
  BY HubAssumption DEF Row
<1>2. SettingsOf(r).fed = r.fed /\ SettingsOf(r).trust = r.trust
  BY DEF SettingsOf
<1>3. Prescribed(h, r) = [r EXCEPT !.fed = b, !.trust = l]
  BY DEF Prescribed
<1>4. [SettingsOf(r) EXCEPT !.fed = b, !.trust = l] =
        [SettingsOf(r) EXCEPT !.fed = @ \/ h \in Configured,
                              !.trust = IF h \in Official THEN "official" ELSE @]
  BY <1>2, Zenon
<1> HIDE DEF b, l
<1>5. SettingsOf([r EXCEPT !.fed = b, !.trust = l])
        = [SettingsOf(r) EXCEPT !.fed = b, !.trust = l]
  BY <1>1, BothMove
<1> QED BY <1>3, <1>4, <1>5

LEMMA FreshPrescribed ==
  ASSUME NEW h \in Hubs, NEW id \in HubIds
  PROVE  SettingsOf(Fresh(h, id)) = SettingsOf(Prescribed(h, Fresh(h, NoId)))
<1> DEFINE r == Fresh(h, NoId)
           f == h \in Configured
           l == IF h \in Official THEN "official" ELSE "community"
<1>1. r \in Row
  BY FreshIsRow
<1>2. SettingsOf(r) = [fed |-> f, trust |-> l, labels |-> 0]
      /\ SettingsOf(Fresh(h, id)) = [fed |-> f, trust |-> l, labels |-> 0]
  BY DEF Fresh, SettingsOf
<1>3. (f \/ h \in Configured) = f /\ (IF h \in Official THEN "official" ELSE l) = l
  OBVIOUS
<1>4. SettingsOf(r).fed = f /\ SettingsOf(r).trust = l
  BY <1>2
<1>5. SettingsOf(Prescribed(h, r)) = [SettingsOf(r) EXCEPT !.fed = f, !.trust = l]
  BY <1>1, <1>3, <1>4, SettingsPrescribed
<1>6. SettingsOf(r) \in Settings
  BY <1>1 DEF SettingsOf, Settings, Row
<1> HIDE DEF r, f, l
<1>7. [SettingsOf(r) EXCEPT !.fed = f, !.trust = l] = SettingsOf(r)
  BY <1>4, <1>6, SameSettings
<1> QED BY <1>2, <1>5, <1>7 DEF r

\* What a step of handler n does to act: n goes to p, on the errand it began with.
Goes(n, p) ==
    /\ act' \in [Acts -> Act]
    /\ \A m \in Acts \ {n} : act'[m] = act[m]
    /\ act'[n].kind = act[n].kind /\ act'[n].hub = act[n].hub
    /\ act'[n].invite = act[n].invite /\ act'[n].target = act[n].target
    /\ act'[n].pc = p

Holds(n, seen, at, me) == act'[n].seen = seen /\ act'[n].at = at /\ act'[n].me = me

LEMMA PcGoes ==
  ASSUME TypeOK, NEW n \in Acts, NEW p \in Stages, act' = [act EXCEPT ![n].pc = p]
  PROVE  Goes(n, p) /\ Holds(n, act[n].seen, act[n].at, act[n].me)
<1> DEFINE a == act[n]
           b == [a EXCEPT !.pc = p]
<1>1. act \in [Acts -> Act] /\ a \in Act
  BY DEF TypeOK
<1>2. act' = [act EXCEPT ![n] = b] /\ b \in Act
  BY <1>1 DEF Act
<1>3. DOMAIN a = {"kind", "hub", "at", "pc", "seen", "me", "invite", "target"}
  BY <1>1 DEF Act
<1> QED
  BY <1>1, <1>2, <1>3 DEF Goes, Holds

LEMMA SeenGoes ==
  ASSUME TypeOK, NEW n \in Acts, NEW p \in Stages, NEW s \in Row,
         act' = [act EXCEPT ![n].seen = s, ![n].pc = p]
  PROVE  Goes(n, p) /\ Holds(n, s, act[n].at, act[n].me)
<1> DEFINE a == act[n]
           b == [a EXCEPT !.seen = s, !.pc = p]
<1>1. act \in [Acts -> Act] /\ a \in Act
  BY DEF TypeOK
<1>2. act' = [act EXCEPT ![n] = b] /\ b \in Act
  BY <1>1 DEF Act
<1>3. DOMAIN a = {"kind", "hub", "at", "pc", "seen", "me", "invite", "target"}
  BY <1>1 DEF Act
<1> QED
  BY <1>1, <1>2, <1>3 DEF Goes, Holds

LEMMA SendGoes ==
  ASSUME TypeOK, NEW n \in Acts, act[n].pc = "send", act[n].seen.fed, Send(n)
  PROVE  Goes(n, "ensure") /\ Holds(n, act[n].seen, act[n].target, act[n].seen.id)
<1> DEFINE a == act[n]
           b == [a EXCEPT !.me = a.seen.id, !.at = a.target, !.pc = "ensure"]
<1>1. act \in [Acts -> Act] /\ a \in Act /\ a.seen.id \in HubIds \cup {NoId}
  BY DEF TypeOK, Act, Row
<1>2. act' = [act EXCEPT ![n] = b] /\ b \in Act
  BY <1>1 DEF Send, Act, Stages
<1>3. DOMAIN a = {"kind", "hub", "at", "pc", "seen", "me", "invite", "target"}
  BY <1>1 DEF Act
<1> QED
  BY <1>1, <1>2, <1>3 DEF Goes, Holds

LEMMA DoneGoes ==
  ASSUME TypeOK, NEW n \in Acts, Done(n)
  PROVE  Goes(n, "off") /\ Holds(n, act[n].seen, act[n].at, act[n].me)
  BY PcGoes DEF Done, Go, Stages

LEMMA InitTyped == Init => TypeOK
<1> SUFFICES ASSUME Init PROVE TypeOK
  OBVIOUS
<1>1. AnyHub \in Hubs
  BY HubAssumption DEF AnyHub
<1>2. \A h \in Hubs : <<h, 0>> \in HubIds
  BY HubAssumption DEF HubIds
<1>3. \A h \in Hubs : First(h) \in Row
  <2> TAKE h \in Hubs
  <2>1. CASE h \in Known
    <3> DEFINE r == Fresh(h, <<h, 0>>)
    <3>1. r \in Row
      BY <1>2, FreshIsRow
    <3>2. [r EXCEPT !.fed = TRUE] \in Row
      BY <3>1, RowSet, HubAssumption
    <3>3. First(h) = [r EXCEPT !.fed = TRUE]
      BY <2>1 DEF First
    <3> QED BY <3>2, <3>3
  <2>2. CASE h \notin Known
    BY <2>2, FreshIsRow DEF First
  <2> QED BY <2>1, <2>2
<1>4. NoAct \in Act
  BY <1>1, FreshIsRow, HubAssumption DEF NoAct, Act, Kinds, Stages
<1>5. NoInvite \in Invite
  BY <1>1 DEF NoInvite, Invite
<1>6. \A h \in Hubs : SettingsOf(First(h)) \in Settings
  BY <1>3 DEF SettingsOf, Settings, Row
<1> QED
  BY <1>3, <1>4, <1>5, <1>6, HubAssumption DEF Init, TypeOK

\* TypeOK: the peer that is stored has an id, which Course and Read know.
LEMMA TypeInductive == TypeOK /\ Read /\ Course /\ [Next]_vars => TypeOK'
<1> SUFFICES ASSUME TypeOK, Read, Course, [Next]_vars PROVE TypeOK'
  OBVIOUS
<1>1. CASE UNCHANGED vars
  BY <1>1 DEF vars, tables, past, TypeOK
<1>2. ASSUME NEW kind \in Kinds, NEW h \in Hubs, Start(kind, h) PROVE TypeOK'
  <2>1. acts + 1 \in Acts
    BY <1>2, HubAssumption DEF Start, Acts, TypeOK
  <2>2. PICK b \in Hubs, t \in 0..minted :
          act' = [act EXCEPT ![acts + 1] =
              [kind |-> kind, hub |-> h, at |-> h, pc |-> "ensure",
               seen |-> Fresh(h, NoId), me |-> NoId, invite |-> t, target |-> b]]
    BY <1>2 DEF Start
  <2>3. Fresh(h, NoId) \in Row /\ t \in 0..MaxInvites
    BY FreshIsRow, HubAssumption DEF TypeOK
  <2>4. act' \in [Acts -> Act]
    BY <2>1, <2>2, <2>3 DEF TypeOK, Act, Stages
  <2> QED
    BY <1>2, <2>1, <2>4 DEF Start, tables, past, TypeOK, Acts
<1>3. ASSUME NEW n \in Acts, Ensure(n) PROVE TypeOK'
  <2>1. row[act[n].at] \in Row /\ Onward(n) \in Stages
    BY DEF TypeOK, Act, Onward, Stages
  <2>2. act' \in [Acts -> Act]
    BY <1>3, <2>1, SeenGoes DEF Ensure, Goes, Stages
  <2> QED
    BY <1>3, <2>2 DEF Ensure, tables, past, TypeOK
<1>4. ASSUME NEW n \in Acts, Settle(n) PROVE TypeOK'
  <2> DEFINE h == act[n].at
             r == act[n].seen
             new == IF r.id = NoId THEN Fresh(h, <<h, n>>) ELSE Prescribed(h, r)
  <2>1. h \in Hubs /\ r \in Row /\ <<h, n>> \in HubIds /\ Onward(n) \in Stages
    BY DEF TypeOK, Act, HubIds, Acts, Onward, Stages
  <2>2. new \in Row
    BY <2>1, FreshIsRow, PrescribedIsRow
  <2>3. row' \in [Hubs -> Row] /\ stale' \subseteq Hubs
    <3>1. Upserted(row[h], new) \in Row
      BY <2>1, <2>2, UpsertedIsRow DEF TypeOK
    <3> QED BY <1>4, <2>1, <3>1 DEF Settle, Upsert, TypeOK
  <2>4. act' \in [Acts -> Act]
    BY <1>4, <2>1, <2>3, SeenGoes DEF Settle, Returned, Goes
  <2>5. wanted' \in [Hubs -> Settings]
    <3> DEFINE w == [wanted[h] EXCEPT !.fed = @ \/ h \in Configured,
                                      !.trust = IF h \in Official THEN "official" ELSE @]
    <3>1. wanted[h] \in Settings
      BY <2>1 DEF TypeOK
    <3>2. w \in Settings
      BY <3>1, HubAssumption DEF Settings
    <3>3. wanted' = [wanted EXCEPT ![h] = w]
      BY <1>4 DEF Settle
    <3> QED BY <3>2, <3>3 DEF TypeOK
  <2> QED
    BY <1>4, <2>3, <2>4, <2>5 DEF Settle, TypeOK
<1>5. ASSUME NEW n \in Acts, Done(n) PROVE act' \in [Acts -> Act]
  BY <1>5, DoneGoes DEF Goes
<1>6. ASSUME NEW n \in Acts, SaveIdentity(n) PROVE TypeOK'
  <2> DEFINE h == act[n].hub
             new(fed) == [act[n].seen EXCEPT !.fed = fed]
  <2>1. PICK fed \in BOOLEAN : Upsert(h, act[n].seen, new(fed)) /\ wanted' = [wanted EXCEPT ![h].fed = fed]
    BY <1>6 DEF SaveIdentity
  <2>2. h \in Hubs /\ new(fed) \in Row
    <3>1. h \in Hubs /\ act[n].seen \in Row
      BY DEF TypeOK, Act
    <3> HIDE DEF h
    <3> QED
      BY <3>1 DEF Row
  <2>3. Upserted(row[h], new(fed)) \in Row
    BY <2>2, UpsertedIsRow DEF TypeOK
  <2>4. row' \in [Hubs -> Row] /\ stale' \subseteq Hubs
    BY <2>1, <2>2, <2>3 DEF Upsert, TypeOK
  <2>5. wanted' \in [Hubs -> Settings]
    BY <2>1, <2>2 DEF TypeOK, Settings
  <2> QED
    BY <1>5, <1>6, <2>4, <2>5 DEF SaveIdentity, TypeOK
<1>7. ASSUME NEW n \in Acts, SaveTrust(n) PROVE TypeOK'
  <2> DEFINE h == act[n].hub
             new(level) == [act[n].seen EXCEPT !.trust = level]
  <2>1. PICK level \in Levels :
          Upsert(h, act[n].seen, new(level)) /\ wanted' = [wanted EXCEPT ![h].trust = level]
    BY <1>7 DEF SaveTrust
  <2>2. h \in Hubs /\ act[n].seen \in Row
    BY DEF TypeOK, Act
  <2> HIDE DEF h
  <2>3. new(level) \in Row
    BY <2>2, RowSet
  <2>4. Upserted(row[h], new(level)) \in Row
    BY <2>2, <2>3, UpsertedIsRow DEF TypeOK
  <2>5. row' \in [Hubs -> Row] /\ stale' \subseteq Hubs
    BY <2>1, <2>2, <2>4 DEF Upsert, TypeOK
  <2>6. wanted' \in [Hubs -> Settings]
    BY <2>1, <2>2 DEF TypeOK, Settings
  <2> QED
    BY <1>5, <1>7, <2>5, <2>6 DEF SaveTrust, TypeOK
<1>8. ASSUME NEW n \in Acts, SaveLabels(n) PROVE TypeOK'
  <2> DEFINE h == act[n].hub
  <2>1. PICK l \in {n, act[n].seen.labels} :
          /\ row' = [row EXCEPT ![h].labels = l]
          /\ wanted' = IF l = n THEN [wanted EXCEPT ![h].labels = l] ELSE wanted
          /\ stale' = IF l # n /\ row[h].labels # l THEN stale \cup {h} ELSE stale
    BY <1>8 DEF SaveLabels
  <2>2. h \in Hubs /\ l \in 0..MaxActs
    BY HubAssumption DEF TypeOK, Act, Row, Acts
  <2> HIDE DEF h
  <2>3. row' \in [Hubs -> Row]
    <3>1. row[h] \in Row
      BY <2>2 DEF TypeOK
    <3>2. [row[h] EXCEPT !.labels = l] \in Row
      BY <2>2, <3>1 DEF Row
    <3> QED
      BY <2>1, <2>2, <3>2 DEF TypeOK
  <2>4. wanted' \in [Hubs -> Settings] /\ stale' \subseteq Hubs
    BY <2>1, <2>2 DEF TypeOK, Settings
  <2> QED
    BY <1>5, <1>8, <2>3, <2>4 DEF SaveLabels, TypeOK
<1>9. ASSUME NEW n \in Acts, SaveKeys(n) PROVE TypeOK'
  <2>1. act[n].hub \in Hubs /\ n \in 0..MaxActs
    BY DEF TypeOK, Act, Acts
  <2>2. row' \in [Hubs -> Row]
    BY <1>9, <2>1 DEF SaveKeys, TypeOK, Row
  <2>3. generated' \in [Hubs -> SUBSET Acts]
    BY <1>9, <2>1 DEF SaveKeys, TypeOK
  <2> QED
    BY <1>5, <1>9, <2>2, <2>3 DEF SaveKeys, TypeOK
<1>10. ASSUME NEW n \in Acts, CreateInvite(n) PROVE TypeOK'
  <2>1. minted' \in 0..MaxInvites
    BY <1>10, HubAssumption DEF CreateInvite, TypeOK
  <2>2. invites' \in [Invites -> Invite]
    BY <1>10 DEF CreateInvite, TypeOK, Invite, Act
  <2> QED
    BY <1>5, <1>10, <2>1, <2>2 DEF CreateInvite, TypeOK, past
<1>11. ASSUME NEW n \in Acts, Send(n) PROVE TypeOK'
  <2>1. act' \in [Acts -> Act]
    BY <1>5, <1>11, SendGoes DEF Send, Goes
  <2> QED
    BY <1>11, <2>1 DEF Send, tables, past, TypeOK
<1>12. ASSUME NEW n \in Acts, NEW p \in Stages, Go(n, p) PROVE act' \in [Acts -> Act]
  BY <1>12, PcGoes DEF Go, Goes
<1>13. ASSUME NEW n \in Acts, Check(n) PROVE TypeOK'
  <2>1. act' \in [Acts -> Act]
    BY <1>12, <1>13 DEF Check, Stages
  <2> QED
    BY <1>13, <2>1 DEF Check, tables, past, TypeOK
<1>14. ASSUME NEW n \in Acts, Redeem(n) PROVE TypeOK'
  <2>1. act' \in [Acts -> Act]
    BY <1>5, <1>12, <1>14 DEF Redeem, Stages
  <2>2. invites' \in [Invites -> Invite]
    <3> DEFINE t == act[n].invite
               i == [invites[t] EXCEPT !.used = TRUE]
    <3>1. invites' = invites \/ invites' = [invites EXCEPT ![t] = i]
      BY <1>14 DEF Redeem
    <3>2. t \in Invites => i \in Invite
      BY InviteSet DEF TypeOK
    <3> QED BY <3>1, <3>2 DEF TypeOK
  <2>3. admitted' \in [Invites -> SUBSET Acts]
    BY <1>14 DEF Redeem, TypeOK
  <2> QED
    BY <1>14, <2>1, <2>2, <2>3 DEF Redeem, TypeOK
<1>15. ASSUME NEW n \in Acts, StorePeer(n) PROVE TypeOK'
  <2>1. act' \in [Acts -> Act]
    BY <1>12, <1>15 DEF StorePeer, Stages
  <2>2. act[n] \in Act /\ act[n].me \in HubIds
    BY <1>15 DEF StorePeer, Course, CourseOf, TypeOK, Act
  <2>3. peers' \in [Hubs -> SUBSET HubIds]
    BY <1>15, <2>2 DEF StorePeer, TypeOK
  <2>4. cut' \subseteq SUBSET Hubs
    BY <1>15, <2>2 DEF StorePeer, TypeOK, Pair, Act
  <2> QED
    BY <1>15, <2>1, <2>3, <2>4 DEF StorePeer, TypeOK
<1>16. ASSUME NEW n \in Acts, SavePeer(n) PROVE TypeOK'
  <2>1. act[n] \in Act /\ act[n].seen.id \in HubIds
    BY <1>16 DEF SavePeer, Read, TypeOK, Act, Row
  <2>2. peers' \in [Hubs -> SUBSET HubIds]
    BY <1>16, <2>1 DEF SavePeer, Answered, TypeOK
  <2>3. cut' \subseteq SUBSET Hubs
    BY <1>16 DEF SavePeer, TypeOK
  <2> QED
    BY <1>5, <1>16, <2>2, <2>3 DEF SavePeer, TypeOK
<1>17. ASSUME NEW n \in Acts, Fail(n) PROVE TypeOK'
  BY <1>5, <1>17 DEF Fail, tables, past, TypeOK
<1>18. ASSUME NEW t \in Invites, Revoke(t) \/ Expire(t) PROVE TypeOK'
  <2>1. invites' \in [Invites -> Invite]
    <3> DEFINE i == [invites[t] EXCEPT !.revoked = TRUE]
               j == [invites[t] EXCEPT !.expired = TRUE]
    <3>1. invites' = [invites EXCEPT ![t] = i] \/ invites' = [invites EXCEPT ![t] = j]
      BY <1>18 DEF Revoke, Expire
    <3>2. i \in Invite /\ j \in Invite
      BY InviteSet DEF TypeOK
    <3> QED BY <3>1, <3>2 DEF TypeOK
  <2> QED
    BY <1>18, <2>1 DEF Revoke, Expire, past, TypeOK
<1>19. ASSUME NEW h \in Hubs, NEW id \in HubIds, DeletePeer(h, id) PROVE TypeOK'
  <2>1. id[1] \in Hubs
    BY DEF HubIds
  <2> QED
    BY <1>19, <2>1 DEF DeletePeer, TypeOK
<1> QED
  BY <1>1, <1>2, <1>3, <1>4, <1>6, <1>7, <1>8, <1>9, <1>10, <1>11, <1>13, <1>14, <1>15,
     <1>16, <1>17, <1>18, <1>19 DEF Next, Identity, Handshake

-----------------------------------------------------------------------------
(* The identity row.                                                        *)

\* What no step may do to a row and its history.
RowsGo == \A h \in Hubs :
    /\ row[h].id # NoId => row'[h].id = row[h].id
    /\ row'[h].id = NoId => row'[h] = row[h] /\ generated'[h] = generated[h]
    /\ row'[h].id # NoId => row'[h].id[1] = h
    /\ generated[h] \subseteq generated'[h]
    /\ row'[h].key # 0 => row'[h].key \in generated'[h]
    /\ generated'[h] # {} => row'[h].key # 0

LEMMA KeysStored ==
  ASSUME TypeOK, Rows
  PROVE  \A h \in Hubs : generated[h] # {} => row[h].key # 0
  BY DEF TypeOK, Rows, KeyKept, Acts

\* Only one row changes, and gets what keeps the ids and the keys.
LEMMA WriteGo ==
  ASSUME TypeOK, Rows, NEW h \in Hubs, NEW r \in Row, row' = [row EXCEPT ![h] = r],
         row[h].id # NoId => r.id = row[h].id,
         r.id # NoId, r.id[1] = h,
         UNCHANGED generated,
         r.key # 0 => r.key \in generated[h],
         row[h].key # 0 => r.key # 0
  PROVE  RowsGo
  BY KeysStored DEF RowsGo, Rows, Blank, KeysMade, TypeOK

\* A handler that writes has read the id of its own hub.
LEMMA WriterKnows ==
  ASSUME TypeOK, Rows, Course, NEW n \in Acts, act[n].pc = "write"
  PROVE  LET h == act[n].hub
             s == act[n].seen
         IN  /\ act[n].kind # "connect" => act[n].at = h
             /\ act[n].kind # "connect" => s.id # NoId /\ s.id = row[h].id /\ s.id[1] = h
             /\ act[n].kind # "connect" /\ s.key # 0 => s.key \in generated[h]
  BY DEF Rows, Read, Course, CourseOf, Blank, TypeOK, Act

\* What is written over a row from one that was read before.
LEMMA UpsertGo ==
  ASSUME TypeOK, Rows, UNCHANGED generated, NEW h \in Hubs, NEW s, NEW new \in Row,
         Upsert(h, s, new), new.id # NoId,
         new.id[1] = h, row[h].id # NoId => new.id = row[h].id,
         new.key # 0 => new.key \in generated[h]
  PROVE  RowsGo
<1> DEFINE r == Upserted(row[h], new)
<1>1. row[h] \in Row
  BY DEF TypeOK
<1>2. /\ r \in Row
      /\ r.id = IF row[h].id = NoId THEN new.id ELSE row[h].id
      /\ r.key = IF row[h].id # NoId /\ new.key = 0 THEN row[h].key ELSE new.key
  BY <1>1, UpsertedIsRow
<1>3. row[h].key # 0 => row[h].key \in generated[h] /\ row[h].id # NoId
  BY DEF Rows, KeysMade, Blank
<1> HIDE DEF r
<1>4. row' = [row EXCEPT ![h] = r]
  BY DEF Upsert, r
<1> QED
  BY <1>2, <1>3, <1>4, WriteGo

LEMMA RowStep == TypeOK /\ Rows /\ Course /\ [Next]_vars => RowsGo
<1> SUFFICES ASSUME TypeOK, Rows, Course, [Next]_vars PROVE RowsGo
  OBVIOUS
<1>1. CASE UNCHANGED <<row, generated>>
  BY <1>1, KeysStored DEF RowsGo, Rows, Blank, KeysMade
<1>2. ASSUME NEW n \in Acts, Settle(n) PROVE RowsGo
  <2> DEFINE h == act[n].at
             r == act[n].seen
             new == IF r.id = NoId THEN Fresh(h, <<h, n>>) ELSE Prescribed(h, r)
  <2>1. h \in Hubs /\ r \in Row /\ <<h, n>> \in HubIds
    BY DEF TypeOK, Act, HubIds, Acts
  <2>2. /\ new \in Row
        /\ new.id = IF r.id = NoId THEN <<h, n>> ELSE r.id
        /\ new.key = IF r.id = NoId THEN 0 ELSE r.key
    BY <2>1, FreshIsRow, PrescribedIsRow
  <2>3. CASE r.id # NoId
    <3>1. r.id = row[h].id /\ r.id[1] = h /\ (r.key # 0 => r.key \in generated[h])
      BY <1>2, <2>1, <2>3 DEF Settle, Rows, Read, Blank
    <3>2. Upsert(h, r, new) /\ UNCHANGED generated
      BY <1>2 DEF Settle
    <3> HIDE DEF new, h, r
    <3> QED BY <2>1, <2>2, <2>3, <3>1, <3>2, UpsertGo
  <2>4. CASE r.id = NoId /\ row[h].id = NoId
    <3>1. <<h, n>> # NoId /\ <<h, n>>[1] = h
      BY <2>1, NoIdApart
    <3>2. Upsert(h, r, new) /\ UNCHANGED generated
      BY <1>2 DEF Settle
    <3> HIDE DEF new, h, r
    <3> QED BY <2>1, <2>2, <2>4, <3>1, <3>2, UpsertGo
  <2>5. CASE r.id = NoId /\ row[h].id # NoId
    <3> DEFINE u == Upserted(row[h], new)
    <3>1. u \in Row /\ u.id = row[h].id /\ u.key = row[h].key
      BY <2>1, <2>2, <2>5, UpsertedIsRow DEF TypeOK
    <3>2. row' = [row EXCEPT ![h] = u] /\ UNCHANGED generated
      BY <1>2 DEF Settle, Upsert
    <3>3. row[h].id[1] = h /\ (row[h].key # 0 => row[h].key \in generated[h])
      BY <2>1, <2>5 DEF Rows, Blank, KeysMade
    <3> HIDE DEF u, h
    <3> QED BY <2>1, <2>5, <3>1, <3>2, <3>3, WriteGo
  <2> QED BY <2>3, <2>4, <2>5
<1>3. ASSUME NEW n \in Acts, SaveIdentity(n) PROVE RowsGo
  <2> DEFINE h == act[n].hub
             s == act[n].seen
             new(fed) == [s EXCEPT !.fed = fed]
  <2>1. PICK fed \in BOOLEAN : Upsert(h, s, new(fed))
    BY <1>3 DEF SaveIdentity
  <2>2. h \in Hubs /\ s \in Row /\ UNCHANGED generated
    BY <1>3 DEF SaveIdentity, TypeOK, Act
  <2>3. new(fed) \in Row /\ new(fed).id = s.id /\ new(fed).key = s.key
    BY <2>2, RowSet, HubAssumption
  <2>4. s.id # NoId /\ s.id = row[h].id /\ s.id[1] = h /\ (s.key # 0 => s.key \in generated[h])
    BY <1>3, WriterKnows DEF SaveIdentity, AtWrite
  <2> HIDE DEF new, h, s
  <2> QED BY <2>1, <2>2, <2>3, <2>4, UpsertGo
<1>4. ASSUME NEW n \in Acts, SaveTrust(n) PROVE RowsGo
  <2> DEFINE h == act[n].hub
             s == act[n].seen
             new(level) == [s EXCEPT !.trust = level]
  <2>1. PICK level \in Levels : Upsert(h, s, new(level))
    BY <1>4 DEF SaveTrust
  <2>2. h \in Hubs /\ s \in Row /\ UNCHANGED generated
    BY <1>4 DEF SaveTrust, TypeOK, Act
  <2>3. new(level) \in Row /\ new(level).id = s.id /\ new(level).key = s.key
    BY <2>2, RowSet
  <2>4. s.id # NoId /\ s.id = row[h].id /\ s.id[1] = h /\ (s.key # 0 => s.key \in generated[h])
    BY <1>4, WriterKnows DEF SaveTrust, AtWrite
  <2> HIDE DEF new, h, s
  <2> QED BY <2>1, <2>2, <2>3, <2>4, UpsertGo
<1>5. ASSUME NEW n \in Acts, SaveLabels(n) PROVE RowsGo
  <2> DEFINE h == act[n].hub
             r(l) == [row[h] EXCEPT !.labels = l]
  <2>1. PICK l \in {n, act[n].seen.labels} : row' = [row EXCEPT ![h] = r(l)]
    BY <1>5 DEF SaveLabels
  <2>2. h \in Hubs /\ row[h] \in Row /\ l \in 0..MaxActs /\ UNCHANGED generated
    BY <1>5, HubAssumption DEF SaveLabels, TypeOK, Act, Row, Acts
  <2>3. r(l) \in Row /\ r(l).id = row[h].id /\ r(l).key = row[h].key
    BY <2>2 DEF Row
  <2>4. row[h].id # NoId /\ row[h].id[1] = h /\ (row[h].key # 0 => row[h].key \in generated[h])
    BY <1>5, <2>2, WriterKnows DEF SaveLabels, AtWrite, Rows, KeysMade
  <2> HIDE DEF r, h
  <2> QED BY <2>1, <2>2, <2>3, <2>4, WriteGo
<1>6. ASSUME NEW n \in Acts, SaveKeys(n), ~UNCHANGED <<row, generated>> PROVE RowsGo
  <2> DEFINE h == act[n].hub
             r == [row[h] EXCEPT !.key = n]
  <2>1. h \in Hubs /\ row[h] \in Row /\ n \in 1..MaxActs
    BY DEF TypeOK, Act, Acts
  <2>2. row' = [row EXCEPT ![h] = r] /\ generated' = [generated EXCEPT ![h] = @ \cup {n}]
    BY <1>6 DEF SaveKeys
  <2>3. r.id = row[h].id /\ r.key = n /\ n # 0
    BY <2>1, HubAssumption DEF Row
  <2>4. row[h].id # NoId /\ row[h].id[1] = h
    BY <1>6, WriterKnows DEF SaveKeys, AtWrite
  <2> HIDE DEF r, h
  <2> QED
    BY <2>1, <2>2, <2>3, <2>4, KeysStored DEF RowsGo, Rows, Blank, KeysMade, TypeOK
<1>7. ASSUME NEW n \in Acts, Identity(n), ~UNCHANGED <<row, generated>> PROVE RowsGo
  <2>1. CASE Ensure(n)
    BY <1>7, <2>1 DEF Ensure, tables, past
  <2> QED
    BY <1>2, <1>3, <1>4, <1>5, <1>6, <1>7, <2>1 DEF Identity
<1>8. ASSUME NEW n \in Acts, Handshake(n) PROVE UNCHANGED <<row, generated>>
  BY <1>8 DEF Handshake, CreateInvite, Send, Check, Redeem, StorePeer, SavePeer, tables, past
<1> QED
  BY <1>1, <1>7, <1>8
  DEF Next, Start, Fail, Revoke, Expire, DeletePeer, vars, tables, past

\* A handler that rests or starts over is held to nothing, and one that goes on with what
\* it has read is held to what it was.
LEMMA ReadKept ==
  ASSUME TypeOK, Rows, RowsGo, TypeOK',
         \A n \in Acts : \/ act'[n].pc \in {"off", "ensure"}
                         \/ /\ act[n].pc \notin {"off", "ensure"}
                            /\ act'[n].pc # "settle" => act[n].pc # "settle"
                            /\ act'[n].seen = act[n].seen /\ act'[n].at = act[n].at
                         \/ /\ act'[n].seen = row'[act'[n].at]
                            /\ row'[act'[n].at].id = NoId => act'[n].pc = "settle"
  PROVE  Read'
<1> SUFFICES ASSUME NEW n \in Acts, act'[n].pc \notin {"off", "ensure"}
             PROVE  LET s == act'[n].seen
                        h == act'[n].at
                    IN  /\ s.id = NoId => act'[n].pc = "settle" /\ s = Fresh(h, NoId)
                        /\ s.id # NoId => s.id = row'[h].id
                        /\ s.key # 0 => s.key \in generated'[h]
  BY DEF Read
<1>1. act'[n].at \in Hubs /\ act[n].at \in Hubs
  BY DEF TypeOK, Act
<1>2. CASE /\ act[n].pc \notin {"off", "ensure"}
           /\ act'[n].pc # "settle" => act[n].pc # "settle"
           /\ act'[n].seen = act[n].seen /\ act'[n].at = act[n].at
  BY <1>1, <1>2 DEF Rows, Read, Blank, RowsGo
<1>3. CASE /\ act'[n].seen = row'[act'[n].at]
           /\ row'[act'[n].at].id = NoId => act'[n].pc = "settle"
  BY <1>1, <1>3 DEF Rows, Blank, RowsGo
<1>4. \/ /\ act[n].pc \notin {"off", "ensure"}
         /\ act'[n].pc # "settle" => act[n].pc # "settle"
         /\ act'[n].seen = act[n].seen /\ act'[n].at = act[n].at
      \/ /\ act'[n].seen = row'[act'[n].at]
         /\ row'[act'[n].at].id = NoId => act'[n].pc = "settle"
  OBVIOUS
<1> QED
  BY <1>2, <1>3, <1>4

LEMMA RowsInductive == TypeOK /\ Rows /\ Course /\ [Next]_vars => Rows'
<1> SUFFICES ASSUME TypeOK, Rows, Course, [Next]_vars PROVE Rows'
  OBVIOUS
<1>1. RowsGo /\ TypeOK'
  BY RowStep, TypeInductive DEF Rows
<1>2. Blank' /\ KeysMade' /\ KeyKept'
  <2>1. Blank'
    BY <1>1 DEF RowsGo, Rows, Blank
  <2>2. KeysMade' /\ KeyKept'
    BY <1>1 DEF RowsGo, KeysMade, KeyKept
  <2> QED BY <2>1, <2>2
<1>3. Read'
  <2>1. CASE UNCHANGED act
    BY <1>1, <2>1, ReadKept
  <2>2. ASSUME NEW kind \in Kinds, NEW h \in Hubs, Start(kind, h) PROVE Read'
    <3>1. acts + 1 \in Acts
      BY <2>2, HubAssumption DEF Start, Acts, TypeOK
    <3>2. act'[acts + 1].pc = "ensure" /\ \A n \in Acts \ {acts + 1} : act'[n] = act[n]
      BY <2>2, <3>1 DEF Start, TypeOK
    <3> QED BY <1>1, <3>2, ReadKept
  <2>3. ASSUME NEW n \in Acts, Ensure(n) PROVE Read'
    <3>1. row[act[n].at] \in Row /\ Onward(n) \in Stages
      BY DEF TypeOK, Act, Onward, Stages
    <3>2. UNCHANGED row /\ (row[act[n].at].id # NoId \/ act'[n].pc = "settle")
      BY <2>3, <3>1, SeenGoes DEF Ensure, tables, Goes, Stages
    <3>3. \E p \in Stages : Goes(n, p) /\ Holds(n, row[act[n].at], act[n].at, act[n].me)
      BY <2>3, <3>1, SeenGoes DEF Ensure, Stages
    <3> QED BY <1>1, <3>2, <3>3, ReadKept DEF Goes, Holds
  <2>4. ASSUME NEW n \in Acts, Settle(n) PROVE Read'
    <3> DEFINE h == act[n].at
    <3>1. h \in Hubs /\ row'[h] \in Row /\ Onward(n) \in Stages
      BY <1>1 DEF TypeOK, Act, Onward, Stages
    <3>2. Goes(n, Onward(n)) /\ Holds(n, row'[h], h, act[n].me)
      BY <2>4, <3>1, SeenGoes DEF Settle, Returned
    <3>3. row'[h].id # NoId
      <4> DEFINE new == IF act[n].seen.id = NoId THEN Fresh(h, <<h, n>>)
                                                  ELSE Prescribed(h, act[n].seen)
      <4>1. act[n].seen \in Row /\ row[h] \in Row /\ <<h, n>> \in HubIds
        BY <3>1 DEF TypeOK, Act, HubIds, Acts
      <4>2. new \in Row /\ new.id # NoId
        BY <3>1, <4>1, FreshIsRow, PrescribedIsRow, NoIdApart
      <4>3. row'[h] = Upserted(row[h], new)
        BY <2>4, <3>1 DEF Settle, Upsert, TypeOK
      <4> HIDE DEF new
      <4> QED BY <4>1, <4>2, <4>3, UpsertedIsRow
    <3> QED BY <1>1, <3>2, <3>3, ReadKept DEF Goes, Holds
  <2>5. ASSUME NEW n \in Acts, Done(n) PROVE Read'
    BY <1>1, <2>5, DoneGoes, ReadKept DEF Goes
  <2>6. ASSUME NEW n \in Acts, NEW p \in Stages, p # "settle",
               act[n].pc \in {"check", "redeem", "store"}, Go(n, p) PROVE Read'
    BY <1>1, <2>6, PcGoes, ReadKept DEF Go, Goes, Holds
  <2>7. ASSUME NEW n \in Acts, Send(n) PROVE Read'
    <3>1. CASE act[n].seen.fed
      BY <1>1, <2>7, <3>1, SendGoes, ReadKept DEF Send, Goes
    <3>2. CASE ~act[n].seen.fed
      BY <2>5, <2>7, <3>2 DEF Send
    <3> QED BY <3>1, <3>2
  <2>8. ASSUME NEW n \in Acts, Identity(n) PROVE Read'
    BY <2>3, <2>4, <2>5, <2>8 DEF Identity, SaveIdentity, SaveTrust, SaveLabels, SaveKeys
  <2>9. ASSUME NEW n \in Acts, Handshake(n) PROVE Read'
    BY <2>5, <2>6, <2>7, <2>9
    DEF Handshake, CreateInvite, Check, Redeem, StorePeer, SavePeer, Stages
  <2> QED
    BY <2>1, <2>2, <2>5, <2>8, <2>9 DEF Next, Fail, Revoke, Expire, DeletePeer, vars
<1> QED
  BY <1>2, <1>3 DEF Rows

-----------------------------------------------------------------------------
(* Handlers and invites.                                                    *)

\* What no step may do to the past of handlers and invites.
PastGoes ==
    /\ acts <= acts' /\ acts \in Nat /\ acts' \in Nat
    /\ \A t \in Invites : admitted[t] \subseteq admitted'[t]
    /\ \A n \in Acts : n <= acts =>
          act'[n].hub = act[n].hub /\ act'[n].target = act[n].target

LEMMA StartGoes ==
  ASSUME TypeOK, NEW kind \in Kinds, NEW h \in Hubs, Start(kind, h)
  PROVE  LET n == acts + 1 IN
         /\ n \in Acts /\ acts' = n
         /\ act'[n].kind = kind /\ act'[n].hub = h /\ act'[n].at = h
         /\ act'[n].pc = "ensure" /\ act'[n].me = NoId
         /\ kind = "connect" => act'[n].invite \in Invites
         /\ \A m \in Acts \ {n} : act'[m] = act[m]
<1>1. acts + 1 \in Acts
  BY HubAssumption DEF Start, Acts, TypeOK
<1>2. PICK b \in Hubs, t \in 0..minted :
        /\ IF kind = "connect" THEN t # 0 ELSE b = h /\ t = 0
        /\ act' = [act EXCEPT ![acts + 1] =
            [kind |-> kind, hub |-> h, at |-> h, pc |-> "ensure",
             seen |-> Fresh(h, NoId), me |-> NoId, invite |-> t, target |-> b]]
  BY DEF Start
<1>3. t # 0 => t \in Invites
  BY HubAssumption DEF TypeOK, Invites
<1> QED
  BY <1>1, <1>2, <1>3 DEF Start, TypeOK

\* Handler n moves along its errand, and nobody else does.
LEMMA Moves ==
  ASSUME TypeOK, Course, NEW n \in Acts, NEW p \in Stages, Goes(n, p), acts' = acts,
         \A t \in Invites : admitted[t] \subseteq admitted'[t],
         CourseOf(n)'
  PROVE  Course' /\ PastGoes
<1>1. PastGoes
  BY HubAssumption DEF PastGoes, Goes, TypeOK
<1>2. ASSUME NEW m \in Acts, m # n PROVE CourseOf(m)'
  <2>1. act'[m] = act[m] /\ CourseOf(m)
    BY <1>2 DEF Goes, Course
  <2> QED BY <2>1, <1>2 DEF CourseOf, TypeOK, Act
<1> QED
  BY <1>1, <1>2 DEF Course

LEMMA Rests ==
  ASSUME TypeOK, Course, NEW n \in Acts, Done(n), acts' = acts,
         \A t \in Invites : admitted[t] \subseteq admitted'[t]
  PROVE  Course' /\ PastGoes
  BY DoneGoes, Moves DEF Goes, CourseOf, Stages

LEMMA OnwardGoes ==
  ASSUME TypeOK, NEW n \in Acts, act[n].pc # "off", CourseOf(n), Goes(n, Onward(n)),
         UNCHANGED <<acts, admitted>>, act'[n].at = act[n].at, act'[n].me = act[n].me
  PROVE  CourseOf(n)'
<1>1. CASE act[n].kind # "connect"
  <2>1. Onward(n) = "write"
    BY <1>1 DEF Onward
  <2> QED BY <1>1, <2>1 DEF CourseOf, Goes
<1>2. CASE act[n].kind = "connect" /\ act[n].me = NoId
  BY <1>2 DEF CourseOf, Goes, Onward
<1>3. CASE act[n].kind = "connect" /\ act[n].me # NoId
  BY <1>3 DEF CourseOf, Goes, Onward
<1> QED
  BY <1>1, <1>2, <1>3

LEMMA CourseStep == TypeOK /\ Rows /\ Course /\ [Next]_vars => Course' /\ PastGoes
<1> SUFFICES ASSUME TypeOK, Rows, Course, [Next]_vars PROVE Course' /\ PastGoes
  OBVIOUS
<1>1. TypeOK'
  BY TypeInductive DEF Rows
<1>2. CASE UNCHANGED <<act, acts, admitted>>
  BY <1>2, HubAssumption DEF Course, CourseOf, PastGoes, TypeOK
<1>3. ASSUME NEW kind \in Kinds, NEW h \in Hubs, Start(kind, h) PROVE Course' /\ PastGoes
  <2>1. acts \in Nat /\ UNCHANGED admitted
    BY <1>3, HubAssumption DEF Start, TypeOK, past
  <2>2. PICK k \in Acts : k = acts + 1
    BY <1>3, StartGoes
  <2>3. /\ act'[k].kind = kind /\ act'[k].hub = h /\ act'[k].at = h
        /\ act'[k].pc = "ensure" /\ act'[k].me = NoId /\ acts' = k
        /\ kind = "connect" => act'[k].invite \in Invites
        /\ \A m \in Acts \ {k} : act'[m] = act[m]
    BY <1>3, <2>2, StartGoes
  <2>4. PastGoes
    BY <2>1, <2>2, <2>3 DEF PastGoes, Acts
  <2>5. CourseOf(k)'
    BY <2>1, <2>3 DEF CourseOf, Acts
  <2>6. ASSUME NEW m \in Acts, m # k PROVE CourseOf(m)'
    <3>1. act'[m] = act[m] /\ CourseOf(m)
      BY <2>3, <2>6 DEF Course
    <3> QED BY <2>1, <2>2, <2>3, <3>1 DEF CourseOf, Acts
  <2> QED
    BY <2>4, <2>5, <2>6 DEF Course
<1>4. ASSUME NEW n \in Acts, Ensure(n) PROVE Course' /\ PastGoes
  <2>1. /\ row[act[n].at] \in Row /\ Onward(n) \in Stages
        /\ UNCHANGED <<acts, admitted>> /\ CourseOf(n)
    BY <1>4 DEF Ensure, past, TypeOK, Act, Onward, Stages, Course
  <2>2. PICK p \in {Onward(n), "settle"} :
          Goes(n, p) /\ Holds(n, row[act[n].at], act[n].at, act[n].me)
    BY <1>4, <2>1, SeenGoes DEF Ensure, Stages
  <2>3. CASE p = Onward(n)
    BY <1>4, <2>1, <2>2, <2>3, OnwardGoes, Moves DEF Ensure, Holds
  <2>4. CASE p = "settle"
    <3>1. CourseOf(n)'
      BY <1>4, <2>1, <2>2, <2>4 DEF Ensure, CourseOf, Goes, Holds
    <3> QED BY <2>1, <2>2, <2>4, <3>1, Moves DEF Stages
  <2> QED BY <2>3, <2>4
<1>5. ASSUME NEW n \in Acts, Settle(n) PROVE Course' /\ PastGoes
  <2>1. /\ row'[act[n].at] \in Row /\ Onward(n) \in Stages
        /\ UNCHANGED <<acts, admitted>> /\ CourseOf(n)
    BY <1>1, <1>5 DEF Settle, TypeOK, Act, Onward, Stages, Course
  <2>2. Goes(n, Onward(n)) /\ Holds(n, row'[act[n].at], act[n].at, act[n].me)
    BY <1>5, <2>1, SeenGoes DEF Settle, Returned
  <2> QED BY <1>5, <2>1, <2>2, OnwardGoes, Moves DEF Settle, Holds
<1>6. ASSUME NEW n \in Acts, Send(n) PROVE Course' /\ PastGoes
  <2>1. CourseOf(n) /\ UNCHANGED <<acts, admitted>> /\ act[n].pc = "send"
    BY <1>6 DEF Course, Send, past
  <2>2. CASE act[n].seen.fed
    <3>1. Goes(n, "ensure") /\ Holds(n, act[n].seen, act[n].target, act[n].seen.id)
      BY <1>6, <2>1, <2>2, SendGoes
    <3>2. act[n].seen.id # NoId
      BY <2>1 DEF Rows, Read
    <3>3. CourseOf(n)'
      BY <2>1, <3>1, <3>2 DEF CourseOf, Goes, Holds
    <3> QED BY <2>1, <3>1, <3>3, Moves DEF Stages
  <2> QED BY <1>6, <2>1, <2>2, Rests DEF Send
<1>7. ASSUME NEW n \in Acts, Check(n) PROVE Course' /\ PastGoes
  <2>1. CourseOf(n) /\ UNCHANGED <<acts, admitted>> /\ act[n].pc = "check"
    BY <1>7 DEF Course, Check, past
  <2>2. PICK p \in {"redeem", "off"} : Go(n, p)
    BY <1>7 DEF Check
  <2>3. Goes(n, p) /\ Holds(n, act[n].seen, act[n].at, act[n].me)
    BY <2>2, PcGoes DEF Go, Stages
  <2>4. CourseOf(n)'
    BY <2>1, <2>3 DEF CourseOf, Goes, Holds
  <2> QED BY <2>1, <2>3, <2>4, Moves DEF Stages
<1>8. ASSUME NEW n \in Acts, Redeem(n) PROVE Course' /\ PastGoes
  <2> DEFINE t == act[n].invite
  <2>1. CourseOf(n) /\ acts' = acts /\ act[n].pc = "redeem" /\ t \in Invites
    BY <1>8 DEF Course, CourseOf, Redeem
  <2>2. CASE Redeemable(invites[t])
    <3>1. admitted' = [admitted EXCEPT ![t] = @ \cup {n}] /\ Go(n, "store")
      BY <1>8, <2>2 DEF Redeem
    <3>2. Goes(n, "store") /\ Holds(n, act[n].seen, act[n].at, act[n].me)
      BY <3>1, PcGoes DEF Go, Stages
    <3>3. (\A u \in Invites : admitted[u] \subseteq admitted'[u]) /\ n \in admitted'[t]
      BY <2>1, <3>1 DEF TypeOK
    <3>4. CourseOf(n)'
      BY <2>1, <3>2, <3>3 DEF CourseOf, Goes, Holds
    <3> QED BY <2>1, <3>2, <3>3, <3>4, Moves DEF Stages
  <2> QED BY <1>8, <2>1, <2>2, Rests DEF Redeem
<1>9. ASSUME NEW n \in Acts, StorePeer(n) PROVE Course' /\ PastGoes
  <2>1. CourseOf(n) /\ UNCHANGED <<acts, admitted>> /\ act[n].pc = "store"
    BY <1>9 DEF Course, StorePeer
  <2>2. Goes(n, "answer") /\ Holds(n, act[n].seen, act[n].at, act[n].me)
    BY <1>9, PcGoes DEF StorePeer, Go, Stages
  <2>3. CourseOf(n)'
    BY <2>1, <2>2 DEF CourseOf, Goes, Holds
  <2> QED BY <2>1, <2>2, <2>3, Moves DEF Stages
<1>10. ASSUME NEW n \in Acts, Identity(n) PROVE Course' /\ PastGoes
  BY <1>4, <1>5, <1>10, Rests
  DEF Identity, SaveIdentity, SaveTrust, SaveLabels, SaveKeys
<1>11. ASSUME NEW n \in Acts, Handshake(n) PROVE Course' /\ PastGoes
  BY <1>6, <1>7, <1>8, <1>9, <1>11, Rests DEF Handshake, CreateInvite, SavePeer, past
<1>12. ASSUME NEW n \in Acts, Fail(n) PROVE Course' /\ PastGoes
  BY <1>12, Rests DEF Fail, past
<1> QED
  BY <1>2, <1>3, <1>10, <1>11, <1>12
  DEF Next, Revoke, Expire, DeletePeer, vars, past

\* The UPDATE asks once more whether the invite is used.
LEMMA UsedStep == TypeOK /\ Rows /\ Course /\ Used /\ [Next]_vars => Used'
<1> SUFFICES ASSUME TypeOK, Rows, Course, Used, [Next]_vars PROVE Used'
  OBVIOUS
<1>1. PastGoes
  BY CourseStep
<1>2. CASE UNCHANGED <<invites, admitted>>
  BY <1>1, <1>2 DEF Used, PastGoes, TypeOK, Acts
<1>3. ASSUME NEW n \in Acts, Redeem(n), ~UNCHANGED <<invites, admitted>> PROVE Used'
  <2> DEFINE t == act[n].invite
             i == [invites[t] EXCEPT !.used = TRUE]
  <2>1. t \in Invites /\ invites[t] \in Invite /\ n <= acts /\ acts' = acts
    BY <1>3 DEF Redeem, Course, CourseOf, TypeOK
  <2>2. /\ invites' = [invites EXCEPT ![t] = i]
        /\ admitted' = [admitted EXCEPT ![t] = @ \cup {n}]
        /\ ~invites[t].used
    BY <1>3 DEF Redeem, Redeemable
  <2>3. i.used = TRUE
    BY <2>1, InviteSet
  <2> HIDE DEF i, t
  <2> QED BY <2>1, <2>2, <2>3 DEF Used, TypeOK
<1>4. ASSUME UNCHANGED admitted, \A t \in Invites : invites'[t].used = invites[t].used
      PROVE  Used'
  BY <1>1, <1>4 DEF Used, PastGoes, TypeOK, Acts
<1>5. ASSUME NEW t \in Invites, Revoke(t) \/ Expire(t) PROVE Used'
  <2> DEFINE i == [invites[t] EXCEPT !.revoked = TRUE]
             j == [invites[t] EXCEPT !.expired = TRUE]
  <2>1. invites[t] \in Invite /\ i.used = invites[t].used /\ j.used = invites[t].used
    BY InviteSet DEF TypeOK
  <2>2. /\ invites' = [invites EXCEPT ![t] = i] \/ invites' = [invites EXCEPT ![t] = j]
        /\ UNCHANGED admitted
    BY <1>5 DEF Revoke, Expire, past
  <2> HIDE DEF i, j
  <2> QED BY <1>4, <2>1, <2>2 DEF TypeOK
<1>6. ASSUME NEW n \in Acts, CreateInvite(n), ~UNCHANGED invites PROVE Used'
  <2>1. UNCHANGED admitted /\ invites' = [invites EXCEPT ![minted + 1].hub = act[n].hub]
    BY <1>6 DEF CreateInvite, past
  <2>2. \A t \in Invites : invites'[t].used = invites[t].used
    BY <2>1 DEF TypeOK, Invite
  <2> QED BY <1>4, <2>1, <2>2
<1>7. ASSUME NEW n \in Acts, Identity(n) PROVE UNCHANGED <<invites, admitted>>
  BY <1>7
  DEF Identity, Ensure, Settle, SaveIdentity, SaveTrust, SaveLabels, SaveKeys, tables, past
<1>8. ASSUME NEW n \in Acts, Handshake(n) PROVE Used'
  BY <1>2, <1>3, <1>6, <1>8
  DEF Handshake, CreateInvite, Send, Check, StorePeer, SavePeer, tables, past
<1> QED
  BY <1>2, <1>5, <1>7, <1>8 DEF Next, Start, Fail, DeletePeer, vars, tables, past

-----------------------------------------------------------------------------
(* Peers.                                                                   *)

\* What a handler that will answer, and the id it answers with, come from.
ActGo == \A m \in Acts :
    /\ act'[m].pc = "answer" =>
          /\ act[m].pc = "answer" \/ StorePeer(m)
          /\ act'[m].hub = act[m].hub /\ act'[m].target = act[m].target
    /\ act'[m].me # NoId =>
          /\ act'[m].hub = act[m].hub
          /\ act'[m].me = act[m].me \/ (act[m].pc = "send" /\ act'[m].me = act[m].seen.id)

\* Handler n moves, and keeps the id it has.
LEMMA ActKept ==
  ASSUME TypeOK, NEW n \in Acts, NEW p \in Stages, Goes(n, p), act'[n].me = act[n].me,
         p # "answer" \/ StorePeer(n)
  PROVE  ActGo
  BY DEF ActGo, Goes

LEMMA ActDone ==
  ASSUME TypeOK, NEW n \in Acts, Done(n)
  PROVE  ActGo
  BY DoneGoes, ActKept DEF Holds, Stages

LEMMA ActStep == TypeOK /\ Rows /\ Course /\ [Next]_vars => ActGo
<1> SUFFICES ASSUME TypeOK, Rows, Course, [Next]_vars PROVE ActGo
  OBVIOUS
<1>1. TypeOK'
  BY TypeInductive DEF Rows
<1>2. CASE UNCHANGED act
  BY <1>2 DEF ActGo
<1>3. ASSUME NEW kind \in Kinds, NEW h \in Hubs, Start(kind, h) PROVE ActGo
  <2>1. PICK k \in Acts : k = acts + 1
    BY <1>3, StartGoes
  <2>2. /\ act'[k].pc = "ensure" /\ act'[k].me = NoId
        /\ \A m \in Acts \ {k} : act'[m] = act[m]
    BY <1>3, <2>1, StartGoes
  <2> QED BY <2>2 DEF ActGo
<1>4. ASSUME NEW n \in Acts, Ensure(n) PROVE ActGo
  <2>1. /\ row[act[n].at] \in Row /\ Onward(n) \in Stages \ {"answer"}
        /\ "settle" \in Stages \ {"answer"}
    BY DEF TypeOK, Act, Onward, Stages
  <2>2. PICK p \in {Onward(n), "settle"} :
          Goes(n, p) /\ Holds(n, row[act[n].at], act[n].at, act[n].me)
    BY <1>4, <2>1, SeenGoes DEF Ensure
  <2> QED BY <2>1, <2>2, ActKept DEF Holds
<1>5. ASSUME NEW n \in Acts, Settle(n) PROVE ActGo
  <2>1. row'[act[n].at] \in Row /\ Onward(n) \in Stages \ {"answer"}
    BY <1>1 DEF TypeOK, Act, Onward, Stages
  <2>2. Goes(n, Onward(n)) /\ Holds(n, row'[act[n].at], act[n].at, act[n].me)
    BY <1>5, <2>1, SeenGoes DEF Settle, Returned
  <2> QED BY <2>1, <2>2, ActKept DEF Holds
<1>6. ASSUME NEW n \in Acts, Send(n) PROVE ActGo
  <2>1. CASE act[n].seen.fed
    <3>1. Goes(n, "ensure") /\ Holds(n, act[n].seen, act[n].target, act[n].seen.id)
      BY <1>6, <2>1, SendGoes DEF Send
    <3> QED BY <1>6, <3>1 DEF ActGo, Goes, Holds, Send
  <2> QED BY <1>6, <2>1, ActDone DEF Send
<1>7. ASSUME NEW n \in Acts, NEW p \in Stages, Go(n, p), p # "answer" \/ StorePeer(n)
      PROVE  ActGo
  BY <1>7, PcGoes, ActKept DEF Go, Holds
<1>8. ASSUME NEW n \in Acts, Identity(n) PROVE ActGo
  BY <1>4, <1>5, <1>8, ActDone
  DEF Identity, SaveIdentity, SaveTrust, SaveLabels, SaveKeys
<1>9. ASSUME NEW n \in Acts, Handshake(n) PROVE ActGo
  BY <1>6, <1>7, <1>9, ActDone
  DEF Handshake, CreateInvite, Check, Redeem, StorePeer, SavePeer, Stages
<1> QED
  BY <1>2, <1>3, <1>8, <1>9, ActDone DEF Next, Fail, Revoke, Expire, DeletePeer, vars

\* The two hubs of a handshake that was admitted, and the ids they know each other by.
LEMMA Introduced ==
  ASSUME TypeOK, Rows, Course, OneIdentity, NEW n \in Acts, act[n].pc \in {"store", "answer"}
  PROVE  LET h == act[n].hub
             b == act[n].target
         IN  /\ h \in Hubs /\ b \in Hubs /\ act[n].at = b
             /\ act[n].me = row[h].id /\ row[h].id # NoId
             /\ act[n].seen.id = row[b].id /\ row[b].id # NoId
             /\ act[n].invite \in Invites /\ n \in admitted[act[n].invite]
  BY DEF TypeOK, Act, Rows, Read, Course, CourseOf, OneIdentity

\* Whatever happens to a row, hubs are listed under the id it has.
LEMMA ListsGo ==
  ASSUME TypeOK, Rows, RowsGo, OneIdentity, NEW g \in Hubs, NEW h \in Hubs
  PROVE  row'[h].id \in peers[g] <=> row[h].id \in peers[g]
<1>1. CASE row[h].id # NoId
  BY <1>1 DEF RowsGo
<1>2. CASE row[h].id = NoId
  <2>1. row[h].id \notin peers[g]
    BY <1>2, NoIdApart DEF TypeOK
  <2>2. ASSUME row'[h].id \in peers[g] PROVE FALSE
    <3>1. row'[h].id # NoId
      BY <2>2, NoIdApart DEF TypeOK
    <3>2. row'[h].id[1] = h
      BY <3>1 DEF RowsGo
    <3>3. row'[h].id = row[h].id
      BY <2>2, <3>2 DEF OneIdentity
    <3> QED BY <1>2, <3>1, <3>3
  <2> QED BY <2>1, <2>2
<1> QED BY <1>1, <1>2

Peering == PeersInvited /\ PeeringMutual /\ OneIdentity /\ Answering

\* Where a peer row comes from, and where it goes.
PeersGo ==
    \/ UNCHANGED <<peers, cut>>
    \/ \E n \in Acts : StorePeer(n) \/ SavePeer(n)
    \/ \E h \in Hubs, id \in HubIds : DeletePeer(h, id)

LEMMA PeersStep == [Next]_vars => PeersGo
<1> SUFFICES ASSUME [Next]_vars PROVE PeersGo
  OBVIOUS
<1>1. ASSUME NEW n \in Acts, Identity(n) PROVE UNCHANGED <<peers, cut>>
  BY <1>1
  DEF Identity, Ensure, Settle, SaveIdentity, SaveTrust, SaveLabels, SaveKeys, tables, past
<1>2. ASSUME NEW n \in Acts, Handshake(n) PROVE PeersGo
  BY <1>2 DEF PeersGo, Handshake, CreateInvite, Send, Check, Redeem, tables, past
<1> QED
  BY <1>1, <1>2 DEF PeersGo, Next, Start, Fail, Revoke, Expire, vars, tables, past

\* The peer row that the inviting or the invited hub stores.
LEMMA Stored ==
  ASSUME TypeOK, Rows, Course, OneIdentity, NEW n \in Acts, StorePeer(n) \/ SavePeer(n)
  PROVE  \E g, h \in Hubs :
            /\ peers' = [peers EXCEPT ![g] = @ \cup {row[h].id}]
            /\ row[h].id # NoId /\ {g, h} = Pair(n)
            /\ StorePeer(n) => g = act[n].target /\ h = act[n].hub
            /\ SavePeer(n) => g = act[n].hub /\ h = act[n].target
<1> DEFINE h == act[n].hub
           b == act[n].target
<1>1. CASE StorePeer(n)
  <2>1. act[n].pc = "store"
    BY <1>1 DEF StorePeer
  <2>2. /\ h \in Hubs /\ b \in Hubs /\ act[n].at = b
        /\ act[n].me = row[h].id /\ row[h].id # NoId
    BY <2>1, Introduced
  <2>3. ~SavePeer(n)
    BY <2>1 DEF SavePeer
  <2> QED BY <1>1, <2>2, <2>3 DEF StorePeer, Pair
<1>2. CASE SavePeer(n)
  <2>1. act[n].pc = "answer"
    BY <1>2 DEF SavePeer
  <2>2. /\ h \in Hubs /\ b \in Hubs
        /\ act[n].seen.id = row[b].id /\ row[b].id # NoId
    BY <2>1, Introduced
  <2>3. ~StorePeer(n)
    BY <2>1 DEF StorePeer
  <2> QED BY <1>2, <2>2, <2>3 DEF SavePeer, Answered, Pair
<1> QED BY <1>1, <1>2

\* A hub lists the peers it listed, and the one that is stored.
LEMMA ListsStored ==
  ASSUME TypeOK, Rows, RowsGo, OneIdentity, NEW a \in Hubs, NEW b \in Hubs,
         peers' = [peers EXCEPT ![a] = @ \cup {row[b].id}], row[b].id # NoId, UNCHANGED row,
         NEW g \in Hubs, NEW h \in Hubs
  PROVE  Lists(g, h)' <=> Lists(g, h) \/ (g = a /\ h = b)
<1>1. row[h].id = row[b].id => h = b
  BY DEF Rows, Blank
<1> QED
  BY <1>1 DEF Lists, TypeOK

LEMMA IdentityStep ==
  ASSUME TypeOK, Rows, Course, OneIdentity, [Next]_vars
  PROVE  OneIdentity'
<1>1. RowsGo /\ ActGo /\ PeersGo /\ TypeOK'
  BY RowStep, ActStep, PeersStep, TypeInductive DEF Rows
<1>2. ASSUME NEW h \in Hubs, NEW id \in peers'[h] PROVE id = row'[id[1]].id
  <2>1. CASE id \in peers[h]
    <3>1. id \in HubIds /\ id[1] \in Hubs /\ id # NoId
      BY <2>1, NoIdApart DEF TypeOK, HubIds
    <3> QED BY <1>1, <2>1, <3>1 DEF OneIdentity, RowsGo
  <2>2. CASE id \notin peers[h]
    <3>1. PICK n \in Acts : StorePeer(n) \/ SavePeer(n)
      BY <1>1, <1>2, <2>2 DEF PeersGo, DeletePeer, TypeOK
    <3>2. PICK a, b \in Hubs : peers' = [peers EXCEPT ![a] = @ \cup {row[b].id}] /\ row[b].id # NoId
      BY <3>1, Stored
    <3>3. id = row[b].id
      BY <1>2, <2>2, <3>2 DEF TypeOK
    <3>4. row'[b].id = row[b].id /\ id[1] = b
      BY <1>1, <3>2, <3>3 DEF RowsGo, Rows, Blank
    <3> QED BY <3>3, <3>4
  <2> QED BY <2>1, <2>2
<1>3. ASSUME NEW n \in Acts, act'[n].me # NoId PROVE act'[n].me = row'[act'[n].hub].id
  <2>1. act[n].hub \in Hubs /\ act'[n].hub = act[n].hub
    BY <1>1, <1>3 DEF ActGo, TypeOK, Act
  <2>2. CASE act'[n].me = act[n].me
    BY <1>1, <1>3, <2>1, <2>2 DEF OneIdentity, RowsGo
  <2>3. CASE act[n].pc = "send" /\ act'[n].me = act[n].seen.id
    <3>1. act[n].seen.id = row[act[n].hub].id
      BY <1>3, <2>3 DEF Rows, Read, Course, CourseOf
    <3> QED BY <1>1, <1>3, <2>1, <2>3, <3>1 DEF RowsGo
  <2> QED BY <1>1, <1>3, <2>2, <2>3 DEF ActGo
<1> QED
  BY <1>2, <1>3 DEF OneIdentity

\* Who was admitted stays so, with the hubs of the handshake.
LEMMA PairKept ==
  ASSUME Used, PastGoes, NEW t \in Invites, NEW n \in Acts, n \in admitted[t]
  PROVE  n \in admitted'[t] /\ Pair(n)' = Pair(n)
  BY DEF Used, PastGoes, Pair

LEMMA InvitedStep ==
  ASSUME TypeOK, Rows, Course, Used, OneIdentity, PeersInvited, [Next]_vars
  PROVE  PeersInvited'
<1>1. PastGoes /\ PeersGo
  BY CourseStep, PeersStep
<1> SUFFICES ASSUME NEW h \in Hubs, NEW id \in peers'[h]
             PROVE  \E t \in Invites, n \in Acts : n \in admitted[t]' /\ Pair(n)' = {h, id[1]}
  BY DEF PeersInvited
<1>2. CASE id \in peers[h]
  <2>1. PICK t \in Invites, n \in Acts : n \in admitted[t] /\ Pair(n) = {h, id[1]}
    BY <1>2 DEF PeersInvited
  <2> QED BY <1>1, <2>1, PairKept
<1>3. CASE id \notin peers[h]
  <2>1. PICK n \in Acts : StorePeer(n) \/ SavePeer(n)
    BY <1>1, <1>3 DEF PeersGo, DeletePeer, TypeOK
  <2>2. PICK a, b \in Hubs : /\ peers' = [peers EXCEPT ![a] = @ \cup {row[b].id}]
                            /\ row[b].id # NoId /\ {a, b} = Pair(n)
    BY <2>1, Stored
  <2>3. h = a /\ id = row[b].id /\ id[1] = b
    BY <1>3, <2>2 DEF TypeOK, Rows, Blank
  <2>4. act[n].invite \in Invites /\ n \in admitted[act[n].invite]
    BY <2>1, Introduced DEF StorePeer, SavePeer
  <2> QED BY <1>1, <2>2, <2>3, <2>4, PairKept
<1> QED BY <1>2, <1>3

LEMMA MutualStep ==
  ASSUME TypeOK, Rows, Course, OneIdentity, PeeringMutual, Answering, [Next]_vars
  PROVE  PeeringMutual' /\ Answering'
<1>1. RowsGo /\ ActGo /\ PeersGo
  BY RowStep, ActStep, PeersStep
<1>2. ASSUME \A m \in Acts : act'[m].pc = "answer" /\ ~StorePeer(m) /\ act[m].pc = "answer" =>
                  (Lists(act[m].target, act[m].hub) \/ Pair(m) \in cut)',
             \A m \in Acts : StorePeer(m) => (Pair(m) \in cut)'
      PROVE  Answering'
  BY <1>1, <1>2 DEF Answering, ActGo
<1>3. ASSUME NEW m \in Acts, act'[m].pc = "answer"
      PROVE  /\ act[m].hub \in Hubs /\ act[m].target \in Hubs
             /\ act'[m].hub = act[m].hub /\ act'[m].target = act[m].target
             /\ Pair(m)' = Pair(m)
  BY <1>1, <1>3 DEF ActGo, TypeOK, Act, Pair
<1>4. ASSUME NEW m \in Acts, StorePeer(m) PROVE (Pair(m) \in cut)'
  <2>1. act'[m].pc = "answer"
    BY <1>4, PcGoes DEF StorePeer, Go, Goes, Stages
  <2> QED BY <1>3, <1>4, <2>1 DEF StorePeer
<1>5. CASE UNCHANGED <<peers, cut>>
  <2>1. \A g, h \in Hubs : Lists(g, h)' <=> Lists(g, h)
    BY <1>1, <1>5, ListsGo DEF Lists
  <2>2. PeeringMutual'
    BY <1>5, <2>1 DEF PeeringMutual
  <2>3. ASSUME NEW m \in Acts, act'[m].pc = "answer", act[m].pc = "answer"
        PROVE  (Lists(act[m].target, act[m].hub) \/ Pair(m) \in cut)'
    BY <1>3, <1>5, <2>1, <2>3 DEF Answering, Lists
  <2> QED BY <1>2, <1>4, <2>2, <2>3
<1>6. ASSUME NEW n \in Acts, StorePeer(n) PROVE PeeringMutual' /\ Answering'
  <2>1. PICK a, b \in Hubs : /\ peers' = [peers EXCEPT ![a] = @ \cup {row[b].id}]
                            /\ row[b].id # NoId /\ {a, b} = Pair(n)
    BY <1>6, Stored
  <2>2. UNCHANGED row /\ cut' = cut \cup {{a, b}}
    BY <1>6, <2>1 DEF StorePeer
  <2>3. \A g, h \in Hubs : Lists(g, h)' <=> Lists(g, h) \/ (g = a /\ h = b)
    BY <1>1, <2>1, <2>2, ListsStored
  <2>4. PeeringMutual'
    BY <2>2, <2>3 DEF PeeringMutual
  <2>5. ASSUME NEW m \in Acts, act'[m].pc = "answer", act[m].pc = "answer"
        PROVE  (Lists(act[m].target, act[m].hub) \/ Pair(m) \in cut)'
    BY <1>3, <2>2, <2>3, <2>5 DEF Answering, Lists
  <2> QED BY <1>2, <1>4, <2>4, <2>5
<1>7. ASSUME NEW n \in Acts, SavePeer(n) PROVE PeeringMutual' /\ Answering'
  <2>1. PICK a, b \in Hubs : /\ peers' = [peers EXCEPT ![a] = @ \cup {row[b].id}]
                            /\ row[b].id # NoId /\ {a, b} = Pair(n)
                            /\ a = act[n].hub /\ b = act[n].target
    BY <1>7, Stored
  <2>2. UNCHANGED row /\ cut' = IF Lists(b, a) THEN cut \ {{a, b}} ELSE cut
    BY <1>7, <2>1 DEF SavePeer
  <2>3. \A g, h \in Hubs : Lists(g, h)' <=> Lists(g, h) \/ (g = a /\ h = b)
    BY <1>1, <2>1, <2>2, ListsStored
  <2>4. Lists(b, a) \/ {a, b} \in cut
    <3>1. act[n].pc = "answer"
      BY <1>7 DEF SavePeer
    <3>2. Lists(act[n].target, act[n].hub) \/ Pair(n) \in cut
      BY <3>1 DEF Answering
    <3> QED
      BY <2>1, <3>2
  <2>5. PeeringMutual'
    <3>1. CASE Lists(b, a)
      BY <2>2, <2>3, <3>1 DEF PeeringMutual
    <3>2. CASE ~Lists(b, a)
      BY <2>2, <2>3, <2>4, <3>2 DEF PeeringMutual
    <3> QED BY <3>1, <3>2
  <2>6. ASSUME NEW m \in Acts, act'[m].pc = "answer", act[m].pc = "answer"
        PROVE  (Lists(act[m].target, act[m].hub) \/ Pair(m) \in cut)'
    <3> DEFINE g == act[m].target
               h == act[m].hub
    <3>1. Lists(g, h) \/ {h, g} \in cut
      BY <2>6 DEF Answering, Pair
    <3>2. Lists(b, a) /\ {h, g} = {a, b} => (Lists(g, h))'
      <4>1. {h, g} = {a, b} => (h = a /\ g = b) \/ (h = b /\ g = a)
        OBVIOUS
      <4> QED BY <1>3, <2>3, <2>6, <4>1 DEF Lists
    <3>3. Lists(g, h) => (Lists(g, h))'
      BY <1>3, <2>3, <2>6 DEF Lists
    <3>4. {h, g} \in cut => {h, g} \in cut' \/ (Lists(b, a) /\ {h, g} = {a, b})
      BY <2>2
    <3>5. (Pair(m))' = {h, g}
      BY <1>3, <2>6 DEF Pair
    <3> QED BY <3>1, <3>2, <3>3, <3>4, <3>5 DEF Lists
  <2> QED BY <1>2, <1>4, <2>5, <2>6
<1>8. ASSUME NEW b \in Hubs, NEW id \in HubIds, DeletePeer(b, id)
      PROVE  PeeringMutual' /\ Answering'
  <2>1. /\ UNCHANGED <<row, act>> /\ id[1] \in Hubs
        /\ peers' = [peers EXCEPT ![b] = @ \ {id}] /\ cut' = cut \cup {{b, id[1]}}
    BY <1>8 DEF DeletePeer, HubIds
  <2>2. \A g, h \in Hubs : Lists(g, h)' <=> Lists(g, h) /\ ~(g = b /\ row[h].id = id)
    BY <2>1 DEF Lists, TypeOK
  <2>3. \A h \in Hubs : row[h].id = id => id[1] = h
    BY NoIdApart DEF Rows, Blank
  <2>4. PeeringMutual'
    BY <2>1, <2>2, <2>3 DEF PeeringMutual
  <2>5. ASSUME NEW m \in Acts, act[m].pc = "answer"
        PROVE  (Lists(act[m].target, act[m].hub) \/ Pair(m) \in cut)'
    <3>1. act[m].hub \in Hubs /\ act[m].target \in Hubs
      BY DEF TypeOK, Act
    <3> QED BY <2>1, <2>2, <2>3, <2>5, <3>1 DEF Answering, Pair, Lists
  <2> QED BY <2>1, <2>4, <2>5 DEF Answering, Lists, Pair
<1> QED
  BY <1>1, <1>5, <1>6, <1>7, <1>8 DEF PeersGo

-----------------------------------------------------------------------------
(* Settings.                                                                *)

\* A row that was read before may be written back if nobody changed a setting meanwhile.
LEMMA UpsertSettings ==
  ASSUME TypeOK, SettingsStand, NEW h \in Hubs, NEW s \in Row, NEW new \in Row,
         NEW w \in Settings, Upsert(h, s, new), wanted' = [wanted EXCEPT ![h] = w],
         SettingsOf(s) = wanted[h] => SettingsOf(new) = w
  PROVE  SettingsStand'
<1> DEFINE u == Upserted(row[h], new)
<1>1. SettingsOf(u) = SettingsOf(new)
  BY UpsertedIsRow DEF TypeOK
<1> HIDE DEF u
<1>2. /\ row' = [row EXCEPT ![h] = u]
      /\ stale' = IF SettingsOf(row[h]) = SettingsOf(s) THEN stale ELSE stale \cup {h}
  BY DEF Upsert, u
<1>3. ASSUME NEW g \in Hubs \ stale', g = h PROVE SettingsOf(row'[g]) = wanted'[g]
  BY <1>1, <1>2, <1>3 DEF SettingsStand, TypeOK
<1>4. ASSUME NEW g \in Hubs \ stale', g # h PROVE SettingsOf(row'[g]) = wanted'[g]
  BY <1>2, <1>4 DEF SettingsStand, TypeOK
<1> QED
  BY <1>3, <1>4 DEF SettingsStand, SettingsOf

LEMMA SettingsStep ==
  ASSUME TypeOK, Rows, Course, SettingsStand, [Next]_vars
  PROVE  SettingsStand'
<1>1. CASE UNCHANGED <<row, wanted, stale>>
  BY <1>1 DEF SettingsStand, SettingsOf
<1>2. ASSUME NEW n \in Acts, Settle(n) PROVE SettingsStand'
  <2> DEFINE h == act[n].at
             r == act[n].seen
             new == IF r.id = NoId THEN Fresh(h, <<h, n>>) ELSE Prescribed(h, r)
             w == [wanted[h] EXCEPT !.fed = @ \/ h \in Configured,
                                    !.trust = IF h \in Official THEN "official" ELSE @]
  <2>1. h \in Hubs /\ r \in Row /\ <<h, n>> \in HubIds /\ wanted[h] \in Settings
    BY DEF TypeOK, Act, HubIds, Acts
  <2>2. new \in Row
    BY <2>1, FreshIsRow, PrescribedIsRow
  <2>3. w \in Settings
    BY <2>1, HubAssumption DEF Settings
  <2>4. Upsert(h, r, new) /\ wanted' = [wanted EXCEPT ![h] = w]
    BY <1>2 DEF Settle
  <2>5. SettingsOf(r) = wanted[h] => SettingsOf(new) = w
    <3>1. r.id = NoId => r = Fresh(h, NoId)
      BY <1>2 DEF Settle, Rows, Read
    <3>2. SettingsOf(new) = SettingsOf(Prescribed(h, r))
      BY <2>1, <3>1, FreshPrescribed
    <3> HIDE DEF new, h, r
    <3>3. SettingsOf(Prescribed(h, r)) =
            [SettingsOf(r) EXCEPT !.fed = @ \/ h \in Configured,
                                  !.trust = IF h \in Official THEN "official" ELSE @]
      BY <2>1, SettingsPrescribed
    <3> QED
      BY <3>2, <3>3
  <2> HIDE DEF new, w, h, r
  <2> QED BY <2>1, <2>2, <2>3, <2>4, <2>5, UpsertSettings
<1>3. ASSUME NEW n \in Acts, SaveIdentity(n) PROVE SettingsStand'
  <2> DEFINE h == act[n].hub
             s == act[n].seen
             new(fed) == [s EXCEPT !.fed = fed]
             w(fed) == [wanted[h] EXCEPT !.fed = fed]
  <2>1. PICK fed \in BOOLEAN : Upsert(h, s, new(fed)) /\ wanted' = [wanted EXCEPT ![h].fed = fed]
    BY <1>3 DEF SaveIdentity
  <2>2. h \in Hubs /\ s \in Row /\ wanted[h] \in Settings
    BY DEF TypeOK, Act
  <2>3. new(fed) \in Row /\ w(fed) \in Settings
    BY <2>2, FedMoves
  <2>4. SettingsOf(s) = wanted[h] => SettingsOf(new(fed)) = w(fed)
    BY <2>2, FedMoves
  <2>5. wanted' = [wanted EXCEPT ![h] = w(fed)]
    BY <2>1
  <2> HIDE DEF new, w, h, s
  <2> QED BY <2>1, <2>2, <2>3, <2>4, <2>5, UpsertSettings
<1>4. ASSUME NEW n \in Acts, SaveTrust(n) PROVE SettingsStand'
  <2> DEFINE h == act[n].hub
             s == act[n].seen
             new(l) == [s EXCEPT !.trust = l]
             w(l) == [wanted[h] EXCEPT !.trust = l]
  <2>1. PICK l \in Levels : Upsert(h, s, new(l)) /\ wanted' = [wanted EXCEPT ![h].trust = l]
    BY <1>4 DEF SaveTrust
  <2>2. h \in Hubs /\ s \in Row /\ wanted[h] \in Settings
    BY DEF TypeOK, Act
  <2>3. new(l) \in Row /\ w(l) \in Settings
    BY <2>2, TrustMoves
  <2>4. SettingsOf(s) = wanted[h] => SettingsOf(new(l)) = w(l)
    BY <2>2, TrustMoves
  <2>5. wanted' = [wanted EXCEPT ![h] = w(l)]
    BY <2>1
  <2> HIDE DEF new, w, h, s
  <2> QED BY <2>1, <2>2, <2>3, <2>4, <2>5, UpsertSettings
<1>5. ASSUME NEW n \in Acts, SaveLabels(n) PROVE SettingsStand'
  <2> DEFINE h == act[n].hub
             r(l) == [row[h] EXCEPT !.labels = l]
             w(l) == [wanted[h] EXCEPT !.labels = l]
  <2>1. PICK l \in {n, act[n].seen.labels} :
          /\ row' = [row EXCEPT ![h] = r(l)]
          /\ wanted' = IF l = n THEN [wanted EXCEPT ![h] = w(l)] ELSE wanted
          /\ stale' = IF l # n /\ row[h].labels # l THEN stale \cup {h} ELSE stale
    BY <1>5 DEF SaveLabels
  <2>2. h \in Hubs /\ row[h] \in Row /\ wanted[h] \in Settings
    BY DEF TypeOK, Act
  <2>3. SettingsOf(row[h]) = wanted[h] => SettingsOf(r(l)) = w(l)
    BY <2>2 DEF SettingsOf, Row, Settings
  <2>4. row[h].labels = l => r(l) = row[h]
    BY <2>2 DEF Row
  <2> HIDE DEF r, w, h
  <2>5. ASSUME NEW g \in Hubs \ stale', g = h PROVE SettingsOf(row'[g]) = wanted'[g]
    BY <2>1, <2>2, <2>3, <2>4, <2>5 DEF SettingsStand, TypeOK
  <2>6. ASSUME NEW g \in Hubs \ stale', g # h PROVE SettingsOf(row'[g]) = wanted'[g]
    BY <2>1, <2>6 DEF SettingsStand, TypeOK
  <2> QED BY <2>5, <2>6 DEF SettingsStand, SettingsOf
<1>6. ASSUME NEW n \in Acts, SaveKeys(n) PROVE SettingsStand'
  <2> DEFINE h == act[n].hub
             r == [row[h] EXCEPT !.key = n]
  <2>1. h \in Hubs /\ row[h] \in Row
    BY DEF TypeOK, Act
  <2>2. SettingsOf(r) = SettingsOf(row[h])
    BY <2>1 DEF SettingsOf, Row
  <2>3. row' = row \/ row' = [row EXCEPT ![h] = r]
    BY <1>6 DEF SaveKeys
  <2> HIDE DEF r, h
  <2>4. \A g \in Hubs : SettingsOf(row'[g]) = SettingsOf(row[g])
    BY <2>1, <2>2, <2>3 DEF TypeOK
  <2> QED BY <1>6, <2>4 DEF SaveKeys, SettingsStand, SettingsOf
<1>7. ASSUME NEW n \in Acts, Identity(n) PROVE SettingsStand'
  BY <1>1, <1>2, <1>3, <1>4, <1>5, <1>6, <1>7 DEF Identity, Ensure, tables, past
<1>8. ASSUME NEW n \in Acts, Handshake(n) PROVE UNCHANGED <<row, wanted, stale>>
  BY <1>8 DEF Handshake, CreateInvite, Send, Check, Redeem, StorePeer, SavePeer, tables, past
<1> QED
  BY <1>1, <1>7, <1>8 DEF Next, Start, Fail, Revoke, Expire, DeletePeer, vars, tables, past

-----------------------------------------------------------------------------
LEMMA InitIInv == Init => IInv
<1> SUFFICES ASSUME Init PROVE IInv
  OBVIOUS
<1>1. TypeOK
  BY InitTyped
<1>2. \A h \in Hubs : /\ First(h).id = NoId => First(h) = Fresh(h, NoId)
                      /\ First(h).id # NoId => First(h).id[1] = h
                      /\ First(h).key = 0
  <2> TAKE h \in Hubs
  <2>1. CASE h \in Known
    <3> DEFINE r == Fresh(h, <<h, 0>>)
    <3>1. <<h, 0>> \in HubIds
      BY HubAssumption DEF HubIds
    <3>2. r \in Row /\ r.id = <<h, 0>> /\ r.key = 0
      BY <3>1, FreshIsRow
    <3>3. First(h) = [r EXCEPT !.fed = TRUE]
      BY <2>1 DEF First
    <3>4. First(h).id = <<h, 0>> /\ First(h).key = 0
      BY <3>2, <3>3, RowSet, HubAssumption
    <3> QED BY <3>1, <3>4, NoIdApart
  <2>2. CASE h \notin Known
    <3>1. First(h) = Fresh(h, NoId)
      BY <2>2 DEF First
    <3> QED BY <3>1, FreshIsRow
  <2> QED BY <2>1, <2>2
<1>3. Rows
  <2>1. \A h \in Hubs : row[h] = First(h) /\ generated[h] = {}
    BY DEF Init
  <2>2. \A n \in Acts : act[n] = NoAct
    BY DEF Init
  <2>3. \A h \in Hubs : /\ row[h].id = NoId => row[h] = Fresh(h, NoId)
                        /\ row[h].id # NoId => row[h].id[1] = h
                        /\ row[h].key = 0
    BY <1>2, <2>1
  <2>4. Blank /\ KeysMade /\ KeyKept
    BY <2>1, <2>3 DEF Blank, KeysMade, KeyKept
  <2>5. Read
    BY <2>2 DEF Read, NoAct
  <2> QED BY <2>4, <2>5 DEF Rows
<1>4. Course /\ Used /\ Answering
  BY DEF Init, NoAct, Course, CourseOf, Used, Answering
<1>5. PeersInvited /\ PeeringMutual /\ OneIdentity
  BY DEF Init, NoAct, PeersInvited, PeeringMutual, OneIdentity, Lists
<1>6. SettingsStand
  BY DEF Init, SettingsStand
<1> QED
  BY <1>1, <1>3, <1>4, <1>5, <1>6 DEF IInv

LEMMA NextIInv == IInv /\ [Next]_vars => IInv'
<1> SUFFICES ASSUME IInv, [Next]_vars PROVE IInv'
  OBVIOUS
<1>1. /\ TypeOK /\ Rows /\ Read /\ Course /\ Used /\ Answering
      /\ PeersInvited /\ PeeringMutual /\ OneIdentity /\ SettingsStand
  BY DEF IInv, Rows
<1>2. TypeOK' /\ Rows' /\ Course' /\ Used'
  BY <1>1, TypeInductive, RowsInductive, CourseStep, UsedStep
<1>3. PeersInvited' /\ PeeringMutual' /\ Answering' /\ OneIdentity'
  BY <1>1, InvitedStep, MutualStep, IdentityStep
<1>4. SettingsStand'
  BY <1>1, SettingsStep
<1> QED
  BY <1>2, <1>3, <1>4 DEF IInv

LEMMA IInvHolds == Spec => []IInv
  BY InitIInv, NextIInv, PTL DEF Spec

-----------------------------------------------------------------------------
(* Theorems.                                                                *)

\* Types: every reachable state of the handlers and tables of all hubs is well typed.
THEOREM TypeCorrect == Spec => []TypeOK
<1>1. IInv => TypeOK
  BY DEF IInv
<1> QED
  BY <1>1, IInvHolds, PTL

\* hub_identity.go RedeemHubInvite: however many requests hold an invite at once, and
\* whatever fails, one of them is let in, and a peer row is the work of one that was.
\* Two hubs list each other, or a break is named.
THEOREM HandshakesAreSound == Spec => []HandshakeSound
<1>1. IInv => HandshakeSound
  <2> SUFFICES ASSUME IInv PROVE HandshakeSound
    OBVIOUS
  <2>1. ASSUME NEW t \in Invites PROVE Cardinality(admitted[t]) <= 1
    <3>1. CASE admitted[t] = {}
      BY <3>1, FS_EmptySet
    <3>2. CASE admitted[t] # {}
      <4>1. PICK n \in admitted[t] : TRUE
        BY <3>2
      <4>2. admitted[t] = {n}
        BY <4>1 DEF IInv, Used
      <4>3. Cardinality({n}) = 1
        BY FS_Singleton
      <4> QED BY <4>2, <4>3
    <3> QED BY <3>1, <3>2
  <2> QED
    BY <2>1 DEF IInv, HandshakeSound, InviteAdmitsOne
<1> QED
  BY <1>1, IInvHolds, PTL

\* hub_identity.go ensureHubIdentity, UpsertHubIdentity: handlers that write back whole
\* rows lose no key pair, make no second id, and undo no setting they had read.
THEOREM IdentityIsKept == Spec => []IdentitySound
<1>1. IInv => IdentitySound
  BY DEF IInv, Rows, IdentitySound
<1> QED
  BY <1>1, IInvHolds, PTL

-----------------------------------------------------------------------------
(* Part 2: the import. Pages.                                               *)

\* A set of numbers has a least one, and a bounded one a greatest.
LEMMA NatMin ==
  ASSUME NEW T, T \subseteq Nat, T # {}
  PROVE  \E x \in T : \A y \in T : x <= y
<1> DEFINE R == OpToRel(<, Nat)
<1>1. PICK x \in T : \A y \in T : ~ (<<y, x>> \in R)
  <2>1. IsWellFoundedOn(R, Nat)
    BY NatLessThanWellFounded
  <2> HIDE DEF R
  <2> QED BY <2>1, WFMin
<1>2. ASSUME NEW y \in T PROVE x <= y
  <2>1. y < x => <<y, x>> \in R
    BY DEF OpToRel
  <2> HIDE DEF R
  <2> QED BY <1>1, <2>1
<1> QED BY <1>2

LEMMA NatMax ==
  ASSUME NEW T, NEW b \in Nat, T \subseteq 1..b, T # {}
  PROVE  \E x \in T : \A y \in T : y <= x
<1> DEFINE D == {b - x : x \in T}
<1>0. \A x \in T : x \in Nat /\ x <= b /\ b - x \in Nat
  OBVIOUS
<1>1. D \subseteq Nat /\ D # {}
  BY <1>0
<1>2. PICK d \in D : \A e \in D : d <= e
  <2> HIDE DEF D
  <2> QED BY <1>1, NatMin
<1>3. PICK x \in T : d = b - x
  BY <1>2
<1>4. ASSUME NEW y \in T PROVE y <= x
  <2>1. b - y \in D
    OBVIOUS
  <2>2. b - x <= b - y
    BY <1>2, <1>3, <2>1
  <2> QED BY <1>0, <2>2
<1> QED BY <1>4

LEMMA SmallestIsThere ==
  ASSUME NEW S, S \subseteq RemoteIds, S # {}
  PROVE  Smallest(S) \in S /\ Smallest(S) \in RemoteIds
<1>1. S \subseteq Nat
  BY DEF RemoteIds
<1>2. \E m \in S : \A n \in S : m <= n
  BY <1>1, NatMin
<1>3. Smallest(S) \in S
  BY <1>2 DEF Smallest
<1> QED BY <1>3

LEMMA IdsCounted ==
  ASSUME NEW S, S \subseteq RemoteIds
  PROVE  /\ IsFiniteSet(S) /\ Cardinality(S) \in Nat
         /\ Cardinality(S) <= MaxRemoteId
         /\ \A T \in SUBSET S : Cardinality(T) <= Cardinality(S)
<1>1. IsFiniteSet(RemoteIds) /\ Cardinality(RemoteIds) = MaxRemoteId
  BY FS_Interval, FederationAssumption DEF RemoteIds
<1>2. IsFiniteSet(S) /\ Cardinality(S) <= MaxRemoteId
  BY <1>1, FS_Subset
<1>3. \A T \in SUBSET S : Cardinality(T) <= Cardinality(S)
  BY <1>2, FS_Subset
<1> QED BY <1>2, <1>3, FS_CardinalityType

\* At most n calls have fewer than n newer ones, and as many have fewer than n older ones.
LEMMA FewBesides ==
  ASSUME NEW S, S \subseteq RemoteIds, NEW n \in Int, NEW T \in SUBSET S, NEW m \in T,
         NEW B \in SUBSET S, Cardinality(B) < n, T \subseteq B \cup {m}
  PROVE  Cardinality(T) <= n
<1>1. IsFiniteSet(B) /\ Cardinality(B) \in Nat /\ B \cup {m} \subseteq RemoteIds
  BY IdsCounted
<1>2. Cardinality(B \cup {m}) <= Cardinality(B) + 1 /\ Cardinality(B \cup {m}) \in Nat
  BY <1>1, FS_AddElement, IdsCounted
<1>3. Cardinality(T) <= Cardinality(B \cup {m}) /\ Cardinality(T) \in Nat
  BY <1>1, IdsCounted
<1> QED BY <1>1, <1>2, <1>3

LEMMA NewestFew ==
  ASSUME NEW S, S \subseteq RemoteIds, NEW n \in Int, n >= 0
  PROVE  Cardinality({r \in S : Cardinality({q \in S : q > r}) < n}) <= n
<1> DEFINE T == {r \in S : Cardinality({q \in S : q > r}) < n}
<1> SUFFICES Cardinality(T) <= n
  OBVIOUS
<1>1. CASE T = {}
  BY <1>1, FS_EmptySet
<1>2. CASE T # {}
  <2>1. PICK m \in T : \A y \in T : m <= y
    <3>1. S \subseteq Nat
      BY DEF RemoteIds
    <3>2. T \subseteq Nat
      BY <3>1
    <3> HIDE DEF T
    <3> QED BY <1>2, <3>2, NatMin
  <2>2. m \in S /\ Cardinality({q \in S : q > m}) < n
    OBVIOUS
  <2>3. T \subseteq {q \in S : q > m} \cup {m}
    <3> SUFFICES ASSUME NEW y \in T, y # m PROVE y \in S /\ y > m
      OBVIOUS
    <3>1. y \in Nat /\ m \in Nat /\ y \in S
      BY DEF RemoteIds
    <3>2. m <= y
      BY <2>1
    <3> HIDE DEF T
    <3> QED BY <3>1, <3>2
  <2>4. PICK B : B = {q \in S : q > m}
    OBVIOUS
  <2>5. B \in SUBSET S /\ T \in SUBSET S /\ Cardinality(B) < n /\ T \subseteq B \cup {m}
    BY <2>2, <2>3, <2>4
  <2> HIDE DEF T
  <2> QED BY <2>1, <2>5, FewBesides
<1> QED BY <1>1, <1>2

LEMMA OldestFew ==
  ASSUME NEW S, S \subseteq RemoteIds, NEW n \in Int, n >= 0
  PROVE  Cardinality({r \in S : Cardinality({q \in S : q < r}) < n}) <= n
<1> DEFINE T == {r \in S : Cardinality({q \in S : q < r}) < n}
<1> SUFFICES Cardinality(T) <= n
  OBVIOUS
<1>1. CASE T = {}
  BY <1>1, FS_EmptySet
<1>2. CASE T # {}
  <2>1. PICK m \in T : \A y \in T : y <= m
    <3>1. T \subseteq 1..MaxRemoteId /\ MaxRemoteId \in Nat
      BY FederationAssumption DEF RemoteIds
    <3> HIDE DEF T
    <3> QED BY <1>2, <3>1, NatMax
  <2>2. m \in S /\ Cardinality({q \in S : q < m}) < n
    OBVIOUS
  <2>3. T \subseteq {q \in S : q < m} \cup {m}
    <3> SUFFICES ASSUME NEW y \in T, y # m PROVE y \in S /\ y < m
      OBVIOUS
    <3>1. y \in Nat /\ m \in Nat /\ y \in S
      BY DEF RemoteIds
    <3>2. y <= m
      BY <2>1
    <3> HIDE DEF T
    <3> QED BY <3>1, <3>2
  <2>4. PICK B : B = {q \in S : q < m}
    OBVIOUS
  <2>5. B \in SUBSET S /\ T \in SUBSET S /\ Cardinality(B) < n /\ T \subseteq B \cup {m}
    BY <2>2, <2>3, <2>4
  <2> HIDE DEF T
  <2> QED BY <2>1, <2>5, FewBesides
<1> QED BY <1>1, <1>2

\* A page asks for no more calls than the largest one holds and the cap leaves.
LEMMA RecentPageFits ==
  ASSUME exported \subseteq RemoteIds, counted \in Nat, counted < ImportCap
  PROVE  RecentPage \subseteq RemoteIds /\ Cardinality(RecentPage) <= PageLimit
<1>1. PICK S : S = {r \in exported : before > 0 => r < before}
  OBVIOUS
<1>2. S \subseteq RemoteIds
  BY <1>1
<1>3. BatchLimit \in Int /\ BatchLimit >= 0 /\ BatchLimit <= PageLimit /\ PageLimit \in Int
  BY FederationAssumption DEF BatchLimit
<1>4. RecentPage = {r \in S : Cardinality({q \in S : q > r}) < BatchLimit}
  BY <1>1 DEF RecentPage
<1>5. RecentPage \subseteq RemoteIds
  BY <1>2, <1>4
<1>6. Cardinality(RecentPage) <= BatchLimit /\ Cardinality(RecentPage) \in Nat
  BY <1>2, <1>3, <1>4, <1>5, NewestFew, IdsCounted
<1> QED BY <1>3, <1>5, <1>6

LEMMA LivePageFits ==
  ASSUME exported \subseteq RemoteIds
  PROVE  LivePage \subseteq RemoteIds /\ Cardinality(LivePage) <= PageLimit
<1>1. PICK S : S = {r \in exported : r > Largest(linked)}
  OBVIOUS
<1>2. S \subseteq RemoteIds
  BY <1>1
<1>3. PageLimit \in Int /\ PageLimit >= 0
  BY FederationAssumption
<1>4. LivePage = {r \in S : Cardinality({q \in S : q < r}) < PageLimit}
  BY <1>1 DEF LivePage
<1>5. LivePage \subseteq RemoteIds
  BY <1>2, <1>4
<1> QED BY <1>2, <1>3, <1>4, <1>5, OldestFew

-----------------------------------------------------------------------------
(* The inductive invariant of the import.                                   *)

\* A remote call is announced once while it has an import row, and not since it has none.
Announcing == \A r \in RemoteIds : announced[r] = IF r \in linked THEN 1 ELSE 0

\* A page is worked off: what was new in it and what is left fit in it.
Paging == IF sync \in {"insert", "record"} THEN fresh + Cardinality(page) <= PageLimit
                                           ELSE fresh = 0

\* During the back-fill the imports are those counted before the page and those that were new
\* in it, at most; the cap has room when a page is asked for and when a call is stored.
Counting ==
    /\ sync = "recent" => mode = "recent"
    /\ mode = "recent" =>
          /\ sync \in {"recent", "insert", "record"}
          /\ Cardinality(linked) <= counted + fresh
          /\ counted + fresh <= ImportCap
          /\ sync = "recent" => counted < ImportCap
          /\ sync = "record" => counted + fresh < ImportCap

\* Without the peer no cycle runs, and nothing is left once the deletion ran through.
Cleared ==
    ~peer /\ ~dirty => /\ sync = "idle"
                       /\ cleanup = "none" => linked = {} /\ copies = {}

ImportIInv == ImportTypeOK /\ Announcing /\ Paging /\ Counting /\ Cleared

-----------------------------------------------------------------------------
(* The initial state, and the parts of a step that several actions share.   *)

LEMMA InitImportIInv == ImportInit => ImportIInv
<1> SUFFICES ASSUME ImportInit PROVE ImportIInv
  OBVIOUS
<1> USE FederationAssumption DEF ImportInit
<1>1. ImportTypeOK
  <2>1. Cardinality({}) = 0
    BY FS_EmptySet
  <2>2. 0 \in 0..2 /\ 0 \in 0..MaxRemoteId /\ 0 \in 0..PageLimit /\ 0 \in 0..MaxForgets
        /\ 0 \in 0..MaxFaults /\ 0 <= PageLimit
    OBVIOUS
  <2>3. announced \in [RemoteIds -> 0..2]
    BY <2>2
  <2> QED BY <2>1, <2>2, <2>3 DEF ImportTypeOK
<1>2. Announcing
  BY DEF Announcing
<1>3. Paging /\ Counting /\ Cleared
  BY DEF Paging, Counting, Cleared
<1> QED BY <1>1, <1>2, <1>3 DEF ImportIInv

\* A cycle that ends forgets its page and count, whatever made it end.
LEMMA IdleIsClean ==
  ASSUME ImportIInv, Idle, UNCHANGED <<exported, linked, announced, owed>>,
         peer' \in BOOLEAN, dirty' \in BOOLEAN, cleanup' \in {"none", "imports", "calls"},
         copies' \subseteq RemoteIds, forgets' \in 0..MaxForgets, faults' \in 0..MaxFaults
  PROVE  ImportTypeOK' /\ Announcing' /\ Paging' /\ Counting'
<1> USE FederationAssumption DEF Idle
<1>1. ImportTypeOK'
  <2>1. Cardinality({}) = 0
    BY FS_EmptySet
  <2>2. 0 \in 0..MaxRemoteId /\ 0 \in 0..PageLimit /\ 0 <= PageLimit
    OBVIOUS
  <2>3. exported' \subseteq RemoteIds /\ linked' \subseteq RemoteIds /\ owed' \subseteq RemoteIds
        /\ announced' \in [RemoteIds -> 0..2]
    BY DEF ImportIInv, ImportTypeOK
  <2> QED BY <2>1, <2>2, <2>3 DEF ImportTypeOK
<1>2. Announcing'
  BY DEF ImportIInv, Announcing
<1>3. Paging' /\ Counting'
  BY DEF Paging, Counting
<1> QED BY <1>1, <1>2, <1>3

\* What an abandoned import leaves is the call it was about to record.
LEMMA AbandonedTyped == ASSUME ImportTypeOK PROVE Abandoned \subseteq RemoteIds
<1>1. CASE held = "row"
  <2>1. sync = "record" /\ page # {} /\ page \subseteq RemoteIds
    BY <1>1 DEF ImportTypeOK
  <2>2. Smallest(page) \in RemoteIds
    BY <2>1, SmallestIsThere
  <2> QED BY <2>2 DEF Abandoned, ImportTypeOK
<1>2. CASE held # "row"
  BY <1>2 DEF Abandoned, ImportTypeOK
<1> QED BY <1>1, <1>2

\* Deleting import rows resets what was announced of them, and gives the cap room.
LEMMA RowsDeleted ==
  ASSUME ImportIInv, NEW S \in SUBSET linked, linked' = linked \ S, announced' = Silent(S)
  PROVE  /\ linked' \subseteq RemoteIds
         /\ announced' \in [RemoteIds -> 0..2]
         /\ Announcing'
         /\ Cardinality(linked') \in Nat /\ Cardinality(linked) \in Nat
         /\ Cardinality(linked') <= Cardinality(linked)
<1>1. linked \subseteq RemoteIds /\ linked' \in SUBSET linked /\ linked' \subseteq RemoteIds
  BY DEF ImportIInv, ImportTypeOK
<1>2. announced' = [r \in RemoteIds |-> IF r \in S THEN 0 ELSE announced[r]]
  BY DEF Silent
<1>3. announced' \in [RemoteIds -> 0..2]
  <2>1. \A r \in RemoteIds : announced[r] \in 0..2
    BY DEF ImportIInv, ImportTypeOK
  <2>2. 0 \in 0..2
    OBVIOUS
  <2> QED BY <1>2, <2>1, <2>2
<1>4. Announcing'
  <2> SUFFICES ASSUME NEW r \in RemoteIds
               PROVE  announced'[r] = IF r \in linked' THEN 1 ELSE 0
    BY DEF Announcing
  <2>1. announced[r] = IF r \in linked THEN 1 ELSE 0
    BY DEF ImportIInv, Announcing
  <2> QED BY <1>1, <1>2, <2>1
<1>5. Cardinality(linked) \in Nat /\ Cardinality(linked') \in Nat
      /\ Cardinality(linked') <= Cardinality(linked)
  BY <1>1, IdsCounted
<1> QED BY <1>1, <1>3, <1>4, <1>5

\* Fewer import rows leave the count of a running back-fill an upper bound.
LEMMA FewerRowsCounted ==
  ASSUME ImportTypeOK, Counting, Cardinality(linked) \in Nat, Cardinality(linked') \in Nat,
         Cardinality(linked') <= Cardinality(linked),
         UNCHANGED <<sync, mode, counted, fresh>>
  PROVE  Counting'
<1>1. counted \in Nat /\ fresh \in Nat
  BY FederationAssumption DEF ImportTypeOK
<1> QED BY <1>1 DEF Counting

-----------------------------------------------------------------------------
(* The steps of the sync goroutine.                                         *)

LEMMA ExportKeeps ==
  ASSUME ImportIInv, NEW r \in RemoteIds, Export(r)
  PROVE  ImportIInv'
<1> USE DEF Export, peering, imports, cycle
<1>1. ImportTypeOK'
  BY DEF ImportIInv, ImportTypeOK
<1>2. Announcing'
  BY DEF ImportIInv, Announcing
<1>3. Paging'
  BY DEF ImportIInv, Paging
<1>4. Counting'
  BY DEF ImportIInv, Counting
<1>5. Cleared'
  BY DEF ImportIInv, Cleared
<1> QED BY <1>1, <1>2, <1>3, <1>4, <1>5 DEF ImportIInv

LEMMA StartCycleKeeps ==
  ASSUME ImportIInv, StartCycle
  PROVE  ImportIInv'
<1> USE DEF StartCycle, Recount, Continue, remote, imports
<1>1. Cardinality(linked) \in 0..MaxRemoteId
  BY IdsCounted, FederationAssumption DEF ImportIInv, ImportTypeOK
<1>2. ImportTypeOK'
  <2>1. held = "none"
    BY DEF ImportIInv, ImportTypeOK
  <2>2. dirty' \in BOOLEAN
    BY DEF ImportIInv, ImportTypeOK
  <2>3. sync' \in {"recent", "live"} /\ mode' \in {"recent", "live"}
    OBVIOUS
  <2> QED BY <1>1, <2>1, <2>2, <2>3 DEF ImportIInv, ImportTypeOK
<1>3. Announcing'
  BY DEF ImportIInv, Announcing
<1>4. fresh = 0 /\ fresh' = 0 /\ Paging'
  BY DEF ImportIInv, Paging
<1>5. Counting'
  <2>1. ImportCap \in Nat
    BY FederationAssumption
  <2> QED BY <1>1, <1>4, <2>1 DEF Counting
<1>6. Cleared'
  BY DEF Cleared
<1> QED BY <1>2, <1>3, <1>4, <1>5, <1>6 DEF ImportIInv

\* A page that fits is received with nothing of it imported yet.
LEMMA ReceivedKeeps ==
  ASSUME ImportIInv, sync \in {"recent", "live"}, NEW calls, calls \subseteq RemoteIds,
         Cardinality(calls) <= PageLimit, calls # {}, Received(calls),
         UNCHANGED <<remote, peering, imports, owed, forgets, faults>>
  PROVE  ImportIInv'
<1> USE DEF Received, remote, peering, imports
<1>1. Smallest(calls) \in 0..MaxRemoteId
  <2>1. Smallest(calls) \in RemoteIds
    BY SmallestIsThere
  <2> QED BY <2>1, FederationAssumption DEF RemoteIds
<1>2. Cardinality(calls) \in Nat /\ 0 \in 0..PageLimit
  BY IdsCounted, FederationAssumption
<1>3. ImportTypeOK'
  <2>1. held = "none"
    BY DEF ImportIInv, ImportTypeOK
  <2> QED BY <1>1, <1>2, <2>1 DEF ImportIInv, ImportTypeOK
<1>4. Announcing'
  BY DEF ImportIInv, Announcing
<1>5. Paging'
  BY <1>2, FederationAssumption DEF Paging
<1>6. Counting'
  <2>1. fresh = 0 /\ fresh' = 0
    BY DEF ImportIInv, Paging
  <2> QED BY <2>1 DEF ImportIInv, Counting
<1>7. Cleared'
  BY DEF ImportIInv, Cleared
<1> QED BY <1>3, <1>4, <1>5, <1>6, <1>7 DEF ImportIInv

\* A cycle that ends without a failure leaves everything but itself alone.
LEMMA EndedKeeps ==
  ASSUME ImportIInv, sync # "idle", Idle,
         UNCHANGED <<remote, peering, imports, owed, forgets, faults>>
  PROVE  ImportIInv'
<1> USE DEF remote, peering, imports
<1>1. ImportTypeOK' /\ Announcing' /\ Paging' /\ Counting'
  <2>1. /\ peer' \in BOOLEAN /\ dirty' \in BOOLEAN
        /\ cleanup' \in {"none", "imports", "calls"} /\ copies' \subseteq RemoteIds
        /\ forgets' \in 0..MaxForgets /\ faults' \in 0..MaxFaults
    BY DEF ImportIInv, ImportTypeOK
  <2> QED BY <2>1, IdleIsClean
<1>2. Cleared'
  BY DEF ImportIInv, Cleared
<1> QED BY <1>1, <1>2 DEF ImportIInv

LEMMA FetchRecentKeeps ==
  ASSUME ImportIInv, FetchRecent
  PROVE  ImportIInv'
<1>1. mode = "recent" /\ fresh = 0 /\ counted < ImportCap /\ counted \in Nat /\ held = "none"
  <2>1. sync = "recent"
    BY DEF FetchRecent
  <2>2. mode = "recent" /\ counted < ImportCap
    BY <2>1 DEF ImportIInv, Counting
  <2>3. fresh = 0
    BY <2>1 DEF ImportIInv, Paging
  <2>4. counted \in Nat /\ held = "none"
    BY <2>1, FederationAssumption DEF ImportIInv, ImportTypeOK
  <2> QED BY <2>2, <2>3, <2>4
<1>2. CASE RecentPage = {}
  <2> USE <1>2 DEF FetchRecent, remote, peering, imports
  <2>1. ImportTypeOK'
    BY <1>1 DEF ImportIInv, ImportTypeOK
  <2>2. Announcing'
    BY DEF ImportIInv, Announcing
  <2>3. Paging' /\ Counting'
    BY <1>1 DEF Paging, Counting
  <2>4. Cleared'
    BY DEF ImportIInv, Cleared
  <2> QED BY <2>1, <2>2, <2>3, <2>4 DEF ImportIInv
<1>3. CASE RecentPage # {}
  <2>1. PICK calls : calls = RecentPage
    OBVIOUS
  <2>2. RecentPage \subseteq RemoteIds /\ Cardinality(RecentPage) <= PageLimit
    BY <1>1, RecentPageFits DEF ImportIInv, ImportTypeOK
  <2>3. sync = "recent" /\ Received(calls)
        /\ UNCHANGED <<remote, peering, imports, owed, forgets, faults>>
    BY <1>3, <2>1 DEF FetchRecent
  <2>4. sync \in {"recent", "live"}
    BY <2>3
  <2>5. calls \subseteq RemoteIds /\ Cardinality(calls) <= PageLimit /\ calls # {}
    BY <1>3, <2>1, <2>2
  <2> QED BY <2>3, <2>4, <2>5, ReceivedKeeps
<1> QED BY <1>2, <1>3

LEMMA FetchLiveKeeps ==
  ASSUME ImportIInv, FetchLive
  PROVE  ImportIInv'
<1>1. CASE LivePage = {}
  BY <1>1, EndedKeeps DEF FetchLive
<1>2. CASE LivePage # {}
  <2>1. PICK calls : calls = LivePage
    OBVIOUS
  <2>2. LivePage \subseteq RemoteIds /\ Cardinality(LivePage) <= PageLimit
    BY LivePageFits DEF ImportIInv, ImportTypeOK
  <2>3. sync = "live" /\ Received(calls)
        /\ UNCHANGED <<remote, peering, imports, owed, forgets, faults>>
    BY <1>2, <2>1 DEF FetchLive
  <2>4. sync \in {"recent", "live"}
    BY <2>3
  <2>5. calls \subseteq RemoteIds /\ Cardinality(calls) <= PageLimit /\ calls # {}
    BY <1>2, <2>1, <2>2
  <2> QED BY <2>3, <2>4, <2>5, ReceivedKeeps
<1> QED BY <1>1, <1>2

LEMMA InsertCallKeeps ==
  ASSUME ImportIInv, InsertCall
  PROVE  ImportIInv'
<1> USE DEF InsertCall, remote, peering, imports
<1>1. ImportTypeOK'
  BY DEF ImportIInv, ImportTypeOK
<1>2. Announcing'
  BY DEF ImportIInv, Announcing
<1>3. Paging'
  BY DEF ImportIInv, Paging
<1>4. Counting'
  <2>1. counted \in Nat /\ fresh \in Nat /\ ImportCap \in Nat
    BY FederationAssumption DEF ImportIInv, ImportTypeOK
  <2>2. mode = "recent" => counted + fresh < ImportCap
    BY <2>1 DEF StopsAtCap
  <2> QED BY <2>2 DEF ImportIInv, Counting
<1>5. Cleared'
  BY DEF ImportIInv, Cleared
<1> QED BY <1>1, <1>2, <1>3, <1>4, <1>5 DEF ImportIInv

LEMMA RecordImportKeeps ==
  ASSUME ImportIInv, RecordImport
  PROVE  ImportIInv'
<1> USE DEF remote, peering
<1>0. PICK r : r = Smallest(page)
  OBVIOUS
<1>1. /\ sync = "record" /\ sync' = "insert" /\ held' = "none"
      /\ linked' = linked \cup {r} /\ page' = page \ {r}
      /\ copies' = IF r \in linked THEN copies \cup {r} ELSE copies
      /\ announced' = IF r \notin linked /\ announced[r] < 2
                      THEN [announced EXCEPT ![r] = @ + 1] ELSE announced
      /\ fresh' = IF r \notin linked THEN fresh + 1 ELSE fresh
      /\ UNCHANGED <<exported, peer, cleanup, dirty, mode, counted, before, pageMin, owed,
                     forgets, faults>>
  BY <1>0 DEF RecordImport, Inserted
<1>2. r \in page /\ r \in RemoteIds
  BY <1>0, <1>1, SmallestIsThere DEF ImportIInv, ImportTypeOK
<1>3. /\ linked \subseteq RemoteIds /\ page \subseteq RemoteIds
      /\ announced \in [RemoteIds -> 0..2] /\ copies \subseteq RemoteIds
      /\ counted \in Nat /\ fresh \in Nat /\ PageLimit \in Nat /\ ImportCap \in Nat
  BY FederationAssumption DEF ImportIInv, ImportTypeOK
<1>4. /\ Cardinality(page) \in Nat /\ Cardinality(page') \in Nat
      /\ Cardinality(page') = Cardinality(page) - 1
  <2>1. IsFiniteSet(page)
    BY <1>3, IdsCounted
  <2>2. Cardinality(page \ {r}) = Cardinality(page) - 1
    BY <1>2, <2>1, FS_RemoveElement
  <2>3. page \ {r} \subseteq RemoteIds
    BY <1>3
  <2>4. Cardinality(page) \in Nat /\ Cardinality(page \ {r}) \in Nat
    BY <1>3, <2>3, IdsCounted
  <2> QED BY <1>1, <2>2, <2>4
<1>5. /\ Cardinality(linked) \in Nat /\ Cardinality(linked') \in Nat
      /\ Cardinality(linked') <= Cardinality(linked) + 1
      /\ r \in linked => Cardinality(linked') = Cardinality(linked)
  <2>1. IsFiniteSet(linked) /\ Cardinality(linked) \in Nat
    BY <1>3, IdsCounted
  <2>2. linked' \subseteq RemoteIds
    BY <1>1, <1>2, <1>3
  <2>3. Cardinality(linked') \in Nat
    BY <2>2, IdsCounted
  <2>4. CASE r \in linked
    <3>1. linked' = linked
      BY <1>1, <2>4
    <3> QED BY <2>1, <2>4, <3>1
  <2>5. CASE r \notin linked
    <3>1. Cardinality(linked \cup {r}) = Cardinality(linked) + 1
      BY <2>1, <2>5, FS_AddElement
    <3>2. Cardinality(linked') = Cardinality(linked) + 1
      BY <1>1, <3>1
    <3> QED BY <2>1, <2>3, <2>5, <3>2
  <2> QED BY <2>4, <2>5
<1>6. fresh + Cardinality(page) <= PageLimit
  BY <1>1 DEF ImportIInv, Paging
<1>7. fresh' + Cardinality(page') <= PageLimit /\ fresh' \in 0..PageLimit
  BY <1>1, <1>3, <1>4, <1>6
<1>8. announced' \in [RemoteIds -> 0..2] /\ Announcing'
  <2>1. \A q \in RemoteIds : announced[q] = IF q \in linked THEN 1 ELSE 0
    BY DEF ImportIInv, Announcing
  <2>2. CASE r \in linked
    <3>1. announced' = announced /\ linked' = linked
      BY <1>1, <2>2
    <3> QED BY <1>3, <2>1, <3>1 DEF Announcing
  <2>3. CASE r \notin linked
    <3>1. announced[r] = 0
      BY <1>2, <2>1, <2>3
    <3>2. announced' = [announced EXCEPT ![r] = 1]
      BY <1>1, <2>3, <3>1
    <3>3. 1 \in 0..2
      OBVIOUS
    <3>4. announced' \in [RemoteIds -> 0..2]
      BY <1>2, <1>3, <3>2, <3>3
    <3>5. \A q \in RemoteIds : announced'[q] = IF q = r THEN 1 ELSE announced[q]
      BY <1>3, <3>2
    <3>6. Announcing'
      BY <1>1, <2>1, <3>5 DEF Announcing
    <3> QED BY <3>4, <3>6
  <2> QED BY <2>2, <2>3
<1>9. ImportTypeOK'
  <2>1. linked' \subseteq RemoteIds /\ copies' \subseteq RemoteIds /\ page' \subseteq RemoteIds
    BY <1>1, <1>2, <1>3
  <2>2. Cardinality(page') <= PageLimit
    BY <1>3, <1>4, <1>7
  <2> QED BY <1>1, <1>7, <1>8, <2>1, <2>2 DEF ImportIInv, ImportTypeOK
<1>10. Paging'
  BY <1>1, <1>7 DEF Paging
<1>11. Counting'
  <2>1. mode = "recent" => /\ Cardinality(linked) <= counted + fresh
                           /\ counted + fresh < ImportCap
    BY <1>1 DEF ImportIInv, Counting
  <2>2. mode = "recent" => /\ Cardinality(linked') <= counted + fresh'
                           /\ counted + fresh' <= ImportCap
    BY <1>1, <1>3, <1>5, <2>1
  <2> QED BY <1>1, <2>2 DEF Counting
<1>12. Cleared'
  BY <1>1 DEF ImportIInv, Cleared
<1> QED BY <1>8, <1>9, <1>10, <1>11, <1>12 DEF ImportIInv

LEMMA EndRecentPageKeeps ==
  ASSUME ImportIInv, EndRecentPage
  PROVE  ImportIInv'
<1> USE DEF EndRecentPage, Recount, Continue, remote, peering, imports
<1>1. Cardinality(linked) \in 0..MaxRemoteId /\ ImportCap \in Nat
  BY IdsCounted, FederationAssumption DEF ImportIInv, ImportTypeOK
<1>2. /\ sync' = "recent" => Cardinality(linked) < ImportCap
      /\ sync' \in {"recent", "live"} /\ mode' = sync'
  OBVIOUS
<1>3. ImportTypeOK'
  <2>1. Cardinality({}) = 0 /\ 0 \in 0..PageLimit /\ 0 <= PageLimit
    BY FS_EmptySet, FederationAssumption
  <2>2. page' = {} /\ held' = "none"
    BY DEF ImportIInv, ImportTypeOK
  <2> QED BY <1>1, <1>2, <2>1, <2>2 DEF ImportIInv, ImportTypeOK
<1>4. Announcing'
  BY DEF ImportIInv, Announcing
<1>5. Paging'
  BY <1>2 DEF Paging
<1>6. Counting'
  BY <1>1, <1>2 DEF Counting
<1>7. Cleared'
  BY DEF ImportIInv, Cleared
<1> QED BY <1>3, <1>4, <1>5, <1>6, <1>7 DEF ImportIInv

LEMMA CycleEndsKeeps ==
  ASSUME ImportIInv, RecordRefused \/ EndLivePage
  PROVE  ImportIInv'
<1>1. sync # "idle" /\ Idle
      /\ UNCHANGED <<remote, peering, imports, owed, forgets, faults>>
  BY DEF RecordRefused, EndLivePage
<1> QED BY <1>1, EndedKeeps

LEMMA SyncFailsKeeps ==
  ASSUME ImportIInv, SyncFails
  PROVE  ImportIInv'
<1> USE DEF SyncFails, remote, peering
<1>1. ImportTypeOK' /\ Announcing' /\ Paging' /\ Counting'
  <2>1. copies' \subseteq RemoteIds
    BY AbandonedTyped DEF ImportIInv
  <2>2. /\ peer' \in BOOLEAN /\ dirty' \in BOOLEAN
        /\ cleanup' \in {"none", "imports", "calls"}
        /\ forgets' \in 0..MaxForgets /\ faults' \in 0..MaxFaults
    BY FederationAssumption DEF ImportIInv, ImportTypeOK
  <2> QED BY <2>1, <2>2, IdleIsClean
<1>2. Cleared'
  BY DEF ImportIInv, Cleared
<1> QED BY <1>1, <1>2 DEF ImportIInv

-----------------------------------------------------------------------------
(* Administration of the peer, and deletions of calls.                      *)

LEMMA PeerStepsKeep ==
  ASSUME ImportIInv, Connect \/ DeleteHubPeer
  PROVE  ImportIInv'
<1> USE DEF Connect, DeleteHubPeer, remote, imports, cycle
<1>1. ImportTypeOK'
  BY DEF ImportIInv, ImportTypeOK
<1>2. Announcing'
  BY DEF ImportIInv, Announcing
<1>3. Paging'
  BY DEF ImportIInv, Paging
<1>4. Counting'
  BY DEF ImportIInv, Counting
<1>5. Cleared'
  BY DEF Cleared
<1> QED BY <1>1, <1>2, <1>3, <1>4, <1>5 DEF ImportIInv

LEMMA CleanupImportsKeeps ==
  ASSUME ImportIInv, CleanupImports
  PROVE  ImportIInv'
<1> USE DEF CleanupImports, remote, cycle
<1>1. linked' = linked \ linked
  OBVIOUS
<1>2. /\ linked' \subseteq RemoteIds /\ announced' \in [RemoteIds -> 0..2] /\ Announcing'
      /\ Cardinality(linked') \in Nat /\ Cardinality(linked) \in Nat
      /\ Cardinality(linked') <= Cardinality(linked)
  BY <1>1, RowsDeleted
<1>3. ImportTypeOK'
  BY <1>2 DEF ImportIInv, ImportTypeOK
<1>4. Paging'
  BY DEF ImportIInv, Paging
<1>5. Counting'
  BY <1>2, FewerRowsCounted DEF ImportIInv
<1>6. Cleared'
  BY DEF ImportIInv, Cleared
<1> QED BY <1>2, <1>3, <1>4, <1>5, <1>6 DEF ImportIInv

LEMMA CleanupCallsKeeps ==
  ASSUME ImportIInv, CleanupCalls
  PROVE  ImportIInv'
<1> USE DEF CleanupCalls, Unswept, remote
<1>1. linked' = linked \ linked
  OBVIOUS
<1>2. /\ linked' \subseteq RemoteIds /\ announced' \in [RemoteIds -> 0..2] /\ Announcing'
      /\ Cardinality(linked') \in Nat /\ Cardinality(linked) \in Nat
      /\ Cardinality(linked') <= Cardinality(linked)
  BY <1>1, RowsDeleted
<1>3. ImportTypeOK'
  BY <1>2 DEF ImportIInv, ImportTypeOK
<1>4. Paging'
  BY DEF ImportIInv, Paging
<1>5. Counting'
  BY <1>2, FewerRowsCounted DEF ImportIInv
<1>6. Cleared'
  BY DEF ImportIInv, Cleared
<1> QED BY <1>2, <1>3, <1>4, <1>5, <1>6 DEF ImportIInv

LEMMA CleanupFailsKeeps ==
  ASSUME ImportIInv, CleanupFails
  PROVE  ImportIInv'
<1> USE DEF CleanupFails, remote, imports, cycle
<1>1. ImportTypeOK'
  BY FederationAssumption DEF ImportIInv, ImportTypeOK
<1>2. Announcing'
  BY DEF ImportIInv, Announcing
<1>3. Paging'
  BY DEF ImportIInv, Paging
<1>4. Counting'
  BY DEF ImportIInv, Counting
<1>5. Cleared'
  BY DEF Cleared
<1> QED BY <1>1, <1>2, <1>3, <1>4, <1>5 DEF ImportIInv

LEMMA RestartKeeps ==
  ASSUME ImportIInv, Restart
  PROVE  ImportIInv'
<1> USE DEF Restart, remote
<1>1. ImportTypeOK' /\ Announcing' /\ Paging' /\ Counting'
  <2>1. copies' \subseteq RemoteIds
    BY AbandonedTyped DEF ImportIInv
  <2>2. dirty' \in BOOLEAN
    BY DEF ImportIInv, ImportTypeOK
  <2>3. /\ peer' \in BOOLEAN /\ cleanup' \in {"none", "imports", "calls"}
        /\ forgets' \in 0..MaxForgets /\ faults' \in 0..MaxFaults
    BY FederationAssumption DEF ImportIInv, ImportTypeOK
  <2> QED BY <2>1, <2>2, <2>3, IdleIsClean
<1>2. Cleared'
  BY DEF ImportIInv, Cleared
<1> QED BY <1>1, <1>2 DEF ImportIInv

LEMMA ForgetKeeps ==
  ASSUME ImportIInv, NEW r \in RemoteIds, Forget(r)
  PROVE  ImportIInv'
<1> USE DEF Forget, remote, peering, cycle
<1>1. linked' = linked \ {r} /\ {r} \in SUBSET linked /\ announced' = Silent({r})
  OBVIOUS
<1>2. /\ linked' \subseteq RemoteIds /\ announced' \in [RemoteIds -> 0..2] /\ Announcing'
      /\ Cardinality(linked') \in Nat /\ Cardinality(linked) \in Nat
      /\ Cardinality(linked') <= Cardinality(linked)
  BY <1>1, RowsDeleted
<1>3. ImportTypeOK'
  BY <1>2, FederationAssumption DEF ImportIInv, ImportTypeOK
<1>4. Paging'
  BY DEF ImportIInv, Paging
<1>5. Counting'
  BY <1>2, FewerRowsCounted DEF ImportIInv
<1>6. Cleared'
  BY DEF ImportIInv, Cleared
<1> QED BY <1>2, <1>3, <1>4, <1>5, <1>6 DEF ImportIInv

-----------------------------------------------------------------------------
(* The theorems about the import.                                           *)

LEMMA ImportStepKeeps == ImportIInv /\ [ImportNext]_importVars => ImportIInv'
<1> SUFFICES ASSUME ImportIInv, [ImportNext]_importVars PROVE ImportIInv'
  OBVIOUS
<1>1. CASE \E r \in RemoteIds : Export(r)
  BY <1>1, ExportKeeps
<1>2. CASE StartCycle
  BY <1>2, StartCycleKeeps
<1>3. CASE FetchRecent
  BY <1>3, FetchRecentKeeps
<1>4. CASE FetchLive
  BY <1>4, FetchLiveKeeps
<1>5. CASE InsertCall
  BY <1>5, InsertCallKeeps
<1>6. CASE RecordImport
  BY <1>6, RecordImportKeeps
<1>7. CASE RecordRefused \/ EndLivePage
  BY <1>7, CycleEndsKeeps
<1>8. CASE EndRecentPage
  BY <1>8, EndRecentPageKeeps
<1>9. CASE SyncFails
  BY <1>9, SyncFailsKeeps
<1>10. CASE Connect \/ DeleteHubPeer
  BY <1>10, PeerStepsKeep
<1>11. CASE CleanupImports
  BY <1>11, CleanupImportsKeeps
<1>12. CASE CleanupCalls
  BY <1>12, CleanupCallsKeeps
<1>13. CASE CleanupFails
  BY <1>13, CleanupFailsKeeps
<1>14. CASE Restart
  BY <1>14, RestartKeeps
<1>15. CASE \E r \in RemoteIds : Forget(r)
  BY <1>15, ForgetKeeps
<1>16. CASE UNCHANGED importVars
  <2> USE <1>16 DEF importVars, remote, peering, imports, cycle
  <2>1. ImportTypeOK'
    BY DEF ImportIInv, ImportTypeOK
  <2>2. Announcing' /\ Paging'
    BY DEF ImportIInv, Announcing, Paging
  <2>3. Counting' /\ Cleared'
    BY DEF ImportIInv, Counting, Cleared
  <2> QED BY <2>1, <2>2, <2>3 DEF ImportIInv
<1> QED BY <1>1, <1>2, <1>3, <1>4, <1>5, <1>6, <1>7, <1>8, <1>9, <1>10, <1>11, <1>12, <1>13,
           <1>14, <1>15, <1>16 DEF ImportNext

LEMMA ImportInvariant == ImportSpec => []ImportIInv
BY InitImportIInv, ImportStepKeeps, PTL DEF ImportSpec

\* Every field of the peer, its imports and the sync goroutine keeps its type: a page never
\* holds more calls than the batch limit, a call is stored only for a page that still has one
\* to import, and no more of a page is new than it had (importFederatedCalls).
THEOREM ImportTypeCorrect == ImportSpec => []ImportTypeOK
<1>1. ImportIInv => ImportTypeOK
  BY DEF ImportIInv
<1> QED BY <1>1, ImportInvariant, PTL

LEMMA SoundByIInv == ImportIInv => ImportsSound
<1> SUFFICES ASSUME ImportIInv PROVE ImportsSound
  OBVIOUS
<1>1. AnnouncedOnce
  <2> SUFFICES ASSUME NEW r \in RemoteIds PROVE announced[r] <= 1
    BY DEF AnnouncedOnce
  <2>1. announced[r] = IF r \in linked THEN 1 ELSE 0
    BY DEF ImportIInv, Announcing
  <2> QED BY <2>1
<1>2. BackfillWithinCap
  <2>1. /\ counted \in Nat /\ fresh \in Nat /\ ImportCap \in Nat
        /\ Cardinality(linked) \in Nat
    BY FederationAssumption, IdsCounted DEF ImportIInv, ImportTypeOK
  <2>2. mode = "recent" => Cardinality(linked) <= counted + fresh /\ counted + fresh <= ImportCap
    BY DEF ImportIInv, Counting
  <2> QED BY <2>1, <2>2 DEF BackfillWithinCap
<1>3. PeerRemovedCleanly
  BY DEF ImportIInv, Cleared, PeerRemovedCleanly
<1> QED BY <1>1, <1>2, <1>3 DEF ImportsSound

\* A remote call is broadcast once while its import is recorded, the back-fill stays within
\* the cap whatever pages, failures, restarts and deletions come between its steps, and a
\* deletion of the peer that ran through with no cycle under way leaves none of its calls
\* (importFederatedCall, syncFederatedPeerBackfill, cleanupDeletedHubPeer).
THEOREM ImportsAreSound == ImportSpec => []ImportsSound
BY ImportInvariant, SoundByIInv, PTL
=============================================================================
