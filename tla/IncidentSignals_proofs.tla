------------------------ MODULE IncidentSignals_proofs ------------------------
(***************************************************************************)
(* Proofs about IncidentSignals: a signal has one incident, and a poll that *)
(* is alone closes none whose alert is listed, for every set of alerts,     *)
(* polls and promotions and every bound.                                    *)
(***************************************************************************)
EXTENDS IncidentSignals, FiniteSetTheorems, TLAPS

\* The type invariant but for the links.
Rows ==
    /\ service \in [Alerts -> {"future", "listed", "over"}]
    /\ settings \in Settings
    /\ sig \in [Alerts -> Signal]
    /\ inc \in [Numbers -> Incident]
    /\ excuse \subseteq Alerts
    /\ requests \in 0..MaxRequests /\ faults \in 0..MaxFaults
Hands ==
    /\ poll \in [Polls -> Poll]
    /\ promote \in [Promoters -> Promotion]

Exists(i) == i \in Numbers /\ inc[i].status # "none"

\* An incident that somebody is about to link is one of that signal.
Holds(a, i) == Exists(i) /\ inc[i].from = a

\* A link is to an incident of the signal that is there.
Links ==
    \A a \in Alerts : sig[a].incident # None =>
        /\ sig[a].stored
        /\ Holds(a, sig[a].incident) /\ inc[sig[a].incident].status # "purged"

\* Incidents come from stored signals, and so does whoever is making one.
FromStored ==
    /\ \A i \in Numbers : Exists(i) => sig[inc[i].from].stored
    /\ \A i \in Numbers : ~Exists(i) => ~inc[i].auto

Creates(p, a) == poll[p].pc = "create" /\ poll[p].a = a
PollOn(p, a) == poll[p].pc \in {"create", "link"} /\ poll[p].a = a
PromoteOn(q, a) == promote[q].pc # "idle" /\ promote[q].a = a

\* What those who work have in hand.
PollHolds(b) ==
    /\ b.pc \in {"create", "link"} => sig[b.a].stored
    /\ b.pc = "link" => Holds(b.a, b.i)
    /\ b.pc = "close" => Exists(b.i)
    /\ \A i \in b.todo : Exists(i)
PromoteHolds(b) ==
    /\ b.pc # "idle" => sig[b.a].stored
    /\ b.pc = "link" => Holds(b.a, b.i)
InHand ==
    /\ \A p \in Polls : PollHolds(poll[p])
    /\ \A q \in Promoters : PromoteHolds(promote[q])

AutoOf(a) == {i \in Numbers : inc[i].from = a /\ inc[i].auto}

\* One automatic incident: there is one, or one poll is about to make it.
OneAuto(a) ==
    /\ \A i, j \in AutoOf(a) : i = j
    /\ \A p, q \in Polls : Creates(p, a) /\ Creates(q, a) => p = q
    /\ \A p \in Polls : Creates(p, a) => AutoOf(a) = {}

\* One incident altogether: one request or poll is at it, and knows of what there is; when
\* nobody is, the signal's link does.
OneMaker(a) ==
    /\ \A p, q \in Polls : PollOn(p, a) /\ PollOn(q, a) => p = q
    /\ \A q, r \in Promoters : PromoteOn(q, a) /\ PromoteOn(r, a) => q = r
    /\ \A p \in Polls, q \in Promoters : ~(PollOn(p, a) /\ PromoteOn(q, a))
MakerKnows(a) ==
    /\ \A p \in Polls : PollOn(p, a) =>
          Standing(a) \subseteq (IF poll[p].pc = "create" THEN {} ELSE {poll[p].i})
    /\ \A q \in Promoters : PromoteOn(q, a) =>
          Standing(a) \subseteq (IF promote[q].pc = "create" THEN {} ELSE {promote[q].i})
LinkKnows(a) ==
    \/ \E p \in Polls : PollOn(p, a)
    \/ \E q \in Promoters : PromoteOn(q, a)
    \/ Standing(a) \subseteq {sig[a].incident}
Single(a) == OneMaker(a) /\ MakerKnows(a) /\ LinkKnows(a)

Alone == \A a \in Alerts : OneAuto(a) /\ (a \notin excuse => Single(a))

IInv == Rows /\ Hands /\ Links /\ FromStored /\ InHand /\ Alone

-----------------------------------------------------------------------------
(* Data.                                                                    *)

LEMMA AlertTyped == AnyAlert \in Alerts
  BY SignalsAssumption DEF AnyAlert

LEMMA IdleTyped == IdlePoll \in Poll /\ IdlePromotion \in Promotion
  BY AlertTyped, SignalsAssumption
  DEF IdlePoll, Poll, NoSettings, Settings, None, Numbers, IdlePromotion, Promotion

\* A set with no two elements.
LEMMA AtMostOne ==
  ASSUME NEW S, \A x, y \in S : x = y
  PROVE  Cardinality(S) <= 1 /\ Cardinality(S) \in Nat
<1>1. CASE S = {}
  BY <1>1, FS_EmptySet
<1>2. CASE S # {}
  <2>1. PICK x : x \in S
    BY <1>2
  <2>2. S = {x}
    BY <2>1
  <2> QED BY <2>2, FS_Singleton
<1> QED BY <1>1, <1>2

LEMMA IInvTypes == IInv => TypeOK
  BY DEF IInv, Rows, Hands, Links, Holds, Exists, TypeOK

LEMMA IInvSingle == IInv => OneIncidentPerSignal
<1> SUFFICES ASSUME IInv, NEW a \in Alerts
             PROVE  /\ Cardinality(AutoOf(a)) <= 1
                    /\ Cardinality(Standing(a)) > 1 => a \in excuse
  BY DEF OneIncidentPerSignal, AutoOf
<1>1. \A i, j \in AutoOf(a) : i = j
  BY DEF IInv, Alone, OneAuto, Creates
<1>2. a \notin excuse => \A i, j \in Standing(a) : i = j
  <2> SUFFICES ASSUME a \notin excuse, NEW i \in Standing(a), NEW j \in Standing(a) PROVE i = j
    OBVIOUS
  <2>1. MakerKnows(a) /\ LinkKnows(a)
    BY DEF IInv, Alone, Single
  <2> QED BY <2>1 DEF MakerKnows, LinkKnows
<1> QED BY <1>1, <1>2, AtMostOne

-----------------------------------------------------------------------------
(* Steps that leave alone who makes what.                                   *)

\* A poll goes on.
LEMMA Moves ==
  ASSUME IInv, NEW p \in Polls, NEW x \in Poll, poll' = [poll EXCEPT ![p] = x]
  PROVE  /\ poll' \in [Polls -> Poll] /\ poll'[p] = x
         /\ \A q \in Polls \ {p} : poll'[q] = poll[q]
  BY DEF IInv, Hands

\* At most the status of incidents changes, and none is made or purged.
SameIncidents ==
    /\ inc' \in [Numbers -> Incident]
    /\ \A i \in Numbers : /\ inc'[i].from = inc[i].from /\ inc'[i].auto = inc[i].auto
                          /\ inc'[i].status = "none" <=> inc[i].status = "none"
                          /\ inc'[i].status = "purged" <=> inc[i].status = "purged"

LEMMA Unchanged == IInv /\ UNCHANGED inc => SameIncidents
  BY DEF IInv, Rows, SameIncidents

LEMMA Same ==
  ASSUME IInv, SameIncidents
  PROVE  /\ \A i : Exists(i)' <=> Exists(i)
         /\ \A a, i : Holds(a, i)' <=> Holds(a, i)
         /\ \A a : AutoOf(a)' = AutoOf(a) /\ Standing(a)' = Standing(a)
<1>1. \A i : Exists(i)' <=> Exists(i)
  BY DEF Exists, SameIncidents
<1>2. \A a, i : Holds(a, i)' <=> Holds(a, i)
  BY DEF Exists, Holds, SameIncidents
<1>3. \A a : AutoOf(a)' = AutoOf(a) /\ Standing(a)' = Standing(a)
  BY DEF AutoOf, Standing, SameIncidents
<1> QED BY <1>1, <1>2, <1>3

\* Nobody starts to make an incident, and nobody stops.
LEMMA GoesOn ==
  ASSUME IInv, SameIncidents, UNCHANGED <<sig, promote, excuse>>, Rows',
         poll' \in [Polls -> Poll],
         \A p \in Polls : /\ PollHolds(poll'[p])
                          /\ \/ poll'[p].pc \notin {"create", "link"} /\ poll[p].pc \notin {"create", "link"}
                             \/ /\ poll'[p].pc = poll[p].pc /\ poll'[p].a = poll[p].a
                                /\ poll'[p].i = poll[p].i
  PROVE  IInv'
<1>1. /\ \A i : Exists(i)' <=> Exists(i)
      /\ \A a, i : Holds(a, i)' <=> Holds(a, i)
      /\ \A a : AutoOf(a)' = AutoOf(a) /\ Standing(a)' = Standing(a)
  BY Same
<1>2. Hands'
  BY DEF IInv, Hands
<1>3. Links'
  BY <1>1 DEF IInv, Rows, Links, Signal, Holds, Exists, SameIncidents
<1>4. FromStored'
  BY <1>1 DEF IInv, FromStored, Exists, SameIncidents
<1>5. InHand'
  BY <1>1 DEF IInv, InHand, PollHolds, PromoteHolds
<1>6. ASSUME NEW a \in Alerts PROVE OneAuto(a)' /\ (a \notin excuse' => Single(a)')
  <2>1. \A q \in Polls : PollOn(q, a)' => PollOn(q, a) /\ poll'[q].pc = poll[q].pc /\ poll'[q].i = poll[q].i
    BY DEF PollOn
  <2>2. \A q \in Polls : PollOn(q, a) => PollOn(q, a)'
    BY DEF PollOn
  <2>3. \A q \in Promoters : PromoteOn(q, a)' <=> PromoteOn(q, a)
    BY DEF PromoteOn
  <2>4. \A q \in Polls : poll'[q].pc = "create" /\ poll'[q].a = a => poll[q].pc = "create" /\ poll[q].a = a
    OBVIOUS
  <2>5. OneAuto(a)'
    BY <1>1, <2>4 DEF IInv, Alone, OneAuto, Creates
  <2>6. a \notin excuse => OneMaker(a)' /\ MakerKnows(a)'
    BY <1>1, <2>1, <2>3 DEF IInv, Alone, Single, OneMaker, MakerKnows
  <2>7. a \notin excuse => LinkKnows(a)'
    BY <1>1, <2>2, <2>3 DEF IInv, Alone, Single, LinkKnows
  <2> QED BY <2>5, <2>6, <2>7 DEF Single
<1> QED BY <1>2, <1>3, <1>4, <1>5, <1>6 DEF IInv, Alone

\* A poll that is not making an incident goes on to something else.
LEMMA PollGoesOn ==
  ASSUME IInv, NEW p \in Polls, NEW x \in Poll, Goes(p, x), UNCHANGED <<sig, excuse>>, SameIncidents,
         poll[p].pc \notin {"create", "link"}, x.pc \notin {"create", "link"}, PollHolds(x),
         faults' \in 0..MaxFaults
  PROVE  IInv'
<1>1. /\ poll' \in [Polls -> Poll] /\ poll'[p] = x
      /\ \A q \in Polls \ {p} : poll'[q] = poll[q]
  BY Moves DEF Goes
<1>2. Rows'
  BY DEF IInv, Rows, Goes, SameIncidents
<1>3. \A q \in Polls : PollHolds(poll'[q])
  BY <1>1 DEF IInv, InHand
<1>4. UNCHANGED promote
  BY DEF Goes
<1> QED BY <1>1, <1>2, <1>3, <1>4, GoesOn

LEMMA Typed ==
  ASSUME IInv, NEW p \in Polls
  PROVE  /\ poll[p] \in Poll /\ PollHolds(poll[p]) /\ faults \in 0..MaxFaults
         /\ \A i \in poll[p].todo : i \in Numbers
  BY DEF IInv, Rows, Hands, InHand, Poll

LEMMA IdleHolds == PollHolds(IdlePoll) /\ IdlePoll.pc = "idle"
  BY DEF PollHolds, IdlePoll

LEMMA FaultTyped == IInv /\ Fault => faults' \in 0..MaxFaults
  BY SignalsAssumption DEF IInv, Rows, Fault

LEMMA FetchAlertsStep ==
  ASSUME IInv, NEW p \in Polls, FetchAlerts(p)
  PROVE  IInv'
<1>1. PICK area \in poll[p].areas :
        Goes(p, [poll[p] EXCEPT !.pc = "features", !.areas = @ \ {area}, !.feed = ListedIn({area}),
                                !.seen = Seen(poll[p], ListedIn({area}))])
  BY DEF FetchAlerts
<1> DEFINE feed == ListedIn({area})
           areas == poll[p].areas \ {area}
           seen == Seen(poll[p], feed)
           x == [poll[p] EXCEPT !.pc = "features", !.areas = areas, !.feed = feed, !.seen = seen]
<1>2. Goes(p, x) /\ UNCHANGED <<sig, inc, excuse, faults>> /\ poll[p].pc = "areas"
  BY <1>1 DEF FetchAlerts
<1>3. feed \subseteq Alerts /\ areas \subseteq Areas /\ seen \subseteq Alerts
  BY Typed DEF ListedIn, Seen, Poll
<1> HIDE DEF feed, areas, seen
<1>4. x \in Poll /\ x.pc = "features" /\ x.todo = poll[p].todo
  BY <1>3, Typed DEF Poll
<1> HIDE DEF x
<1>5. PollHolds(x)
  BY <1>4, Typed DEF PollHolds
<1> QED BY <1>2, <1>4, <1>5, Typed, PollGoesOn, Unchanged

LEMMA FetchFailsStep ==
  ASSUME IInv, NEW p \in Polls, FetchFails(p)
  PROVE  IInv'
  BY PollGoesOn, Unchanged, IdleHolds, IdleTyped, FaultTyped DEF FetchFails

LEMMA NextFeatureStep ==
  ASSUME IInv, NEW p \in Polls, NextFeature(p)
  PROVE  IInv'
<1> DEFINE fresh == Unstored(poll[p].feed)
<1>1. /\ poll[p].pc = "features" /\ UNCHANGED <<sig, inc, excuse, faults>>
      /\ faults' \in 0..MaxFaults /\ poll[p] \in Poll /\ PollHolds(poll[p])
  BY Typed DEF NextFeature
<1>2. CASE fresh # {}
  <2>1. PICK a \in fresh : Goes(p, [poll[p] EXCEPT !.pc = "store", !.feed = @ \ {a}, !.a = a])
    BY <1>2 DEF NextFeature
  <2> DEFINE feed == poll[p].feed \ {a}
             x == [poll[p] EXCEPT !.pc = "store", !.feed = feed, !.a = a]
  <2>2. feed \subseteq Alerts /\ a \in Alerts
    BY <1>1 DEF Unstored, Poll
  <2>3. Goes(p, x)
    BY <2>1
  <2> HIDE DEF feed
  <2>4. x \in Poll /\ x.pc = "store" /\ x.todo = poll[p].todo
    BY <1>1, <2>2 DEF Poll
  <2> HIDE DEF x
  <2>5. PollHolds(x)
    BY <1>1, <2>4 DEF PollHolds
  <2> QED BY <1>1, <2>3, <2>4, <2>5, PollGoesOn, Unchanged
<1>3. CASE fresh = {} /\ poll[p].last
  BY <1>1, <1>3, PollGoesOn, Unchanged, IdleHolds, IdleTyped DEF NextFeature
<1>4. CASE fresh = {} /\ ~poll[p].last
  <2> DEFINE x == [poll[p] EXCEPT !.pc = "areas", !.feed = {}]
  <2>1. Goes(p, x)
    BY <1>4 DEF NextFeature
  <2>2. x \in Poll /\ x.pc = "areas" /\ x.todo = poll[p].todo
    BY <1>1 DEF Poll
  <2> HIDE DEF x
  <2>3. PollHolds(x)
    BY <1>1, <2>2 DEF PollHolds
  <2> QED BY <1>1, <2>1, <2>2, <2>3, PollGoesOn, Unchanged
<1> QED BY <1>2, <1>3, <1>4

LEMMA ListIncidentsStep ==
  ASSUME IInv, NEW p \in Polls, ListIncidents(p)
  PROVE  IInv'
<1> DEFINE live == {i \in Numbers : inc[i].status = "active" /\ inc[i].weather}
<1>1. /\ poll[p].pc = "areas" /\ UNCHANGED <<sig, inc, excuse, faults>>
      /\ faults' \in 0..MaxFaults /\ poll[p] \in Poll /\ PollHolds(poll[p])
  BY Typed DEF ListIncidents
<1>2. CASE poll[p].seen = {}
  <2> DEFINE x == [poll[p] EXCEPT !.pc = "reports"]
  <2>1. Goes(p, x)
    BY <1>2 DEF ListIncidents
  <2>2. x \in Poll /\ x.pc = "reports" /\ x.todo = poll[p].todo
    BY <1>1 DEF Poll
  <2> HIDE DEF x
  <2>3. PollHolds(x)
    BY <1>1, <2>2 DEF PollHolds
  <2> QED BY <1>1, <2>1, <2>2, <2>3, PollGoesOn, Unchanged
<1>3. CASE poll[p].seen # {}
  <2> DEFINE x == [poll[p] EXCEPT !.pc = "check", !.todo = live]
  <2>1. Goes(p, x)
    BY <1>3 DEF ListIncidents
  <2>2. live \subseteq Numbers /\ \A i \in live : Exists(i)
    BY DEF Exists
  <2> HIDE DEF live
  <2>3. x \in Poll /\ x.pc = "check" /\ x.todo = live
    BY <1>1, <2>2 DEF Poll
  <2> HIDE DEF x
  <2>4. PollHolds(x)
    BY <2>2, <2>3 DEF PollHolds
  <2> QED BY <1>1, <2>1, <2>3, <2>4, PollGoesOn, Unchanged
<1> QED BY <1>2, <1>3

LEMMA CheckStep ==
  ASSUME IInv, NEW p \in Polls, Check(p)
  PROVE  IInv'
<1>1. /\ poll[p].pc = "check" /\ UNCHANGED <<sig, inc, excuse, faults>>
      /\ faults' \in 0..MaxFaults /\ poll[p] \in Poll /\ PollHolds(poll[p])
  BY Typed DEF Check
<1>2. CASE poll[p].todo = {}
  <2> DEFINE x == [poll[p] EXCEPT !.pc = "reports"]
  <2>1. Goes(p, x)
    BY <1>2 DEF Check
  <2>2. x \in Poll /\ x.pc = "reports" /\ x.todo = poll[p].todo
    BY <1>1 DEF Poll
  <2> HIDE DEF x
  <2>3. PollHolds(x)
    BY <1>1, <2>2 DEF PollHolds
  <2> QED BY <1>1, <2>1, <2>2, <2>3, PollGoesOn, Unchanged
<1>3. CASE poll[p].todo # {}
  <2>1. PICK i \in poll[p].todo :
          Goes(p, IF AlertOf(i) \subseteq poll[p].seen
                  THEN [poll[p] EXCEPT !.todo = @ \ {i}]
                  ELSE [poll[p] EXCEPT !.todo = @ \ {i}, !.i = i, !.pc = "close"])
    BY <1>3 DEF Check
  <2> DEFINE todo == poll[p].todo \ {i}
             x == [poll[p] EXCEPT !.todo = todo]
             y == [poll[p] EXCEPT !.todo = todo, !.i = i, !.pc = "close"]
  <2>2. Goes(p, x) \/ Goes(p, y)
    BY <2>1
  <2>3. /\ todo \subseteq Numbers /\ i \in None..MaxIncidents
        /\ Exists(i) /\ \A j \in todo : Exists(j)
    BY <1>1, Typed DEF PollHolds, Exists, Numbers, None
  <2> HIDE DEF todo
  <2>4. /\ x \in Poll /\ x.pc = "check" /\ x.todo = todo
        /\ y \in Poll /\ y.pc = "close" /\ y.todo = todo /\ y.i = i
    BY <1>1, <2>3 DEF Poll
  <2> HIDE DEF x, y
  <2>5. PollHolds(x) /\ PollHolds(y)
    BY <2>3, <2>4 DEF PollHolds
  <2>6. CASE Goes(p, x)
    BY <1>1, <2>4, <2>5, <2>6, PollGoesOn, Unchanged
  <2>7. CASE Goes(p, y)
    BY <1>1, <2>4, <2>5, <2>7, PollGoesOn, Unchanged
  <2> QED BY <2>2, <2>6, <2>7
<1> QED BY <1>2, <1>3

LEMMA FetchReportsStep ==
  ASSUME IInv, NEW p \in Polls, FetchReports(p)
  PROVE  IInv'
<1> DEFINE areas == poll[p].cfg.areas
           feed == {a \in Reports : service[a] = "listed" /\ AreaOf[a] = FirstArea(areas)}
           x == [poll[p] EXCEPT !.pc = "features", !.feed = feed, !.last = TRUE]
<1>1. /\ poll[p].pc = "reports" /\ UNCHANGED <<sig, inc, excuse, faults>>
      /\ faults' \in 0..MaxFaults /\ poll[p] \in Poll /\ PollHolds(poll[p])
      /\ Goes(p, IdlePoll) \/ Goes(p, x)
  BY Typed DEF FetchReports
<1>2. feed \subseteq Alerts
  BY SignalsAssumption
<1> HIDE DEF feed
<1>3. x \in Poll /\ x.pc = "features" /\ x.todo = poll[p].todo
  BY <1>1, <1>2 DEF Poll
<1> HIDE DEF x
<1>4. PollHolds(x)
  BY <1>1, <1>3 DEF PollHolds
<1>5. CASE Goes(p, IdlePoll)
  BY <1>1, <1>5, PollGoesOn, Unchanged, IdleHolds, IdleTyped
<1>6. CASE Goes(p, x)
  BY <1>1, <1>3, <1>4, <1>6, PollGoesOn, Unchanged
<1> QED BY <1>1, <1>5, <1>6

LEMMA CloseExpiredStep ==
  ASSUME IInv, NEW p \in Polls, CloseExpired(p)
  PROVE  IInv'
<1> DEFINE x == [poll[p] EXCEPT !.pc = "check", !.i = None]
<1>1. /\ poll[p].pc = "close" /\ Goes(p, x) /\ inc' = Closed(poll[p].i)
      /\ UNCHANGED <<sig, excuse, faults>>
      /\ faults' \in 0..MaxFaults /\ poll[p] \in Poll /\ PollHolds(poll[p])
  BY Typed DEF CloseExpired
<1>2. x \in Poll /\ x.pc = "check" /\ x.todo = poll[p].todo
  <2>1. None \in None..MaxIncidents
    BY SignalsAssumption DEF None
  <2> QED BY <1>1, <2>1 DEF Poll
<1> HIDE DEF x
<1>3. PollHolds(x)
  BY <1>1, <1>2 DEF PollHolds
<1>4. SameIncidents
  BY <1>1 DEF IInv, Rows, PollHolds, Exists, Closed, SameIncidents, Incident
<1> QED BY <1>1, <1>2, <1>3, <1>4, PollGoesOn

\* An operator opens or closes an incident.
LEMMA OperateStep ==
  ASSUME IInv, NEW i \in Numbers, Activate(i) \/ Close(i)
  PROVE  IInv'
<1>1. SameIncidents
  BY DEF IInv, Rows, Activate, Close, Closed, SameIncidents, Incident
<1>2. /\ Request /\ UNCHANGED <<sig, service, settings, poll, promote, excuse, faults>>
  BY DEF Activate, Close, Operates
<1>3. Rows'
  BY <1>1, <1>2, SignalsAssumption DEF IInv, Rows, Request, SameIncidents
<1>4. poll' \in [Polls -> Poll] /\ \A p \in Polls : PollHolds(poll'[p])
  BY <1>2 DEF IInv, Hands, InHand
<1> QED BY <1>1, <1>2, <1>3, <1>4, GoesOn

\* The services, the settings.
LEMMA BesidesStep ==
  ASSUME IInv, (\E a \in Alerts : List(a) \/ Unlist(a)) \/ SaveSettings
  PROVE  IInv'
<1>1. UNCHANGED <<sig, inc, poll, promote, excuse>>
  BY DEF List, Unlist, SaveSettings, tables
<1>2. Rows'
  <2>1. CASE \E a \in Alerts : List(a) \/ Unlist(a)
    BY <2>1 DEF IInv, Rows, List, Unlist, tables
  <2>2. CASE SaveSettings
    BY <2>2, SignalsAssumption DEF IInv, Rows, SaveSettings, Request
  <2> QED BY <2>1, <2>2
<1>3. poll' \in [Polls -> Poll] /\ \A p \in Polls : PollHolds(poll'[p])
  BY <1>1 DEF IInv, Hands, InHand
<1> QED BY <1>1, <1>2, <1>3, GoesOn, Unchanged

LEMMA StartPollStep ==
  ASSUME IInv, NEW p \in Polls, StartPoll(p)
  PROVE  IInv'
<1> DEFINE x == [IdlePoll EXCEPT !.pc = "areas", !.cfg = settings, !.areas = settings.areas,
                                 !.alone = Busy = {}]
<1>1. /\ poll[p].pc = "idle"
      /\ poll' = [q \in Polls |-> IF q = p THEN x
                                  ELSE IF q \in Busy THEN [poll[q] EXCEPT !.alone = FALSE]
                                  ELSE poll[q]]
      /\ UNCHANGED <<service, settings, sig, inc, promote, excuse, faults>>
  BY DEF StartPoll, tables
<1>2. x \in Poll /\ x.pc = "areas" /\ x.todo = {}
  <2>1. settings \in Settings /\ settings.areas \subseteq Areas
    BY DEF IInv, Rows, Settings
  <2>2. (Busy = {}) \in BOOLEAN
    OBVIOUS
  <2> QED BY <2>1, <2>2, IdleTyped DEF Poll, IdlePoll
<1>3. PollHolds(x)
  BY <1>2 DEF PollHolds
<1> HIDE DEF x
<1>4. ASSUME NEW q \in Polls
      PROVE  LET y == [poll[q] EXCEPT !.alone = FALSE] IN
             y \in Poll /\ y.pc = poll[q].pc /\ y.a = poll[q].a /\ y.i = poll[q].i /\ y.todo = poll[q].todo
  BY Typed DEF Poll
<1>5. \A q \in Polls : /\ poll'[q] \in Poll /\ PollHolds(poll'[q])
                       /\ q # p => /\ poll'[q].pc = poll[q].pc /\ poll'[q].a = poll[q].a
                                   /\ poll'[q].i = poll[q].i
  BY <1>1, <1>2, <1>3, <1>4, Typed DEF PollHolds
<1>6. poll' \in [Polls -> Poll]
  BY <1>1, <1>5
<1>7. requests' \in 0..MaxRequests
  <2>1. UNCHANGED requests \/ Request
    BY DEF StartPoll
  <2> QED BY <2>1, SignalsAssumption DEF IInv, Rows, Request
<1>8. Rows'
  BY <1>1, <1>7 DEF IInv, Rows
<1>9. poll'[p].pc = "areas"
  BY <1>1, <1>2
<1> QED BY <1>1, <1>5, <1>6, <1>8, <1>9, GoesOn, Unchanged

-----------------------------------------------------------------------------
(* Steps of those who make an incident.                                     *)

\* Done with a signal.
LEMMA OnwardsTyped ==
  ASSUME IInv, NEW p \in Polls
  PROVE  /\ Onwards(p) \in Poll /\ Onwards(p).pc = "features" /\ PollHolds(Onwards(p))
<1> DEFINE x == [poll[p] EXCEPT !.pc = "features", !.a = AnyAlert, !.i = None]
<1>1. None \in None..MaxIncidents
  BY SignalsAssumption DEF None
<1>2. x \in Poll /\ x.pc = "features" /\ x.todo = poll[p].todo
  BY <1>1, AlertTyped, Typed DEF Poll
<1> HIDE DEF x
<1>3. PollHolds(x)
  BY <1>2, Typed DEF PollHolds
<1> QED BY <1>2, <1>3 DEF x, Onwards

\* The signal is new: nothing has been made from it, and this poll is the first at it.
LEMMA StoreStep ==
  ASSUME IInv, NEW p \in Polls, Store(p)
  PROVE  IInv'
<1> DEFINE a == poll[p].a
           x == [poll[p] EXCEPT !.pc = "create"]
<1>1. /\ poll[p].pc = "store" /\ UNCHANGED <<inc, excuse, faults>> /\ SameIncidents
      /\ faults' \in 0..MaxFaults /\ poll[p] \in Poll /\ PollHolds(poll[p]) /\ a \in Alerts
  BY Typed, Unchanged DEF Store, Poll
<1>2. CASE sig[a].stored
  BY <1>1, <1>2, PollGoesOn, IdleHolds, IdleTyped DEF Store, Taken
<1>3. CASE ~sig[a].stored
  <2>1. /\ sig' = [sig EXCEPT ![a].stored = TRUE]
        /\ Goes(p, x) \/ Goes(p, Onwards(p))
    BY <1>3 DEF Store, Taken
  <2>2. /\ x \in Poll /\ x.pc = "create" /\ x.a = a /\ x.todo = poll[p].todo
    BY <1>1 DEF Poll
  <2> HIDE DEF x
  <2>3. /\ poll' \in [Polls -> Poll] /\ \A q \in Polls \ {p} : poll'[q] = poll[q]
        /\ poll'[p] = x \/ poll'[p] = Onwards(p)
        /\ UNCHANGED <<service, settings, promote, requests>>
    <3>1. CASE Goes(p, x)
      BY <2>2, <3>1, Moves DEF Goes
    <3>2. CASE Goes(p, Onwards(p))
      BY <3>2, OnwardsTyped, Moves DEF Goes
    <3> QED BY <2>1, <3>1, <3>2
  <2>4. /\ sig' \in [Alerts -> Signal] /\ sig'[a].stored
        /\ \A b \in Alerts : /\ sig'[b].incident = sig[b].incident
                             /\ sig[b].stored => sig'[b].stored
    BY <1>1, <2>1 DEF IInv, Rows, Signal
  <2>5. /\ \A i : Exists(i)' <=> Exists(i)
        /\ \A b, i : Holds(b, i)' <=> Holds(b, i)
        /\ \A b : AutoOf(b)' = AutoOf(b) /\ Standing(b)' = Standing(b)
    BY <1>1, Same
  <2>6. Rows' /\ Hands'
    BY <1>1, <2>3, <2>4 DEF IInv, Rows, Hands
  <2>7. Links' /\ FromStored'
    BY <1>1, <2>4, <2>5 DEF IInv, Rows, Links, FromStored, Exists, Incident
  <2>8. PollHolds(poll[p])'
    <3>1. CASE poll'[p] = x
      BY <1>1, <2>2, <2>4, <2>5, <3>1 DEF PollHolds
    <3>2. CASE poll'[p] = Onwards(p)
      BY <2>5, <3>2, OnwardsTyped DEF PollHolds
    <3> QED BY <2>3, <3>1, <3>2
  <2>9. InHand'
    <3>1. ASSUME NEW q \in Polls \ {p} PROVE PollHolds(poll[q])'
      <4>1. poll[q] \in Poll /\ PollHolds(poll[q]) /\ poll'[q] = poll[q]
        BY <2>3, Typed
      <4> QED BY <2>4, <2>5, <4>1 DEF PollHolds, Poll
    <3>2. ASSUME NEW q \in Promoters PROVE PromoteHolds(promote[q])'
      <4>1. promote[q] \in Promotion /\ PromoteHolds(promote[q]) /\ promote'[q] = promote[q]
        BY <2>3 DEF IInv, Hands, InHand
      <4> QED BY <2>4, <2>5, <4>1 DEF PromoteHolds, Promotion
    <3> QED BY <2>8, <3>1, <3>2 DEF InHand
  <2>10. /\ \A q \in Polls : ~PollOn(q, a)
         /\ \A q \in Promoters : ~PromoteOn(q, a)
         /\ AutoOf(a) = {} /\ Standing(a) = {}
    BY <1>1, <1>3 DEF IInv, InHand, PollHolds, PromoteHolds, PollOn, PromoteOn, FromStored, Exists, AutoOf, Standing
  <2>11. ASSUME NEW b \in Alerts PROVE OneAuto(b)' /\ (b \notin excuse' => Single(b)')
    <3>1. /\ poll'[p].pc \in {"create", "features"}
          /\ poll'[p].pc = "create" => poll'[p].a = a
      BY <2>2, <2>3, OnwardsTyped
    <3>2. \A q \in Polls \ {p} : PollOn(q, b)' <=> PollOn(q, b)
      BY <2>3 DEF PollOn
    <3>3. \A q \in Promoters : PromoteOn(q, b)' <=> PromoteOn(q, b)
      BY <2>3 DEF PromoteOn
    <3>4. ~PollOn(p, b) /\ (PollOn(p, b)' => b = a /\ poll'[p].pc = "create")
      BY <1>1, <3>1 DEF PollOn
    <3>5. OneAuto(b)'
      BY <1>1, <2>3, <2>5, <2>10, <3>1 DEF IInv, Alone, OneAuto, Creates, PollOn
    <3>6. b \notin excuse => OneMaker(b)'
      BY <2>10, <3>2, <3>3, <3>4 DEF IInv, Alone, Single, OneMaker
    <3>7. b \notin excuse => MakerKnows(b)'
      BY <2>3, <2>5, <2>10, <3>2, <3>3, <3>4 DEF IInv, Alone, Single, MakerKnows
    <3>8. b \notin excuse => LinkKnows(b)'
      BY <2>3, <2>4, <2>5, <2>10, <3>2, <3>3, <3>4 DEF IInv, Alone, Single, LinkKnows
    <3> QED BY <1>1, <3>5, <3>6, <3>7, <3>8 DEF Single
  <2> QED BY <2>6, <2>7, <2>9, <2>11 DEF IInv, Alone
<1> QED BY <1>2, <1>3

\* What making incident i from signal a does to the incidents.
Makes(a, i, status, weather, auto) ==
    /\ i \in Numbers /\ inc[i].status = "none" /\ a \in Alerts
    /\ status \in {"draft", "active"} /\ weather \in BOOLEAN /\ auto \in BOOLEAN
    /\ inc' = [inc EXCEPT ![i] = Made(a, status, weather, auto)]

LEMMA MakesOne ==
  ASSUME IInv, NEW a, NEW i, NEW status, NEW weather, NEW auto, Makes(a, i, status, weather, auto)
  PROVE  /\ inc' \in [Numbers -> Incident] /\ Holds(a, i)' /\ i # None /\ i \in None..MaxIncidents
         /\ \A j : Exists(j) => Exists(j)' /\ j # i
         /\ \A b, j : Holds(b, j) => Holds(b, j)' /\ j # i
         /\ \A j \in Numbers \ {i} : inc'[j] = inc[j]
         /\ inc'[i].from = a /\ inc'[i].auto = auto /\ inc'[i].status = status
         /\ Standing(a)' = Standing(a) \cup {i}
         /\ \A b \in Alerts \ {a} : Standing(b)' = Standing(b)
         /\ AutoOf(a)' = IF auto THEN AutoOf(a) \cup {i} ELSE AutoOf(a)
         /\ \A b \in Alerts \ {a} : AutoOf(b)' = AutoOf(b)
<1>1. inc \in [Numbers -> Incident] /\ i \in Numbers /\ a \in Alerts
  BY DEF IInv, Rows, Makes
<1>2. Made(a, status, weather, auto) \in Incident
  BY DEF Makes, Made, Incident
<1>3. /\ inc' \in [Numbers -> Incident] /\ inc'[i] = Made(a, status, weather, auto)
      /\ \A j \in Numbers \ {i} : inc'[j] = inc[j]
  BY <1>1, <1>2 DEF Makes
<1>4. inc'[i].from = a /\ inc'[i].auto = auto /\ inc'[i].status = status
  BY <1>3 DEF Made
<1>5. status \notin {"none", "purged"} /\ inc[i].status = "none" /\ ~inc[i].auto /\ auto \in BOOLEAN
  BY <1>1 DEF Makes, IInv, FromStored, Exists
<1>6. i # None /\ i \in None..MaxIncidents
  BY <1>1, SignalsAssumption DEF Numbers, None
<1>7. /\ \A j : Exists(j) => Exists(j)' /\ j # i
      /\ \A b, j : Holds(b, j) => Holds(b, j)' /\ j # i
      /\ Holds(a, i)'
  BY <1>1, <1>3, <1>4, <1>5 DEF Exists, Holds
<1>8. /\ Standing(a)' = Standing(a) \cup {i}
      /\ \A b \in Alerts \ {a} : Standing(b)' = Standing(b)
  BY <1>1, <1>3, <1>4, <1>5 DEF Standing
<1>9. /\ AutoOf(a)' = IF auto THEN AutoOf(a) \cup {i} ELSE AutoOf(a)
      /\ \A b \in Alerts \ {a} : AutoOf(b)' = AutoOf(b)
  BY <1>1, <1>3, <1>4, <1>5 DEF AutoOf
<1> QED BY <1>3, <1>4, <1>6, <1>7, <1>8, <1>9

\* A poll is done with its signal, whose link now says what there is, or the signal is named.
LEMMA Leaves ==
  ASSUME IInv, NEW p \in Polls, poll[p].pc \in {"create", "link"}, Goes(p, Onwards(p)),
         UNCHANGED inc, sig' \in [Alerts -> Signal], Links', faults' \in 0..MaxFaults,
         \A b \in Alerts : /\ sig'[b].stored = sig[b].stored
                           /\ b # poll[p].a => sig'[b] = sig[b],
         excuse' = excuse \/ excuse' = excuse \cup {poll[p].a},
         poll[p].a \notin excuse' => Standing(poll[p].a) \subseteq {sig'[poll[p].a].incident}
  PROVE  IInv'
<1> DEFINE a == poll[p].a
<1>1. /\ poll' \in [Polls -> Poll] /\ poll'[p] = Onwards(p)
      /\ \A q \in Polls \ {p} : poll'[q] = poll[q]
      /\ UNCHANGED <<service, settings, promote, requests>>
  BY OnwardsTyped, Moves DEF Goes
<1>2. /\ poll'[p].pc = "features" /\ PollHolds(Onwards(p)) /\ a \in Alerts
  BY <1>1, OnwardsTyped, Typed DEF Poll
<1>3. /\ \A i : Exists(i)' <=> Exists(i)
      /\ \A b, i : Holds(b, i)' <=> Holds(b, i)
      /\ \A b : AutoOf(b)' = AutoOf(b) /\ Standing(b)' = Standing(b)
  BY Same, Unchanged
<1>4. Rows' /\ Hands'
  BY <1>1, <1>2 DEF IInv, Rows, Hands
<1>5. FromStored'
  BY <1>3 DEF IInv, Rows, FromStored, Incident, Exists
<1>6. InHand'
  <2>1. ASSUME NEW q \in Polls PROVE PollHolds(poll[q])'
    <3>1. poll'[q] \in Poll /\ PollHolds(poll'[q])
      BY <1>1, <1>2, Typed
    <3> QED BY <1>3, <3>1 DEF PollHolds, Poll
  <2>2. ASSUME NEW q \in Promoters PROVE PromoteHolds(promote[q])'
    <3>1. promote[q] \in Promotion /\ PromoteHolds(promote[q]) /\ promote'[q] = promote[q]
      BY <1>1 DEF IInv, Hands, InHand
    <3> QED BY <1>3, <3>1 DEF PromoteHolds, Promotion
  <2> QED BY <2>1, <2>2 DEF InHand
<1>7. ASSUME NEW b \in Alerts PROVE OneAuto(b)' /\ (b \notin excuse' => Single(b)')
  <2>1. \A q \in Polls : PollOn(q, b)' <=> PollOn(q, b) /\ q # p
    BY <1>1, <1>2 DEF PollOn
  <2>2. \A q \in Promoters : PromoteOn(q, b)' <=> PromoteOn(q, b)
    BY <1>1 DEF PromoteOn
  <2>3. PollOn(p, b) <=> b = a
    BY DEF PollOn
  <2>4. OneAuto(b)'
    <3>1. \A q \in Polls : poll'[q].pc = "create" => poll'[q] = poll[q]
      BY <1>1, <1>2
    <3>2. OneAuto(b)
      BY DEF IInv, Alone
    <3>3. /\ \A j, k \in AutoOf(b)' : j = k
          /\ \A q \in Polls : poll'[q].pc = "create" /\ poll'[q].a = b => AutoOf(b)' = {}
      BY <1>3, <3>1, <3>2 DEF OneAuto, Creates
    <3>4. \A q, r \in Polls : Creates(q, b)' /\ Creates(r, b)' => q = r
      BY <3>1, <3>2 DEF OneAuto, Creates
    <3> QED BY <3>3, <3>4 DEF OneAuto, Creates
  <2>5. b \notin excuse' => OneMaker(b)'
    BY <2>1, <2>2 DEF IInv, Alone, Single, OneMaker
  <2>6. b \notin excuse' => MakerKnows(b)'
    BY <1>1, <1>3, <2>1, <2>2 DEF IInv, Alone, Single, MakerKnows
  <2>7. b \notin excuse' => LinkKnows(b)'
    <3>1. CASE b = a
      BY <1>3, <3>1 DEF LinkKnows
    <3>2. CASE b # a
      BY <1>3, <2>1, <2>2, <2>3, <3>2 DEF IInv, Alone, Single, LinkKnows
    <3> QED BY <3>1, <3>2
  <2> QED BY <2>4, <2>5, <2>6, <2>7 DEF Single
<1> QED BY <1>4, <1>5, <1>6, <1>7 DEF IInv, Alone

LEMMA CreateFailsStep ==
  ASSUME IInv, NEW p \in Polls, CreateFails(p)
  PROVE  IInv'
<1> DEFINE a == poll[p].a
<1>1. /\ poll[p].pc = "create" /\ Goes(p, Onwards(p)) /\ UNCHANGED <<sig, inc, excuse>>
      /\ faults' \in 0..MaxFaults /\ a \in Alerts
  BY FaultTyped, Typed DEF CreateFails, Poll
<1>2. sig' \in [Alerts -> Signal] /\ Links'
  BY <1>1 DEF IInv, Rows, Links, Holds, Exists
<1>3. a \notin excuse => Standing(a) = {}
  BY <1>1 DEF IInv, Alone, Single, MakerKnows, PollOn
<1> QED BY <1>1, <1>2, <1>3, Leaves

LEMMA LinkFailsStep ==
  ASSUME IInv, NEW p \in Polls, LinkFails(p)
  PROVE  IInv'
<1>1. /\ poll[p].pc = "link" /\ Goes(p, Onwards(p)) /\ UNCHANGED <<sig, inc>>
      /\ faults' \in 0..MaxFaults /\ excuse' = excuse \cup {poll[p].a} /\ poll[p].a \in Alerts
  BY FaultTyped, Typed DEF LinkFails, Poll
<1>2. sig' \in [Alerts -> Signal] /\ Links'
  BY <1>1 DEF IInv, Rows, Links, Holds, Exists
<1> QED BY <1>1, <1>2, Leaves

\* The link that is written is to an incident of the signal, or stays.
LEMMA LinkedRight ==
  ASSUME IInv, NEW a \in Alerts, NEW i, Holds(a, i), i \in None..MaxIncidents, sig[a].stored,
         sig' = Linked(a, i), UNCHANGED inc
  PROVE  /\ sig' \in [Alerts -> Signal] /\ Links'
         /\ \A b \in Alerts : /\ sig'[b].stored = sig[b].stored
                              /\ b # a => sig'[b] = sig[b]
         /\ Standing(a) \subseteq {i} => Standing(a) \subseteq {sig'[a].incident}
<1>1. sig \in [Alerts -> Signal]
  BY DEF IInv, Rows
<1>2. CASE inc[i].status = "purged"
  <2>1. sig' = sig
    BY <1>1, <1>2 DEF Linked, Signal
  <2>2. i \notin Standing(a)
    BY <1>2 DEF Standing
  <2> QED BY <1>1, <2>1, <2>2 DEF IInv, Links, Holds, Exists
<1>3. CASE inc[i].status # "purged"
  <2>1. /\ sig' \in [Alerts -> Signal] /\ sig'[a].incident = i /\ sig'[a].stored = sig[a].stored
        /\ \A b \in Alerts \ {a} : sig'[b] = sig[b]
    BY <1>1, <1>3 DEF Linked, Signal
  <2>2. ASSUME NEW b \in Alerts, sig'[b].incident # None
        PROVE  /\ sig'[b].stored /\ Holds(b, sig'[b].incident)
               /\ inc[sig'[b].incident].status # "purged"
    <3>1. CASE b = a
      BY <1>3, <2>1, <3>1
    <3>2. CASE b # a
      BY <2>1, <2>2, <3>2 DEF IInv, Links
    <3> QED BY <3>1, <3>2
  <2>3. Links'
    BY <2>2 DEF Links, Holds, Exists
  <2> QED BY <2>1, <2>3
<1> QED BY <1>2, <1>3

LEMMA LinkStep ==
  ASSUME IInv, NEW p \in Polls, Link(p)
  PROVE  IInv'
<1> DEFINE a == poll[p].a
           i == poll[p].i
<1>1. /\ poll[p].pc = "link" /\ Goes(p, Onwards(p)) /\ sig' = Linked(a, i)
      /\ UNCHANGED <<inc, excuse, faults>>
  BY DEF Link
<1>2. /\ a \in Alerts /\ i \in None..MaxIncidents /\ Holds(a, i) /\ sig[a].stored
      /\ faults' \in 0..MaxFaults
  BY <1>1, Typed DEF Poll, PollHolds
<1>3. a \notin excuse => Standing(a) \subseteq {i}
  BY <1>1, <1>2 DEF IInv, Alone, Single, MakerKnows, PollOn
<1> HIDE DEF i
<1> QED BY <1>1, <1>2, <1>3, LinkedRight, Leaves

\* A new incident disturbs neither the links nor what others have in hand.
LEMMA MadeHolds ==
  ASSUME IInv, NEW a, NEW i, NEW status, NEW weather, NEW auto, Makes(a, i, status, weather, auto),
         sig[a].stored, UNCHANGED sig
  PROVE  /\ Links' /\ FromStored'
         /\ \A p \in Polls : PollHolds(poll[p]) /\ poll'[p] = poll[p] => PollHolds(poll[p])'
         /\ \A q \in Promoters :
               PromoteHolds(promote[q]) /\ promote'[q] = promote[q] => PromoteHolds(promote[q])'
<1>1. /\ Holds(a, i)' /\ i \in Numbers
      /\ \A j : Exists(j) => Exists(j)' /\ j # i
      /\ \A b, j : Holds(b, j) => Holds(b, j)' /\ j # i
      /\ \A j \in Numbers \ {i} : inc'[j] = inc[j]
      /\ inc'[i].from = a /\ inc'[i].status = status /\ status # "none"
  BY MakesOne DEF Makes
<1>2. Links'
  <2> SUFFICES ASSUME NEW b \in Alerts, sig[b].incident # None
               PROVE  /\ sig[b].stored /\ Holds(b, sig[b].incident)'
                      /\ inc'[sig[b].incident].status # "purged"
    BY DEF Links
  <2>1. /\ sig[b].stored /\ Holds(b, sig[b].incident)
        /\ inc[sig[b].incident].status # "purged"
    BY DEF IInv, Links
  <2> QED BY <1>1, <2>1 DEF Holds, Exists
<1>3. FromStored'
  BY <1>1 DEF IInv, FromStored, Exists
<1>4. \A p \in Polls : PollHolds(poll[p]) /\ poll'[p] = poll[p] => PollHolds(poll[p])'
  BY <1>1 DEF PollHolds
<1>5. \A q \in Promoters :
        PromoteHolds(promote[q]) /\ promote'[q] = promote[q] => PromoteHolds(promote[q])'
  BY <1>1 DEF PromoteHolds
<1> QED BY <1>2, <1>3, <1>4, <1>5

\* The only poll that may make the automatic incident makes it.
LEMMA CreateStep ==
  ASSUME IInv, NEW p \in Polls, Create(p)
  PROVE  IInv'
<1>1. PICK a \in Alerts : a = poll[p].a
  BY Typed DEF Poll
<1>2. /\ poll[p].pc = "create" /\ UNCHANGED <<sig, excuse, faults>> /\ sig[a].stored
      /\ poll[p] \in Poll /\ PollHolds(poll[p]) /\ faults' \in 0..MaxFaults
  BY <1>1, Typed DEF Create, PollHolds
<1>3. PICK i \in Numbers, status \in {"draft", "active"} :
        Makes(a, i, status, TRUE, TRUE) /\ Goes(p, [poll[p] EXCEPT !.pc = "link", !.i = i])
  BY <1>1 DEF Create, Makes, Number, Unused
<1> DEFINE x == [poll[p] EXCEPT !.pc = "link", !.i = i]
<1>4. /\ inc' \in [Numbers -> Incident] /\ Holds(a, i)' /\ i \in None..MaxIncidents
      /\ \A j : Exists(j) => Exists(j)'
      /\ Standing(a)' = Standing(a) \cup {i}
      /\ \A b \in Alerts \ {a} : Standing(b)' = Standing(b)
      /\ AutoOf(a)' = AutoOf(a) \cup {i}
      /\ \A b \in Alerts \ {a} : AutoOf(b)' = AutoOf(b)
  BY <1>3, MakesOne
<1>5. x \in Poll /\ x.pc = "link" /\ x.i = i /\ x.a = a /\ x.todo = poll[p].todo
  BY <1>1, <1>2, <1>4 DEF Poll
<1> HIDE DEF x
<1>6. /\ poll' \in [Polls -> Poll] /\ poll'[p] = x
      /\ \A q \in Polls \ {p} : poll'[q] = poll[q]
      /\ UNCHANGED <<service, settings, promote, requests>>
  BY <1>3, <1>5, Moves DEF Goes, x
<1>7. Rows' /\ Hands'
  BY <1>2, <1>4, <1>6 DEF IInv, Rows, Hands
<1>8. Links' /\ FromStored' /\ InHand'
  <2>1. PollHolds(poll[p])'
    BY <1>2, <1>3, <1>4, <1>5, <1>6 DEF PollHolds
  <2> QED BY <1>2, <1>3, <1>6, <2>1, MadeHolds DEF IInv, InHand
<1>9. ASSUME NEW b \in Alerts PROVE OneAuto(b)' /\ (b \notin excuse' => Single(b)')
  <2>1. \A q \in Polls : PollOn(q, b)' <=> PollOn(q, b)
    BY <1>1, <1>2, <1>5, <1>6 DEF PollOn
  <2>2. \A q \in Promoters : PromoteOn(q, b)' <=> PromoteOn(q, b)
    BY <1>6 DEF PromoteOn
  <2>3. \A q \in Polls : poll'[q].pc = "create" => q # p /\ poll'[q] = poll[q]
    BY <1>5, <1>6
  <2>4. OneAuto(b) /\ (b \notin excuse => Single(b))
    BY DEF IInv, Alone
  <2>5. OneAuto(b)'
    <3>1. CASE b = a
      <4>1. AutoOf(a) = {} /\ \A q \in Polls \ {p} : ~(poll[q].pc = "create" /\ poll[q].a = a)
        BY <1>1, <1>2, <2>4, <3>1 DEF OneAuto, Creates
      <4>2. AutoOf(b)' = {i}
        BY <1>4, <3>1, <4>1
      <4>3. \A q \in Polls : ~(poll'[q].pc = "create" /\ poll'[q].a = b)
        BY <2>3, <3>1, <4>1
      <4> QED BY <4>2, <4>3 DEF OneAuto, Creates
    <3>2. CASE b # a
      BY <1>4, <2>3, <2>4, <3>2 DEF OneAuto, Creates
    <3> QED BY <3>1, <3>2
  <2>6. b \notin excuse => OneMaker(b)'
    BY <2>1, <2>2, <2>4 DEF Single, OneMaker
  <2>7. b \notin excuse => MakerKnows(b)'
    <3>1. CASE b = a
      <4>1. PollOn(p, a)
        BY <1>1, <1>2 DEF PollOn
      <4> QED BY <1>2, <1>4, <1>5, <1>6, <2>1, <2>2, <2>4, <3>1, <4>1 DEF Single, OneMaker, MakerKnows
    <3>2. CASE b # a
      <4>1. ~PollOn(p, b)
        BY <1>1, <3>2 DEF PollOn
      <4> QED BY <1>4, <1>6, <2>1, <2>2, <2>4, <3>2, <4>1 DEF Single, MakerKnows
    <3> QED BY <3>1, <3>2
  <2>8. b \notin excuse => LinkKnows(b)'
    <3>1. CASE b = a
      BY <1>5, <1>6, <3>1 DEF LinkKnows, PollOn
    <3>2. CASE b # a
      BY <1>2, <1>4, <2>1, <2>2, <2>4, <3>2 DEF Single, LinkKnows
    <3> QED BY <3>1, <3>2
  <2> QED BY <1>2, <2>5, <2>6, <2>7, <2>8 DEF Single
<1> QED BY <1>7, <1>8, <1>9 DEF IInv, Alone

\* A promotion moves on.
LEMMA PromoteMoves ==
  ASSUME IInv, NEW q \in Promoters, NEW x \in Promotion, promote' = [promote EXCEPT ![q] = x]
  PROVE  /\ promote' \in [Promoters -> Promotion] /\ promote'[q] = x
         /\ \A r \in Promoters \ {q} : promote'[r] = promote[r]
  BY DEF IInv, Hands

\* A promotion that nobody is beside finds no incident of its signal.
LEMMA BeginPromoteStep ==
  ASSUME IInv, NEW q \in Promoters, NEW a \in Alerts, BeginPromote(q, a)
  PROVE  IInv'
<1> DEFINE x == [pc |-> "create", a |-> a, i |-> None]
<1>1. /\ promote[q].pc = "idle" /\ Pending(a) /\ promote' = [promote EXCEPT ![q] = x]
      /\ excuse' = IF Making(a) = {} THEN excuse ELSE excuse \cup {a}
      /\ UNCHANGED <<service, settings, sig, inc, poll, faults>>
  BY DEF BeginPromote, tables
<1>2. requests' \in 0..MaxRequests
  BY SignalsAssumption DEF IInv, Rows, BeginPromote, Request
<1>3. x \in Promotion /\ x.pc = "create" /\ x.a = a
  <2>1. None \in None..MaxIncidents
    BY SignalsAssumption DEF None
  <2> QED BY <2>1 DEF Promotion
<1> HIDE DEF x
<1>4. /\ promote' \in [Promoters -> Promotion] /\ promote'[q] = x
      /\ \A r \in Promoters \ {q} : promote'[r] = promote[r]
  BY <1>1, <1>3, PromoteMoves
<1>5. /\ \A i : Exists(i)' <=> Exists(i)
      /\ \A b, i : Holds(b, i)' <=> Holds(b, i)
      /\ \A b : AutoOf(b)' = AutoOf(b) /\ Standing(b)' = Standing(b)
  BY <1>1, Same, Unchanged
<1>6. Rows' /\ Hands' /\ Links' /\ FromStored'
  BY <1>1, <1>2, <1>4, <1>5 DEF IInv, Rows, Hands, Links, FromStored, Exists
<1>7. InHand'
  <2>1. \A p \in Polls : PollHolds(poll[p])'
    BY <1>1, <1>5 DEF IInv, InHand, PollHolds
  <2>2. PromoteHolds(promote[q])'
    BY <1>1, <1>3, <1>4 DEF PromoteHolds, Pending
  <2>3. \A r \in Promoters \ {q} : PromoteHolds(promote[r])'
    BY <1>1, <1>4, <1>5 DEF IInv, InHand, PromoteHolds
  <2> QED BY <2>1, <2>2, <2>3 DEF InHand
<1>8. ASSUME NEW b \in Alerts PROVE OneAuto(b)' /\ (b \notin excuse' => Single(b)')
  <2>1. OneAuto(b) /\ (b \notin excuse => Single(b))
    BY DEF IInv, Alone
  <2>2. OneAuto(b)'
    BY <1>1, <1>5, <2>1 DEF OneAuto, Creates
  <2>3. \A p \in Polls : PollOn(p, b)' <=> PollOn(p, b)
    BY <1>1 DEF PollOn
  <2>4. ASSUME b # a, b \notin excuse' PROVE Single(b)'
    <3>1. \A r \in Promoters : /\ PromoteOn(r, b)' <=> PromoteOn(r, b)
                               /\ PromoteOn(r, b) => promote'[r] = promote[r]
      BY <1>1, <1>3, <1>4, <2>4 DEF PromoteOn
    <3>2. OneMaker(b) /\ MakerKnows(b) /\ LinkKnows(b)
      BY <1>1, <2>1, <2>4 DEF Single
    <3>3. OneMaker(b)'
      BY <2>3, <3>1, <3>2 DEF OneMaker
    <3>4. MakerKnows(b)'
      BY <1>1, <1>5, <2>3, <3>1, <3>2 DEF MakerKnows
    <3>5. LinkKnows(b)'
      BY <1>1, <1>5, <2>3, <3>1, <3>2 DEF LinkKnows
    <3> QED BY <3>3, <3>4, <3>5 DEF Single
  <2>5. ASSUME b = a, b \notin excuse' PROVE Single(b)'
    <3>1. Making(a) = {} /\ b \notin excuse
      BY <1>1, <2>5
    <3>2. /\ \A p \in Polls : ~PollOn(p, b)
          /\ \A r \in Promoters : ~PromoteOn(r, b)
      BY <2>5, <3>1 DEF Making, PollOn, PromoteOn
    <3>3. Standing(b) = {}
      <4>1. Standing(b) \subseteq {None}
        BY <1>1, <2>1, <2>5, <3>1, <3>2 DEF Single, LinkKnows, Pending
      <4> QED BY <4>1, SignalsAssumption DEF Standing, Numbers, None
    <3>4. \A r \in Promoters : PromoteOn(r, b)' <=> r = q
      BY <1>3, <1>4, <2>5, <3>2 DEF PromoteOn
    <3> QED BY <1>3, <1>4, <1>5, <2>3, <3>2, <3>3, <3>4 DEF Single, OneMaker, MakerKnows, LinkKnows
  <2> QED BY <2>2, <2>4, <2>5
<1> QED BY <1>6, <1>7, <1>8 DEF IInv, Alone

LEMMA PromoteCreateStep ==
  ASSUME IInv, NEW q \in Promoters, PromoteCreate(q)
  PROVE  IInv'
<1>1. PICK a \in Alerts : a = promote[q].a
  BY DEF IInv, Hands, Promotion
<1>2. /\ promote[q].pc = "create" /\ promote[q] \in Promotion
      /\ UNCHANGED <<service, settings, sig, poll, excuse, requests, faults>>
      /\ sig[a].stored
  BY <1>1 DEF PromoteCreate, IInv, Hands, InHand, PromoteHolds
<1> DEFINE weather == a \in Matched \cup Reports
<1>3. PICK i \in Numbers :
        /\ Makes(a, i, "active", weather, FALSE)
        /\ promote' = [promote EXCEPT ![q].pc = "link", ![q].i = i]
  <2>1. PICK i \in Numbers :
          /\ Number(i) /\ inc' = [inc EXCEPT ![i] = Made(a, "active", weather, FALSE)]
          /\ promote' = [promote EXCEPT ![q].pc = "link", ![q].i = i]
    BY <1>1 DEF PromoteCreate
  <2>2. weather \in BOOLEAN
    OBVIOUS
  <2> HIDE DEF weather
  <2> QED BY <2>1, <2>2 DEF Makes, Number, Unused
<1> HIDE DEF weather
<1> DEFINE x == [promote[q] EXCEPT !.pc = "link", !.i = i]
<1>4. /\ inc' \in [Numbers -> Incident] /\ Holds(a, i)' /\ i \in None..MaxIncidents
      /\ \A j : Exists(j) => Exists(j)'
      /\ Standing(a)' = Standing(a) \cup {i}
      /\ \A b \in Alerts \ {a} : Standing(b)' = Standing(b)
      /\ \A b \in Alerts : AutoOf(b)' = AutoOf(b)
  BY <1>3, MakesOne
<1>5. /\ promote' = [promote EXCEPT ![q] = x]
      /\ x \in Promotion /\ x.pc = "link" /\ x.a = a /\ x.i = i
  BY <1>1, <1>2, <1>3, <1>4 DEF Promotion, IInv, Hands
<1> HIDE DEF x
<1>6. /\ promote' \in [Promoters -> Promotion] /\ promote'[q] = x
      /\ \A r \in Promoters \ {q} : promote'[r] = promote[r]
  BY <1>5, PromoteMoves
<1>7. Rows' /\ Hands'
  BY <1>2, <1>4, <1>6 DEF IInv, Rows, Hands
<1>8. Links' /\ FromStored' /\ InHand'
  <2>1. PromoteHolds(promote[q])'
    BY <1>2, <1>4, <1>5, <1>6 DEF PromoteHolds
  <2> QED BY <1>2, <1>3, <1>6, <2>1, MadeHolds DEF IInv, InHand
<1>9. ASSUME NEW b \in Alerts PROVE OneAuto(b)' /\ (b \notin excuse' => Single(b)')
  <2>1. OneAuto(b) /\ (b \notin excuse => Single(b))
    BY DEF IInv, Alone
  <2>2. OneAuto(b)'
    BY <1>2, <1>4, <2>1 DEF OneAuto, Creates
  <2>3. \A p \in Polls : PollOn(p, b)' <=> PollOn(p, b)
    BY <1>2 DEF PollOn
  <2>4. \A r \in Promoters : PromoteOn(r, b)' <=> PromoteOn(r, b)
    BY <1>1, <1>2, <1>5, <1>6 DEF PromoteOn
  <2>5. b \notin excuse => OneMaker(b)'
    BY <2>1, <2>3, <2>4 DEF Single, OneMaker
  <2>6. b \notin excuse => MakerKnows(b)'
    <3>1. CASE b = a
      <4>1. PromoteOn(q, b)
        BY <1>1, <1>2, <3>1 DEF PromoteOn
      <4> QED BY <1>2, <1>4, <1>5, <1>6, <2>1, <2>3, <2>4, <3>1, <4>1 DEF Single, OneMaker, MakerKnows
    <3>2. CASE b # a
      <4>1. ~PromoteOn(q, b)
        BY <1>1, <3>2 DEF PromoteOn
      <4> QED BY <1>2, <1>4, <1>6, <2>1, <2>3, <2>4, <3>2, <4>1 DEF Single, MakerKnows
    <3> QED BY <3>1, <3>2
  <2>7. b \notin excuse => LinkKnows(b)'
    <3>1. CASE b = a
      BY <1>5, <1>6, <3>1 DEF LinkKnows, PromoteOn
    <3>2. CASE b # a
      BY <1>2, <1>4, <2>1, <2>3, <2>4, <3>2 DEF Single, LinkKnows
    <3> QED BY <3>1, <3>2
  <2> QED BY <1>2, <2>2, <2>5, <2>6, <2>7 DEF Single
<1> QED BY <1>7, <1>8, <1>9 DEF IInv, Alone

LEMMA PromoteLinkStep ==
  ASSUME IInv, NEW q \in Promoters, PromoteLink(q)
  PROVE  IInv'
<1>1. PICK a \in Alerts, i \in None..MaxIncidents : a = promote[q].a /\ i = promote[q].i
  BY DEF IInv, Hands, Promotion
<1>2. /\ promote[q].pc = "link" /\ sig' = Linked(a, i) /\ promote' = [promote EXCEPT ![q] = IdlePromotion]
      /\ UNCHANGED <<service, settings, inc, poll, excuse, requests, faults>>
      /\ Holds(a, i) /\ sig[a].stored
  BY <1>1 DEF PromoteLink, IInv, InHand, PromoteHolds
<1>3. /\ promote' \in [Promoters -> Promotion] /\ promote'[q].pc = "idle"
      /\ \A r \in Promoters \ {q} : promote'[r] = promote[r]
  BY <1>2, PromoteMoves, IdleTyped DEF IdlePromotion
<1>4. /\ sig' \in [Alerts -> Signal] /\ Links'
      /\ \A b \in Alerts : sig'[b].stored = sig[b].stored /\ (b # a => sig'[b] = sig[b])
      /\ Standing(a) \subseteq {i} => Standing(a) \subseteq {sig'[a].incident}
  BY <1>2, LinkedRight
<1>5. /\ \A j : Exists(j)' <=> Exists(j)
      /\ \A b, j : Holds(b, j)' <=> Holds(b, j)
      /\ \A b : AutoOf(b)' = AutoOf(b) /\ Standing(b)' = Standing(b)
  BY <1>2, Same, Unchanged
<1>6. Rows' /\ Hands'
  BY <1>2, <1>3, <1>4 DEF IInv, Rows, Hands
<1>7. FromStored'
  BY <1>2, <1>4, <1>5 DEF IInv, Rows, FromStored, Incident, Exists
<1>8. InHand'
  <2>1. ASSUME NEW p \in Polls PROVE PollHolds(poll[p])'
    <3>1. poll[p] \in Poll /\ PollHolds(poll[p]) /\ poll' = poll
      BY <1>2, Typed
    <3> QED BY <1>4, <1>5, <3>1 DEF PollHolds, Poll
  <2>2. ASSUME NEW r \in Promoters PROVE PromoteHolds(promote[r])'
    <3>1. /\ promote[r] \in Promotion /\ PromoteHolds(promote[r])
          /\ promote'[r] = promote[r] \/ promote'[r].pc = "idle"
      BY <1>3 DEF IInv, Hands, InHand
    <3> QED BY <1>4, <1>5, <3>1 DEF PromoteHolds, Promotion
  <2> QED BY <2>1, <2>2 DEF InHand
<1>9. ASSUME NEW b \in Alerts PROVE OneAuto(b)' /\ (b \notin excuse' => Single(b)')
  <2>1. OneAuto(b) /\ (b \notin excuse => Single(b))
    BY DEF IInv, Alone
  <2>2. OneAuto(b)'
    BY <1>2, <1>5, <2>1 DEF OneAuto, Creates
  <2>3. \A p \in Polls : PollOn(p, b)' <=> PollOn(p, b)
    BY <1>2 DEF PollOn
  <2>4. \A r \in Promoters : PromoteOn(r, b)' <=> PromoteOn(r, b) /\ r # q
    BY <1>3 DEF PromoteOn
  <2>5. PromoteOn(q, b) <=> b = a
    BY <1>1, <1>2 DEF PromoteOn
  <2>6. b \notin excuse => OneMaker(b)'
    BY <2>1, <2>3, <2>4 DEF Single, OneMaker
  <2>7. b \notin excuse => MakerKnows(b)'
    BY <1>2, <1>3, <1>5, <2>1, <2>3, <2>4 DEF Single, MakerKnows
  <2>8. b \notin excuse => LinkKnows(b)'
    <3>1. ASSUME b = a, b \notin excuse PROVE Standing(b)' \subseteq {sig'[b].incident}
      BY <1>1, <1>2, <1>4, <1>5, <2>1, <2>5, <3>1 DEF Single, MakerKnows
    <3>2. CASE b # a
      BY <1>2, <1>4, <1>5, <2>1, <2>3, <2>4, <2>5, <3>2 DEF Single, LinkKnows
    <3> QED BY <3>1, <3>2 DEF LinkKnows
  <2> QED BY <1>2, <2>2, <2>6, <2>7, <2>8 DEF Single
<1> QED BY <1>4, <1>6, <1>7, <1>8, <1>9 DEF IInv, Alone

-----------------------------------------------------------------------------
(* The purge and the restart.                                               *)

\* A purged incident leaves no link, and nobody makes less sure of the others.
LEMMA PurgeStep ==
  ASSUME IInv, NEW i \in Numbers, Purge(i)
  PROVE  IInv'
<1>1. /\ inc[i].status = "closed" /\ inc' = [inc EXCEPT ![i].status = "purged"] /\ sig' = Unlinked(i)
      /\ UNCHANGED <<service, settings, poll, promote, excuse, requests, faults>>
      /\ inc \in [Numbers -> Incident] /\ sig \in [Alerts -> Signal]
  BY DEF Purge, IInv, Rows
<1>2. /\ inc' \in [Numbers -> Incident] /\ inc'[i].status = "purged"
      /\ \A j \in Numbers \ {i} : inc'[j] = inc[j]
      /\ \A j \in Numbers : inc'[j].from = inc[j].from /\ inc'[j].auto = inc[j].auto
  BY <1>1 DEF Incident
<1>3. /\ \A j : Exists(j)' <=> Exists(j)
      /\ \A b, j : Holds(b, j)' <=> Holds(b, j)
      /\ \A b : AutoOf(b)' = AutoOf(b) /\ Standing(b)' = Standing(b) \ {i}
  BY <1>1, <1>2 DEF Exists, Holds, AutoOf, Standing
<1>4. /\ sig' \in [Alerts -> Signal]
      /\ \A b \in Alerts : /\ sig'[b].stored = sig[b].stored
                           /\ sig'[b].incident = IF sig[b].incident = i THEN None ELSE sig[b].incident
  <2>1. None \in None..MaxIncidents
    BY SignalsAssumption DEF None
  <2> QED BY <1>1, <2>1 DEF Unlinked, Signal
<1>5. Rows' /\ Hands'
  BY <1>1, <1>2, <1>4 DEF IInv, Rows, Hands
<1>6. Links'
  BY <1>2, <1>3, <1>4 DEF IInv, Links, Holds, Exists
<1>7. FromStored'
  BY <1>2, <1>3, <1>4 DEF IInv, FromStored, Exists, Incident
<1>8. InHand'
  <2>1. ASSUME NEW p \in Polls PROVE PollHolds(poll[p])'
    <3>1. poll[p] \in Poll /\ PollHolds(poll[p]) /\ poll' = poll
      BY <1>1, Typed
    <3> QED BY <1>3, <1>4, <3>1 DEF PollHolds, Poll
  <2>2. ASSUME NEW r \in Promoters PROVE PromoteHolds(promote[r])'
    <3>1. promote[r] \in Promotion /\ PromoteHolds(promote[r]) /\ promote' = promote
      BY <1>1 DEF IInv, Hands, InHand
    <3> QED BY <1>3, <1>4, <3>1 DEF PromoteHolds, Promotion
  <2> QED BY <2>1, <2>2 DEF InHand
<1>9. ASSUME NEW b \in Alerts PROVE OneAuto(b)' /\ (b \notin excuse' => Single(b)')
  <2>1. OneAuto(b) /\ (b \notin excuse => Single(b))
    BY DEF IInv, Alone
  <2>2. OneAuto(b)'
    BY <1>1, <1>3, <2>1 DEF OneAuto, Creates
  <2>3. /\ \A p \in Polls : PollOn(p, b)' <=> PollOn(p, b)
        /\ \A r \in Promoters : PromoteOn(r, b)' <=> PromoteOn(r, b)
    BY <1>1 DEF PollOn, PromoteOn
  <2>4. b \notin excuse => OneMaker(b)'
    BY <2>1, <2>3 DEF Single, OneMaker
  <2>5. b \notin excuse => MakerKnows(b)'
    BY <1>1, <1>3, <2>1, <2>3 DEF Single, MakerKnows
  <2>6. b \notin excuse => LinkKnows(b)'
    BY <1>3, <1>4, <2>1, <2>3 DEF Single, LinkKnows
  <2> QED BY <1>1, <2>2, <2>4, <2>5, <2>6 DEF Single
<1> QED BY <1>5, <1>6, <1>7, <1>8, <1>9 DEF IInv, Alone

\* Whatever a restart cuts off is named.
LEMMA RestartStep == IInv /\ Restart => IInv'
<1> SUFFICES ASSUME IInv, Restart PROVE IInv'
  OBVIOUS
<1>1. /\ excuse' = excuse \cup {a \in Alerts : Making(a) # {}}
      /\ poll' = [p \in Polls |-> IdlePoll] /\ promote' = [q \in Promoters |-> IdlePromotion]
      /\ UNCHANGED <<service, settings, sig, inc, requests>> /\ faults' \in 0..MaxFaults
  BY FaultTyped DEF Restart, tables
<1>2. /\ \A p \in Polls : poll'[p] = IdlePoll /\ poll'[p].pc = "idle"
      /\ \A q \in Promoters : promote'[q].pc = "idle"
  BY <1>1 DEF IdlePoll, IdlePromotion
<1>3. /\ \A j : Exists(j)' <=> Exists(j)
      /\ \A b : AutoOf(b)' = AutoOf(b) /\ Standing(b)' = Standing(b)
  BY <1>1, Same, Unchanged
<1>4. Rows' /\ Hands'
  BY <1>1, IdleTyped DEF IInv, Rows, Hands
<1>5. Links' /\ FromStored'
  BY <1>1 DEF IInv, Links, FromStored, Holds, Exists
<1>6. InHand'
  <2>1. IdlePoll.pc = "idle" /\ IdlePoll.todo = {}
    BY DEF IdlePoll
  <2> QED BY <1>2, <2>1 DEF InHand, PollHolds, PromoteHolds
<1>7. ASSUME NEW b \in Alerts PROVE OneAuto(b)' /\ (b \notin excuse' => Single(b)')
  <2>1. OneAuto(b) /\ (b \notin excuse => Single(b))
    BY DEF IInv, Alone
  <2>2. OneAuto(b)'
    BY <1>2, <1>3, <2>1 DEF OneAuto, Creates
  <2>3. /\ \A p \in Polls : ~PollOn(p, b)'
        /\ \A q \in Promoters : ~PromoteOn(q, b)'
    BY <1>2 DEF PollOn, PromoteOn
  <2>4. ASSUME b \notin excuse' PROVE Standing(b) \subseteq {sig[b].incident}
    <3>1. Making(b) = {} /\ b \notin excuse
      BY <1>1, <2>4
    <3>2. /\ \A p \in Polls : ~PollOn(p, b)
          /\ \A q \in Promoters : ~PromoteOn(q, b)
      BY <3>1 DEF Making, PollOn, PromoteOn
    <3> QED BY <2>1, <3>1, <3>2 DEF Single, LinkKnows
  <2> QED BY <1>1, <1>3, <2>2, <2>3, <2>4 DEF Single, OneMaker, MakerKnows, LinkKnows
<1> QED BY <1>4, <1>5, <1>6, <1>7 DEF IInv, Alone

-----------------------------------------------------------------------------
(* Together.                                                                *)

LEMMA InitIInv == Init => IInv
<1> SUFFICES ASSUME Init PROVE IInv
  OBVIOUS
<1>1. Rows
  <2>1. settings \in Settings
    BY SignalsAssumption DEF Init, Settings
  <2>2. sig \in [Alerts -> Signal]
    BY SignalsAssumption DEF Init, Signal, None
  <2>3. inc \in [Numbers -> Incident]
    BY AlertTyped DEF Init, Incident
  <2>4. requests \in 0..MaxRequests /\ faults \in 0..MaxFaults
    BY SignalsAssumption DEF Init
  <2>5. service \in [Alerts -> {"future", "listed", "over"}] /\ excuse \subseteq Alerts
    BY DEF Init
  <2> QED BY <2>1, <2>2, <2>3, <2>4, <2>5 DEF Rows
<1>2. Hands
  BY IdleTyped DEF Init, Hands
<1>3. Links /\ FromStored
  BY DEF Init, Links, FromStored, Exists
<1>4. InHand
  BY IdleHolds DEF Init, InHand, PromoteHolds, IdlePromotion
<1>5. ASSUME NEW a \in Alerts PROVE OneAuto(a) /\ Single(a)
  <2>1. /\ \A p \in Polls : ~PollOn(p, a) /\ ~Creates(p, a)
        /\ \A q \in Promoters : ~PromoteOn(q, a)
    BY DEF Init, PollOn, Creates, PromoteOn, IdlePoll, IdlePromotion
  <2>2. AutoOf(a) = {} /\ Standing(a) = {}
    BY DEF Init, AutoOf, Standing
  <2> QED BY <2>1, <2>2 DEF OneAuto, Single, OneMaker, MakerKnows, LinkKnows
<1> QED BY <1>1, <1>2, <1>3, <1>4, <1>5 DEF IInv, Alone

LEMMA NextIInv == IInv /\ [Next]_vars => IInv'
<1> SUFFICES ASSUME IInv, [Next]_vars PROVE IInv'
  OBVIOUS
<1>1. ASSUME NEW p \in Polls, PollStep(p) PROVE IInv'
  BY <1>1, FetchAlertsStep, NextFeatureStep, StoreStep, CreateStep, LinkStep, ListIncidentsStep,
     CheckStep, CloseExpiredStep, FetchReportsStep DEF PollStep
<1>2. ASSUME NEW p \in Polls, StartPoll(p) \/ FetchFails(p) \/ CreateFails(p) \/ LinkFails(p)
      PROVE  IInv'
  BY <1>2, StartPollStep, FetchFailsStep, CreateFailsStep, LinkFailsStep
<1>3. ASSUME NEW q \in Promoters, (\E a \in Alerts : BeginPromote(q, a)) \/ PromoteCreate(q) \/ PromoteLink(q)
      PROVE  IInv'
  BY <1>3, BeginPromoteStep, PromoteCreateStep, PromoteLinkStep
<1>4. ASSUME NEW i \in Numbers, Activate(i) \/ Close(i) \/ Purge(i) PROVE IInv'
  BY <1>4, OperateStep, PurgeStep
<1>5. CASE (\E a \in Alerts : List(a) \/ Unlist(a)) \/ SaveSettings
  BY <1>5, BesidesStep
<1>6. CASE Restart
  BY <1>6, RestartStep
<1>7. CASE UNCHANGED vars
  <2>1. UNCHANGED <<service, settings, sig, inc, poll, promote, excuse, requests, faults>>
    BY <1>7 DEF vars, tables
  <2>2. Rows' /\ poll' \in [Polls -> Poll] /\ \A p \in Polls : PollHolds(poll'[p])
    BY <2>1 DEF IInv, Rows, Hands, InHand
  <2> QED BY <2>1, <2>2, GoesOn, Unchanged
<1> QED BY <1>1, <1>2, <1>3, <1>4, <1>5, <1>6, <1>7 DEF Next

LEMMA IInvHolds == Spec => []IInv
  BY InitIInv, NextIInv, PTL DEF Spec

\* Types: a linked incident exists and is of its signal.
THEOREM TypeCorrect == Spec => []TypeOK
  BY IInvTypes, IInvHolds, PTL

\* incident_poller.go UpsertIncidentSignal, maybeAutoCreateIncidentFromSignal, incidents.go
\* handlePromoteIncidentSignal: however polls and promotions overlap, fail or are cut off,
\* a signal has one automatic incident at most, and a second one of any kind only where two
\* were at it at once or its link was not written.
THEOREM SignalsAreSingle == Spec => []OneIncidentPerSignal
  BY IInvSingle, IInvHolds, PTL

-----------------------------------------------------------------------------
(* What a poll that nobody overlapped knows of the services.                *)

\* What is stored, or about to be, has been listed.
Heard ==
    /\ \A a \in Alerts : sig[a].stored => service[a] # "future"
    /\ \A p \in Polls : \A a \in poll[p].feed : service[a] # "future"
    /\ \A p \in Polls : poll[p].pc = "store" => service[poll[p].a] # "future"

\* A poll has seen every alert it goes through, ...
SeenIsListed(b) ==
    /\ b.feed \subseteq b.seen \cup Reports
    /\ b.pc = "store" => b.a \in b.seen \cup Reports

\* ... and, in the areas it has asked for, every stored alert that is listed still: one
\* that was listed after it asked is not stored, for only another poll could store it.
HasSeen(b) ==
    \A a \in Alerts \ Reports :
       AreaOf[a] \in b.cfg.areas \ b.areas /\ sig[a].stored /\ service[a] = "listed"
         => a \in b.seen

\* It closes when it has asked for all of them, and only what came of an alert not seen.
Closes(b) ==
    /\ b.pc \in {"check", "close"} => b.areas = {}
    /\ b.pc = "close" => inc[b.i].from \notin b.seen \cup Reports /\ sig[inc[b.i].from].stored

Knows(b) == SeenIsListed(b) /\ HasSeen(b) /\ Closes(b)
Others(p) == \A q \in Polls \ {p} : poll[q].pc = "idle"
Watched ==
    \A p \in Polls : poll[p].alone /\ poll[p].pc # "idle" => Others(p) /\ Knows(poll[p])

WInv == Heard /\ Watched

\* A poll goes on: if it is alone, the others are idle and stay so.
LEMMA PollWatches ==
  ASSUME IInv, WInv, NEW p \in Polls, poll[p].pc # "idle", NEW x \in Poll, Goes(p, x),
         \A a \in Alerts : sig'[a].stored => service[a] # "future",
         \A a \in x.feed : service[a] # "future",
         x.pc = "store" => service[x.a] # "future",
         x.pc # "idle" /\ x.alone => poll[p].alone /\ Knows(x)'
  PROVE  WInv'
<1>1. /\ poll'[p] = x /\ \A q \in Polls \ {p} : poll'[q] = poll[q]
      /\ service' = service
  BY Moves DEF Goes
<1>2. Heard'
  BY <1>1 DEF WInv, Heard
<1>3. ASSUME NEW q \in Polls, poll'[q].alone, poll'[q].pc # "idle"
      PROVE  Others(q)' /\ Knows(poll[q])'
  <2>1. q = p
    BY <1>1, <1>3 DEF WInv, Watched, Others
  <2>2. Others(p)
    BY <1>1, <1>3, <2>1 DEF WInv, Watched
  <2>3. Others(p)'
    BY <1>1, <2>2 DEF Others
  <2>4. Knows(x)'
    BY <1>1, <1>3, <2>1
  <2> QED BY <1>1, <2>1, <2>3, <2>4
<1> QED BY <1>2, <1>3 DEF WInv, Watched

\* Nothing to prove for a poll that ends.
LEMMA PollEndsWatching ==
  ASSUME IInv, WInv, NEW p \in Polls, poll[p].pc # "idle", Goes(p, IdlePoll), UNCHANGED sig
  PROVE  WInv'
<1>1. IdlePoll.pc = "idle" /\ IdlePoll.feed = {}
  BY DEF IdlePoll
<1> HIDE DEF IdlePoll
<1> QED BY <1>1, IdleTyped, PollWatches DEF WInv, Heard

\* A step of somebody else: rows keep their alerts, and the services go on.
LEMMA BesideWatches ==
  ASSUME IInv, WInv, UNCHANGED poll,
         \A a \in Alerts : sig'[a].stored = sig[a].stored,
         \A a \in Alerts : service'[a] # service[a] =>
            service'[a] # "future" /\ (service[a] = "future" \/ service'[a] = "over"),
         \A i \in Numbers : Exists(i) => inc'[i].from = inc[i].from
  PROVE  WInv'
<1>1. \A p \in Polls : poll[p].a \in Alerts /\ poll[p].feed \subseteq Alerts
  BY Typed DEF Poll
<1>2. Heard'
  BY <1>1 DEF WInv, Heard
<1>3. ASSUME NEW p \in Polls, poll[p].alone, poll[p].pc # "idle"
      PROVE  Others(p)' /\ Knows(poll[p])'
  <2>1. Others(p) /\ SeenIsListed(poll[p]) /\ HasSeen(poll[p]) /\ Closes(poll[p])
    BY <1>3 DEF WInv, Watched, Knows
  <2>2. HasSeen(poll[p])'
    BY <2>1 DEF WInv, Heard, HasSeen
  <2>3. Closes(poll[p])'
    <3>1. ASSUME poll[p].pc = "close"
          PROVE  /\ inc'[poll[p].i].from = inc[poll[p].i].from
                 /\ inc[poll[p].i].from \in Alerts
      <4>1. poll[p].i \in Numbers /\ Exists(poll[p].i)
        BY <3>1, Typed DEF PollHolds, Exists
      <4> QED BY <4>1 DEF IInv, Rows, Incident
    <3> QED BY <2>1, <3>1 DEF Closes
  <2>4. Others(p)' /\ SeenIsListed(poll[p])'
    BY <2>1 DEF Others, SeenIsListed
  <2> QED BY <2>2, <2>3, <2>4 DEF Knows
<1> QED BY <1>2, <1>3 DEF WInv, Watched

\* A poll that is alone knows what it goes by.
LEMMA AloneKnows ==
  ASSUME IInv, WInv, NEW p \in Polls, poll[p].pc # "idle"
  PROVE  /\ poll[p] \in Poll
         /\ \A a \in poll[p].feed : service[a] # "future"
         /\ \A a \in Alerts : sig[a].stored => service[a] # "future"
         /\ poll[p].alone =>
              SeenIsListed(poll[p]) /\ HasSeen(poll[p]) /\ Closes(poll[p])
  BY Typed DEF WInv, Heard, Watched, Knows

LEMMA FetchAlertsWatches ==
  ASSUME IInv, WInv, NEW p \in Polls, FetchAlerts(p)
  PROVE  WInv'
<1>1. poll[p].pc = "areas" /\ UNCHANGED sig
  BY DEF FetchAlerts
<1>2. PICK area, feed, x :
        /\ area \in poll[p].areas /\ feed = ListedIn({area})
        /\ x = [poll[p] EXCEPT !.pc = "features", !.areas = @ \ {area}, !.feed = feed,
                               !.seen = Seen(poll[p], feed)]
        /\ Goes(p, x)
  BY DEF FetchAlerts
<1>3. feed \subseteq Alerts /\ \A a \in feed : service[a] = "listed"
  BY <1>2 DEF ListedIn
<1>4. /\ x \in Poll /\ x.pc = "features" /\ x.areas = poll[p].areas \ {area} /\ x.feed = feed
      /\ x.seen = poll[p].seen \cup feed /\ x.cfg = poll[p].cfg /\ x.alone = poll[p].alone
  BY <1>1, <1>2, <1>3, AloneKnows DEF Poll, Seen
<1>5. Goes(p, x)
  BY <1>2
<1>6. ASSUME poll[p].alone PROVE Knows(x)'
  <2>1. HasSeen(x)'
    <3> SUFFICES ASSUME NEW a \in Alerts \ Reports, AreaOf[a] \in x.cfg.areas \ x.areas,
                        sig[a].stored, service[a] = "listed"
                 PROVE  a \in x.seen
      BY <1>1, <1>5 DEF HasSeen, Goes
    <3>1. CASE AreaOf[a] = area
      BY <1>2, <1>4, <3>1 DEF ListedIn
    <3>2. CASE AreaOf[a] # area
      BY <1>1, <1>4, <1>6, <3>2, AloneKnows DEF HasSeen
    <3> QED BY <3>1, <3>2
  <2> QED BY <1>4, <2>1 DEF Knows, SeenIsListed, Closes
<1> QED BY <1>1, <1>3, <1>4, <1>5, <1>6, AloneKnows, PollWatches

\* A poll goes on with what it has seen.
LEMMA SameSeen ==
  ASSUME IInv, WInv, NEW p \in Polls, poll[p].pc # "idle", NEW x \in Poll, Goes(p, x), UNCHANGED sig,
         x.feed \subseteq poll[p].feed \cup Reports, \A a \in x.feed : service[a] # "future",
         x.pc = "store" => x.a \in poll[p].feed,
         x.areas = poll[p].areas, x.cfg = poll[p].cfg, x.seen = poll[p].seen,
         x.alone = poll[p].alone,
         poll[p].alone /\ x.pc \in {"check", "close"} => x.areas = {},
         poll[p].alone /\ x.pc = "close" =>
            inc'[x.i].from \notin x.seen \cup Reports /\ sig[inc'[x.i].from].stored
  PROVE  WInv'
<1>1. UNCHANGED service
  BY DEF Goes
<1>2. ASSUME poll[p].alone PROVE Knows(x)'
  BY <1>1, <1>2, AloneKnows DEF Knows, SeenIsListed, HasSeen, Closes
<1>3. x.pc = "store" => service[x.a] # "future"
  BY AloneKnows
<1> QED BY <1>2, <1>3, AloneKnows, PollWatches

LEMMA NextFeatureWatches ==
  ASSUME IInv, WInv, NEW p \in Polls, NextFeature(p)
  PROVE  WInv'
<1>1. poll[p].pc = "features" /\ UNCHANGED sig
  BY DEF NextFeature
<1>2. CASE Unstored(poll[p].feed) # {}
  <2>1. PICK a \in Unstored(poll[p].feed) :
          Goes(p, [poll[p] EXCEPT !.pc = "store", !.feed = @ \ {a}, !.a = a])
    BY <1>2 DEF NextFeature
  <2> DEFINE x == [poll[p] EXCEPT !.pc = "store", !.feed = @ \ {a}, !.a = a]
  <2>2. a \in poll[p].feed
    BY DEF Unstored
  <2>3. /\ x \in Poll /\ x.pc = "store" /\ x.feed \subseteq poll[p].feed /\ x.a = a
        /\ x.areas = poll[p].areas /\ x.cfg = poll[p].cfg /\ x.seen = poll[p].seen
        /\ x.alone = poll[p].alone
    BY <1>1, <2>2, AloneKnows DEF Poll
  <2>4. Goes(p, x)
    BY <2>1
  <2> HIDE DEF x
  <2> QED BY <1>1, <2>2, <2>3, <2>4, AloneKnows, SameSeen
<1>3. CASE Unstored(poll[p].feed) = {} /\ poll[p].last
  BY <1>1, <1>3, PollEndsWatching DEF NextFeature
<1>4. CASE Unstored(poll[p].feed) = {} /\ ~poll[p].last
  <2> DEFINE x == [poll[p] EXCEPT !.pc = "areas", !.feed = {}]
  <2>1. Goes(p, x)
    BY <1>4 DEF NextFeature
  <2>2. /\ x \in Poll /\ x.pc = "areas" /\ x.feed = {}
        /\ x.areas = poll[p].areas /\ x.cfg = poll[p].cfg /\ x.seen = poll[p].seen
        /\ x.alone = poll[p].alone
    BY <1>1, AloneKnows DEF Poll
  <2> HIDE DEF x
  <2> QED BY <1>1, <2>1, <2>2, SameSeen
<1> QED BY <1>2, <1>3, <1>4

\* Done with a signal.
LEMMA OnwardsKeeps ==
  ASSUME IInv, WInv, NEW p \in Polls, poll[p].pc # "idle"
  PROVE  LET x == Onwards(p) IN
         /\ x \in Poll /\ x.pc = "features" /\ x.feed = poll[p].feed
         /\ x.areas = poll[p].areas /\ x.cfg = poll[p].cfg /\ x.seen = poll[p].seen
         /\ x.alone = poll[p].alone
<1>1. Onwards(p) \in Poll
  BY OnwardsTyped
<1> QED BY <1>1, AloneKnows DEF Onwards, Poll

\* A signal that is stored is among those seen.
LEMMA StoreWatches ==
  ASSUME IInv, WInv, NEW p \in Polls, Store(p)
  PROVE  WInv'
<1> DEFINE a == poll[p].a
<1>1. poll[p].pc = "store" /\ a \in Alerts
  BY Typed DEF Store, Poll
<1>2. CASE Taken(a)
  BY <1>1, <1>2, PollEndsWatching DEF Store
<1>3. CASE ~Taken(a)
  <2>1. PICK x : /\ Goes(p, x)
                 /\ x = [poll[p] EXCEPT !.pc = "create"] \/ x = Onwards(p)
    BY <1>3 DEF Store
  <2>2. sig' = [sig EXCEPT ![a].stored = TRUE]
    BY <1>3 DEF Store
  <2>3. [poll[p] EXCEPT !.pc = "create"] \in Poll
    BY <1>1, AloneKnows DEF Poll
  <2>4. /\ x \in Poll /\ x.pc \in {"create", "features"} /\ x.feed = poll[p].feed
        /\ x.areas = poll[p].areas /\ x.cfg = poll[p].cfg /\ x.seen = poll[p].seen
        /\ x.alone = poll[p].alone
    <3>1. CASE x = [poll[p] EXCEPT !.pc = "create"]
      BY <1>1, <2>3, <3>1, AloneKnows DEF Poll
    <3>2. CASE x = Onwards(p)
      BY <1>1, <3>2, OnwardsKeeps
    <3> QED BY <2>1, <3>1, <3>2
  <2>5. \A e \in Alerts : sig'[e].stored => sig[e].stored \/ e = a
    BY <2>2 DEF IInv, Rows, Signal
  <2>6. service[a] # "future"
    BY <1>1 DEF WInv, Heard
  <2>7. ASSUME poll[p].alone PROVE Knows(x)'
    <3>1. a \in poll[p].seen \cup Reports /\ HasSeen(poll[p]) /\ SeenIsListed(poll[p])
      BY <1>1, <2>7, AloneKnows DEF SeenIsListed
    <3>2. HasSeen(x)'
      BY <2>1, <2>4, <2>5, <3>1 DEF HasSeen, Goes
    <3> QED BY <2>4, <3>1, <3>2 DEF Knows, SeenIsListed, Closes
  <2> QED BY <1>1, <2>1, <2>4, <2>5, <2>6, <2>7, AloneKnows, PollWatches
<1> QED BY <1>2, <1>3

\* Creating and linking read no list.
LEMMA MakeWatches ==
  ASSUME IInv, WInv, NEW p \in Polls, Create(p) \/ CreateFails(p) \/ Link(p) \/ LinkFails(p)
  PROVE  WInv'
<1>1. poll[p].pc \in {"create", "link"}
  BY DEF Create, CreateFails, Link, LinkFails
<1>2. PICK x \in Poll :
        /\ Goes(p, x) /\ x.pc \in {"link", "features"} /\ x.feed = poll[p].feed
        /\ x.areas = poll[p].areas /\ x.cfg = poll[p].cfg /\ x.seen = poll[p].seen
        /\ x.alone = poll[p].alone
  <2>1. CASE Create(p)
    <3>1. PICK i \in Numbers : Goes(p, [poll[p] EXCEPT !.pc = "link", !.i = i])
      BY <2>1 DEF Create
    <3>2. i \in None..MaxIncidents
      BY SignalsAssumption DEF Numbers, None
    <3> DEFINE x == [poll[p] EXCEPT !.pc = "link", !.i = i]
    <3>3. /\ x \in Poll /\ x.pc = "link" /\ x.feed = poll[p].feed
          /\ x.areas = poll[p].areas /\ x.cfg = poll[p].cfg /\ x.seen = poll[p].seen
          /\ x.alone = poll[p].alone
      BY <1>1, <3>2, AloneKnows DEF Poll
    <3>4. Goes(p, x)
      BY <3>1
    <3> HIDE DEF x
    <3> QED BY <3>3, <3>4
  <2>2. CASE CreateFails(p) \/ Link(p) \/ LinkFails(p)
    <3>1. Goes(p, Onwards(p))
      BY <2>2 DEF CreateFails, Link, LinkFails
    <3> QED BY <1>1, <3>1, OnwardsKeeps
  <2> QED BY <2>1, <2>2
<1>3. \A a \in Alerts : sig'[a].stored = sig[a].stored
  <2>1. CASE UNCHANGED sig
    BY <2>1
  <2>2. CASE Link(p)
    BY <2>2 DEF Link, Linked, IInv, Rows, Signal
  <2> QED BY <2>1, <2>2 DEF Create, CreateFails, LinkFails
<1>4. ASSUME poll[p].alone PROVE Knows(x)'
  BY <1>1, <1>2, <1>3, <1>4, AloneKnows DEF Knows, SeenIsListed, HasSeen, Closes, Goes
<1> QED BY <1>1, <1>2, <1>3, <1>4, AloneKnows, PollWatches

LEMMA ListIncidentsWatches ==
  ASSUME IInv, WInv, NEW p \in Polls, ListIncidents(p)
  PROVE  WInv'
<1> DEFINE todo == {i \in Numbers : inc[i].status = "active" /\ inc[i].weather}
<1>1. poll[p].pc = "areas" /\ poll[p].areas = {} /\ UNCHANGED sig
  BY DEF ListIncidents
<1>2. PICK x : /\ Goes(p, x)
               /\ \/ x = [poll[p] EXCEPT !.pc = "reports"]
                  \/ x = [poll[p] EXCEPT !.pc = "check", !.todo = todo]
  BY DEF ListIncidents
<1>3. todo \in SUBSET Numbers
  OBVIOUS
<1> HIDE DEF todo
<1>4. /\ x \in Poll /\ x.pc \in {"reports", "check"} /\ x.feed = poll[p].feed
      /\ x.areas = poll[p].areas /\ x.cfg = poll[p].cfg /\ x.seen = poll[p].seen
      /\ x.alone = poll[p].alone
  BY <1>1, <1>2, <1>3, AloneKnows DEF Poll
<1> QED BY <1>1, <1>2, <1>4, AloneKnows, SameSeen

\* An incident that is to be closed came of an alert that the poll has not seen.
LEMMA CheckWatches ==
  ASSUME IInv, WInv, NEW p \in Polls, Check(p)
  PROVE  WInv'
<1>1. poll[p].pc = "check" /\ UNCHANGED <<sig, inc>>
  BY DEF Check
<1>2. poll[p].alone => poll[p].areas = {}
  BY <1>1, AloneKnows DEF Closes
<1>3. ASSUME NEW x \in Poll, Goes(p, x), x.pc \in {"reports", "check", "close"},
             x.feed = poll[p].feed, x.areas = poll[p].areas, x.cfg = poll[p].cfg,
             x.seen = poll[p].seen, x.alone = poll[p].alone,
             x.pc = "close" => x.i \in poll[p].todo /\ ~(AlertOf(x.i) \subseteq poll[p].seen)
      PROVE  WInv'
  <2>1. ASSUME x.pc = "close"
        PROVE  inc[x.i].from \notin x.seen \cup Reports /\ sig[inc[x.i].from].stored
    <3>1. PICK a \in Alerts \ Reports : sig[a].incident = x.i /\ a \notin poll[p].seen
      BY <1>3, <2>1 DEF AlertOf
    <3>2. x.i \in Numbers
      BY <1>3, <2>1, Typed
    <3>3. x.i # None
      BY <3>2, SignalsAssumption DEF Numbers, None
    <3>4. inc[x.i].from = a /\ sig[a].stored
      BY <3>1, <3>3 DEF IInv, Links, Holds
    <3> QED BY <1>3, <3>1, <3>4
  <2> QED BY <1>1, <1>2, <1>3, <2>1, AloneKnows, SameSeen
<1>4. CASE poll[p].todo = {}
  <2> DEFINE x == [poll[p] EXCEPT !.pc = "reports"]
  <2>1. Goes(p, x)
    BY <1>4 DEF Check
  <2>2. /\ x \in Poll /\ x.pc = "reports" /\ x.feed = poll[p].feed
        /\ x.areas = poll[p].areas /\ x.cfg = poll[p].cfg /\ x.seen = poll[p].seen
        /\ x.alone = poll[p].alone
    BY <1>1, AloneKnows DEF Poll
  <2> HIDE DEF x
  <2> QED BY <1>3, <2>1, <2>2
<1>5. CASE poll[p].todo # {}
  <2>1. PICK i \in poll[p].todo :
          Goes(p, IF AlertOf(i) \subseteq poll[p].seen
                  THEN [poll[p] EXCEPT !.todo = @ \ {i}]
                  ELSE [poll[p] EXCEPT !.todo = @ \ {i}, !.i = i, !.pc = "close"])
    BY <1>5 DEF Check
  <2>2. i \in Numbers /\ i \in None..MaxIncidents
    BY Typed, SignalsAssumption DEF Numbers, None
  <2>3. CASE AlertOf(i) \subseteq poll[p].seen
    <3> DEFINE x == [poll[p] EXCEPT !.todo = @ \ {i}]
    <3>1. Goes(p, x)
      BY <2>1, <2>3
    <3>2. /\ x \in Poll /\ x.pc = "check" /\ x.feed = poll[p].feed
          /\ x.areas = poll[p].areas /\ x.cfg = poll[p].cfg /\ x.seen = poll[p].seen
          /\ x.alone = poll[p].alone
      BY <1>1, AloneKnows DEF Poll
    <3> HIDE DEF x
    <3> QED BY <1>3, <3>1, <3>2
  <2>4. CASE ~(AlertOf(i) \subseteq poll[p].seen)
    <3> DEFINE x == [poll[p] EXCEPT !.todo = @ \ {i}, !.i = i, !.pc = "close"]
    <3>1. Goes(p, x)
      BY <2>1, <2>4
    <3>2. /\ x \in Poll /\ x.pc = "close" /\ x.feed = poll[p].feed /\ x.i = i
          /\ x.areas = poll[p].areas /\ x.cfg = poll[p].cfg /\ x.seen = poll[p].seen
          /\ x.alone = poll[p].alone
      BY <1>1, <2>2, AloneKnows DEF Poll
    <3> HIDE DEF x
    <3> QED BY <1>3, <2>4, <3>1, <3>2
  <2> QED BY <2>3, <2>4
<1> QED BY <1>4, <1>5

LEMMA CloseExpiredWatches ==
  ASSUME IInv, WInv, NEW p \in Polls, CloseExpired(p)
  PROVE  WInv'
<1> DEFINE x == [poll[p] EXCEPT !.pc = "check", !.i = None]
<1>1. poll[p].pc = "close" /\ Goes(p, x) /\ UNCHANGED sig
  BY DEF CloseExpired
<1>2. None \in None..MaxIncidents
  BY SignalsAssumption DEF None
<1>3. /\ x \in Poll /\ x.pc = "check" /\ x.feed = poll[p].feed
      /\ x.areas = poll[p].areas /\ x.cfg = poll[p].cfg /\ x.seen = poll[p].seen
      /\ x.alone = poll[p].alone
  BY <1>1, <1>2, AloneKnows DEF Poll
<1> HIDE DEF x
<1>4. poll[p].alone => x.areas = {}
  BY <1>1, <1>3, AloneKnows DEF Closes
<1> QED BY <1>1, <1>3, <1>4, AloneKnows, SameSeen

LEMMA FetchReportsWatches ==
  ASSUME IInv, WInv, NEW p \in Polls, FetchReports(p)
  PROVE  WInv'
<1> DEFINE areas == poll[p].cfg.areas
           feed == {a \in Reports : service[a] = "listed" /\ AreaOf[a] = FirstArea(areas)}
           x == [poll[p] EXCEPT !.pc = "features", !.feed = feed, !.last = TRUE]
<1>1. poll[p].pc = "reports" /\ UNCHANGED sig /\ (Goes(p, IdlePoll) \/ Goes(p, x))
  BY DEF FetchReports
<1>2. feed \subseteq Reports /\ feed \subseteq Alerts /\ \A a \in feed : service[a] # "future"
  BY SignalsAssumption
<1> HIDE DEF feed
<1>3. /\ x \in Poll /\ x.pc = "features" /\ x.feed = feed
      /\ x.areas = poll[p].areas /\ x.cfg = poll[p].cfg /\ x.seen = poll[p].seen
      /\ x.alone = poll[p].alone
  BY <1>1, <1>2, AloneKnows DEF Poll
<1> HIDE DEF x
<1>4. CASE Goes(p, IdlePoll)
  BY <1>1, <1>4, PollEndsWatching
<1>5. CASE Goes(p, x)
  BY <1>1, <1>2, <1>3, <1>5, SameSeen
<1> QED BY <1>1, <1>4, <1>5

\* A poll that begins while no other runs is alone; those that run are no longer.
LEMMA StartPollWatches ==
  ASSUME IInv, WInv, NEW p \in Polls, StartPoll(p)
  PROVE  WInv'
<1>1. PICK x : /\ x = [IdlePoll EXCEPT !.pc = "areas", !.cfg = settings,
                                        !.areas = settings.areas, !.alone = Busy = {}]
               /\ poll' = [q \in Polls |->
                             IF q = p THEN x
                             ELSE IF q \in Busy THEN [poll[q] EXCEPT !.alone = FALSE]
                             ELSE poll[q]]
               /\ UNCHANGED <<service, sig>>
  BY DEF StartPoll, tables
<1>2. /\ x.pc = "areas" /\ x.feed = {} /\ x.cfg.areas = x.areas
      /\ x.alone => Busy = {}
  BY <1>1 DEF IdlePoll
<1>3. ASSUME NEW q \in Polls
      PROVE  LET y == [poll[q] EXCEPT !.alone = FALSE] IN
             y.pc = poll[q].pc /\ y.a = poll[q].a /\ y.feed = poll[q].feed /\ y.alone = FALSE
  BY Typed DEF Poll
<1>4. \A q \in Polls \ {p} : poll'[q].pc = poll[q].pc /\ poll'[q].a = poll[q].a
                             /\ poll'[q].feed = poll[q].feed
                             /\ (q \in Busy => ~poll'[q].alone)
  BY <1>1, <1>3
<1>5. poll'[p] = x
  BY <1>1
<1>6. Heard'
  <2>1. UNCHANGED <<service, sig>>
    BY <1>1
  <2>2. Heard
    BY DEF WInv
  <2>3. ASSUME NEW q \in Polls
        PROVE  /\ \A a \in poll'[q].feed : service[a] # "future"
               /\ poll'[q].pc = "store" => service[poll'[q].a] # "future"
    <3>1. CASE q = p
      BY <1>2, <1>5, <3>1
    <3>2. CASE q # p
      BY <1>4, <2>2, <3>2 DEF Heard
    <3> QED BY <3>1, <3>2
  <2> QED BY <2>1, <2>2, <2>3 DEF Heard
<1>7. ASSUME NEW q \in Polls, poll'[q].alone, poll'[q].pc # "idle"
      PROVE  Others(q)' /\ Knows(poll[q])'
  <2>1. q = p
    BY <1>4, <1>7 DEF Busy
  <2>2. Others(p)'
    BY <1>2, <1>4, <1>5, <1>7, <2>1 DEF Others, Busy
  <2>3. Knows(x)'
    BY <1>2 DEF Knows, SeenIsListed, HasSeen, Closes
  <2> QED BY <1>5, <2>1, <2>2, <2>3
<1> QED BY <1>6, <1>7 DEF WInv, Watched

LEMMA PromoteWatches ==
  ASSUME IInv, WInv, NEW q \in Promoters,
         (\E a \in Alerts : BeginPromote(q, a)) \/ PromoteCreate(q) \/ PromoteLink(q)
  PROVE  WInv'
<1>1. CASE \E a \in Alerts : BeginPromote(q, a)
  BY <1>1, BesideWatches DEF BeginPromote, tables
<1>2. CASE PromoteCreate(q)
  <2>1. PICK i \in Numbers :
          /\ Number(i)
          /\ inc' = [inc EXCEPT ![i] = Made(promote[q].a, "active",
                                            promote[q].a \in Matched \cup Reports, FALSE)]
    BY <1>2 DEF PromoteCreate
  <2>2. \A j \in Numbers : Exists(j) => inc'[j].from = inc[j].from
    BY <2>1 DEF Number, Unused, Exists, IInv, Rows
  <2> QED BY <1>2, <2>2, BesideWatches DEF PromoteCreate
<1>3. CASE PromoteLink(q)
  <2>1. \A a \in Alerts : sig'[a].stored = sig[a].stored
    BY <1>3 DEF PromoteLink, Linked, IInv, Rows, Signal
  <2> QED BY <1>3, <2>1, BesideWatches DEF PromoteLink
<1> QED BY <1>1, <1>2, <1>3

LEMMA AdministerWatches ==
  ASSUME IInv, WInv, NEW i \in Numbers, Activate(i) \/ Close(i) \/ Purge(i)
  PROVE  WInv'
<1>1. UNCHANGED <<service, poll>>
  BY DEF Activate, Close, Purge, Operates
<1>2. \A j \in Numbers : inc'[j].from = inc[j].from
  BY DEF Activate, Close, Purge, Closed, IInv, Rows, Incident
<1>3. \A a \in Alerts : sig'[a].stored = sig[a].stored
  BY DEF Activate, Close, Purge, Unlinked, IInv, Rows, Signal
<1> QED BY <1>1, <1>2, <1>3, BesideWatches

\* An alert that is listed only now is not stored.
LEMMA ServiceWatches ==
  ASSUME IInv, WInv, (\E a \in Alerts : List(a) \/ Unlist(a)) \/ SaveSettings
  PROVE  WInv'
<1>1. UNCHANGED <<sig, inc, poll>>
  BY DEF List, Unlist, SaveSettings, tables
<1>2. \A a \in Alerts : service'[a] # service[a] =>
            service'[a] # "future" /\ (service[a] = "future" \/ service'[a] = "over")
  BY DEF List, Unlist, SaveSettings, IInv, Rows
<1> QED BY <1>1, <1>2, BesideWatches

LEMMA RestartWatches ==
  ASSUME IInv, WInv, Restart
  PROVE  WInv'
<1>1. IdlePoll.pc = "idle" /\ IdlePoll.feed = {}
  BY DEF IdlePoll
<1>2. poll' = [p \in Polls |-> IdlePoll] /\ UNCHANGED <<service, sig>>
  BY DEF Restart, tables
<1> HIDE DEF IdlePoll
<1> QED BY <1>1, <1>2 DEF WInv, Heard, Watched

LEMMA InitWatches == Init => WInv
<1>1. IdlePoll.pc = "idle" /\ IdlePoll.feed = {}
  BY DEF IdlePoll
<1> HIDE DEF IdlePoll
<1> QED BY <1>1 DEF Init, WInv, Heard, Watched

LEMMA NextWatches == IInv /\ WInv /\ [Next]_vars => WInv'
<1> SUFFICES ASSUME IInv, WInv, [Next]_vars PROVE WInv'
  OBVIOUS
<1>1. ASSUME NEW p \in Polls, PollStep(p) PROVE WInv'
  BY <1>1, FetchAlertsWatches, NextFeatureWatches, StoreWatches, MakeWatches,
     ListIncidentsWatches, CheckWatches, CloseExpiredWatches, FetchReportsWatches DEF PollStep
<1>2. ASSUME NEW p \in Polls, StartPoll(p) \/ CreateFails(p) \/ LinkFails(p) PROVE WInv'
  BY <1>2, StartPollWatches, MakeWatches
<1>3. ASSUME NEW p \in Polls, FetchFails(p) PROVE WInv'
  BY <1>3, PollEndsWatching DEF FetchFails
<1>4. ASSUME NEW q \in Promoters,
             (\E a \in Alerts : BeginPromote(q, a)) \/ PromoteCreate(q) \/ PromoteLink(q)
      PROVE  WInv'
  BY <1>4, PromoteWatches
<1>5. ASSUME NEW i \in Numbers, Activate(i) \/ Close(i) \/ Purge(i) PROVE WInv'
  BY <1>5, AdministerWatches
<1>6. CASE (\E a \in Alerts : List(a) \/ Unlist(a)) \/ SaveSettings
  BY <1>6, ServiceWatches
<1>7. CASE Restart
  BY <1>7, RestartWatches
<1>8. CASE UNCHANGED vars
  <2>1. UNCHANGED <<service, sig, inc, poll>>
    BY <1>8 DEF vars, tables
  <2> QED BY <2>1, BesideWatches
<1> QED BY <1>1, <1>2, <1>3, <1>4, <1>5, <1>6, <1>7, <1>8 DEF Next

\* incident_poller.go pollIncidentSignalsOnce, cleanupExpiredWeatherIncidents: a poll that
\* no other overlapped closes no incident whose alert is still listed in an area it watches,
\* whatever is listed, promoted, activated or purged while it runs.
THEOREM ListedStaysOpen == Spec => LiveStaysOpen
<1>1. ASSUME IInv, WInv, NEW p \in Polls, poll[p].pc = "close", poll[p].alone
      PROVE  AlertOf(poll[p].i) \cap ListedIn(poll[p].cfg.areas) = {}
  <2> SUFFICES ASSUME NEW a \in Alerts \ Reports, sig[a].incident = poll[p].i,
                      service[a] = "listed", AreaOf[a] \in poll[p].cfg.areas
               PROVE  FALSE
    BY DEF AlertOf, ListedIn
  <2>1. HasSeen(poll[p]) /\ Closes(poll[p])
    BY <1>1, AloneKnows
  <2>2. Exists(poll[p].i) /\ poll[p].i # None
    BY <1>1, Typed, SignalsAssumption DEF PollHolds, Exists, Numbers, None
  <2>3. inc[poll[p].i].from = a
    BY <1>1, <2>2 DEF IInv, Links, Holds
  <2> QED BY <1>1, <2>1, <2>3 DEF HasSeen, Closes
<1>2. IInv /\ WInv =>
        \A p \in Polls : poll[p].pc = "close" /\ poll'[p].pc = "check" /\ poll[p].alone =>
          AlertOf(poll[p].i) \cap ListedIn(poll[p].cfg.areas) = {}
  BY <1>1
<1> QED BY <1>2, InitIInv, NextIInv, InitWatches, NextWatches, PTL DEF Spec, LiveStaysOpen
=============================================================================
