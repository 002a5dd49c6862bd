--------------------------- MODULE IncidentSignals ---------------------------
(***************************************************************************)
(* From a weather alert to an incident and back: the poller stores what the *)
(* services list, drafts or opens an incident for what is new, and closes   *)
(* the incidents whose alert is listed no more; dispatchers promote what    *)
(* has no incident yet. The timer and dispatchers may poll at once.         *)
(* (src/server/internal/api/incident_poller.go, incidents.go;               *)
(* database/incidents.go)                                                   *)
(*                                                                          *)
(* Incidents is the model of an incident's row, token and bridge; here      *)
(* creating, opening or closing one is one step. The watch radius is left   *)
(* out as the code does: the decoded properties of an alert have neither    *)
(* polygon nor zones, so that alertAffectsWatchArea is always true.         *)
(***************************************************************************)
EXTENDS Naturals, FiniteSets

CONSTANTS
    Alerts,         \* external ids of weather alerts and local storm reports
    Reports,        \* those that are storm reports
    Urgent,         \* urgent alerts whose event is a tornado warning
    Matched,        \* those whose event a template names
    Areas, AreaOf,  \* the areas, and the area of each
    Timer, Manual,  \* the poll loop, and polls that dispatchers ask for
    Promoters,      \* requests that may promote a signal at once (bound)
    StartSettings,  \* the settings that were saved before
    MaxIncidents,   \* bound: incidents created
    MaxRequests,    \* bound: requests of dispatchers and administrators
    MaxFaults       \* bound: failed statements or fetches, restarts

ASSUME SignalsAssumption ==
    /\ IsFiniteSet(Alerts) /\ Alerts # {}
    /\ Reports \subseteq Alerts /\ Urgent \subseteq Alerts \ Reports
    /\ Matched \subseteq Alerts
    /\ AreaOf \in [Alerts -> Areas]
    /\ StartSettings \subseteq [suggest : BOOLEAN, open : BOOLEAN, areas : SUBSET Areas]
    /\ Timer \notin Manual
    /\ MaxIncidents \in Nat /\ MaxRequests \in Nat /\ MaxFaults \in Nat

VARIABLES
    service,    \* what the weather services list: external
    settings,   \* the incident settings of hub_identity
    sig,        \* rows of incident_signals
    inc,        \* rows of incidents that were made from a signal
    poll,       \* poll[p]: how far a poll is
    promote,    \* promote[q]: how far a promotion is
    excuse,     \* signals that two tried at once, or whose link was not written (history)
    requests, faults

tables == <<settings, sig, inc>>
vars == <<service, tables, poll, promote, excuse, requests, faults>>

Polls == {Timer} \cup Manual
None == 0
Numbers == 1..MaxIncidents
AnyAlert == CHOOSE a \in Alerts : TRUE

Settings == [suggest : BOOLEAN, open : BOOLEAN, areas : SUBSET Areas]
Signal == [stored : BOOLEAN, incident : None..MaxIncidents]
Incident == [status : {"none", "draft", "active", "closed", "purged"},
             from : Alerts, weather : BOOLEAN, auto : BOOLEAN]
Poll == [pc : {"idle", "areas", "features", "store", "create", "link", "check", "close",
               "reports"},
         cfg : Settings, areas : SUBSET Areas, feed : SUBSET Alerts, seen : SUBSET Alerts,
         a : Alerts, i : None..MaxIncidents, todo : SUBSET Numbers,
         last : BOOLEAN, alone : BOOLEAN]
Promotion == [pc : {"idle", "create", "link"}, a : Alerts, i : None..MaxIncidents]

NoSettings == [suggest |-> FALSE, open |-> FALSE, areas |-> {}]
IdlePoll == [pc |-> "idle", cfg |-> NoSettings, areas |-> {}, feed |-> {}, seen |-> {},
             a |-> AnyAlert, i |-> None, todo |-> {}, last |-> FALSE, alone |-> TRUE]
IdlePromotion == [pc |-> "idle", a |-> AnyAlert, i |-> None]

TypeOK ==
    /\ service \in [Alerts -> {"future", "listed", "over"}]
    /\ settings \in Settings
    /\ sig \in [Alerts -> Signal]
    /\ \A a \in Alerts : sig[a].incident # None =>
          sig[a].stored /\ inc[sig[a].incident].from = a
                        /\ inc[sig[a].incident].status \notin {"none", "purged"}
    /\ inc \in [Numbers -> Incident]
    /\ poll \in [Polls -> Poll]
    /\ promote \in [Promoters -> Promotion]
    /\ excuse \subseteq Alerts
    /\ requests \in 0..MaxRequests /\ faults \in 0..MaxFaults

Init ==
    /\ service = [a \in Alerts |-> IF a \in Reports THEN "listed" ELSE "future"]
    /\ settings \in StartSettings
    /\ sig = [a \in Alerts |-> [stored |-> FALSE, incident |-> None]]
    /\ inc = [i \in Numbers |-> [status |-> "none", from |-> AnyAlert,
                                 weather |-> FALSE, auto |-> FALSE]]
    /\ poll = [p \in Polls |-> IdlePoll]
    /\ promote = [q \in Promoters |-> IdlePromotion]
    /\ excuse = {}
    /\ requests = 0 /\ faults = 0

Busy == {p \in Polls : poll[p].pc # "idle"}

\* Who is about to create an incident from signal a, or to link it.
Making(a) ==
    {p \in Polls : poll[p].pc \in {"create", "link"} /\ poll[p].a = a}
       \cup {q \in Promoters : promote[q].pc # "idle" /\ promote[q].a = a}

Request == requests < MaxRequests /\ requests' = requests + 1
Fault == faults < MaxFaults /\ faults' = faults + 1

-----------------------------------------------------------------------------
(* pollIncidentSignalsOnce                                                  *)

Goes(p, state) ==
    /\ poll' = [poll EXCEPT ![p] = state]
    /\ UNCHANGED <<service, settings, promote, requests>>

\* The settings are read once. A poll is no longer alone once another one has begun.
StartPoll(p) ==
    /\ poll[p].pc = "idle" /\ (settings.suggest \/ settings.open)
    /\ poll' = [x \in Polls |->
                  IF x = p THEN [IdlePoll EXCEPT !.pc = "areas", !.cfg = settings,
                                                 !.areas = settings.areas, !.alone = Busy = {}]
                  ELSE IF x \in Busy THEN [poll[x] EXCEPT !.alone = FALSE]
                  ELSE poll[x]]
    /\ IF p = Timer THEN UNCHANGED requests ELSE Request
    /\ UNCHANGED <<service, tables, promote, excuse, faults>>

ListedIn(areas) == {a \in Alerts \ Reports : service[a] = "listed" /\ AreaOf[a] \in areas}

FaultSeen(state, feed) == state.seen \cup {a \in feed : ~sig[a].stored}

\* activeExternalIDs: every alert that is listed, whether or not it is new.
Seen(state, feed) == state.seen \cup feed

\* pollNWSAlerts asks for the alerts of one area.
FetchAlerts(p) ==
    /\ poll[p].pc = "areas"
    /\ \E area \in poll[p].areas :
          LET feed == ListedIn({area}) IN
          Goes(p, [poll[p] EXCEPT !.pc = "features", !.areas = @ \ {area}, !.feed = feed,
                                  !.seen = Seen(poll[p], feed)])
    /\ UNCHANGED <<sig, inc, excuse, faults>>

\* The first failing area ends the poll: nothing is closed, no report is read.
FetchFails(p) ==
    /\ poll[p].pc = "reports" \/ (poll[p].pc = "areas" /\ poll[p].areas # {})
    /\ Fault
    /\ Goes(p, IdlePoll)
    /\ UNCHANGED <<sig, inc, excuse>>

Unstored(feed) == {a \in feed : ~sig[a].stored}

\* UpsertIncidentSignal looks one signal after another up: those that are stored are
\* passed over; after the last one comes the next area, or the end.
NextFeature(p) ==
    LET fresh == Unstored(poll[p].feed) IN
    /\ poll[p].pc = "features"
    /\ IF fresh # {}
       THEN \E a \in fresh : Goes(p, [poll[p] EXCEPT !.pc = "store", !.feed = @ \ {a}, !.a = a])
       ELSE Goes(p, IF poll[p].last THEN IdlePoll
                    ELSE [poll[p] EXCEPT !.pc = "areas", !.feed = {}])
    /\ UNCHANGED <<sig, inc, excuse, faults>>

\* maybeAutoCreateIncidentFromSignal: only an urgent tornado warning is opened at once.
AutoOpen(cfg, a) == cfg.open /\ a \in Urgent
AutoCreate(cfg, a) == AutoOpen(cfg, a) \/ cfg.suggest

\* Done with a signal.
Onwards(p) == [poll[p] EXCEPT !.pc = "features", !.a = AnyAlert, !.i = None]

FaultTaken(a) == FALSE

\* The unique key on source and external id.
Taken(a) == sig[a].stored

\* ... and inserts it: another poll that was quicker makes this one end with an error.
Store(p) ==
    LET a == poll[p].a IN
    /\ poll[p].pc = "store"
    /\ IF Taken(a)
       THEN Goes(p, IdlePoll) /\ UNCHANGED <<sig, excuse>>
       ELSE /\ sig' = [sig EXCEPT ![a].stored = TRUE]
            /\ Goes(p, IF AutoCreate(poll[p].cfg, a) THEN [poll[p] EXCEPT !.pc = "create"]
                       ELSE Onwards(p))
            /\ excuse' = excuse
    /\ UNCHANGED <<inc, faults>>

Unused == {i \in Numbers : inc[i].status = "none"}
Made(a, status, weather, auto) ==
    [status |-> status, from |-> a, weather |-> weather, auto |-> auto]

\* Numbers are given out in turn.
Number(i) == i \in Unused /\ \A j \in Unused : i <= j

\* CreateRadioSet, CreateIncident and, if it is to be open, ActivateIncident.
Create(p) ==
    LET a == poll[p].a
        cfg == poll[p].cfg IN
    /\ poll[p].pc = "create"
    /\ \E i \in Numbers :
          /\ Number(i)
          /\ inc' = [inc EXCEPT ![i] =
                        Made(a, IF AutoOpen(cfg, a) THEN "active" ELSE "draft", TRUE, TRUE)]
          /\ Goes(p, [poll[p] EXCEPT !.pc = "link", !.i = i])
    /\ UNCHANGED <<sig, excuse, faults>>

\* The poll goes on to the next signal; this one stays without an incident.
CreateFails(p) ==
    /\ poll[p].pc = "create" /\ Fault
    /\ Goes(p, Onwards(p))
    /\ UNCHANGED <<sig, inc, excuse>>

\* LinkIncidentSignal overwrites a link another request has written.
Linked(a, i) == [sig EXCEPT ![a].incident = IF inc[i].status = "purged" THEN @ ELSE i]

Link(p) ==
    /\ poll[p].pc = "link"
    /\ sig' = Linked(poll[p].a, poll[p].i)
    /\ Goes(p, Onwards(p))
    /\ UNCHANGED <<inc, excuse, faults>>

LinkFails(p) ==
    /\ poll[p].pc = "link" /\ Fault
    /\ excuse' = excuse \cup {poll[p].a}
    /\ Goes(p, Onwards(p))
    /\ UNCHANGED <<sig, inc>>

\* cleanupExpiredWeatherIncidents, if at least one alert is listed.
ListIncidents(p) ==
    /\ poll[p].pc = "areas" /\ poll[p].areas = {}
    /\ Goes(p, IF poll[p].seen = {} THEN [poll[p] EXCEPT !.pc = "reports"]
               ELSE [poll[p] EXCEPT !.pc = "check",
                        !.todo = {i \in Numbers : inc[i].status = "active" /\ inc[i].weather}])
    /\ UNCHANGED <<sig, inc, excuse, faults>>

\* GetNWSSignalExternalIDForIncident
AlertOf(i) == {a \in Alerts \ Reports : sig[a].incident = i}

Check(p) ==
    /\ poll[p].pc = "check"
    /\ IF poll[p].todo = {} THEN Goes(p, [poll[p] EXCEPT !.pc = "reports"])
       ELSE \E i \in poll[p].todo :
               Goes(p, IF AlertOf(i) \subseteq poll[p].seen
                       THEN [poll[p] EXCEPT !.todo = @ \ {i}]
                       ELSE [poll[p] EXCEPT !.todo = @ \ {i}, !.i = i, !.pc = "close"])
    /\ UNCHANGED <<sig, inc, excuse, faults>>

FaultClosed(i) == [inc EXCEPT ![i].status = IF @ = "draft" THEN "closed" ELSE @]

\* CloseIncident asks for no status; a purged incident is an error that is only logged.
Closed(i) == [inc EXCEPT ![i].status = IF @ = "purged" THEN @ ELSE "closed"]

CloseExpired(p) ==
    /\ poll[p].pc = "close"
    /\ inc' = Closed(poll[p].i)
    /\ Goes(p, [poll[p] EXCEPT !.pc = "check", !.i = None])
    /\ UNCHANGED <<sig, excuse, faults>>

\* pollIEMLSR asks for the reports of the first area only.
FirstArea(areas) == CHOOSE area \in areas : TRUE
FetchReports(p) ==
    LET areas == poll[p].cfg.areas
        feed == {a \in Reports : service[a] = "listed" /\ AreaOf[a] = FirstArea(areas)} IN
    /\ poll[p].pc = "reports"
    /\ Goes(p, IF areas = {} \/ feed = {} THEN IdlePoll
               ELSE [poll[p] EXCEPT !.pc = "features", !.feed = feed, !.last = TRUE])
    /\ UNCHANGED <<sig, inc, excuse, faults>>

-----------------------------------------------------------------------------
(* handlePromoteIncidentSignal                                              *)

\* ListPendingIncidentSignals
Pending(a) == sig[a].stored /\ sig[a].incident = None

\* A promotion is raced if the incident of its signal is under way already.
BeginPromote(q, a) ==
    /\ promote[q].pc = "idle" /\ Pending(a) /\ Unused # {}
    /\ Request
    /\ promote' = [promote EXCEPT ![q] = [pc |-> "create", a |-> a, i |-> None]]
    /\ excuse' = IF Making(a) = {} THEN excuse ELSE excuse \cup {a}
    /\ UNCHANGED <<service, tables, poll, faults>>

\* The incident is of the type of its template, and "custom" without one.
PromoteCreate(q) ==
    LET a == promote[q].a IN
    /\ promote[q].pc = "create"
    /\ \E i \in Numbers :
          /\ Number(i)
          /\ inc' = [inc EXCEPT ![i] = Made(a, "active", a \in Matched \cup Reports, FALSE)]
          /\ promote' = [promote EXCEPT ![q].pc = "link", ![q].i = i]
    /\ UNCHANGED <<service, settings, sig, poll, excuse, requests, faults>>

PromoteLink(q) ==
    /\ promote[q].pc = "link"
    /\ sig' = Linked(promote[q].a, promote[q].i)
    /\ promote' = [promote EXCEPT ![q] = IdlePromotion]
    /\ UNCHANGED <<service, settings, inc, poll, excuse, requests, faults>>

-----------------------------------------------------------------------------
(* What happens beside them.                                                *)

\* The services list an alert or report, for a while and only once.
List(a) ==
    /\ service[a] = "future"
    /\ service' = [service EXCEPT ![a] = "listed"]
    /\ UNCHANGED <<tables, poll, promote, excuse, requests, faults>>

Unlist(a) ==
    /\ service[a] = "listed"
    /\ service' = [service EXCEPT ![a] = "over"]
    /\ UNCHANGED <<tables, poll, promote, excuse, requests, faults>>

Operates == Request /\ UNCHANGED <<service, settings, poll, promote, excuse, faults>>

Activate(i) ==
    /\ inc[i].status \in {"draft", "closed"}
    /\ inc' = [inc EXCEPT ![i].status = "active"]
    /\ UNCHANGED sig /\ Operates

Close(i) ==
    /\ inc[i].status \in {"draft", "active"}
    /\ inc' = Closed(i)
    /\ UNCHANGED sig /\ Operates

FaultUnlinked(i) == sig

\* DeleteIncident clears the link in the same transaction.
Unlinked(i) == [a \in Alerts |-> IF sig[a].incident = i
                                 THEN [sig[a] EXCEPT !.incident = None] ELSE sig[a]]
Purge(i) ==
    /\ inc[i].status = "closed"
    /\ inc' = [inc EXCEPT ![i].status = "purged"]
    /\ sig' = Unlinked(i)
    /\ UNCHANGED <<service, settings, poll, promote, excuse, requests, faults>>

\* handleUpdateIncidentSettings
SaveSettings ==
    /\ Request
    /\ settings' \in Settings
    /\ UNCHANGED <<service, sig, inc, poll, promote, excuse, faults>>

\* A stop between storing a signal and linking it leaves the signal pending.
Restart ==
    /\ Busy # {} \/ \E q \in Promoters : promote[q].pc # "idle"
    /\ Fault
    /\ excuse' = excuse \cup {a \in Alerts : Making(a) # {}}
    /\ poll' = [p \in Polls |-> IdlePoll]
    /\ promote' = [q \in Promoters |-> IdlePromotion]
    /\ UNCHANGED <<service, tables, requests>>

-----------------------------------------------------------------------------

PollStep(p) ==
    \/ FetchAlerts(p) \/ NextFeature(p) \/ Store(p) \/ Create(p) \/ Link(p)
    \/ ListIncidents(p) \/ Check(p) \/ CloseExpired(p) \/ FetchReports(p)

Next ==
    \/ \E p \in Polls :
          StartPoll(p) \/ PollStep(p) \/ FetchFails(p) \/ CreateFails(p) \/ LinkFails(p)
    \/ \E q \in Promoters :
          (\E a \in Alerts : BeginPromote(q, a)) \/ PromoteCreate(q) \/ PromoteLink(q)
    \/ \E a \in Alerts : List(a) \/ Unlist(a)
    \/ \E i \in Numbers : Activate(i) \/ Close(i) \/ Purge(i)
    \/ SaveSettings \/ Restart

\* The loop polls again and again, and a poll runs to its end.
Fairness == WF_vars(StartPoll(Timer)) /\ WF_vars(PollStep(Timer))

Spec == Init /\ [][Next]_vars /\ Fairness

-----------------------------------------------------------------------------

Standing(a) == {i \in Numbers : inc[i].from = a /\ inc[i].status \notin {"none", "purged"}}

\* docs/INCIDENTS.md: signals are stored idempotently. However polls overlap, fail and are
\* cut off, one signal has one automatic incident at most (UpsertIncidentSignal), and a
\* second one only if two requests tried at once or a link was not written
\* (handlePromoteIncidentSignal, LinkIncidentSignal).
OneIncidentPerSignal ==
    \A a \in Alerts :
       /\ Cardinality({i \in Numbers : inc[i].from = a /\ inc[i].auto}) <= 1
       /\ Cardinality(Standing(a)) > 1 => a \in excuse

\* The clean-up closes no incident whose alert is still listed in a watched area, unless
\* another poll overlapped: then the list it goes by may be older than the incident
\* (pollIncidentSignalsOnce, cleanupExpiredWeatherIncidents).
LiveStaysOpen ==
    [][\A p \in Polls : poll[p].pc = "close" /\ poll'[p].pc = "check" /\ poll[p].alone =>
          AlertOf(poll[p].i) \cap ListedIn(poll[p].cfg.areas) = {}]_vars

Outlived(a) ==
    LET i == sig[a].incident IN
    service[a] = "over" /\ i # None /\ inc[i].status = "active" /\ inc[i].weather

\* The incident of an alert that is over gets closed, while the poller is on and any other
\* alert is listed (the clean-up does nothing when no alert is).
ExpiredCloses ==
    \A a \in Alerts \ Reports :
       Outlived(a) ~> \/ ~Outlived(a)
                      \/ ~(settings.suggest \/ settings.open)
                      \/ ListedIn(settings.areas) = {}
=============================================================================
