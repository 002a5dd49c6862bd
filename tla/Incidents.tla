------------------------------ MODULE Incidents ------------------------------
(***************************************************************************)
(* The life of an incident on the hub: its row, the share token of its      *)
(* dedicated radio set, its Discord bridge, and the purge of ended ones.    *)
(* Every handler is a chain of separate SQL statements without a            *)
(* transaction, so each statement is a step of its own; several requests,   *)
(* the bot's calls and the purge interleave between them.                   *)
(* (src/server/internal/api/incidents.go, incident_discord.go,              *)
(* incident_cleanup.go, radiosets.go; database/incidents.go,                *)
(* incident_integrations.go, radio_sets.go)                                 *)
(*                                                                          *)
(* Left out: no code sets status "monitoring"; rows saved before streams    *)
(* had tokens (a bridge whose config has none); which bot instance a task   *)
(* is assigned to, so that any bot may take any task.                       *)
(***************************************************************************)
EXTENDS Naturals, FiniteSets

CONSTANTS
    IncidentIds,            \* incidents; each has at most one radio set and one bridge
    Exposures,      \* the exposures that are tried, of the three below
    Requests,       \* requests that may be under way at once (bound)
    MaxToken,       \* bound: share tokens minted
    MaxEra,         \* bound: eras, see era
    MaxStarts,      \* bound: requests begun
    MaxFaults       \* bound: restarts of the hub or of the bot

ASSUME IncidentsAssumption ==
    /\ IsFiniteSet(IncidentIds) /\ IncidentIds # {}
    /\ Exposures \subseteq {"members", "community", "internal"}
    /\ MaxToken \in Nat /\ MaxEra \in Nat \ {0}
    /\ MaxStarts \in Nat /\ MaxFaults \in Nat

VARIABLES
    inc,        \* rows of incidents
    set,        \* the dedicated radio set of each: does its row exist, its token
    bridge,     \* rows of incident_integrations, kind "discord"
    tasks,      \* tasks the bot listed and has not answered
    req,        \* req[r]: how far request r is
    purge,      \* how far the cleanup loop is
    token,      \* the last token minted
    era,        \* what was stamped in an earlier era is older than INCIDENT_ARCHIVE_DAYS
    excuse,     \* what, beside a request that runs alone, touched each (history)
    starts, faults

tables == <<inc, set, bridge>>
bounds == <<starts, faults>>
incidentsVars == <<tables, tasks, req, purge, token, era, excuse, bounds>>

NoToken == 0
Tokens == 0..MaxToken
Stamps == 0..MaxEra

Incident == [status : {"none", "draft", "active", "closed", "archived", "purged"},
             exposure : Exposures, closed : Stamps, archived : Stamps, ended : Stamps]
RadioSet == [exists : BOOLEAN, token : Tokens]
Bridge == [status : {"none", "pending", "active", "stopping", "stopped", "failed"},
           stream : Tokens]
Task == IncidentIds \X {"setup", "stop"}

\* What a request does after the token of its radio set is there.
AfterToken == {"queue", "stream", "save", "idle"}
Request == [pc : {"idle", "insert", "activate", "ensure", "mint", "queue", "look", "save",
                  "mark", "clear", "complete", "fail", "next"},
            i : IncidentIds, then : AfterToken, activate : BOOLEAN, linked : BOOLEAN,
            token : Tokens, round : 0..2, todo : SUBSET IncidentIds]
Purge == [pc : {"idle", "delete", "drop"}, i : IncidentIds, todo : SUBSET IncidentIds]
Excuses == {"raced", "revoked", "shared", "late", "kept", "reopened", "restamped", "orphan"}

IncidentsTypeOK ==
    /\ inc \in [IncidentIds -> Incident]
    /\ set \in [IncidentIds -> RadioSet]
    /\ \A i \in IncidentIds : ~set[i].exists => set[i].token = NoToken
    /\ bridge \in [IncidentIds -> Bridge]
    /\ \A i \in IncidentIds : inc[i].status \in {"none", "purged"} => bridge[i].status = "none"
    /\ tasks \subseteq Task
    /\ req \in [Requests -> Request]
    /\ purge \in Purge
    /\ token \in Tokens
    /\ era \in 1..MaxEra
    /\ excuse \in [IncidentIds -> SUBSET Excuses]
    /\ starts \in 0..MaxStarts /\ faults \in 0..MaxFaults

AnyId == CHOOSE i \in IncidentIds : TRUE
NoSet == [exists |-> FALSE, token |-> NoToken]
NoBridge == [status |-> "none", stream |-> NoToken]
Idle == [pc |-> "idle", i |-> AnyId, then |-> "idle", activate |-> FALSE, linked |-> FALSE,
         token |-> NoToken, round |-> 0, todo |-> {}]

IncidentsInit ==
    /\ \E e \in [IncidentIds -> Exposures] :
          inc = [i \in IncidentIds |-> [status |-> "none", exposure |-> e[i],
                                closed |-> 0, archived |-> 0, ended |-> 0]]
    /\ set = [i \in IncidentIds |-> NoSet]
    /\ bridge = [i \in IncidentIds |-> NoBridge]
    /\ tasks = {}
    /\ req = [r \in Requests |-> Idle]
    /\ purge = [pc |-> "idle", i |-> AnyId, todo |-> {}]
    /\ token = NoToken
    /\ era = 1
    /\ excuse = [i \in IncidentIds |-> {}]
    /\ starts = 0 /\ faults = 0

Stored(i) == inc[i].status \notin {"none", "purged"}
Ended(i) == inc[i].status \in {"closed", "archived"}

\* The requests at work on i; between two incidents a reconciliation is at work on none.
On(i) == {r \in Requests : req[r].pc \notin {"idle", "next"} /\ req[r].i = i}

\* Beside another request: overlapping excuses whatever else is excused.
Beside(i) == IF On(i) = {} THEN {} ELSE {"raced"}
Noted(old, marks) ==
    LET all == old \cup marks IN
    IF "raced" \in all THEN all \ {"revoked", "late", "kept"} ELSE all
Note(i, marks) == excuse' = [excuse EXCEPT ![i] = Noted(@, marks)]

-----------------------------------------------------------------------------
(* The steps of a request.                                                  *)

\* A request begins ...
Starts(r, state) ==
    /\ req[r].pc = "idle" /\ starts < MaxStarts
    /\ starts' = starts + 1
    /\ req' = [req EXCEPT ![r] = state]
    /\ UNCHANGED <<purge, era, faults>>

\* ... on incident i; beginning beside another one is noted.
Begin(r, i, state) == Starts(r, state) /\ Note(i, Beside(i))

\* A statement of request r; it goes on at pc.
Goes(r, state) ==
    /\ req' = [req EXCEPT ![r] = state]
    /\ UNCHANGED <<tasks, purge, era, bounds>>

\* A request that ends hands over to the rest of a reconciliation.
Done(state) == IF state.round > 0 THEN [state EXCEPT !.pc = "next"] ELSE Idle

\* The token is in the request's hands, or the radio set is gone.
WithToken(state, t) ==
    LET s == [state EXCEPT !.token = t] IN
    CASE s.then = "idle"   -> Done(s)
      [] s.then = "stream" -> [s EXCEPT !.pc = "ensure", !.then = "save"]
      [] OTHER             -> [s EXCEPT !.pc = s.then]

\* createIncidentFromTemplate: the radio set first, then the incident's row.
BeginCreate(r, i, activate) ==
    /\ inc[i].status = "none" /\ ~set[i].exists /\ On(i) = {}
    /\ Begin(r, i, [Idle EXCEPT !.pc = "insert", !.i = i, !.activate = activate])
    /\ set' = [set EXCEPT ![i] = [exists |-> TRUE, token |-> NoToken]]
    /\ UNCHANGED <<inc, bridge, tasks, token>>

\* The foreign key refuses an incident whose radio set was deleted meanwhile.
Insert(r) ==
    LET i == req[r].i IN
    /\ req[r].pc = "insert"
    /\ IF set[i].exists
       THEN /\ inc' = [inc EXCEPT ![i].status = IF req[r].activate THEN "active" ELSE "draft"]
            /\ Goes(r, IF req[r].activate THEN [req[r] EXCEPT !.pc = "activate"] ELSE Idle)
       ELSE /\ Goes(r, Idle)
            /\ UNCHANGED inc
    /\ UNCHANGED <<set, bridge, token, excuse>>

BeginActivate(r, i) ==
    /\ Stored(i)
    /\ Begin(r, i, [Idle EXCEPT !.pc = "activate", !.i = i])
    /\ UNCHANGED <<tables, tasks, token>>

\* After activation only a community incident is given a share token.
Shared(i) == inc[i].exposure = "community" /\ set[i].exists

\* ActivateIncident asks for no status: a closed or archived incident opens again.
Activate(r) ==
    LET i == req[r].i IN
    /\ req[r].pc = "activate"
    /\ IF Stored(i)
       THEN /\ inc' = [inc EXCEPT ![i].status = "active"]
            /\ Note(i, {"reopened"})
            /\ Goes(r, IF Shared(i) THEN [req[r] EXCEPT !.pc = "ensure", !.then = "queue"]
                                    ELSE [req[r] EXCEPT !.pc = "queue"])
       ELSE /\ Goes(r, Idle)
            /\ UNCHANGED <<inc, excuse>>
    /\ UNCHANGED <<set, bridge, token>>

\* ensureCommunityShareToken, ensureIncidentStreamToken: read the set ...
Ensure(r) ==
    LET i == req[r].i IN
    /\ req[r].pc = "ensure"
    /\ Goes(r, IF set[i].exists /\ set[i].token = NoToken
               THEN [req[r] EXCEPT !.pc = "mint"]
               ELSE WithToken(req[r], set[i].token))
    /\ UNCHANGED <<tables, token, excuse>>

\* ... and store a new token, over one that another request stored meanwhile.
Mint(r) ==
    LET i == req[r].i IN
    /\ req[r].pc = "mint" /\ token < MaxToken
    /\ token' = token + 1
    /\ set' = [set EXCEPT ![i].token = IF set[i].exists THEN token + 1 ELSE NoToken]
    /\ Goes(r, WithToken(req[r], token + 1))
    /\ Note(i, IF req[r].then = "idle" THEN {"shared"} ELSE {})
    /\ UNCHANGED <<inc, bridge>>

\* discordQueueSkipReason
Skipped(i) == inc[i].exposure = "internal" \/ inc[i].status # "active"

\* queueDiscordIntegrationForIncident, and the operator's own request for a bridge.
BeginAsk(r, i) ==
    /\ Stored(i)
    /\ Begin(r, i, [Idle EXCEPT !.pc = "queue", !.i = i])
    /\ UNCHANGED <<tables, tasks, token>>

Queue(r) ==
    LET i == req[r].i IN
    /\ req[r].pc = "queue"
    /\ Goes(r, IF ~Stored(i) \/ Skipped(i) THEN Done(req[r])
               ELSE [req[r] EXCEPT !.pc = "look", !.linked = set[i].exists])
    /\ UNCHANGED <<tables, token, excuse>>

\* A bridge that is up or going down is kept; a pending one is assigned again when it is
\* older than stalePendingTaskSeconds, which it may be at any time.
Kept(b, stale) == b.status \in {"active", "stopping"} \/ (b.status = "pending" /\ ~stale)

\* The config of a community incident holds its player URL, so that the share token is
\* asked for once more before the stream token is.
Look(r) ==
    LET i == req[r].i IN
    /\ req[r].pc = "look"
    /\ \E stale \in BOOLEAN :
          Goes(r, IF Kept(bridge[i], stale) THEN Done(req[r])
                  ELSE IF ~req[r].linked THEN [req[r] EXCEPT !.pc = "save", !.token = NoToken]
                  ELSE [req[r] EXCEPT !.pc = "ensure",
                                      !.then = IF inc[i].exposure = "community" THEN "stream"
                                                                                ELSE "save"])
    /\ UNCHANGED <<tables, token, excuse>>

FaultUpserted(i, t) == [status |-> "pending", stream |-> t]

\* UpsertIncidentIntegration overwrites whatever the row has become; its foreign key
\* refuses the bridge of a deleted incident.
Upserted(i, t) == IF Stored(i) THEN [status |-> "pending", stream |-> t] ELSE bridge[i]

Save(r) ==
    LET i == req[r].i IN
    /\ req[r].pc = "save"
    /\ bridge' = [bridge EXCEPT ![i] = Upserted(i, req[r].token)]
    /\ Goes(r, Done(req[r]))
    /\ UNCHANGED <<inc, set, token, excuse>>

\* CloseIncident asks for no status either; two more statements follow it.
BeginClose(r, i) ==
    /\ Stored(i)
    /\ Begin(r, i, [Idle EXCEPT !.pc = "mark", !.i = i, !.linked = set[i].exists])
    /\ inc' = [inc EXCEPT ![i].status = "closed", ![i].closed = era,
                          ![i].ended = IF Ended(i) THEN @ ELSE era]
    /\ UNCHANGED <<set, bridge, tasks, token>>

\* handleCloseIncidentByRadioSet finds the incident by its radio set, and closes it likewise.
BeginCloseBySet(r, i) == set[i].exists /\ BeginClose(r, i)

\* MarkDiscordIntegrationsStopping
Stopping(b) ==
    IF b.status \in {"pending", "active"} THEN [b EXCEPT !.status = "stopping"] ELSE b

Mark(r) ==
    LET i == req[r].i IN
    /\ req[r].pc = "mark"
    /\ bridge' = [bridge EXCEPT ![i] = Stopping(@)]
    /\ Goes(r, IF req[r].linked THEN [req[r] EXCEPT !.pc = "clear"] ELSE Idle)
    /\ UNCHANGED <<inc, set, token, excuse>>

FaultCleared(s) == s

\* ClearRadioSetShareToken
Cleared(s) == [s EXCEPT !.token = NoToken]

Clear(r) ==
    LET i == req[r].i IN
    /\ req[r].pc = "clear"
    /\ set' = [set EXCEPT ![i] = Cleared(@)]
    /\ Goes(r, Idle)
    /\ excuse' = [excuse EXCEPT ![i] = @ \ {"shared", "kept"}]
    /\ UNCHANGED <<inc, bridge, token>>

\* The operator takes the bridge down and leaves the incident open.
BeginUnbridge(r, i) ==
    /\ bridge[i].status \in {"pending", "active", "stopping"}
    /\ Begin(r, i, [Idle EXCEPT !.pc = "mark", !.i = i])
    /\ UNCHANGED <<tables, tasks, token>>

\* handleGenerateShareToken: the owner of the radio set shares it by hand.
BeginShare(r, i) ==
    /\ set[i].exists /\ set[i].token = NoToken /\ Stored(i)
    /\ Begin(r, i, [Idle EXCEPT !.pc = "mint", !.i = i])
    /\ UNCHANGED <<tables, tasks, token>>

\* ListActiveIncidentsMissingDiscord and ListFailedDiscordIntegrations
Missing == {i \in IncidentIds : /\ ~Skipped(i)
                        /\ bridge[i].status \notin {"pending", "active", "stopping"}}
Failed == {i \in IncidentIds : bridge[i].status = "failed"}

\* handleReconcileDiscordIncidents: both lists in turn, one incident after another.
BeginReconcile(r) ==
    /\ Missing # {}
    /\ Starts(r, [Idle EXCEPT !.pc = "next", !.round = 1, !.todo = Missing])
    /\ UNCHANGED <<tables, tasks, token, excuse>>

Reconcile(r) ==
    LET todo == req[r].todo IN
    /\ req[r].pc = "next"
    /\ IF todo # {}
       THEN \E i \in todo :
               /\ Goes(r, [req[r] EXCEPT !.pc = "queue", !.i = i, !.todo = @ \ {i}])
               /\ Note(i, Beside(i))
       ELSE /\ Goes(r, IF req[r].round = 1 /\ Failed # {}
                       THEN [req[r] EXCEPT !.round = 2, !.todo = Failed] ELSE Idle)
            /\ UNCHANGED excuse
    /\ UNCHANGED <<tables, token>>

-----------------------------------------------------------------------------
(* One statement, no request: it may fall between the steps of one.         *)

Aside(i, marks) ==
    /\ starts < MaxStarts
    /\ starts' = starts + 1
    /\ Note(i, marks \cup Beside(i))
    /\ UNCHANGED <<tasks, req, purge, token, era, faults>>

\* ArchiveIncident sets the status and nothing else, also of an open incident.
Archive(i) ==
    /\ Stored(i) /\ inc[i].status # "archived"
    /\ inc' = [inc EXCEPT ![i].status = "archived", ![i].archived = era,
                          ![i].ended = IF Ended(i) THEN @ ELSE era]
    /\ Aside(i, IF Ended(i) THEN {} ELSE {"kept"})
    /\ UNCHANGED <<set, bridge>>

\* handleRevokeShareToken
Revoke(i) ==
    /\ set[i].token # NoToken
    /\ set' = [set EXCEPT ![i] = Cleared(@)]
    /\ Aside(i, {"revoked"})
    /\ UNCHANGED <<inc, bridge>>

\* handleDeleteRadioSet; incidents.radio_set_id becomes NULL.
DeleteSet(i) ==
    /\ set[i].exists
    /\ set' = [set EXCEPT ![i] = NoSet]
    /\ Aside(i, {})
    /\ UNCHANGED <<inc, bridge>>

-----------------------------------------------------------------------------
(* The Discord bot polls its tasks and answers each by one call.            *)

FaultListed(status) == status = "pending"

\* ListPendingDiscordIntegrationTasks
Listed(status) == status \in {"pending", "stopping"}

Take(i) ==
    /\ Listed(bridge[i].status)
    /\ tasks' = tasks \cup {<<i, IF bridge[i].status = "pending" THEN "setup" ELSE "stop">>}
    /\ UNCHANGED <<tables, req, purge, token, era, excuse, bounds>>

\* The bot answers a set-up task: the handler reads the row ...
BeginReport(r, i, verdict) ==
    /\ <<i, "setup">> \in tasks /\ req[r].pc = "idle"
    /\ tasks' = tasks \ {<<i, "setup">>}
    /\ req' = [req EXCEPT ![r] = IF bridge[i].status = "none" THEN Idle
                                 ELSE [Idle EXCEPT !.pc = verdict, !.i = i,
                                                   !.token = bridge[i].stream]]
    /\ Note(i, Beside(i))
    /\ UNCHANGED <<tables, purge, token, era, bounds>>

\* handleCompleteDiscordIncidentTask, handleFailDiscordIncidentTask
BeginComplete(r, i) == BeginReport(r, i, "complete")
BeginFail(r, i) == BeginReport(r, i, "fail")

\* ... and writes a status and the config that was read, whatever the row is by now.
Report(r) ==
    LET i == req[r].i IN
    /\ req[r].pc \in {"complete", "fail"}
    /\ bridge' = IF bridge[i].status = "none" THEN bridge
                 ELSE [bridge EXCEPT
                         ![i].status = IF req[r].pc = "complete" THEN "active" ELSE "failed",
                         ![i].stream = req[r].token]
    /\ Note(i, IF bridge[i].status = "pending" THEN {} ELSE {"late"})
    /\ Goes(r, Idle)
    /\ UNCHANGED <<inc, set, token>>

\* handleStopDiscordIncidentTask: one statement, for any status.
ReportStop(i) ==
    /\ <<i, "stop">> \in tasks
    /\ tasks' = tasks \ {<<i, "stop">>}
    /\ bridge' = IF bridge[i].status = "none" THEN bridge
                 ELSE [bridge EXCEPT ![i].status = "stopped"]
    /\ Note(i, Beside(i))
    /\ UNCHANGED <<inc, set, req, purge, token, era, bounds>>

BotRestart ==
    /\ tasks # {} /\ faults < MaxFaults
    /\ tasks' = {} /\ faults' = faults + 1
    /\ UNCHANGED <<tables, req, purge, token, era, excuse, starts>>

-----------------------------------------------------------------------------
(* purgeOldIncidents, every six hours under its own mutex.                  *)

FaultStamp(i) == inc[i].closed

\* The age the listing goes by: the archive stamp wins over the closing stamp.
Stamp(i) == IF inc[i].archived > 0 THEN inc[i].archived ELSE inc[i].closed

\* Opened again and ended once more: the stamp of the first archiving stays.
OldStamp(i) == inc[i].archived > 0 /\ inc[i].archived < inc[i].ended

PurgeList ==
    LET old == {i \in IncidentIds : Ended(i) /\ Stamp(i) < era} IN
    /\ purge.pc = "idle" /\ old # {}
    /\ purge' = [purge EXCEPT !.pc = "delete", !.todo = old]
    /\ excuse' = [i \in IncidentIds |-> (excuse[i] \ {"reopened", "restamped"})
                                   \cup (IF OldStamp(i) THEN {"restamped"} ELSE {})]
    /\ UNCHANGED <<tables, tasks, req, token, era, bounds>>

\* DeleteIncident asks for no status; the bridge's row goes by cascade.
PurgeDelete(i) ==
    /\ purge.pc = "delete" /\ i \in purge.todo
    /\ inc' = [inc EXCEPT ![i].status = "purged"]
    /\ bridge' = [bridge EXCEPT ![i] = NoBridge]
    /\ purge' = [pc |-> IF set[i].exists THEN "drop"
                        ELSE IF purge.todo = {i} THEN "idle" ELSE "delete",
                 i |-> i, todo |-> purge.todo \ {i}]
    /\ Note(i, Beside(i))
    /\ UNCHANGED <<set, tasks, req, token, era, bounds>>

\* DeleteRadioSetByID
PurgeDrop ==
    /\ purge.pc = "drop"
    /\ set' = [set EXCEPT ![purge.i] = NoSet]
    /\ purge' = [purge EXCEPT !.pc = IF purge.todo = {} THEN "idle" ELSE "delete"]
    /\ UNCHANGED <<inc, bridge, tasks, req, token, era, excuse, bounds>>

\* The retention passes; no request and no purge takes that long.
Tick ==
    /\ era < MaxEra /\ purge.pc = "idle"
    /\ \A r \in Requests : req[r].pc = "idle"
    /\ era' = era + 1
    /\ UNCHANGED <<tables, tasks, req, purge, token, excuse, bounds>>

\* A restart of the hub cuts every request and the purge between two statements.
HubRestart ==
    /\ faults < MaxFaults
    /\ faults' = faults + 1
    /\ req' = [r \in Requests |-> Idle]
    /\ purge' = [purge EXCEPT !.pc = "idle", !.todo = {}]
    /\ excuse' = [i \in IncidentIds |-> Noted(excuse[i], Beside(i) \cup
                                (IF purge.pc = "drop" /\ purge.i = i THEN {"orphan"} ELSE {}))]
    /\ UNCHANGED <<tables, tasks, token, era, starts>>

-----------------------------------------------------------------------------

RequestStep(r) ==
    \/ Insert(r) \/ Activate(r) \/ Ensure(r) \/ Mint(r) \/ Queue(r) \/ Look(r) \/ Save(r)
    \/ Mark(r) \/ Clear(r) \/ Reconcile(r) \/ Report(r)

IncidentsNext ==
    \/ \E r \in Requests, i \in IncidentIds :
          \/ \E activate \in BOOLEAN : BeginCreate(r, i, activate)
          \/ BeginActivate(r, i) \/ BeginAsk(r, i) \/ BeginClose(r, i)
          \/ BeginCloseBySet(r, i) \/ BeginUnbridge(r, i) \/ BeginShare(r, i)
          \/ BeginComplete(r, i) \/ BeginFail(r, i)
    \/ \E r \in Requests : RequestStep(r) \/ BeginReconcile(r)
    \/ \E i \in IncidentIds :
          \/ Archive(i) \/ Revoke(i) \/ DeleteSet(i)
          \/ Take(i) \/ ReportStop(i) \/ PurgeDelete(i)
    \/ PurgeList \/ PurgeDrop \/ BotRestart \/ Tick \/ HubRestart

IncidentsSpec == IncidentsInit /\ [][IncidentsNext]_incidentsVars

\* A handler runs to its end, and the bot goes on polling and answering.
FairIncidentsSpec ==
    /\ IncidentsSpec
    /\ \A r \in Requests : WF_incidentsVars(RequestStep(r))
    /\ \A i \in IncidentIds : WF_incidentsVars(Take(i)) /\ WF_incidentsVars(ReportStop(i))

-----------------------------------------------------------------------------

Quiet(i) == On(i) = {} /\ purge.pc = "idle"
Without(i, excuses) == excuse[i] \cap excuses = {}

\* A community incident that is open can be listened to, unless somebody revoked the token.
OpenIsShared(i) ==
    inc[i].status = "active" /\ Shared(i) /\ Without(i, {"raced", "revoked"})
       => set[i].token # NoToken

\* An incident that ended has no token and no bridge: it was closed before it was archived,
\* nobody shared its set again by hand, and no answer of the bot came late.
EndedIsSilent(i) ==
    Ended(i) /\ Without(i, {"raced", "kept"})
       => /\ Without(i, {"shared"}) => set[i].token = NoToken
          /\ Without(i, {"late"}) => bridge[i].status \notin {"pending", "active"}

\* The bridge of an open incident streams with the token its set has now.
BridgeIsCurrent(i) ==
    (/\ inc[i].status = "active" /\ set[i].exists
     /\ bridge[i].status \in {"pending", "active"}
     /\ Without(i, {"raced", "revoked", "late", "kept"}))
       => bridge[i].stream = set[i].token

\* A purged incident leaves neither its bridge nor its radio set behind, unless the hub
\* stopped between the two deletions.
PurgedIsGone(i) ==
    inc[i].status = "purged" /\ Without(i, {"orphan"})
       => bridge[i].status = "none" /\ ~set[i].exists

\* An incident's row, the token of its radio set and its bridge are written by separate
\* statements (createIncidentFromTemplate, handleCloseIncident, the bot's calls): when
\* none is under way they agree, and each way to make them disagree is named.
RowsAgree ==
    \A i \in IncidentIds : Quiet(i) => /\ OpenIsShared(i) /\ EndedIsSilent(i)
                               /\ BridgeIsCurrent(i) /\ PurgedIsGone(i)

\* docs/INCIDENTS.md: no bridge and no token for an internal incident, in any
\* interleaving, unless the owner of the set shares it by hand (discordQueueSkipReason,
\* ensureCommunityShareToken).
InternalStaysIn ==
    \A i \in IncidentIds : inc[i].exposure = "internal" =>
       bridge[i].status = "none" /\ (set[i].token # NoToken => "shared" \in excuse[i])

\* incidents.go, incident_discord.go: what the parts of an incident say of each other, and
\* that nothing of an internal one leaves the hub.
PartsAgree == RowsAgree /\ InternalStaysIn

\* The purge deletes what ended before the retention began: never an open incident,
\* unless it was opened again after it was listed, and never one that ended lately,
\* unless it carries the stamp of an earlier archiving (ListIncidentsForPurge).
PurgeKeepsRetention ==
    [][\A i \in IncidentIds : inc[i].status # "purged" /\ inc'[i].status = "purged" =>
         \/ {"reopened", "restamped"} \cap excuse[i] # {}
         \/ Ended(i) /\ inc[i].ended < era]_incidentsVars

\* A bridge that is to go down does so, through restarts of the hub and of the bot and
\* with answers of any order (the bot's task list holds stopping rows as well).
StoppingEnds == \A i \in IncidentIds : bridge[i].status = "stopping" ~> bridge[i].status # "stopping"

\* docs/INCIDENTS.md: draft and active incidents are never purged.
OpenNeverPurged ==
    [][\A i \in IncidentIds : inc[i].status # "purged" /\ inc'[i].status = "purged" => Ended(i)]_incidentsVars

\* docs/INCIDENTS.md: a share token exists only for community exposure, or when the
\* owner asks for one.
TokenIsForCommunity ==
    \A i \in IncidentIds : set[i].token # NoToken =>
       inc[i].exposure = "community" \/ "shared" \in excuse[i]
=============================================================================
