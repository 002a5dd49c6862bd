-------------------------- MODULE FederationImport --------------------------
(***************************************************************************)
(* One hub importing the calls of a peer.  Every poll cycle counts what was *)
(* imported, back-fills the newest calls while that count is below a cap,   *)
(* and then asks for the calls after the largest imported remote id.  An    *)
(* import stores a local call first and records it under its remote id      *)
(* afterwards; deleting the peer removes both, in the background.           *)
(* (src/server/internal/api/federation.go, api/hub_identity.go,             *)
(* database/calls.go, database/hub_identity.go)                             *)
(***************************************************************************)
EXTENDS Naturals, FiniteSets

CONSTANTS
    MaxRemoteId,    \* bound: remote calls
    ImportCap,      \* federationImportCapForDirectoryStatus
    PageLimit,      \* the largest page, federationImportBatchLimit
    MaxForgets,     \* bound: local deletions of imported calls
    MaxFaults       \* bound: failed statements or requests, and server restarts

ASSUME FederationAssumption ==
    /\ MaxRemoteId \in Nat
    /\ ImportCap \in Nat \ {0}
    /\ PageLimit \in Nat \ {0}
    /\ MaxForgets \in Nat
    /\ MaxFaults \in Nat

VARIABLES
    exported,   \* remote calls the peer lists: stored, on a shared and enabled source
    peer,       \* is the peer connected (hub_peers)?
    cleanup,    \* background deletion of imports: none, imports, calls
    linked,     \* remote ids with a row in federation_call_imports
    copies,     \* remote ids with a local call that no such row names
    announced,  \* announced[r]: broadcasts of r since its row was last deleted, up to 2
    sync,       \* the sync goroutine: idle, recent, live, insert, record
    mode,       \* the page it works on is from: recent, live
    counted,    \* importedCount when the page was asked for
    before,     \* beforeID
    page,       \* calls of the page not imported yet, the smallest id first
    pageMin,    \* the smallest id of the page
    fresh,      \* importedThisBatch
    held,       \* the local row just inserted: none, row, gone
    owed,       \* calls exported in id order once the cap was reached (history)
    dirty,      \* did a cycle or a restart overlap the deletion of the peer? (history)
    forgets, faults

remote == <<exported>>
peering == <<peer, cleanup, dirty>>
imports == <<linked, copies, announced>>
cycle == <<sync, mode, counted, before, page, pageMin, fresh, held>>
importVars == <<remote, peering, imports, cycle, owed, forgets, faults>>

RemoteIds == 1..MaxRemoteId

ImportTypeOK ==
    /\ exported \subseteq RemoteIds
    /\ peer \in BOOLEAN
    /\ cleanup \in {"none", "imports", "calls"}
    /\ linked \subseteq RemoteIds
    /\ copies \subseteq RemoteIds
    /\ announced \in [RemoteIds -> 0..2]
    /\ sync \in {"idle", "recent", "live", "insert", "record"}
    /\ (sync = "record") => page # {}
    /\ mode \in {"recent", "live"}
    /\ counted \in 0..MaxRemoteId
    /\ before \in 0..MaxRemoteId
    /\ page \subseteq RemoteIds /\ Cardinality(page) <= PageLimit
    /\ pageMin \in 0..MaxRemoteId
    /\ fresh \in 0..PageLimit
    /\ held \in {"none", "row", "gone"}
    /\ (held # "none") <=> (sync = "record")
    /\ owed \subseteq RemoteIds
    /\ dirty \in BOOLEAN
    /\ forgets \in 0..MaxForgets
    /\ faults \in 0..MaxFaults

Idle ==
    /\ sync' = "idle"
    /\ mode' = "live"
    /\ counted' = 0
    /\ before' = 0
    /\ page' = {}
    /\ pageMin' = 0
    /\ fresh' = 0
    /\ held' = "none"

ImportInit ==
    /\ exported = {}
    /\ peer = FALSE
    /\ cleanup = "none"
    /\ linked = {}
    /\ copies = {}
    /\ announced = [r \in RemoteIds |-> 0]
    /\ sync = "idle" /\ mode = "live"
    /\ counted = 0 /\ before = 0 /\ page = {} /\ pageMin = 0 /\ fresh = 0
    /\ held = "none"
    /\ owed = {}
    /\ dirty = FALSE
    /\ forgets = 0
    /\ faults = 0

Silent(S) == [r \in RemoteIds |-> IF r \in S THEN 0 ELSE announced[r]]
Largest(S) == IF S = {} THEN 0 ELSE CHOOSE m \in S : \A n \in S : n <= m
Smallest(S) == CHOOSE m \in S : \A n \in S : m <= n

\* The row in hand stays behind as a copy when its import ends without a record.
Abandoned == IF held = "row" THEN copies \cup {Smallest(page)} ELSE copies

-----------------------------------------------------------------------------
(* The peer hub (outside this hub): calls become listable in any order.     *)

Export(r) ==
    /\ r \notin exported
    /\ exported' = exported \cup {r}
    /\ owed' = IF peer /\ Cardinality(linked) >= ImportCap /\ r > Largest(exported \cup linked)
               THEN owed \cup {r} ELSE owed
    /\ UNCHANGED <<peering, imports, cycle, forgets, faults>>

-----------------------------------------------------------------------------
(* The sync goroutine: one cycle over the peer.                             *)

\* CountImportedFederatedCallsFromPeer, asked again before each back-fill page.
FaultRecount == IF sync = "idle" THEN Cardinality(linked) ELSE counted
Recount == Cardinality(linked)

Continue(count) == IF count < ImportCap THEN "recent" ELSE "live"

StartCycle ==
    /\ peer /\ sync = "idle"
    /\ counted' = Recount
    /\ sync' = Continue(Recount)
    /\ mode' = Continue(Recount)
    /\ dirty' = (dirty \/ cleanup # "none")
    /\ UNCHANGED <<remote, peer, cleanup, imports, before, page, pageMin, fresh, held,
                   owed, forgets, faults>>

FaultBatchLimit == ImportCap - counted
BatchLimit == LET remaining == ImportCap - counted
              IN IF remaining > PageLimit THEN PageLimit ELSE remaining

\* The newest calls, below the cursor of the pages before: ORDER BY id DESC, reversed.
RecentPage ==
    LET listed == {r \in exported : before > 0 => r < before}
    IN {r \in listed : Cardinality({q \in listed : q > r}) < BatchLimit}

LivePage ==
    LET listed == {r \in exported : r > Largest(linked)}
    IN {r \in listed : Cardinality({q \in listed : q < r}) < PageLimit}

Received(calls) ==
    /\ page' = calls
    /\ pageMin' = Smallest(calls)
    /\ fresh' = 0
    /\ sync' = "insert"
    /\ UNCHANGED <<mode, counted, before, held>>

FetchRecent ==
    /\ sync = "recent"
    /\ IF RecentPage = {}
       THEN /\ sync' = "live" /\ mode' = "live"
            /\ UNCHANGED <<counted, before, page, pageMin, fresh, held>>
       ELSE Received(RecentPage)
    /\ UNCHANGED <<remote, peering, imports, owed, forgets, faults>>

FetchLive ==
    /\ sync = "live"
    /\ IF LivePage = {} THEN Idle ELSE Received(LivePage)
    /\ UNCHANGED <<remote, peering, imports, owed, forgets, faults>>

FaultStopsAtCap == counted + fresh >= ImportCap
StopsAtCap == mode = "recent" /\ counted + fresh >= ImportCap

\* importFederatedCall stores the call before it knows whether it has it already.
InsertCall ==
    /\ sync = "insert" /\ page # {} /\ ~StopsAtCap
    /\ held' = "row"
    /\ sync' = "record"
    /\ UNCHANGED <<remote, peering, imports, mode, counted, before, page, pageMin, fresh,
                   owed, forgets, faults>>

\* ON CONFLICT DO NOTHING reports no inserted row for a remote id seen before.
Inserted(r) == r \notin linked

RecordImport ==
    LET r == Smallest(page)
    IN  /\ sync = "record" /\ held = "row"
        /\ linked' = linked \cup {r}
        /\ copies' = IF r \in linked THEN copies \cup {r} ELSE copies
        /\ announced' = IF Inserted(r) /\ announced[r] < 2
                        THEN [announced EXCEPT ![r] = @ + 1] ELSE announced
        /\ fresh' = IF Inserted(r) THEN fresh + 1 ELSE fresh
        /\ page' = page \ {r}
        /\ held' = "none"
        /\ sync' = "insert"
        /\ UNCHANGED <<remote, peering, mode, counted, before, pageMin, owed, forgets,
                       faults>>

\* The foreign key refuses the record of a row deleted meanwhile; the cycle ends.
RecordRefused ==
    /\ sync = "record" /\ held = "gone"
    /\ Idle
    /\ UNCHANGED <<remote, peering, imports, owed, forgets, faults>>

EndRecentPage ==
    /\ sync = "insert" /\ mode = "recent" /\ (page = {} \/ StopsAtCap)
    /\ LET next == IF before > 0 /\ pageMin >= before THEN "live" ELSE Continue(Recount)
       IN  sync' = next /\ mode' = next
    /\ before' = pageMin
    /\ counted' = Recount
    /\ page' = {}
    /\ fresh' = 0
    /\ UNCHANGED <<remote, peering, imports, pageMin, held, owed, forgets, faults>>

EndLivePage ==
    /\ sync = "insert" /\ mode = "live" /\ (page = {} \/ StopsAtCap)
    /\ Idle
    /\ UNCHANGED <<remote, peering, imports, owed, forgets, faults>>

\* A request or statement of the cycle fails: importFederatedCalls returns the error.
SyncFails ==
    /\ sync # "idle" /\ faults < MaxFaults
    /\ copies' = Abandoned
    /\ Idle
    /\ faults' = faults + 1
    /\ UNCHANGED <<remote, peering, linked, announced, owed, forgets>>

-----------------------------------------------------------------------------
(* Administration of the peer, and deletions of calls on this hub.          *)

Connect ==
    /\ ~peer
    /\ peer' = TRUE
    /\ UNCHANGED <<remote, cleanup, dirty, imports, cycle, owed, forgets, faults>>

\* handleDeleteHubPeer: one deletion in the background at a time (bound).
DeleteHubPeer ==
    /\ peer /\ cleanup = "none"
    /\ peer' = FALSE
    /\ cleanup' = "imports"
    /\ owed' = {}
    /\ dirty' = (sync # "idle")
    /\ UNCHANGED <<remote, imports, cycle, forgets, faults>>

\* DeleteFederatedPeerImports, first statement: the rows of federation_call_imports.
CleanupImports ==
    /\ cleanup = "imports"
    /\ linked' = {}
    /\ copies' = copies \cup linked
    /\ announced' = Silent(linked)
    /\ owed' = {}
    /\ cleanup' = "calls"
    /\ UNCHANGED <<remote, peer, dirty, cycle, forgets, faults>>

\* What the deletion of calls by source pattern leaves: nothing, copies included.
Unswept == {}

\* Its loop over the calls of the peer's sources, which takes their import rows along.
CleanupCalls ==
    /\ cleanup = "calls"
    /\ linked' = {}
    /\ copies' = Unswept
    /\ announced' = Silent(linked)
    /\ owed' = {}
    /\ held' = IF held = "row" THEN "gone" ELSE held
    /\ cleanup' = "none"
    /\ UNCHANGED <<remote, peer, dirty, sync, mode, counted, before, page, pageMin,
                   fresh, forgets, faults>>

CleanupFails ==
    /\ cleanup # "none" /\ faults < MaxFaults
    /\ cleanup' = "none"
    /\ dirty' = TRUE
    /\ faults' = faults + 1
    /\ UNCHANGED <<remote, peer, imports, cycle, owed, forgets>>

\* The server stops and starts: neither goroutine remembers its work.
Restart ==
    /\ sync # "idle" \/ cleanup # "none"
    /\ faults < MaxFaults
    /\ copies' = Abandoned
    /\ Idle
    /\ cleanup' = "none"
    /\ dirty' = (dirty \/ cleanup # "none")
    /\ faults' = faults + 1
    /\ UNCHANGED <<remote, peer, linked, announced, owed, forgets>>

\* An imported call is archived or deleted here: the cascade takes its import row.
Forget(r) ==
    /\ r \in linked /\ forgets < MaxForgets
    /\ linked' = linked \ {r}
    /\ announced' = Silent({r})
    /\ owed' = {}
    /\ forgets' = forgets + 1
    /\ UNCHANGED <<remote, peering, copies, cycle, faults>>

-----------------------------------------------------------------------------

Sync == StartCycle \/ FetchRecent \/ FetchLive \/ InsertCall \/ RecordImport
        \/ RecordRefused \/ EndRecentPage \/ EndLivePage

Cleanup == CleanupImports \/ CleanupCalls

ImportNext ==
    \/ \E r \in RemoteIds : Export(r)
    \/ StartCycle \/ FetchRecent \/ FetchLive \/ InsertCall \/ RecordImport
    \/ RecordRefused \/ EndRecentPage \/ EndLivePage \/ SyncFails
    \/ Connect \/ DeleteHubPeer \/ CleanupImports \/ CleanupCalls \/ CleanupFails
    \/ Restart
    \/ \E r \in RemoteIds : Forget(r)

ImportSpec == ImportInit /\ [][ImportNext]_importVars

\* The sync goroutine's timer re-arms after every cycle and each request has a
\* timeout; nothing stops the deletion goroutine once started.
FairImportSpec == ImportSpec /\ WF_importVars(Sync) /\ WF_importVars(Cleanup)

-----------------------------------------------------------------------------

\* Listeners hear a remote call once: a call imported again is stored again but not
\* broadcast, unless its import row was deleted in between (importFederatedCall).
AnnouncedOnce == \A r \in RemoteIds : announced[r] <= 1

\* The back-fill never takes the imports of a peer over the cap, however pages, failed
\* cycles and deletions interleave; live calls may (syncFederatedPeerBackfill).
BackfillWithinCap == mode = "recent" => Cardinality(linked) <= ImportCap

\* After a peer was deleted and the deletion ran through, none of its calls is left,
\* the copies without an import row included, unless a cycle was under way when it
\* was deleted, or the deletion failed (cleanupDeletedHubPeer).
PeerRemovedCleanly ==
    ~peer /\ cleanup = "none" /\ ~dirty /\ sync = "idle"
        => linked = {} /\ copies = {}

\* federation.go, hub_identity.go cleanupDeletedHubPeer: a call is stored before its
\* import is recorded and counted, and neither a repetition, nor the cap, nor the
\* deletion of the peer is fooled by the time in between.
ImportsSound == AnnouncedOnce /\ BackfillWithinCap /\ PeerRemovedCleanly

\* Once the cap is reached, every call the peer stores in id order is imported by a
\* later poll, unless the peer or an imported call is deleted (syncFederatedPeerLive).
LiveCallsImported == \A r \in RemoteIds : r \in owed ~> (r \in linked \/ r \notin owed)

\* docs/SIGNALHUB_MVP.md: the import of existing calls is a one-time back-fill, so an
\* imported call has one local row.
OneCopyEach == copies \cap linked = {}
=============================================================================
