------------------------------ MODULE LiveFeed ------------------------------
(***************************************************************************)
(* The authenticated WebSocket feed: an upload stores a call row and       *)
(* broadcasts it; every connected client has a bounded send queue drained  *)
(* by its own writer; a client that reconnects with ?since=<call id> is    *)
(* registered for live traffic first and is then replayed the stored calls *)
(* above its cursor.  (src/server/internal/api/hub.go, calls.go)           *)
(*                                                                         *)
(* A call is its row id.  What the hub redacts for a user is not modelled: *)
(* every client gets a frame for every call.                               *)
(***************************************************************************)
EXTENDS Naturals, Sequences, FiniteSets

CONSTANTS
    Uploaders,      \* request goroutines that may store a call
    Clients,        \* WebSocket clients, each with at most one connection
    SendBuffer,     \* clientSendBuffer
    ReplayLimit,    \* the LIMIT of the replay listing
    MaxCalls,       \* bound: calls ever stored
    MaxBeats,       \* bound: heartbeats ever sent
    MaxDrops,       \* bound: connections lost to the network, and server restarts
    ListMayFail     \* may the replay listing fail with a database error?

ASSUME LiveFeedAssumption ==
    /\ SendBuffer \in Nat \ {0}
    /\ ReplayLimit \in Nat \ {0}
    /\ MaxCalls \in Nat
    /\ MaxBeats \in Nat
    /\ MaxDrops \in Nat
    /\ ListMayFail \in BOOLEAN

VARIABLES
    nextId,     \* the sequence behind calls.id
    rows,       \* ids of the committed call rows
    upload,     \* upload[u]: what the request has done: idle, inserting, stored
    callId,     \* callId[u]: the id it was given
    phase,      \* phase[c]: off, registered, replaying, live, closing
    since,      \* since[c]: the ?since= cursor of the connection
    replay,     \* replay[c]: listed calls not enqueued yet
    page,       \* page[c]: what the replay listing returned (history)
    listed,     \* listed[c]: did the listing return every row above since?
    queue,      \* queue[c]: client.send
    got,        \* got[c]: calls the client has received, over all connections
    synced,     \* synced[c]: replay_complete received on this connection
    cursor,     \* cursor[c]: the ?since= of the client's next connection
    due,        \* due[c]: calls broadcast since c has a cursor (history)
    reordered,  \* has a call been stored or broadcast after a later one? (history)
    cut,        \* cut[c]: has a listing ever failed or left rows out? (history)
    beats, drops

db == <<nextId, rows>>
server == <<upload, callId>>
connection == <<phase, since, replay, page, listed, queue>>
client == <<got, synced, cursor>>
history == <<due, reordered, cut>>
vars == <<db, server, connection, client, history, beats, drops>>

Ids == 1..MaxCalls
Call(id) == <<"call", id>>
HeartbeatEvent == <<"heartbeat", 0>>
ReplayComplete == <<"replay_complete", 0>>
Frames == {Call(id) : id \in Ids} \cup {HeartbeatEvent, ReplayComplete}

TypeOK ==
    /\ nextId \in 1..(MaxCalls + 1)
    /\ rows \subseteq Ids
    /\ upload \in [Uploaders -> {"idle", "inserting", "stored"}]
    /\ callId \in [Uploaders -> 0..MaxCalls]
    /\ phase \in [Clients -> {"off", "registered", "replaying", "live", "closing"}]
    /\ since \in [Clients -> 0..MaxCalls]
    /\ replay \in [Clients -> SUBSET Ids]
    /\ page \in [Clients -> SUBSET Ids]
    /\ listed \in [Clients -> BOOLEAN]
    /\ queue \in [Clients -> Seq(Frames)]
    /\ \A c \in Clients : Len(queue[c]) <= SendBuffer
    /\ got \in [Clients -> SUBSET Ids]
    /\ synced \in [Clients -> BOOLEAN]
    /\ cursor \in [Clients -> 0..MaxCalls]
    /\ due \in [Clients -> SUBSET Ids]
    /\ reordered \in BOOLEAN
    /\ cut \in [Clients -> BOOLEAN]
    /\ beats \in 0..MaxBeats
    /\ drops \in 0..MaxDrops

Init ==
    /\ nextId = 1
    /\ rows = {}
    /\ upload = [u \in Uploaders |-> "idle"]
    /\ callId = [u \in Uploaders |-> 0]
    /\ phase = [c \in Clients |-> "off"]
    /\ since = [c \in Clients |-> 0]
    /\ replay = [c \in Clients |-> {}]
    /\ page = [c \in Clients |-> {}]
    /\ listed = [c \in Clients |-> FALSE]
    /\ queue = [c \in Clients |-> <<>>]
    /\ got = [c \in Clients |-> {}]
    /\ synced = [c \in Clients |-> FALSE]
    /\ cursor = [c \in Clients |-> 0]
    /\ due = [c \in Clients |-> {}]
    /\ reordered = FALSE
    /\ cut = [c \in Clients |-> FALSE]
    /\ beats = 0
    /\ drops = 0

-----------------------------------------------------------------------------
(* The hub's client set and the non-blocking enqueue. *)

\* A client is in h.clients from before its replay until it is removed.
FaultRegistered(c) == phase[c] = "live"
Registered(c) == phase[c] \in {"registered", "replaying", "live"}

FaultFull(c) == Len(queue[c]) > SendBuffer
Full(c) == Len(queue[c]) >= SendBuffer

\* The select of enqueueLocked: without room the client is removed.
FaultRemoved(c) == FALSE
Removed(c) == Full(c)

\* enqueueLocked on every client of S at once (h.mu is held).  A removed client's
\* writer may still write what was queued, until its connection closes.
Enqueue(S, frame) ==
    LET targets == {c \in S : Registered(c)}
    IN  /\ phase' = [c \in Clients |->
                        IF c \in targets /\ Removed(c) THEN "closing" ELSE phase[c]]
        /\ queue' = [c \in Clients |->
                        IF c \in targets /\ ~Full(c) THEN Append(queue[c], frame)
                        ELSE queue[c]]

-----------------------------------------------------------------------------
(* Uploads: InsertCall takes an id when the statement starts and the row    *)
(* is visible when it commits; the broadcast comes after the commit.        *)

BeginInsert(u) ==
    /\ upload[u] = "idle"
    /\ nextId <= MaxCalls
    /\ callId' = [callId EXCEPT ![u] = nextId]
    /\ nextId' = nextId + 1
    /\ upload' = [upload EXCEPT ![u] = "inserting"]
    /\ UNCHANGED <<rows, connection, client, history, beats, drops>>

CommitInsert(u) ==
    /\ upload[u] = "inserting"
    /\ rows' = rows \cup {callId[u]}
    /\ upload' = [upload EXCEPT ![u] = "stored"]
    /\ reordered' = (reordered \/ \E n \in rows : n > callId[u])
    /\ UNCHANGED <<nextId, callId, connection, client, due, cut, beats, drops>>

BroadcastPending(id) == \E u \in Uploaders : upload[u] = "stored" /\ callId[u] = id

BroadcastCall(u) ==
    /\ upload[u] = "stored"
    /\ Enqueue(Clients, Call(callId[u]))
    /\ upload' = [upload EXCEPT ![u] = "idle"]
    /\ callId' = [callId EXCEPT ![u] = 0]
    /\ due' = [c \in Clients |-> IF cursor[c] = 0 THEN {} ELSE due[c] \cup {callId[u]}]
    /\ reordered' = (reordered \/ \E n \in rows : n > callId[u] /\ ~BroadcastPending(n))
    /\ UNCHANGED <<db, since, replay, page, listed, client, cut, beats, drops>>

Heartbeat ==
    /\ beats < MaxBeats
    /\ beats' = beats + 1
    /\ Enqueue(Clients, HeartbeatEvent)
    /\ UNCHANGED <<db, server, since, replay, page, listed, client, history, drops>>

-----------------------------------------------------------------------------
(* A connection: register, list, enqueue the page, enqueue the sentinel.    *)

Connect(c) ==
    /\ phase[c] = "off"
    /\ phase' = [phase EXCEPT ![c] = "registered"]
    /\ since' = [since EXCEPT ![c] = cursor[c]]
    /\ queue' = [queue EXCEPT ![c] = <<>>]
    /\ replay' = [replay EXCEPT ![c] = {}]
    /\ page' = [page EXCEPT ![c] = {}]
    /\ listed' = [listed EXCEPT ![c] = FALSE]
    /\ synced' = [synced EXCEPT ![c] = FALSE]
    /\ UNCHANGED <<db, server, got, cursor, history, beats, drops>>

Above(n) == {id \in rows : id > n}

\* WHERE id > since ORDER BY id ASC LIMIT ReplayLimit
ListCallsSince(n) ==
    {id \in Above(n) : Cardinality({m \in Above(n) : m < id}) < ReplayLimit}

\* Without a cursor nothing is listed; a failed listing looks like an empty one.
ReplayList(c) ==
    /\ phase[c] = "registered"
    /\ phase' = [phase EXCEPT ![c] = "replaying"]
    /\ \E fails \in {FALSE, ListMayFail} :
         LET result == IF since[c] = 0 \/ fails THEN {} ELSE ListCallsSince(since[c])
             all == result = Above(since[c])
         IN  /\ replay' = [replay EXCEPT ![c] = result]
             /\ page' = [page EXCEPT ![c] = result]
             /\ listed' = [listed EXCEPT ![c] = since[c] > 0 /\ all]
             /\ cut' = [cut EXCEPT ![c] = @ \/ (since[c] > 0 /\ ~all)]
    /\ UNCHANGED <<db, server, since, queue, client, due, reordered, beats, drops>>

\* The page is enqueued in its order.
ReplayEnqueue(c) ==
    /\ phase[c] = "replaying"
    /\ \E id \in replay[c] :
         /\ \A m \in replay[c] : id <= m
         /\ Enqueue({c}, Call(id))
         /\ replay' = [replay EXCEPT ![c] = @ \ {id}]
    /\ UNCHANGED <<db, server, since, page, listed, client, history, beats, drops>>

PageSent(c) == phase[c] = "replaying" /\ replay[c] = {}

\* replay_complete is sent whatever the listing returned.
ReplayFinish(c) ==
    /\ PageSent(c)
    /\ phase' = [phase EXCEPT ![c] = IF Removed(c) THEN "closing" ELSE "live"]
    /\ queue' = [queue EXCEPT ![c] = IF Full(c) THEN @ ELSE Append(@, ReplayComplete)]
    /\ UNCHANGED <<db, server, since, replay, page, listed, client, history, beats, drops>>

\* The largest call id in S, or 0.
Newest(S) == IF S = {} THEN 0 ELSE CHOOSE m \in S : \A n \in S : n <= m

\* The client (outside src/) asks next time for what follows the newest call it
\* has, and trusts that call only once its connection was told replay_complete:
\* live calls may overtake the page.
NextCursor(c, calls, complete) == IF complete THEN Newest(calls) ELSE cursor[c]

\* writeLoop: one frame reaches the client.
WriteFrame(c) ==
    /\ phase[c] # "off"
    /\ queue[c] # <<>>
    /\ queue' = [queue EXCEPT ![c] = Tail(@)]
    /\ LET frame == Head(queue[c])
           calls == got[c] \cup {id \in Ids : frame = Call(id)}
           complete == synced[c] \/ frame = ReplayComplete
       IN  /\ got' = [got EXCEPT ![c] = calls]
           /\ synced' = [synced EXCEPT ![c] = complete]
           /\ cursor' = [cursor EXCEPT ![c] = NextCursor(c, calls, complete)]
    /\ UNCHANGED <<db, server, phase, since, replay, page, listed, history, beats, drops>>

\* removeClientLocked closes the connection of a removed client.
CloseConn(c) ==
    /\ phase[c] = "closing"
    /\ phase' = [phase EXCEPT ![c] = "off"]
    /\ queue' = [queue EXCEPT ![c] = <<>>]
    /\ UNCHANGED <<db, server, since, replay, page, listed, client, history, beats, drops>>

\* A write error, a timeout or a closed socket: the handler removes the client.
Disconnect(c) ==
    /\ Registered(c)
    /\ drops < MaxDrops
    /\ drops' = drops + 1
    /\ phase' = [phase EXCEPT ![c] = "off"]
    /\ queue' = [queue EXCEPT ![c] = <<>>]
    /\ UNCHANGED <<db, server, since, replay, page, listed, client, history, beats>>

\* The server process stops: only rows survive.
Restart ==
    /\ drops < MaxDrops
    /\ drops' = drops + 1
    /\ upload' = [u \in Uploaders |-> "idle"]
    /\ callId' = [u \in Uploaders |-> 0]
    /\ phase' = [c \in Clients |-> "off"]
    /\ queue' = [c \in Clients |-> <<>>]
    /\ UNCHANGED <<db, since, replay, page, listed, client, history, beats>>

-----------------------------------------------------------------------------
UploadStep(u) == BeginInsert(u) \/ CommitInsert(u) \/ BroadcastCall(u)
ReplayStep(c) == ReplayList(c) \/ ReplayEnqueue(c) \/ ReplayFinish(c)

Next ==
    \/ \E u \in Uploaders : UploadStep(u)
    \/ \E c \in Clients : Connect(c) \/ ReplayStep(c) \/ WriteFrame(c)
                          \/ CloseConn(c) \/ Disconnect(c)
    \/ Heartbeat
    \/ Restart

Spec == Init /\ [][Next]_vars

\* Goroutines run: a request finishes what it stored, a handler its replay, a
\* writer its queue.  Nobody has to upload, connect or disconnect.
Fairness ==
    /\ \A u \in Uploaders : WF_vars(CommitInsert(u)) /\ WF_vars(BroadcastCall(u))
    /\ \A c \in Clients : /\ WF_vars(ReplayStep(c))
                         /\ WF_vars(WriteFrame(c))
                         /\ WF_vars(CloseConn(c))

FairSpec == Spec /\ Fairness

-----------------------------------------------------------------------------
(* Properties *)

Queued(c) == {id \in Ids : \E i \in DOMAIN queue[c] : queue[c][i] = Call(id)}
Accounted(c, id) == id \in got[c] \cup Queued(c) \cup replay[c] \/ BroadcastPending(id)

\* Registering before listing leaves no gap between replay and live traffic
\* (hub.go handleWebSocket, calls.go replayMissedCalls): once a complete listing
\* was taken, every stored call above the cursor has been received, is queued,
\* waits in the page, or has its broadcast still to come.
NoReplayLiveGap ==
    \A c \in Clients :
        phase[c] \in {"replaying", "live"} /\ listed[c]
            => \A id \in Above(since[c]) : Accounted(c, id)

\* replay_complete reaches the client after every call of the page it closes
\* (calls.go replayMissedCalls: "sent once after ... replay finishes").
SentinelClosesPage ==
    \A c \in Clients : synced[c] => page[c] \subseteq got[c]

\* A page is the oldest missed calls: the client's cursor never jumps over a
\* row that the listing saw and left out (calls.go ListCallsSince ORDER BY ASC).
PageIsPrefix ==
    \A c \in Clients : \A m, n \in rows :
        m \in page[c] /\ n > since[c] /\ n < m /\ n \notin page[c]
            => BroadcastPending(n) \/ n \in got[c] \cup Queued(c) \/ ~Registered(c)

\* hub.go, calls.go: a reconnecting client can rely on its replay, wherever the
\* registration, the listing, the page and the live frames of other uploads fall.
ReplaySound == NoReplayLiveGap /\ SentinelClosesPage /\ PageIsPrefix

\* A stored call reaches every client that stays connected until its broadcast
\* (hub.go writeLoop): it is received unless the connection ends first.
BroadcastReachesClient ==
    \A c \in Clients, id \in Ids :
        (BroadcastPending(id) /\ Registered(c)) ~> (id \in got[c] \/ phase[c] = "off")

\* What a client that reconnected with its cursor and is live again has received,
\* or has on its way: every call broadcast after it had a cursor.
CaughtUp(c) == \A id \in due[c] : Accounted(c, id)

\* hub.go:15-17 "A dropped client reconnects and replays missed calls via
\* ?since=, so no traffic is silently lost".
NoTrafficLost ==
    \A c \in Clients : phase[c] = "live" /\ since[c] > 0 => CaughtUp(c)

\* That promise is kept unless calls were stored or broadcast out of id order, or
\* a replay listing failed or was cut at its limit (hub.go enqueueLocked, calls.go
\* replayMissedCalls): whatever connections and server restarts come in between.
NothingElseLosesTraffic ==
    \A c \in Clients :
        phase[c] = "live" /\ since[c] > 0 /\ ~reordered /\ ~cut[c] => CaughtUp(c)
=============================================================================
