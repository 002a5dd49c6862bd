----------------------- MODULE FeedAndIncidents_proofs -----------------------
(***************************************************************************)
(* Proofs about two components that share neither a variable nor a name.    *)
(*                                                                          *)
(* Part 1, LiveFeed: a replay leaves no gap, and nothing but what the feed  *)
(* names loses traffic, for every set of uploaders and clients, every size  *)
(* of the send queue and the page, and every bound.                         *)
(*                                                                          *)
(* Part 2, Incidents: whatever statements of requests, the bot and the      *)
(* purge come in between, for every set of incidents and requests and every *)
(* bound, the parts of an incident agree when nothing is at work on it,     *)
(* nothing of an internal one leaves the hub, and the purge keeps the       *)
(* retention.                                                               *)
(***************************************************************************)
EXTENDS LiveFeed, Incidents, FiniteSetTheorems, TLAPS

-----------------------------------------------------------------------------
(* Part 1: the live feed. Uploads and rows.                                 *)

\* Ids are given out once: a request's call is its own, and is a row from its commit on.
Uploaded ==
    /\ \A n \in rows : n < nextId
    /\ \A u \in Uploaders : upload[u] # "idle" =>
          /\ callId[u] \in Ids /\ callId[u] < nextId
          /\ upload[u] = "stored" <=> callId[u] \in rows
    /\ \A u, v \in Uploaders :
          upload[u] # "idle" /\ upload[v] # "idle" /\ callId[u] = callId[v] => u = v

\* The broadcast of a call comes after that of a younger one.
Late(id) == \E n \in rows : n > id /\ ~BroadcastPending(n)

\* The calls a client has been sent since it has a cursor, and those it will be sent in order.
Expected(c) == due[c] \cup {id \in rows : BroadcastPending(id) /\ ~Late(id)}

-----------------------------------------------------------------------------
(* What a client has been told, up to a place in its send queue.            *)

Told(c, i) == got[c] \cup {id \in Ids : \E j \in 1..i : queue[c][j] = Call(id)}
Complete(c, i) == synced[c] \/ \E j \in 1..i : queue[c][j] = ReplayComplete
SentinelSent(c) == Complete(c, Len(queue[c]))

\* All it has on its way.
InStore(c) == Told(c, Len(queue[c])) \cup replay[c]

\* Clients know of rows only, and their cursor is a call they have.
Known(c) ==
    /\ InStore(c) \cup page[c] \cup due[c] \subseteq rows
    /\ replay[c] \subseteq page[c]
    /\ cursor[c] \in got[c] \cup {0}
    /\ got[c] = {} \/ \E m \in got[c] : \A n \in got[c] : n <= m
    /\ synced[c] => cursor[c] = Newest(got[c])

\* How far a connection is, and what follows for its replay.
Course(c) ==
    /\ phase[c] = "off" => queue[c] = <<>>
    /\ phase[c] \in {"registered", "replaying"} =>
          ~SentinelSent(c) /\ cursor[c] = since[c]
    /\ phase[c] = "registered" => page[c] = {} /\ replay[c] = {}
    /\ phase[c] = "replaying" => page[c] \subseteq InStore(c)
    /\ phase[c] = "live" => replay[c] = {}
    /\ since[c] = 0 => page[c] = {} /\ replay[c] = {}

\* Before it has a cursor, a client has no call whose broadcast is still to come.
Fresh(c) ==
    cursor[c] = 0 =>
       /\ due[c] = {} /\ since[c] = 0
       /\ \A id \in InStore(c) : ~BroadcastPending(id)

\* The sentinel follows the page.
PageFirst(c) == \A i \in 0..Len(queue[c]) : Complete(c, i) => page[c] \subseteq Told(c, i)

\* S leaves no expected call out that is older than one in S.
Gapless(c, S) == \A m \in Expected(c), n \in S : m < n => m \in S

\* A client that was told everything so far has no gap, wherever its writer stops; the
\* replay is to bring a client there, and the cursor stands for it between connections.
InOrder(c) ==
    ~reordered /\ ~cut[c] =>
       /\ \A id \in Expected(c) : id <= cursor[c] => id \in got[c]
       /\ \A i \in 0..Len(queue[c]) : Complete(c, i) => Gapless(c, Told(c, i))
       /\ phase[c] \in {"replaying", "live"} =>
             due[c] \subseteq InStore(c) /\ Gapless(c, InStore(c))

\* ReplaySound of one client.
GapFree(c) ==
    phase[c] \in {"replaying", "live"} /\ listed[c] =>
       \A id \in Above(since[c]) : BroadcastPending(id) \/ id \in InStore(c)
Prefixed(c) ==
    Registered(c) =>
       \A m \in page[c], n \in rows :
          n > since[c] /\ n < m => n \in page[c] \/ BroadcastPending(n) \/ n \in InStore(c)
Followed(c) == GapFree(c) /\ Prefixed(c)

ClientInv(c) == Known(c) /\ Course(c) /\ Fresh(c) /\ PageFirst(c) /\ InOrder(c) /\ Followed(c)

IInv == TypeOK /\ Uploaded /\ \A c \in Clients : ClientInv(c)

-----------------------------------------------------------------------------
(* Data.                                                                    *)

LEMMA FramesDiffer ==
  /\ HeartbeatEvent \in Frames /\ ReplayComplete \in Frames
  /\ \A id \in Ids : Call(id) \in Frames
  /\ HeartbeatEvent # ReplayComplete
  /\ \A id : Call(id) # HeartbeatEvent /\ Call(id) # ReplayComplete
  /\ \A m, n : Call(m) = Call(n) => m = n
  BY DEF Frames, Call, HeartbeatEvent, ReplayComplete

\* Newest is the largest element, or 0.
LEMMA NewestOf ==
  ASSUME NEW S \in SUBSET Ids, S = {} \/ \E m \in S : \A n \in S : n <= m
  PROVE  /\ Newest(S) \in S \cup {0} /\ Newest(S) \in 0..MaxCalls
         /\ \A n \in S : n <= Newest(S)
         /\ S # {} => Newest(S) # 0
<1>1. CASE S = {}
  BY <1>1, LiveFeedAssumption DEF Newest
<1>2. CASE S # {}
  <2>1. Newest(S) \in S /\ \A n \in S : n <= Newest(S)
    BY <1>2 DEF Newest
  <2>2. Newest(S) \in 1..MaxCalls
    BY <2>1 DEF Ids
  <2>3. Newest(S) \in 0..MaxCalls /\ Newest(S) # 0
    BY <2>2, LiveFeedAssumption
  <2> QED BY <2>1, <2>3
<1> QED BY <1>1, <1>2

LEMMA QueueTyped ==
  ASSUME TypeOK, NEW c \in Clients
  PROVE  /\ queue[c] \in Seq(Frames) /\ Len(queue[c]) \in Nat
         /\ DOMAIN queue[c] = 1..Len(queue[c])
         /\ got[c] \subseteq Ids /\ replay[c] \subseteq Ids
         /\ Told(c, Len(queue[c])) = got[c] \cup Queued(c)
         /\ Told(c, Len(queue[c])) \subseteq Ids
         /\ InStore(c) = got[c] \cup Queued(c) \cup replay[c]
         /\ InStore(c) \subseteq Ids
<1>1. /\ queue[c] \in Seq(Frames) /\ got[c] \subseteq Ids /\ replay[c] \subseteq Ids
  BY DEF TypeOK
<1>2. Len(queue[c]) \in Nat /\ DOMAIN queue[c] = 1..Len(queue[c])
  BY <1>1
<1>3. Told(c, Len(queue[c])) = got[c] \cup Queued(c)
  BY <1>2 DEF Told, Queued
<1>4. Told(c, Len(queue[c])) \subseteq Ids
  BY <1>1 DEF Told
<1> QED BY <1>1, <1>2, <1>3, <1>4 DEF InStore

\* What is told only grows along the queue.
LEMMA ToldGrows ==
  ASSUME NEW c, NEW n \in Nat, NEW i \in 0..n
  PROVE  /\ got[c] \subseteq Told(c, i) /\ Told(c, i) \subseteq Told(c, n)
         /\ Told(c, 0) = got[c] /\ Complete(c, 0) = (synced[c] \/ FALSE)
         /\ Complete(c, i) => Complete(c, n)
<1>1. \A j : j \in 1..i => j \in 1..n
  OBVIOUS
<1>2. 1..0 = {}
  OBVIOUS
<1> QED BY <1>1, <1>2 DEF Told, Complete

-----------------------------------------------------------------------------
(* What a step does to a send queue.                                        *)

LEMMA Appended ==
  ASSUME NEW c, NEW n \in Nat, NEW frame, queue[c] \in Seq(Frames), frame \in Frames,
         Len(queue[c]) = n, queue'[c] = Append(queue[c], frame),
         got'[c] = got[c], synced'[c] = synced[c]
  PROVE  /\ Len(queue'[c]) = n + 1
         /\ \A i \in 0..n : Told(c, i)' = Told(c, i) /\ (Complete(c, i)' <=> Complete(c, i))
         /\ Told(c, n + 1)' = Told(c, n) \cup {id \in Ids : frame = Call(id)}
         /\ Complete(c, n + 1)' <=> Complete(c, n) \/ frame = ReplayComplete
<1>1. /\ Len(queue'[c]) = n + 1 /\ queue'[c][n + 1] = frame
      /\ \A j \in 1..n : queue'[c][j] = queue[c][j]
  OBVIOUS
<1>2. \A i \in 0..n : \A j : j \in 1..i => j \in 1..n
  OBVIOUS
<1>3. \A j : j \in 1..(n + 1) <=> j \in 1..n \/ j = n + 1
  OBVIOUS
<1>4. ASSUME NEW i \in 0..n
      PROVE  Told(c, i)' = Told(c, i) /\ (Complete(c, i)' <=> Complete(c, i))
  BY <1>1, <1>2 DEF Told, Complete
<1>5. \A id : (\E j \in 1..(n + 1) : queue'[c][j] = id) <=> (\E j \in 1..n : queue[c][j] = id) \/ id = frame
  BY <1>1, <1>3
<1>6. Told(c, n + 1)' = Told(c, n) \cup {id \in Ids : frame = Call(id)}
  BY <1>5 DEF Told
<1>7. Complete(c, n + 1)' <=> Complete(c, n) \/ frame = ReplayComplete
  BY <1>5 DEF Complete
<1> QED BY <1>1, <1>4, <1>6, <1>7

LEMMA Popped ==
  ASSUME NEW c, NEW n \in Nat, queue[c] \in Seq(Frames), queue[c] # <<>>,
         Len(queue[c]) = n, queue'[c] = Tail(queue[c]),
         got'[c] = got[c] \cup {id \in Ids : Head(queue[c]) = Call(id)},
         synced'[c] <=> synced[c] \/ Head(queue[c]) = ReplayComplete
  PROVE  /\ n >= 1 /\ Len(queue'[c]) = n - 1
         /\ \A i \in 0..(n - 1) :
               Told(c, i)' = Told(c, i + 1) /\ (Complete(c, i)' <=> Complete(c, i + 1))
<1>1. /\ n >= 1 /\ Len(queue'[c]) = n - 1 /\ Head(queue[c]) = queue[c][1]
      /\ \A j \in 1..(n - 1) : queue'[c][j] = queue[c][j + 1]
  OBVIOUS
<1>2. ASSUME NEW i \in 0..(n - 1)
      PROVE  Told(c, i)' = Told(c, i + 1) /\ (Complete(c, i)' <=> Complete(c, i + 1))
  <2>1. \A f : (\E j \in 1..(i + 1) : queue[c][j] = f)
                 <=> Head(queue[c]) = f \/ \E j \in 1..i : queue'[c][j] = f
    <3> SUFFICES ASSUME NEW f
                 PROVE  (\E j \in 1..(i + 1) : queue[c][j] = f)
                          <=> Head(queue[c]) = f \/ \E j \in 1..i : queue'[c][j] = f
      OBVIOUS
    <3>1. ASSUME NEW j \in 1..(i + 1), queue[c][j] = f
          PROVE  Head(queue[c]) = f \/ \E k \in 1..i : queue'[c][k] = f
      <4>1. CASE j = 1
        BY <1>1, <3>1, <4>1
      <4>2. CASE j # 1
        <5>1. j - 1 \in 1..i /\ j - 1 \in 1..(n - 1) /\ (j - 1) + 1 = j
          BY <4>2
        <5> QED BY <1>1, <3>1, <5>1
      <4> QED BY <4>1, <4>2
    <3>2. ASSUME NEW k \in 1..i, queue'[c][k] = f PROVE \E j \in 1..(i + 1) : queue[c][j] = f
      <4>1. k + 1 \in 1..(i + 1) /\ k \in 1..(n - 1)
        OBVIOUS
      <4> QED BY <1>1, <3>2, <4>1
    <3>3. ASSUME Head(queue[c]) = f PROVE \E j \in 1..(i + 1) : queue[c][j] = f
      <4>1. 1 \in 1..(i + 1)
        OBVIOUS
      <4> QED BY <1>1, <3>3, <4>1
    <3> QED BY <3>1, <3>2, <3>3
  <2>2. Told(c, i)' = Told(c, i + 1)
    <3>1. \A id \in Ids : (\E j \in 1..(i + 1) : queue[c][j] = Call(id))
                 <=> Head(queue[c]) = Call(id) \/ \E j \in 1..i : queue'[c][j] = Call(id)
      BY <2>1
    <3>2. Told(c, i)' = got'[c] \cup {id \in Ids : \E j \in 1..i : queue'[c][j] = Call(id)}
      BY DEF Told
    <3>3. Told(c, i + 1) = got[c] \cup {id \in Ids : \E j \in 1..(i + 1) : queue[c][j] = Call(id)}
      BY DEF Told
    <3> HIDE DEF Told
    <3> QED BY <3>1, <3>2, <3>3
  <2>3. Complete(c, i)' <=> Complete(c, i + 1)
    BY <2>1 DEF Complete
  <2> QED BY <2>2, <2>3
<1> QED BY <1>1, <1>2

LEMMA Unmoved ==
  ASSUME NEW c, queue'[c] = queue[c], got'[c] = got[c], synced'[c] = synced[c]
  PROVE  /\ \A i : Told(c, i)' = Told(c, i) /\ (Complete(c, i)' <=> Complete(c, i))
         /\ Len(queue'[c]) = Len(queue[c])
  BY DEF Told, Complete

\* The non-blocking enqueue: a client gets the frame, or is removed, or is not in the hub.
LEMMA Enqueued ==
  ASSUME TypeOK, NEW S, NEW frame \in Frames, Enqueue(S, frame)
  PROVE  /\ phase' \in [Clients -> {"off", "registered", "replaying", "live", "closing"}]
         /\ queue' \in [Clients -> Seq(Frames)]
         /\ \A c \in Clients : Len(queue'[c]) <= SendBuffer
         /\ \A c \in Clients :
              \/ /\ c \in S /\ Registered(c)
                 /\ phase'[c] = phase[c] /\ queue'[c] = Append(queue[c], frame)
              \/ /\ c \in S /\ Registered(c)
                 /\ phase'[c] = "closing" /\ queue'[c] = queue[c]
              \/ /\ ~(c \in S /\ Registered(c))
                 /\ phase'[c] = phase[c] /\ queue'[c] = queue[c]
<1>1. \A c \in Clients : queue[c] \in Seq(Frames) /\ Len(queue[c]) \in Nat /\ Len(queue[c]) <= SendBuffer
  BY QueueTyped DEF TypeOK
<1>2. \A c \in Clients : Append(queue[c], frame) \in Seq(Frames)
                         /\ Len(Append(queue[c], frame)) = Len(queue[c]) + 1
  BY <1>1
<1>3. \A c \in Clients : phase'[c] = IF c \in S /\ Registered(c) /\ Removed(c) THEN "closing" ELSE phase[c]
  BY DEF Enqueue
<1>4. \A c \in Clients : queue'[c] = IF c \in S /\ Registered(c) /\ ~Full(c) THEN Append(queue[c], frame) ELSE queue[c]
  BY DEF Enqueue
<1>5. phase' \in [Clients -> {"off", "registered", "replaying", "live", "closing"}]
  BY DEF Enqueue, TypeOK
<1>6. queue' \in [Clients -> Seq(Frames)]
  BY <1>1, <1>2 DEF Enqueue
<1>7. \A c \in Clients : Len(queue'[c]) <= SendBuffer
  <2> SUFFICES ASSUME NEW c \in Clients PROVE Len(queue'[c]) <= SendBuffer
    OBVIOUS
  <2>1. CASE Full(c)
    BY <1>1, <1>4, <2>1
  <2>2. CASE ~Full(c)
    <3>1. Len(queue[c]) + 1 <= SendBuffer
      BY <1>1, <2>2, LiveFeedAssumption DEF Full
    <3>2. queue'[c] = queue[c] \/ queue'[c] = Append(queue[c], frame)
      BY <1>4
    <3> QED BY <1>1, <1>2, <3>1, <3>2
  <2> QED BY <2>1, <2>2
<1>8. \A c \in Clients : Removed(c) = Full(c)
  BY DEF Removed
<1> QED BY <1>3, <1>4, <1>5, <1>6, <1>7, <1>8

-----------------------------------------------------------------------------
(* Types, uploads and rows.                                                 *)

\* What a client has received has a newest call, which its cursor may become.
LEMMA Received ==
  ASSUME TypeOK, NEW c \in Clients, ClientInv(c), queue[c] # <<>>,
         NEW S, S = got[c] \cup {id \in Ids : Head(queue[c]) = Call(id)}
  PROVE  /\ S \subseteq Ids /\ (S = {} \/ \E m \in S : \A n \in S : n <= m)
         /\ Newest(S) \in S \cup {0} /\ Newest(S) \in 0..MaxCalls
         /\ \A n \in S : n <= Newest(S)
         /\ S # {} => Newest(S) # 0
<1>1. S \subseteq Ids
  BY QueueTyped
<1>2. S = {} \/ \E m \in S : \A n \in S : n <= m
  <2>1. got[c] = {} \/ \E m \in got[c] : \A n \in got[c] : n <= m
    BY DEF ClientInv, Known
  <2>2. CASE \E id \in Ids : Head(queue[c]) = Call(id)
    <3>1. PICK id \in Ids : Head(queue[c]) = Call(id)
      BY <2>2
    <3>2. S = got[c] \cup {id}
      BY <3>1, FramesDiffer
    <3>3. CASE got[c] = {}
      BY <3>2, <3>3 DEF Ids
    <3>4. CASE \E m \in got[c] : \A n \in got[c] : n <= m
      <4>1. PICK m \in got[c] : \A n \in got[c] : n <= m
        BY <3>4
      <4>2. m \in Nat /\ id \in Nat /\ \A n \in got[c] : n \in Nat
        BY <1>1, <3>2 DEF Ids
      <4>3. CASE m <= id
        <5>1. \A n \in S : n <= id
          BY <3>2, <4>1, <4>2, <4>3
        <5> QED BY <3>2, <5>1
      <4>4. CASE id <= m
        BY <3>2, <4>1, <4>4
      <4> QED BY <4>2, <4>3, <4>4
    <3> QED BY <2>1, <3>3, <3>4
  <2>3. CASE ~\E id \in Ids : Head(queue[c]) = Call(id)
    BY <2>1, <2>3
  <2> QED BY <2>2, <2>3
<1> QED BY <1>1, <1>2, NewestOf

LEMMA TypeStep == IInv /\ [Next]_vars => TypeOK'
<1> SUFFICES ASSUME IInv, [Next]_vars PROVE TypeOK'
  OBVIOUS
<1> USE LiveFeedAssumption DEF Ids
<1>1. TypeOK
  BY DEF IInv
<1>2. CASE UNCHANGED vars
  BY <1>1, <1>2 DEF TypeOK, vars, db, server, connection, client, history
<1>3. ASSUME NEW u \in Uploaders, BeginInsert(u) PROVE TypeOK'
  BY <1>1, <1>3 DEF TypeOK, BeginInsert, connection, client, history
<1>4. ASSUME NEW u \in Uploaders, CommitInsert(u) PROVE TypeOK'
  <2>1. callId[u] \in 1..MaxCalls
    BY <1>4 DEF IInv, Uploaded, CommitInsert
  <2> QED BY <1>1, <1>4, <2>1 DEF TypeOK, CommitInsert, connection, client
<1>5. ASSUME NEW u \in Uploaders, BroadcastCall(u) PROVE TypeOK'
  <2>1. callId[u] \in 1..MaxCalls
    BY <1>5 DEF IInv, Uploaded, BroadcastCall
  <2>2. Call(callId[u]) \in Frames
    BY <2>1, FramesDiffer
  <2>3. Enqueue(Clients, Call(callId[u]))
    BY <1>5 DEF BroadcastCall
  <2>4. /\ phase' \in [Clients -> {"off", "registered", "replaying", "live", "closing"}]
        /\ queue' \in [Clients -> Seq(Frames)]
        /\ \A c \in Clients : Len(queue'[c]) <= SendBuffer
    BY <1>1, <2>2, <2>3, Enqueued
  <2>5. due' \in [Clients -> SUBSET (1..MaxCalls)]
    BY <1>1, <1>5, <2>1 DEF TypeOK, BroadcastCall
  <2>6. /\ upload' \in [Uploaders -> {"idle", "inserting", "stored"}]
        /\ callId' \in [Uploaders -> 0..MaxCalls] /\ reordered' \in BOOLEAN
    BY <1>1, <1>5 DEF TypeOK, BroadcastCall
  <2> QED BY <1>1, <1>5, <2>4, <2>5, <2>6 DEF TypeOK, BroadcastCall, db, client
<1>6. CASE Heartbeat
  <2>1. /\ phase' \in [Clients -> {"off", "registered", "replaying", "live", "closing"}]
        /\ queue' \in [Clients -> Seq(Frames)]
        /\ \A c \in Clients : Len(queue'[c]) <= SendBuffer
    BY <1>1, <1>6, FramesDiffer, Enqueued DEF Heartbeat
  <2> QED BY <1>1, <1>6, <2>1 DEF TypeOK, Heartbeat, db, server, client, history
<1>7. ASSUME NEW c \in Clients, Connect(c) PROVE TypeOK'
  BY <1>1, <1>7 DEF TypeOK, Connect, db, server, history
<1>8. ASSUME NEW c \in Clients, ReplayList(c) PROVE TypeOK'
  <2>1. PICK result : /\ result = {} \/ result = ListCallsSince(since[c])
                      /\ replay' = [replay EXCEPT ![c] = result]
                      /\ page' = [page EXCEPT ![c] = result]
    BY <1>8 DEF ReplayList
  <2>2. result \subseteq 1..MaxCalls
    BY <1>1, <2>1 DEF ListCallsSince, Above, TypeOK
  <2>3. listed' \in [Clients -> BOOLEAN] /\ cut' \in [Clients -> BOOLEAN]
    BY <1>1, <1>8 DEF TypeOK, ReplayList
  <2>4. replay' \in [Clients -> SUBSET (1..MaxCalls)] /\ page' \in [Clients -> SUBSET (1..MaxCalls)]
    BY <1>1, <2>1, <2>2 DEF TypeOK
  <2>5. phase' \in [Clients -> {"off", "registered", "replaying", "live", "closing"}]
    BY <1>1, <1>8 DEF TypeOK, ReplayList
  <2> QED BY <1>1, <1>8, <2>3, <2>4, <2>5 DEF TypeOK, ReplayList, db, server, client
<1>9. ASSUME NEW c \in Clients, ReplayEnqueue(c) PROVE TypeOK'
  <2>1. PICK id \in replay[c] :
          Enqueue({c}, Call(id)) /\ replay' = [replay EXCEPT ![c] = @ \ {id}]
    BY <1>9 DEF ReplayEnqueue
  <2>2. Call(id) \in Frames
    BY <1>1, <2>1, QueueTyped, FramesDiffer
  <2>3. /\ phase' \in [Clients -> {"off", "registered", "replaying", "live", "closing"}]
        /\ queue' \in [Clients -> Seq(Frames)]
        /\ \A d \in Clients : Len(queue'[d]) <= SendBuffer
    BY <1>1, <2>1, <2>2, Enqueued
  <2>4. replay' \in [Clients -> SUBSET (1..MaxCalls)]
    BY <1>1, <2>1 DEF TypeOK
  <2> QED BY <1>1, <1>9, <2>3, <2>4 DEF TypeOK, ReplayEnqueue, db, server, client, history
<1>10. ASSUME NEW c \in Clients, ReplayFinish(c) PROVE TypeOK'
  <2>1. /\ queue[c] \in Seq(Frames) /\ Len(queue[c]) \in Nat
        /\ Append(queue[c], ReplayComplete) \in Seq(Frames)
        /\ Len(Append(queue[c], ReplayComplete)) = Len(queue[c]) + 1
    BY <1>1, QueueTyped, FramesDiffer
  <2>2. queue' = [queue EXCEPT ![c] = IF Full(c) THEN queue[c] ELSE Append(queue[c], ReplayComplete)]
    BY <1>10 DEF ReplayFinish
  <2>3. queue' \in [Clients -> Seq(Frames)]
    BY <1>1, <2>1, <2>2 DEF TypeOK
  <2>4. Len(queue'[c]) <= SendBuffer
    <3>1. CASE Full(c)
      BY <1>1, <2>2, <3>1 DEF TypeOK
    <3>2. CASE ~Full(c)
      <4>1. Len(queue[c]) + 1 <= SendBuffer
        BY <2>1, <3>2 DEF Full
      <4> QED BY <1>1, <2>1, <2>2, <3>2, <4>1 DEF TypeOK
    <3> QED BY <3>1, <3>2
  <2>5. \A d \in Clients : Len(queue'[d]) <= SendBuffer
    BY <1>1, <2>2, <2>4 DEF TypeOK
  <2>6. phase' \in [Clients -> {"off", "registered", "replaying", "live", "closing"}]
    BY <1>1, <1>10 DEF TypeOK, ReplayFinish
  <2> QED BY <1>1, <1>10, <2>3, <2>5, <2>6 DEF TypeOK, ReplayFinish, db, server, client, history
<1>11. ASSUME NEW c \in Clients, WriteFrame(c) PROVE TypeOK'
  <2> DEFINE S == got[c] \cup {id \in Ids : Head(queue[c]) = Call(id)}
  <2>1. queue[c] # <<>> /\ ClientInv(c)
    BY <1>11 DEF WriteFrame, IInv
  <2>2. S \subseteq 1..MaxCalls /\ Newest(S) \in 0..MaxCalls
    BY <1>1, <2>1, Received
  <2>3. PICK complete \in BOOLEAN :
          /\ got' = [got EXCEPT ![c] = S] /\ synced' = [synced EXCEPT ![c] = complete]
          /\ cursor' = [cursor EXCEPT ![c] = NextCursor(c, S, complete)]
    BY <1>1, <1>11 DEF WriteFrame, TypeOK
  <2> HIDE DEF S
  <2>4. NextCursor(c, S, complete) \in 0..MaxCalls
    BY <1>1, <2>2 DEF NextCursor, TypeOK
  <2>5. /\ got' \in [Clients -> SUBSET (1..MaxCalls)] /\ synced' \in [Clients -> BOOLEAN]
        /\ cursor' \in [Clients -> 0..MaxCalls]
    BY <1>1, <2>2, <2>3, <2>4 DEF TypeOK
  <2>6. queue[c] \in Seq(Frames) /\ Len(queue[c]) \in Nat /\ Len(queue[c]) <= SendBuffer
    BY <1>1, QueueTyped DEF TypeOK
  <2>7. Tail(queue[c]) \in Seq(Frames) /\ Len(Tail(queue[c])) <= SendBuffer
    BY <2>1, <2>6
  <2>8. queue' = [queue EXCEPT ![c] = Tail(queue[c])]
    BY <1>11 DEF WriteFrame
  <2>9. queue' \in [Clients -> Seq(Frames)] /\ \A d \in Clients : Len(queue'[d]) <= SendBuffer
    BY <1>1, <2>7, <2>8 DEF TypeOK
  <2> QED BY <1>1, <1>11, <2>5, <2>9 DEF TypeOK, WriteFrame, db, server, history
<1>12. ASSUME NEW c \in Clients, CloseConn(c) PROVE TypeOK'
  BY <1>1, <1>12 DEF TypeOK, CloseConn, db, server, client, history
<1>13. ASSUME NEW c \in Clients, Disconnect(c) PROVE TypeOK'
  BY <1>1, <1>13 DEF TypeOK, Disconnect, db, server, client, history
<1>14. CASE Restart
  BY <1>1, <1>14 DEF TypeOK, Restart, db, client, history
<1> QED BY <1>2, <1>3, <1>4, <1>5, <1>6, <1>7, <1>8, <1>9, <1>10, <1>11, <1>12, <1>13, <1>14
        DEF Next, UploadStep, ReplayStep

LEMMA UploadedStep == IInv /\ [Next]_vars => Uploaded'
<1> SUFFICES ASSUME IInv, [Next]_vars PROVE Uploaded'
  OBVIOUS
<1>1. TypeOK /\ Uploaded
  BY DEF IInv
<1>2. CASE UNCHANGED <<db, server>>
  BY <1>1, <1>2 DEF Uploaded, db, server
<1>3. ASSUME NEW u \in Uploaders, BeginInsert(u) PROVE Uploaded'
  <2>1. /\ upload' = [upload EXCEPT ![u] = "inserting"] /\ callId' = [callId EXCEPT ![u] = nextId]
        /\ nextId' = nextId + 1 /\ rows' = rows /\ nextId \in Ids /\ nextId \notin rows
    BY <1>1, <1>3, LiveFeedAssumption DEF BeginInsert, TypeOK, Ids, Uploaded
  <2>2. \A n \in rows' : n < nextId'
    BY <1>1, <2>1 DEF TypeOK, Uploaded, Ids
  <2>3. ASSUME NEW v \in Uploaders, upload'[v] # "idle"
        PROVE  callId'[v] \in Ids /\ callId'[v] < nextId'
               /\ (upload'[v] = "stored" <=> callId'[v] \in rows')
    <3>1. CASE v = u
      BY <1>1, <2>1, <3>1 DEF TypeOK, Ids
    <3>2. CASE v # u
      BY <1>1, <2>1, <2>3, <3>2 DEF TypeOK, Uploaded, Ids
    <3> QED BY <3>1, <3>2
  <2>4. ASSUME NEW v \in Uploaders, NEW w \in Uploaders, upload'[v] # "idle", upload'[w] # "idle",
               callId'[v] = callId'[w]
        PROVE  v = w
    <3>1. \A x \in Uploaders \ {u} : upload'[x] = upload[x] /\ callId'[x] = callId[x]
      BY <1>1, <2>1 DEF TypeOK
    <3>2. callId'[u] = nextId
      BY <1>1, <2>1 DEF TypeOK
    <3>3. \A x \in Uploaders \ {u} : upload[x] # "idle" => callId[x] # nextId
      BY <1>1 DEF Uploaded, TypeOK, Ids
    <3>4. CASE v # u /\ w # u
      BY <1>1, <2>4, <3>1, <3>4 DEF Uploaded
    <3> QED BY <2>4, <3>1, <3>2, <3>3, <3>4
  <2> QED BY <2>2, <2>3, <2>4 DEF Uploaded
<1>4. ASSUME NEW u \in Uploaders, CommitInsert(u) PROVE Uploaded'
  BY <1>1, <1>4 DEF Uploaded, CommitInsert, TypeOK
<1>5. ASSUME NEW u \in Uploaders, BroadcastCall(u) PROVE Uploaded'
  BY <1>1, <1>5 DEF Uploaded, BroadcastCall, TypeOK, db
<1>6. CASE Restart
  BY <1>1, <1>6 DEF Uploaded, Restart, db
<1>7. CASE Heartbeat \/ \E c \in Clients : Connect(c) \/ ReplayStep(c) \/ WriteFrame(c)
                                           \/ CloseConn(c) \/ Disconnect(c)
  BY <1>2, <1>7 DEF Heartbeat, Connect, ReplayStep, ReplayList, ReplayEnqueue, ReplayFinish,
                    WriteFrame, CloseConn, Disconnect
<1>8. CASE UNCHANGED vars
  BY <1>2, <1>8 DEF vars
<1> QED BY <1>3, <1>4, <1>5, <1>6, <1>7, <1>8 DEF Next, UploadStep

-----------------------------------------------------------------------------
(* What a step means to one client.                                         *)

\* Steps of clients: no row, no upload moves.
LEMMA WorldSame ==
  ASSUME UNCHANGED <<rows, upload, callId>>
  PROVE  /\ \A id : BroadcastPending(id)' <=> BroadcastPending(id)
         /\ \A id : Late(id)' <=> Late(id)
         /\ \A n : Above(n)' = Above(n)
         /\ \A c : due'[c] = due[c] => Expected(c)' = Expected(c)
<1>1. \A id : BroadcastPending(id)' <=> BroadcastPending(id)
  BY DEF BroadcastPending
<1>2. \A id : Late(id)' <=> Late(id)
  BY <1>1 DEF Late
<1> QED BY <1>1, <1>2 DEF Above, Expected

\* The client's own state but for its phase.
KeepsOwn(c) ==
    /\ since'[c] = since[c] /\ replay'[c] = replay[c] /\ page'[c] = page[c]
    /\ listed'[c] = listed[c] /\ queue'[c] = queue[c] /\ got'[c] = got[c]
    /\ synced'[c] = synced[c] /\ cursor'[c] = cursor[c] /\ cut'[c] = cut[c]

\* A client that a step of somebody else does not reach, or that is removed by it.
LEMMA Untouched ==
  ASSUME TypeOK, TypeOK', NEW c \in Clients, ClientInv(c), KeepsOwn(c),
         phase'[c] = phase[c] \/ phase'[c] = "closing",
         rows \subseteq rows', reordered => reordered',
         \A id \in rows : BroadcastPending(id)' => BroadcastPending(id),
         \A id \in rows' \ rows : BroadcastPending(id)',
         Registered(c)' => \A id \in rows : BroadcastPending(id) => BroadcastPending(id)',
         due'[c] \subseteq rows', cursor[c] = 0 => due'[c] = {},
         phase'[c] \in {"replaying", "live"} => due'[c] \subseteq due[c],
         ~reordered' => \A m \in Expected(c)' : m \in Expected(c) \/ \A n \in rows : n < m
  PROVE  ClientInv(c)'
<1>1. /\ \A i : Told(c, i)' = Told(c, i) /\ (Complete(c, i)' <=> Complete(c, i))
      /\ Len(queue'[c]) = Len(queue[c])
  BY Unmoved DEF KeepsOwn
<1>2. InStore(c)' = InStore(c)
  BY DEF InStore, Told, KeepsOwn
<1>3. Known(c)'
  BY <1>2 DEF ClientInv, Known, KeepsOwn, Newest
<1>4. Course(c)'
  <2>1. Course(c)
    BY DEF ClientInv
  <2>2. SentinelSent(c)' <=> SentinelSent(c)
    BY DEF SentinelSent, Complete, KeepsOwn
  <2> QED BY <1>2, <2>1, <2>2 DEF Course, KeepsOwn
<1>5. Fresh(c)'
  BY <1>2 DEF ClientInv, Known, Fresh, KeepsOwn
<1>6. PageFirst(c)'
  BY <1>1 DEF ClientInv, PageFirst, KeepsOwn
<1>7. InOrder(c)'
  <2> SUFFICES ASSUME ~reordered', ~cut'[c]
               PROVE  /\ \A m \in Expected(c)' : m <= cursor'[c] => m \in got'[c]
                      /\ \A i \in 0..Len(queue'[c]) : Complete(c, i)' => Gapless(c, Told(c, i))'
                      /\ phase'[c] \in {"replaying", "live"} =>
                           due'[c] \subseteq InStore(c)' /\ Gapless(c, InStore(c))'
    BY DEF InOrder
  <2>1. ~reordered /\ ~cut[c]
    BY DEF KeepsOwn
  <2>2. InOrder(c) /\ InStore(c) \subseteq rows /\ cursor[c] \in got[c] \cup {0}
        /\ got[c] \subseteq InStore(c) /\ rows \subseteq Ids
    BY DEF ClientInv, Known, InStore, Told, TypeOK
  <2>3. \A m \in Expected(c)' : m \in Expected(c) \/ \A n \in rows : n < m
    OBVIOUS
  <2>4. Expected(c)' \subseteq Ids
    BY DEF Expected, TypeOK
  <2>5. ASSUME NEW m \in Expected(c)', m <= cursor'[c] PROVE m \in got'[c]
    <3>1. cursor[c] \in rows \/ cursor[c] = 0
      BY <2>2
    <3>2. m \in Nat /\ m > 0 /\ m <= cursor[c]
      BY <2>4, <2>5 DEF Ids, KeepsOwn
    <3>3. m \in Expected(c)
      <4>1. CASE cursor[c] \in rows
        <5>1. cursor[c] \in Nat
          <6>1. cursor[c] \in Ids
            BY <2>2, <4>1
          <6> QED BY <6>1 DEF Ids
        <5>2. ~(cursor[c] < m)
          BY <3>2, <5>1
        <5> QED BY <2>3, <4>1, <5>2
      <4>2. CASE cursor[c] = 0
        BY <3>2, <4>2
      <4> QED BY <3>1, <4>1, <4>2
    <3> QED BY <2>1, <2>2, <3>2, <3>3 DEF InOrder, KeepsOwn
  <2>6. ASSUME NEW S, S \subseteq rows, Gapless(c, S)
        PROVE  \A m \in Expected(c)', n \in S : m < n => m \in S
    <3> SUFFICES ASSUME NEW m \in Expected(c)', NEW n \in S, m < n PROVE m \in S
      OBVIOUS
    <3>1. m \in Nat /\ n \in Nat /\ n \in rows
      BY <2>2, <2>4, <2>6 DEF Ids
    <3>2. m \in Expected(c)
      BY <2>3, <3>1
    <3> QED BY <2>6, <3>2 DEF Gapless
  <2>7. ASSUME NEW i \in 0..Len(queue[c]), Complete(c, i)'
        PROVE  Gapless(c, Told(c, i))'
    <3>1. Complete(c, i) /\ Told(c, i)' = Told(c, i)
      BY <1>1, <2>7
    <3>2. Told(c, i) \subseteq rows /\ Gapless(c, Told(c, i))
      <4>1. Told(c, i) \subseteq Told(c, Len(queue[c]))
        BY QueueTyped, ToldGrows
      <4> QED BY <2>1, <2>2, <3>1, <4>1 DEF InOrder, InStore
    <3> QED BY <2>6, <3>1, <3>2 DEF Gapless
  <2>8. ASSUME phase'[c] \in {"replaying", "live"}
        PROVE  due'[c] \subseteq InStore(c)' /\ Gapless(c, InStore(c))'
    <3>1. phase[c] \in {"replaying", "live"}
      BY <2>8
    <3>2. due[c] \subseteq InStore(c) /\ Gapless(c, InStore(c))
      BY <2>1, <2>2, <3>1 DEF InOrder
    <3> QED BY <1>2, <2>2, <2>6, <2>8, <3>2 DEF Gapless
  <2> QED BY <1>1, <2>5, <2>7, <2>8
<1>8. Followed(c)'
  <2>1. Followed(c)
    BY DEF ClientInv
  <2>2. GapFree(c)'
    BY <1>2, <2>1 DEF Followed, GapFree, Above, KeepsOwn, Registered
  <2>3. page[c] \subseteq rows /\ rows' \subseteq Ids
    BY DEF ClientInv, Known, TypeOK
  <2>4. Prefixed(c)'
    BY <1>2, <2>1, <2>3 DEF Followed, Prefixed, KeepsOwn, Registered
  <2> QED BY <2>2, <2>4 DEF Followed
<1> QED BY <1>3, <1>4, <1>5, <1>6, <1>7, <1>8 DEF ClientInv

\* A connected client that a broadcast reaches.
LEMMA ReceivesCall ==
  ASSUME TypeOK, TypeOK', NEW c \in Clients, ClientInv(c), Registered(c), NEW z \in rows,
         BroadcastPending(z), ~BroadcastPending(z)', rows' = rows,
         \A id \in rows \ {z} : BroadcastPending(id)' <=> BroadcastPending(id),
         queue'[c] = Append(queue[c], Call(z)), phase'[c] = phase[c],
         since'[c] = since[c], replay'[c] = replay[c], page'[c] = page[c], listed'[c] = listed[c],
         got'[c] = got[c], synced'[c] = synced[c], cursor'[c] = cursor[c], cut'[c] = cut[c],
         due'[c] = IF cursor[c] = 0 THEN {} ELSE due[c] \cup {z},
         ~reordered' => ~reordered /\ ~Late(z)
  PROVE  ClientInv(c)'
<1>1. PICK n \in Nat : n = Len(queue[c])
  BY QueueTyped
<1>2. rows \subseteq Ids /\ z \in Ids /\ z \in Nat /\ \A m \in rows : m \in Nat
  BY DEF TypeOK, Ids
<1>3. Call(z) \in Frames /\ {id \in Ids : Call(z) = Call(id)} = {z} /\ Call(z) # ReplayComplete
  BY <1>2, FramesDiffer
<1>4. /\ Len(queue'[c]) = n + 1
      /\ \A i \in 0..n : Told(c, i)' = Told(c, i) /\ (Complete(c, i)' <=> Complete(c, i))
      /\ Told(c, n + 1)' = Told(c, n) \cup {z}
      /\ Complete(c, n + 1)' <=> Complete(c, n)
  <2>1. queue[c] \in Seq(Frames)
    BY QueueTyped
  <2>2. Len(queue[c]) = n /\ Call(z) \in Frames /\ queue'[c] = Append(queue[c], Call(z))
        /\ got'[c] = got[c] /\ synced'[c] = synced[c]
    BY <1>1, <1>3
  <2>3. /\ Len(queue'[c]) = n + 1
        /\ \A i \in 0..n : Told(c, i)' = Told(c, i) /\ (Complete(c, i)' <=> Complete(c, i))
        /\ Told(c, n + 1)' = Told(c, n) \cup {id \in Ids : Call(z) = Call(id)}
        /\ Complete(c, n + 1)' <=> Complete(c, n) \/ Call(z) = ReplayComplete
    BY ONLY <1>1, <2>1, <2>2, Appended
  <2> QED BY <1>3, <2>3
<1>5. InStore(c) = Told(c, n) \cup replay[c] /\ InStore(c)' = InStore(c) \cup {z}
  BY <1>1, <1>4 DEF InStore
<1>6. /\ Known(c) /\ Course(c) /\ Fresh(c) /\ PageFirst(c) /\ InOrder(c) /\ Followed(c)
      /\ got[c] \subseteq Told(c, n)
  BY DEF ClientInv, Told
<1>7. phase[c] \in {"registered", "replaying", "live"}
  BY DEF Registered
<1>8. Complete(c, n) => phase[c] = "live" /\ replay[c] = {}
  BY <1>1, <1>6, <1>7 DEF Course, SentinelSent
<1>9. Known(c)'
  <2>1. InStore(c)' \cup page'[c] \cup due'[c] \subseteq rows'
    BY <1>5, <1>6 DEF Known
  <2> QED BY <1>6, <2>1 DEF Known, Newest
<1>10. Course(c)'
  <2>1. SentinelSent(c) <=> Complete(c, n)
    BY <1>1 DEF SentinelSent
  <2>2. SentinelSent(c)' <=> Complete(c, n + 1)'
    BY <1>4 DEF SentinelSent, Complete
  <2> QED BY <1>4, <1>5, <1>6, <1>7, <2>1, <2>2 DEF Course
<1>11. Fresh(c)'
  BY <1>5, <1>6 DEF Fresh, Known
<1>12. PageFirst(c)'
  <2>1. ASSUME NEW i \in 0..(n + 1), Complete(c, i)' PROVE page[c] \subseteq Told(c, i)'
    <3>1. CASE i \in 0..n
      BY <1>1, <1>4, <1>6, <2>1, <3>1 DEF PageFirst
    <3>2. CASE i = n + 1
      BY <1>1, <1>4, <1>6, <2>1, <3>2 DEF PageFirst
    <3> QED BY <3>1, <3>2
  <2> QED BY <1>4, <2>1 DEF PageFirst
<1>13. InOrder(c)'
  <2> SUFFICES ASSUME ~reordered', ~cut'[c]
               PROVE  /\ \A m \in Expected(c)' : m <= cursor'[c] => m \in got'[c]
                      /\ \A i \in 0..Len(queue'[c]) : Complete(c, i)' => Gapless(c, Told(c, i))'
                      /\ phase'[c] \in {"replaying", "live"} =>
                           due'[c] \subseteq InStore(c)' /\ Gapless(c, InStore(c))'
    BY DEF InOrder
  <2>1. ~reordered /\ ~cut[c] /\ ~Late(z)
    OBVIOUS
  <2>2. \A m \in rows : BroadcastPending(m)' /\ ~Late(m)' =>
            BroadcastPending(m) /\ ~Late(m) /\ ~(m < z)
    BY <1>2 DEF Late
  <2>3. \A m \in Expected(c)' : m \in Expected(c) /\ (m \in due'[c] \/ ~(m < z))
    BY <2>1, <2>2 DEF Expected
  <2>4. ASSUME NEW i \in 0..n, Complete(c, i) PROVE Gapless(c, Told(c, i))'
    <3>1. Gapless(c, Told(c, i))
      BY <1>1, <1>6, <2>1, <2>4 DEF InOrder
    <3> QED BY <1>4, <2>3, <3>1 DEF Gapless
  <2>5. ASSUME phase[c] \in {"replaying", "live"}
        PROVE  due'[c] \subseteq InStore(c)' /\ Gapless(c, InStore(c))'
    <3>1. due[c] \subseteq InStore(c) /\ Gapless(c, InStore(c))
      BY <1>6, <2>1, <2>5 DEF InOrder
    <3>2. due'[c] \subseteq due[c] \cup {z}
      OBVIOUS
    <3>3. ASSUME NEW m \in Expected(c)', NEW k \in InStore(c) \cup {z}, m < k
          PROVE  m \in InStore(c) \cup {z}
      <4>1. CASE k = z
        BY <2>3, <3>1, <3>2, <3>3, <4>1
      <4>2. CASE k \in InStore(c)
        BY <2>3, <3>1, <3>3, <4>2 DEF Gapless
      <4> QED BY <3>3, <4>1, <4>2
    <3> QED BY <1>5, <3>1, <3>2, <3>3 DEF Gapless
  <2>6. ASSUME Complete(c, n + 1)' PROVE Gapless(c, Told(c, n + 1))'
    <3>1. phase[c] = "live" /\ replay[c] = {}
      BY <1>4, <1>8, <2>6
    <3>2. Told(c, n + 1)' = InStore(c)'
      BY <1>4, <1>5, <3>1
    <3> QED BY <2>5, <3>1, <3>2 DEF Gapless
  <2>7. ASSUME NEW i \in 0..(n + 1), Complete(c, i)' PROVE Gapless(c, Told(c, i))'
    <3>1. CASE i \in 0..n
      BY <1>4, <2>4, <2>7, <3>1
    <3>2. CASE i = n + 1
      BY <2>6, <2>7, <3>2
    <3> QED BY <3>1, <3>2
  <2>8. \A m \in Expected(c)' : m <= cursor'[c] => m \in got'[c]
    BY <1>6, <2>1, <2>3 DEF InOrder
  <2> QED BY <1>4, <2>5, <2>7, <2>8
<1>14. Followed(c)'
  <2>1. GapFree(c)'
    BY <1>5, <1>6 DEF Followed, GapFree, Above
  <2>2. Prefixed(c)'
    BY <1>5, <1>6, <1>7 DEF Followed, Prefixed, Registered
  <2> QED BY <2>1, <2>2 DEF Followed
<1> QED BY <1>9, <1>10, <1>11, <1>12, <1>13, <1>14 DEF ClientInv

\* A connected client that is sent the next of its page, the sentinel after it, or a frame
\* that is no call.
LEMMA Advances ==
  ASSUME TypeOK, TypeOK', NEW c \in Clients, ClientInv(c), UNCHANGED <<rows, upload, callId, reordered>>,
         NEW frame \in Frames, queue'[c] = Append(queue[c], frame), replay'[c] \subseteq replay[c],
         replay[c] = replay'[c] \cup {id \in Ids : frame = Call(id)},
         since'[c] = since[c], page'[c] = page[c], listed'[c] = listed[c], got'[c] = got[c],
         synced'[c] = synced[c], cursor'[c] = cursor[c], cut'[c] = cut[c], due'[c] = due[c],
         \/ frame = HeartbeatEvent /\ Registered(c) /\ phase'[c] = phase[c]
         \/ (\E id \in Ids : frame = Call(id)) /\ phase[c] = "replaying" /\ phase'[c] = "replaying"
         \/ frame = ReplayComplete /\ PageSent(c) /\ phase'[c] = "live"
  PROVE  ClientInv(c)'
<1> DEFINE Calls == {id \in Ids : frame = Call(id)}
<1>1. PICK n \in Nat : n = Len(queue[c])
  BY QueueTyped
<1>2. /\ \A id : BroadcastPending(id)' <=> BroadcastPending(id)
      /\ \A id : Above(id)' = Above(id)
      /\ Expected(c)' = Expected(c)
  BY WorldSame
<1>3. /\ Len(queue'[c]) = n + 1
      /\ \A i \in 0..n : Told(c, i)' = Told(c, i) /\ (Complete(c, i)' <=> Complete(c, i))
      /\ Told(c, n + 1)' = Told(c, n) \cup Calls
      /\ Complete(c, n + 1)' <=> Complete(c, n) \/ frame = ReplayComplete
  <2>1. queue[c] \in Seq(Frames)
    BY QueueTyped
  <2>2. Len(queue[c]) = n /\ queue'[c] = Append(queue[c], frame)
        /\ got'[c] = got[c] /\ synced'[c] = synced[c]
    BY <1>1
  <2> QED BY ONLY <1>1, <2>1, <2>2, Appended
<1> HIDE DEF Calls
<1>4. InStore(c)' = InStore(c) /\ InStore(c) = Told(c, n) \cup replay[c]
  <2>1. replay[c] = replay'[c] \cup Calls
    BY DEF Calls
  <2> QED BY <1>1, <1>3, <2>1 DEF InStore
<1>5. /\ Known(c) /\ Course(c) /\ Fresh(c) /\ PageFirst(c) /\ InOrder(c) /\ Followed(c)
      /\ got[c] \subseteq Told(c, n)
  BY DEF ClientInv, Told
<1>6. /\ SentinelSent(c) <=> Complete(c, n)
      /\ SentinelSent(c)' <=> Complete(c, n) \/ frame = ReplayComplete
  BY <1>1, <1>3 DEF SentinelSent, Complete
<1>7. /\ Registered(c) /\ Registered(c)' /\ phase'[c] \in {"registered", "replaying", "live"}
      /\ phase'[c] = "registered" => phase[c] = "registered"
      /\ phase'[c] = "replaying" => phase[c] = "replaying"
      /\ phase'[c] = "live" => phase[c] = "live" \/ (phase[c] = "replaying" /\ replay[c] = {})
  <2>1. CASE frame = HeartbeatEvent /\ Registered(c) /\ phase'[c] = phase[c]
    BY <2>1 DEF Registered
  <2>2. CASE phase[c] = "replaying" /\ phase'[c] = "replaying"
    BY <2>2 DEF Registered
  <2>3. CASE PageSent(c) /\ phase'[c] = "live"
    BY <2>3 DEF Registered, PageSent
  <2> QED BY ONLY <2>1, <2>2, <2>3,
        \/ frame = HeartbeatEvent /\ Registered(c) /\ phase'[c] = phase[c]
        \/ (\E id \in Ids : frame = Call(id)) /\ phase[c] = "replaying" /\ phase'[c] = "replaying"
        \/ frame = ReplayComplete /\ PageSent(c) /\ phase'[c] = "live"
<1>8. phase[c] \in {"registered", "replaying", "live"}
  BY <1>7 DEF Registered
<1>9. Complete(c, n) => phase[c] = "live" /\ replay[c] = {} /\ Calls = {}
  <2>1. ASSUME NEW id \in Ids, frame = Call(id) PROVE ~Complete(c, n)
    <3>1. phase[c] = "replaying"
      BY <2>1, FramesDiffer
    <3> QED BY <1>5, <1>6, <3>1 DEF Course
  <2>2. Complete(c, n) => Calls = {}
    BY <2>1 DEF Calls
  <2> QED BY <1>5, <1>6, <1>8, <2>2 DEF Course
<1>10. frame = ReplayComplete => phase[c] = "replaying" /\ replay[c] = {} /\ Calls = {}
  BY FramesDiffer DEF PageSent, Calls
<1>11. frame # ReplayComplete => phase'[c] = phase[c]
  OBVIOUS
<1>12. Known(c)'
  BY <1>4, <1>5 DEF Known, Newest
<1>13. Course(c)'
  <2>1. phase'[c] \in {"registered", "replaying"} => ~SentinelSent(c)'
    BY <1>5, <1>6, <1>7, FramesDiffer DEF Course
  <2> QED BY <1>4, <1>5, <1>7, <2>1 DEF Course
<1>14. Fresh(c)'
  BY <1>2, <1>4, <1>5 DEF Fresh
<1>15. PageFirst(c)'
  <2>1. ASSUME NEW i \in 0..(n + 1), Complete(c, i)' PROVE page[c] \subseteq Told(c, i)'
    <3>1. CASE i \in 0..n
      BY <1>1, <1>3, <1>5, <2>1, <3>1 DEF PageFirst
    <3>2. CASE i = n + 1 /\ Complete(c, n)
      BY <1>1, <1>3, <1>5, <3>2 DEF PageFirst
    <3>3. CASE i = n + 1 /\ frame = ReplayComplete
      BY <1>3, <1>4, <1>5, <1>10, <3>3 DEF Course
    <3> QED BY <1>3, <2>1, <3>1, <3>2, <3>3
  <2> QED BY <1>3, <2>1 DEF PageFirst
<1>16. InOrder(c)'
  <2> SUFFICES ASSUME ~reordered, ~cut[c]
               PROVE  /\ \A m \in Expected(c)' : m <= cursor'[c] => m \in got'[c]
                      /\ \A i \in 0..Len(queue'[c]) : Complete(c, i)' => Gapless(c, Told(c, i))'
                      /\ phase'[c] \in {"replaying", "live"} =>
                           due'[c] \subseteq InStore(c)' /\ Gapless(c, InStore(c))'
    BY DEF InOrder
  <2>1. phase'[c] \in {"replaying", "live"} => due[c] \subseteq InStore(c) /\ Gapless(c, InStore(c))
    BY <1>5, <1>7 DEF InOrder
  <2>2. ASSUME NEW i \in 0..(n + 1), Complete(c, i)' PROVE Gapless(c, Told(c, i))'
    <3>1. CASE i \in 0..n
      BY <1>1, <1>2, <1>3, <1>5, <2>2, <3>1 DEF InOrder, Gapless
    <3>2. CASE i = n + 1 /\ Complete(c, n)
      <4>1. Told(c, n + 1)' = Told(c, n)
        BY <1>3, <1>9, <3>2
      <4>2. Gapless(c, Told(c, n))
        BY <1>1, <1>5, <3>2 DEF InOrder
      <4> QED BY <1>2, <3>2, <4>1, <4>2 DEF Gapless
    <3>3. CASE i = n + 1 /\ frame = ReplayComplete
      <4>1. Told(c, n + 1)' = InStore(c)
        BY <1>3, <1>4, <1>10, <3>3
      <4>2. phase[c] = "replaying"
        BY <1>10, <3>3
      <4>3. Gapless(c, InStore(c))
        BY <1>5, <4>2 DEF InOrder
      <4> QED BY <1>2, <3>3, <4>1, <4>3 DEF Gapless
    <3> QED BY <1>3, <2>2, <3>1, <3>2, <3>3
  <2>3. \A m \in Expected(c)' : m <= cursor'[c] => m \in got'[c]
    BY <1>2, <1>5 DEF InOrder
  <2>4. Gapless(c, InStore(c)) => Gapless(c, InStore(c))'
    BY <1>2, <1>4 DEF Gapless
  <2> QED BY <1>3, <1>4, <2>1, <2>2, <2>3, <2>4
<1>17. Followed(c)'
  <2>1. GapFree(c)'
    BY <1>2, <1>4, <1>5, <1>7 DEF Followed, GapFree
  <2>2. Prefixed(c)'
    BY <1>2, <1>4, <1>5, <1>7 DEF Followed, Prefixed
  <2> QED BY <2>1, <2>2 DEF Followed
<1> QED BY <1>12, <1>13, <1>14, <1>15, <1>16, <1>17 DEF ClientInv

\* A connection that ends, with whatever was queued.
LEMMA Dropped ==
  ASSUME TypeOK, TypeOK', NEW c \in Clients, ClientInv(c), UNCHANGED <<rows, reordered>>,
         \A id \in rows : BroadcastPending(id)' => BroadcastPending(id),
         Expected(c)' \subseteq Expected(c),
         queue'[c] = <<>>, phase'[c] = "off", since'[c] = since[c], replay'[c] = replay[c],
         page'[c] = page[c], listed'[c] = listed[c], got'[c] = got[c], synced'[c] = synced[c],
         cursor'[c] = cursor[c], cut'[c] = cut[c], due'[c] = due[c]
  PROVE  ClientInv(c)'
<1>1. PICK n \in Nat : n = Len(queue[c])
  BY QueueTyped
<1>2. /\ Known(c) /\ Course(c) /\ Fresh(c) /\ PageFirst(c) /\ InOrder(c) /\ Followed(c)
      /\ InStore(c) = Told(c, n) \cup replay[c]
  BY <1>1 DEF ClientInv, InStore
<1>3. Len(queue'[c]) = 0 /\ 0 \in 0..n /\ 1..0 = {}
  OBVIOUS
<1>4. /\ Told(c, 0)' = got[c] /\ Told(c, 0) = got[c]
      /\ Complete(c, 0)' <=> Complete(c, 0)
  BY <1>3 DEF Told, Complete
<1>5. InStore(c)' = got[c] \cup replay[c] /\ InStore(c)' \subseteq InStore(c)
  BY <1>2, <1>3, ToldGrows DEF InStore, Told
<1>6. Known(c)'
  BY <1>2, <1>5 DEF Known, Newest
<1>7. Course(c)'
  BY <1>2 DEF Course
<1>8. Fresh(c)'
  BY <1>2, <1>5 DEF Fresh, Known
<1>9. PageFirst(c)'
  <2>1. \A i \in 0..Len(queue'[c]) : i = 0
    BY <1>3
  <2>2. Complete(c, 0)' => page'[c] \subseteq Told(c, 0)'
    BY <1>1, <1>2, <1>3, <1>4 DEF PageFirst
  <2> QED BY <2>1, <2>2 DEF PageFirst
<1>10. InOrder(c)'
  <2> SUFFICES ASSUME ~reordered, ~cut[c]
               PROVE  /\ \A m \in Expected(c)' : m <= cursor'[c] => m \in got'[c]
                      /\ \A i \in 0..Len(queue'[c]) : Complete(c, i)' => Gapless(c, Told(c, i))'
    BY DEF InOrder
  <2>1. \A i \in 0..Len(queue'[c]) : i = 0
    BY <1>3
  <2>2. Complete(c, 0)' => Gapless(c, Told(c, 0))'
    BY <1>1, <1>2, <1>3, <1>4 DEF InOrder, Gapless
  <2> QED BY <1>2, <2>1, <2>2 DEF InOrder
<1>11. Followed(c)'
  BY DEF Followed, GapFree, Prefixed, Registered
<1> QED BY <1>6, <1>7, <1>8, <1>9, <1>10, <1>11 DEF ClientInv

LEMMA ConnectStep ==
  ASSUME TypeOK, TypeOK', NEW c \in Clients, ClientInv(c), Connect(c)
  PROVE  ClientInv(c)'
<1>1. /\ phase[c] = "off" /\ phase'[c] = "registered" /\ since'[c] = cursor[c] /\ queue'[c] = <<>>
      /\ replay'[c] = {} /\ page'[c] = {} /\ ~listed'[c] /\ ~synced'[c]
      /\ UNCHANGED <<rows, upload, callId, reordered, got, cursor, cut, due>>
  BY DEF Connect, TypeOK, db, server, history
<1>2. /\ \A id : BroadcastPending(id)' <=> BroadcastPending(id)
      /\ Expected(c)' = Expected(c)
  BY <1>1, WorldSame
<1>3. /\ Known(c) /\ Fresh(c) /\ InOrder(c) /\ got[c] \subseteq InStore(c)
  BY DEF ClientInv, InStore, Told
<1>4. Len(queue'[c]) = 0 /\ 1..0 = {}
  BY <1>1
<1>5. InStore(c)' = got[c] /\ ~SentinelSent(c)'
  BY <1>1, <1>4 DEF InStore, Told, SentinelSent, Complete
<1>6. \A i \in 0..Len(queue'[c]) : ~Complete(c, i)'
  BY <1>1, <1>4 DEF Complete
<1>7. Known(c)'
  BY <1>1, <1>3, <1>5 DEF Known, Newest
<1>8. Course(c)'
  BY <1>1, <1>5 DEF Course
<1>9. Fresh(c)'
  BY <1>1, <1>2, <1>3, <1>5 DEF Fresh
<1>10. PageFirst(c)'
  BY <1>6 DEF PageFirst
<1>11. InOrder(c)'
  BY <1>1, <1>2, <1>3, <1>6 DEF InOrder
<1>12. Followed(c)'
  BY <1>1 DEF Followed, GapFree, Prefixed
<1> QED BY <1>7, <1>8, <1>9, <1>10, <1>11, <1>12 DEF ClientInv

\* The listing is the oldest missed calls.
LEMMA ListingIsPrefix ==
  ASSUME TypeOK, NEW k, NEW m \in ListCallsSince(k), NEW n \in Above(k), n < m
  PROVE  n \in ListCallsSince(k)
<1> DEFINE M == {x \in Above(k) : x < m}
           N == {x \in Above(k) : x < n}
<1>1. /\ m \in Above(k) /\ Cardinality(M) < ReplayLimit /\ Above(k) \subseteq 1..MaxCalls
  BY DEF ListCallsSince, Above, TypeOK, Ids
<1>2. IsFiniteSet(1..MaxCalls)
  BY FS_Interval, LiveFeedAssumption
<1>3. IsFiniteSet(M)
  BY <1>1, <1>2, FS_Subset
<1>4. N \subseteq M
  BY <1>1
<1>5. IsFiniteSet(N) /\ Cardinality(N) <= Cardinality(M) /\ Cardinality(M) \in Nat /\ Cardinality(N) \in Nat
  BY <1>3, <1>4, FS_Subset, FS_CardinalityType
<1>6. Cardinality(N) < ReplayLimit
  BY <1>1, <1>5, LiveFeedAssumption
<1> QED BY <1>6 DEF ListCallsSince

LEMMA ReplayListStep ==
  ASSUME TypeOK, TypeOK', NEW c \in Clients, ClientInv(c), ReplayList(c)
  PROVE  ClientInv(c)'
<1>1. PICK result :
        /\ result \in {{}, ListCallsSince(since[c])} /\ (since[c] = 0 => result = {})
        /\ replay'[c] = result /\ page'[c] = result
        /\ listed'[c] <=> since[c] > 0 /\ result = Above(since[c])
        /\ cut'[c] <=> cut[c] \/ (since[c] > 0 /\ result # Above(since[c]))
  <2> DEFINE Lost(r) == since[c] > 0 /\ ~(r = Above(since[c]))
  <2>0. PICK fails \in BOOLEAN : \E result :
          /\ result = IF since[c] = 0 \/ fails THEN {} ELSE ListCallsSince(since[c])
          /\ replay' = [replay EXCEPT ![c] = result]
          /\ page' = [page EXCEPT ![c] = result]
          /\ listed' = [listed EXCEPT ![c] = since[c] > 0 /\ result = Above(since[c])]
          /\ cut' = [cut EXCEPT ![c] = cut[c] \/ Lost(result)]
    BY LiveFeedAssumption DEF ReplayList
  <2>1. PICK result :
          /\ result = IF since[c] = 0 \/ fails THEN {} ELSE ListCallsSince(since[c])
          /\ replay' = [replay EXCEPT ![c] = result]
          /\ page' = [page EXCEPT ![c] = result]
          /\ listed' = [listed EXCEPT ![c] = since[c] > 0 /\ result = Above(since[c])]
          /\ cut' = [cut EXCEPT ![c] = cut[c] \/ Lost(result)]
    BY <2>0
  <2>2. /\ result \in {{}, ListCallsSince(since[c])} /\ (since[c] = 0 => result = {})
    BY <2>1
  <2>3. replay'[c] = result /\ page'[c] = result
    BY <2>1 DEF TypeOK
  <2>4. listed'[c] <=> since[c] > 0 /\ result = Above(since[c])
    BY <2>1 DEF TypeOK
  <2>5. cut'[c] <=> cut[c] \/ (since[c] > 0 /\ result # Above(since[c]))
    <3>1. cut \in [Clients -> BOOLEAN]
      BY DEF TypeOK
    <3> HIDE DEF Lost
    <3>2. cut'[c] = (cut[c] \/ Lost(result))
      BY <2>1, <3>1, Zenon
    <3>3. Lost(result) <=> since[c] > 0 /\ result # Above(since[c])
      BY DEF Lost
    <3> QED BY <3>2, <3>3, Zenon
  <2> QED BY <2>2, <2>3, <2>4, <2>5
<1>2. /\ phase[c] = "registered" /\ phase'[c] = "replaying"
      /\ UNCHANGED <<rows, upload, callId, since, queue, got, synced, cursor, due, reordered>>
  BY DEF ReplayList, TypeOK, db, server, client
<1>3. /\ \A id : BroadcastPending(id)' <=> BroadcastPending(id)
      /\ \A id : Late(id)' <=> Late(id)
      /\ \A n : Above(n)' = Above(n)
      /\ Expected(c)' = Expected(c)
  BY <1>2, WorldSame
<1>4. PICK n \in Nat : n = Len(queue[c])
  BY QueueTyped
<1>5. /\ \A i : Told(c, i)' = Told(c, i) /\ (Complete(c, i)' <=> Complete(c, i))
      /\ Len(queue'[c]) = Len(queue[c])
  BY <1>2, Unmoved
<1>6. /\ Known(c) /\ Course(c) /\ Fresh(c) /\ PageFirst(c) /\ InOrder(c) /\ got[c] \subseteq Told(c, n)
  BY DEF ClientInv, Told
<1>7. /\ SentinelSent(c) <=> Complete(c, n)
      /\ SentinelSent(c)' <=> Complete(c, n)
  BY <1>2, <1>4 DEF SentinelSent, Complete
<1>8. /\ replay[c] = {} /\ page[c] = {} /\ cursor[c] = since[c] /\ ~Complete(c, n)
  BY <1>2, <1>6, <1>7 DEF Course
<1>9. InStore(c) = Told(c, n) /\ InStore(c)' = Told(c, n) \cup result
  BY <1>1, <1>2, <1>4, <1>8 DEF InStore, Told
<1>10. result \subseteq rows /\ rows \subseteq Ids /\ \A m \in rows : m \in Nat
  <2>1. \A k : ListCallsSince(k) \subseteq rows
    BY DEF ListCallsSince, Above
  <2>2. rows \subseteq Ids
    BY DEF TypeOK
  <2>3. \A m \in rows : m \in Nat
    BY <2>2 DEF Ids
  <2> QED BY <1>1, <2>1, <2>2, <2>3
<1>11. ASSUME NEW i \in 0..n PROVE ~Complete(c, i)
  BY <1>8, <1>11, ToldGrows
<1>12. since[c] \in Nat
  BY LiveFeedAssumption DEF TypeOK
<1>13. Known(c)'
  BY <1>1, <1>2, <1>6, <1>9, <1>10 DEF Known, Newest
<1>14. Course(c)'
  BY <1>1, <1>2, <1>7, <1>8, <1>9 DEF Course
<1>15. Fresh(c)'
  <2>1. cursor[c] = 0 => result = {}
    BY <1>1, <1>8
  <2> QED BY <1>2, <1>3, <1>6, <1>9, <2>1 DEF Fresh
<1>16. PageFirst(c)'
  BY <1>4, <1>5, <1>11 DEF PageFirst
<1>17. InOrder(c)'
  <2> SUFFICES ASSUME ~reordered, ~cut'[c]
               PROVE  /\ \A m \in Expected(c) : m <= cursor[c] => m \in got[c]
                      /\ due[c] \subseteq InStore(c)' /\ Gapless(c, InStore(c))'
    BY <1>2, <1>3, <1>4, <1>5, <1>11 DEF InOrder
  <2>1. ~cut[c] /\ (since[c] > 0 => result = Above(since[c]))
    BY <1>1
  <2>2. \A m \in Expected(c) : m <= cursor[c] => m \in got[c]
    BY <1>6, <2>1 DEF InOrder
  <2>3. Expected(c) \subseteq rows /\ due[c] \subseteq Expected(c)
    BY <1>6 DEF Expected, Known
  <2>4. CASE since[c] > 0
    <3>1. ASSUME NEW m \in Expected(c) PROVE m \in Told(c, n) \cup result
      <4>1. m \in Nat /\ m \in rows
        BY <1>10, <2>3
      <4>2. CASE m <= since[c]
        BY <1>6, <1>8, <2>2, <4>2
      <4>3. CASE m > since[c]
        BY <2>1, <2>4, <4>1, <4>3 DEF Above
      <4> QED BY <1>12, <4>1, <4>2, <4>3
    <3> QED BY <1>3, <1>9, <2>2, <2>3, <3>1 DEF Gapless
  <2>5. CASE since[c] = 0
    <3>1. due[c] = {} /\ result = {} /\ \A id \in InStore(c) : ~BroadcastPending(id)
      BY <1>1, <1>6, <1>8, <2>5 DEF Fresh
    <3>2. ASSUME NEW m \in Expected(c), NEW k \in InStore(c), m < k PROVE FALSE
      <4>1. k \in rows /\ ~BroadcastPending(k)
        BY <1>6, <3>1 DEF Known
      <4>2. m \in rows /\ ~Late(m)
        BY <3>1 DEF Expected
      <4> QED BY <1>10, <3>2, <4>1, <4>2 DEF Late
    <3> QED BY <1>3, <1>9, <2>2, <3>1, <3>2 DEF Gapless
  <2> QED BY <1>12, <2>4, <2>5
<1>18. Followed(c)'
  <2>1. GapFree(c)'
    BY <1>1, <1>2, <1>3, <1>9 DEF GapFree
  <2>2. Prefixed(c)'
    <3>1. ASSUME NEW m \in result, NEW k \in rows, k > since[c], k < m PROVE k \in result
      <4>1. result = ListCallsSince(since[c]) /\ k \in Above(since[c])
        BY <1>1, <3>1 DEF Above
      <4> QED BY <3>1, <4>1, ListingIsPrefix
    <3> QED BY <1>1, <1>2, <3>1 DEF Prefixed
  <2> QED BY <2>1, <2>2 DEF Followed
<1> QED BY <1>13, <1>14, <1>15, <1>16, <1>17, <1>18 DEF ClientInv

\* The writer moves the head of the queue to the client: nothing is gained or lost by it.
LEMMA WriteFrameStep ==
  ASSUME TypeOK, TypeOK', NEW c \in Clients, ClientInv(c), WriteFrame(c)
  PROVE  ClientInv(c)'
<1> DEFINE S == got[c] \cup {id \in Ids : Head(queue[c]) = Call(id)}
           complete == synced[c] \/ Head(queue[c]) = ReplayComplete
<1>1. /\ queue[c] # <<>> /\ phase[c] # "off" /\ queue'[c] = Tail(queue[c])
      /\ UNCHANGED <<rows, upload, callId, phase, since, replay, page, listed, due, reordered, cut>>
  BY DEF WriteFrame, TypeOK, db, server, history
<1>2. got'[c] = S /\ cursor'[c] = NextCursor(c, S, complete)
  BY DEF WriteFrame, TypeOK
<1>3. synced'[c] <=> complete
  <2>1. synced \in [Clients -> BOOLEAN]
    BY DEF TypeOK
  <2>2. synced' = [synced EXCEPT ![c] = complete]
    BY DEF WriteFrame
  <2> HIDE DEF complete
  <2> QED BY <2>1, <2>2, Zenon
<1>4. PICK n \in Nat : n = Len(queue[c])
  BY QueueTyped
<1>5. /\ n >= 1 /\ Len(queue'[c]) = n - 1
      /\ \A i \in 0..(n - 1) :
            Told(c, i)' = Told(c, i + 1) /\ (Complete(c, i)' <=> Complete(c, i + 1))
  <2>1. queue[c] \in Seq(Frames)
    BY QueueTyped
  <2>2. /\ Len(queue[c]) = n /\ queue[c] # <<>> /\ queue'[c] = Tail(queue[c])
        /\ got'[c] = got[c] \cup {id \in Ids : Head(queue[c]) = Call(id)}
        /\ synced'[c] <=> synced[c] \/ Head(queue[c]) = ReplayComplete
    BY <1>1, <1>2, <1>3, <1>4
  <2> QED BY ONLY <1>4, <2>1, <2>2, Popped
<1>6. /\ \A id : BroadcastPending(id)' <=> BroadcastPending(id)
      /\ \A m : Above(m)' = Above(m)
      /\ Expected(c)' = Expected(c)
  BY <1>1, WorldSame
<1>7. /\ Known(c) /\ Course(c) /\ Fresh(c) /\ PageFirst(c) /\ InOrder(c) /\ Followed(c)
  BY DEF ClientInv
<1>8. /\ S \subseteq Ids /\ (S = {} \/ \E m \in S : \A k \in S : k <= m)
      /\ Newest(S) \in S \cup {0} /\ Newest(S) \in 0..MaxCalls
      /\ \A k \in S : k <= Newest(S)
      /\ S # {} => Newest(S) # 0
  BY <1>1, Received
<1>9. /\ Told(c, 0)' = S /\ got[c] \subseteq S
      /\ complete <=> Complete(c, 0)'
  <2>1. Told(c, 0)' = got'[c] /\ (Complete(c, 0)' <=> synced'[c])
    <3>1. 1..0 = {}
      OBVIOUS
    <3> QED BY <3>1 DEF Told, Complete
  <2> QED BY <1>2, <1>3, <2>1
<1> HIDE DEF S, complete
<1>10. \A i \in 0..(n - 1) : i + 1 \in 0..n
  OBVIOUS
<1>11. InStore(c)' = InStore(c)
  <2>1. n - 1 \in 0..(n - 1) /\ (n - 1) + 1 = n
    BY <1>5
  <2>2. Told(c, n - 1)' = Told(c, n)
    BY <1>5, <2>1
  <2> QED BY <1>1, <1>4, <1>5, <2>2 DEF InStore
<1>12. SentinelSent(c)' <=> SentinelSent(c)
  <2>1. n - 1 \in 0..(n - 1) /\ (n - 1) + 1 = n
    BY <1>5
  <2>2. Complete(c, n - 1)' <=> Complete(c, n)
    BY <1>5, <2>1
  <2> QED BY <1>4, <1>5, <2>2 DEF SentinelSent
<1>13. complete => SentinelSent(c)
  <2>1. Complete(c, 0)' <=> Complete(c, 1)
    BY <1>5
  <2>2. 1 \in 0..n
    BY <1>5
  <2>3. Complete(c, 1) => Complete(c, n)
    BY <2>2, ToldGrows
  <2> QED BY <1>4, <1>9, <2>1, <2>3 DEF SentinelSent
<1>14. cursor'[c] = IF complete THEN Newest(S) ELSE cursor[c]
  BY <1>2 DEF NextCursor
<1>15. cursor'[c] = 0 => cursor[c] = 0
  <2>1. ASSUME complete, Newest(S) = 0 PROVE cursor[c] = 0
    <3>1. got[c] = {}
      BY <1>8, <1>9, <2>1
    <3> QED BY <1>7, <3>1 DEF Known
  <2> QED BY <1>14, <2>1
<1>16. Known(c)'
  <2>1. InStore(c)' \cup page'[c] \cup due'[c] \subseteq rows' /\ replay'[c] \subseteq page'[c]
    BY <1>1, <1>7, <1>11 DEF Known
  <2>2. cursor'[c] \in S \cup {0}
    BY <1>7, <1>8, <1>9, <1>14 DEF Known
  <2>3. synced'[c] => cursor'[c] = Newest(S)
    BY <1>3, <1>14
  <2>4. Newest(got'[c]) = Newest(S) /\ Newest(got[c])' = Newest(got'[c])
    BY <1>2 DEF Newest
  <2> QED BY <1>2, <1>8, <2>1, <2>2, <2>3, <2>4 DEF Known
<1>17. Course(c)'
  <2>1. phase[c] \in {"registered", "replaying"} => cursor'[c] = cursor[c]
    BY <1>7, <1>13, <1>14 DEF Course
  <2> QED BY <1>1, <1>7, <1>11, <1>12, <2>1 DEF Course
<1>18. Fresh(c)'
  BY <1>1, <1>6, <1>7, <1>11, <1>15 DEF Fresh
<1>19. PageFirst(c)'
  <2>1. ASSUME NEW i \in 0..(n - 1), Complete(c, i)' PROVE page[c] \subseteq Told(c, i)'
    <3>1. i + 1 \in 0..n
      BY <1>10
    <3>2. Complete(c, i + 1) /\ Told(c, i)' = Told(c, i + 1)
      BY <1>5, <2>1
    <3> QED BY <1>4, <1>7, <3>1, <3>2 DEF PageFirst
  <2> QED BY <1>1, <1>5, <2>1 DEF PageFirst
<1>20. InOrder(c)'
  <2> SUFFICES ASSUME ~reordered, ~cut[c]
               PROVE  /\ \A m \in Expected(c) : m <= cursor'[c] => m \in S
                      /\ \A i \in 0..(n - 1) : Complete(c, i)' => Gapless(c, Told(c, i))'
                      /\ phase[c] \in {"replaying", "live"} =>
                           due[c] \subseteq InStore(c)' /\ Gapless(c, InStore(c))'
    BY <1>1, <1>2, <1>5, <1>6 DEF InOrder
  <2>1. ASSUME NEW i \in 0..(n - 1), Complete(c, i)'
        PROVE  Gapless(c, Told(c, i))' /\ Gapless(c, Told(c, i + 1))
    <3>1. i + 1 \in 0..n
      BY <1>10
    <3>2. Complete(c, i + 1) /\ Told(c, i)' = Told(c, i + 1)
      BY <1>5, <2>1
    <3>3. Gapless(c, Told(c, i + 1))
      BY <1>4, <1>7, <3>1, <3>2 DEF InOrder
    <3> QED BY <1>6, <3>2, <3>3 DEF Gapless
  <2>2. ASSUME NEW m \in Expected(c), m <= cursor'[c] PROVE m \in S
    <3>1. CASE ~complete
      <4>1. m \in got[c]
        BY <1>7, <1>14, <2>2, <3>1 DEF InOrder
      <4> QED BY <1>9, <4>1
    <3>2. CASE complete
      <4>1. 0 \in 0..(n - 1) /\ 0 + 1 = 1
        BY <1>5
      <4>2. Complete(c, 0)'
        BY <1>9, <3>2
      <4>3. Gapless(c, Told(c, 1)) /\ Told(c, 1) = S
        BY <1>5, <1>9, <2>1, <4>1, <4>2
      <4>4. m \in 1..MaxCalls
        BY DEF Expected, TypeOK, Ids
      <4>5. cursor'[c] \in S
        BY <1>8, <1>14, <2>2, <3>2, <4>4
      <4>6. cursor'[c] \in Nat
        BY <1>8, <1>14, <3>2, LiveFeedAssumption
      <4>7. m = cursor'[c] \/ m < cursor'[c]
        BY <2>2, <4>4, <4>6
      <4> QED BY <4>3, <4>5, <4>7 DEF Gapless
    <3> QED BY <3>1, <3>2
  <2>3. phase[c] \in {"replaying", "live"} => due[c] \subseteq InStore(c)' /\ Gapless(c, InStore(c))'
    BY <1>6, <1>7, <1>11 DEF InOrder, Gapless
  <2> QED BY <2>1, <2>2, <2>3
<1>21. Followed(c)'
  <2>1. GapFree(c)'
    BY <1>1, <1>6, <1>7, <1>11 DEF Followed, GapFree
  <2>2. Prefixed(c)'
    BY <1>1, <1>6, <1>7, <1>11 DEF Followed, Prefixed, Registered
  <2> QED BY <2>1, <2>2 DEF Followed
<1> QED BY <1>16, <1>17, <1>18, <1>19, <1>20, <1>21 DEF ClientInv

-----------------------------------------------------------------------------
(* Every step, for every client.                                            *)

\* A client that another client's step, or a removal, leaves with what it had.
LEMMA Elsewhere ==
  ASSUME TypeOK, TypeOK', NEW d \in Clients, ClientInv(d), KeepsOwn(d),
         phase'[d] = phase[d] \/ phase'[d] = "closing",
         UNCHANGED <<rows, upload, callId, reordered>>, due'[d] = due[d]
  PROVE  ClientInv(d)'
<1>1. /\ \A id : BroadcastPending(id)' <=> BroadcastPending(id)
      /\ Expected(d)' = Expected(d)
  BY WorldSame
<1>2. due'[d] \subseteq rows' /\ (cursor[d] = 0 => due'[d] = {})
  BY DEF ClientInv, Known, Fresh
<1>3. /\ rows \subseteq rows' /\ (reordered => reordered')
      /\ \A id \in rows : BroadcastPending(id)' => BroadcastPending(id)
      /\ \A id \in rows' \ rows : BroadcastPending(id)'
      /\ Registered(d)' => \A id \in rows : BroadcastPending(id) => BroadcastPending(id)'
      /\ phase'[d] \in {"replaying", "live"} => due'[d] \subseteq due[d]
      /\ ~reordered' => \A m \in Expected(d)' : m \in Expected(d) \/ \A n \in rows : n < m
  BY <1>1
<1> QED BY <1>2, <1>3, Untouched

LEMMA BeginInsertStep ==
  ASSUME IInv, TypeOK', NEW u \in Uploaders, BeginInsert(u), NEW c \in Clients
  PROVE  ClientInv(c)'
<1>1. TypeOK /\ ClientInv(c)
  BY DEF IInv
<1>2. /\ upload[u] = "idle" /\ upload' = [upload EXCEPT ![u] = "inserting"]
      /\ callId' = [callId EXCEPT ![u] = nextId]
      /\ KeepsOwn(c) /\ phase'[c] = phase[c] /\ UNCHANGED <<rows, reordered, due>>
  BY DEF BeginInsert, connection, client, history, KeepsOwn
<1>3. \A v \in Uploaders : /\ upload'[v] = "stored" <=> upload[v] = "stored"
                           /\ upload[v] = "stored" => callId'[v] = callId[v]
  BY <1>1, <1>2 DEF TypeOK
<1>4. \A id : BroadcastPending(id)' <=> BroadcastPending(id)
  BY <1>3 DEF BroadcastPending
<1>5. \A id : Late(id)' <=> Late(id)
  BY <1>2, <1>4 DEF Late
<1>6. Expected(c)' = Expected(c)
  BY <1>2, <1>4, <1>5 DEF Expected
<1>7. due'[c] \subseteq rows' /\ (cursor[c] = 0 => due'[c] = {})
  BY <1>1, <1>2 DEF ClientInv, Known, Fresh
<1>8. /\ rows \subseteq rows' /\ (reordered => reordered')
      /\ \A id \in rows : BroadcastPending(id)' => BroadcastPending(id)
      /\ \A id \in rows' \ rows : BroadcastPending(id)'
      /\ Registered(c)' => \A id \in rows : BroadcastPending(id) => BroadcastPending(id)'
      /\ phase'[c] \in {"replaying", "live"} => due'[c] \subseteq due[c]
      /\ ~reordered' => \A m \in Expected(c)' : m \in Expected(c) \/ \A n \in rows : n < m
  BY <1>2, <1>4, <1>6
<1> QED BY <1>1, <1>2, <1>7, <1>8, Untouched

\* A new row has its broadcast to come, and is the newest unless it is out of order.
LEMMA CommitInsertStep ==
  ASSUME IInv, TypeOK', NEW u \in Uploaders, CommitInsert(u), NEW c \in Clients
  PROVE  ClientInv(c)'
<1>1. TypeOK /\ Uploaded /\ ClientInv(c)
  BY DEF IInv
<1>2. /\ upload[u] = "inserting" /\ upload' = [upload EXCEPT ![u] = "stored"]
      /\ callId' = callId /\ rows' = rows \cup {callId[u]}
      /\ KeepsOwn(c) /\ phase'[c] = phase[c] /\ due' = due
      /\ reordered' = (reordered \/ \E n \in rows : n > callId[u])
  BY DEF CommitInsert, connection, client, KeepsOwn
<1>3. PICK z \in Ids : z = callId[u] /\ z \notin rows
  BY <1>1, <1>2 DEF Uploaded
<1>4. \A v \in Uploaders : upload'[v] = "stored" <=> upload[v] = "stored" \/ v = u
  BY <1>1, <1>2 DEF TypeOK
<1>5. \A id : BroadcastPending(id)' <=> BroadcastPending(id) \/ id = z
  BY <1>2, <1>3, <1>4 DEF BroadcastPending
<1>6. reordered => reordered'
  BY <1>2
<1>7. rows \subseteq Nat /\ z \in Nat
  BY <1>1 DEF TypeOK, Ids
<1>8. ~reordered' => \A m \in Expected(c)' : m \in Expected(c) \/ \A n \in rows : n < m
  <2> SUFFICES ASSUME ~reordered', NEW m \in Expected(c)'
               PROVE  m \in Expected(c) \/ \A n \in rows : n < m
    OBVIOUS
  <2>1. \A n \in rows : ~(n > z)
    BY <1>2, <1>3
  <2>2. CASE m \in due'[c]
    BY <1>2, <2>2 DEF Expected
  <2>3. CASE m = z
    BY <1>3, <1>7, <2>1, <2>3
  <2>4. CASE m \in rows /\ BroadcastPending(m)' /\ ~Late(m)'
    <3>1. BroadcastPending(m)
      BY <1>3, <1>5, <2>4
    <3>2. ~Late(m)
      BY <1>2, <1>3, <1>5, <2>4 DEF Late
    <3> QED BY <2>4, <3>1, <3>2 DEF Expected
  <2> QED BY <1>2, <1>3, <2>2, <2>3, <2>4 DEF Expected
<1>9. due'[c] \subseteq rows' /\ (cursor[c] = 0 => due'[c] = {})
  BY <1>1, <1>2 DEF ClientInv, Known, Fresh
<1>10. /\ rows \subseteq rows'
       /\ \A id \in rows : BroadcastPending(id)' => BroadcastPending(id)
       /\ \A id \in rows' \ rows : BroadcastPending(id)'
       /\ Registered(c)' => \A id \in rows : BroadcastPending(id) => BroadcastPending(id)'
       /\ phase'[c] \in {"replaying", "live"} => due'[c] \subseteq due[c]
  BY <1>2, <1>3, <1>5
<1> QED BY <1>1, <1>2, <1>6, <1>8, <1>9, <1>10, Untouched

LEMMA BroadcastStep ==
  ASSUME IInv, TypeOK', NEW u \in Uploaders, BroadcastCall(u), NEW c \in Clients
  PROVE  ClientInv(c)'
<1>1. TypeOK /\ Uploaded /\ ClientInv(c)
  BY DEF IInv
<1>2. /\ upload[u] = "stored" /\ upload' = [upload EXCEPT ![u] = "idle"]
      /\ callId' = [callId EXCEPT ![u] = 0] /\ rows' = rows
      /\ Enqueue(Clients, Call(callId[u]))
      /\ due' = [d \in Clients |-> IF cursor[d] = 0 THEN {} ELSE due[d] \cup {callId[u]}]
      /\ reordered' = (reordered \/ Late(callId[u]))
      /\ UNCHANGED <<since, replay, page, listed, got, synced, cursor, cut>>
  BY DEF BroadcastCall, db, client, Late
<1>3. PICK z \in Ids : z = callId[u] /\ z \in rows
  BY <1>1, <1>2 DEF Uploaded
<1>4. BroadcastPending(z)
  BY <1>2, <1>3 DEF BroadcastPending
<1>5. /\ ~BroadcastPending(z)'
      /\ \A id : BroadcastPending(id)' => BroadcastPending(id)
      /\ \A id : id # z /\ BroadcastPending(id) => BroadcastPending(id)'
  <2>1. \A v \in Uploaders : /\ upload'[v] = "stored" <=> upload[v] = "stored" /\ v # u
                             /\ v # u => callId'[v] = callId[v]
    BY <1>1, <1>2 DEF TypeOK
  <2>2. \A v \in Uploaders : upload[v] = "stored" /\ callId[v] = z => v = u
    BY <1>1, <1>2, <1>3 DEF Uploaded
  <2> QED BY <1>3, <2>1, <2>2 DEF BroadcastPending
<1>6. due'[c] = IF cursor[c] = 0 THEN {} ELSE due[c] \cup {z}
  BY <1>2, <1>3
<1>7. ~reordered' => ~reordered /\ ~Late(z)
  BY <1>2, <1>3
<1>8. \/ /\ Registered(c)
         /\ phase'[c] = phase[c] /\ queue'[c] = Append(queue[c], Call(z))
      \/ /\ queue'[c] = queue[c]
         /\ phase'[c] = "closing" \/ (~Registered(c) /\ phase'[c] = phase[c])
  <2>1. Call(z) \in Frames /\ Enqueue(Clients, Call(z))
    BY <1>2, <1>3, FramesDiffer
  <2> QED BY <1>1, <2>1, Enqueued
<1>9. CASE Registered(c) /\ phase'[c] = phase[c] /\ queue'[c] = Append(queue[c], Call(z))
  <2>1. \A id \in rows \ {z} : BroadcastPending(id)' <=> BroadcastPending(id)
    BY <1>5
  <2> QED BY <1>1, <1>2, <1>3, <1>4, <1>5, <1>6, <1>7, <1>9, <2>1, ReceivesCall
<1>10. CASE /\ queue'[c] = queue[c]
            /\ phase'[c] = "closing" \/ (~Registered(c) /\ phase'[c] = phase[c])
  <2>1. KeepsOwn(c) /\ ~Registered(c)' /\ phase'[c] \notin {"replaying", "live"}
    BY <1>2, <1>10 DEF KeepsOwn, Registered
  <2>2. ~reordered' => \A m \in Expected(c)' : m \in Expected(c)
    <3> SUFFICES ASSUME ~reordered', NEW m \in Expected(c)' PROVE m \in Expected(c)
      OBVIOUS
    <3>1. z \in Expected(c)
      BY <1>3, <1>4, <1>7 DEF Expected
    <3>2. CASE m \in due'[c]
      BY <1>6, <3>1, <3>2 DEF Expected
    <3>3. CASE m \in rows /\ BroadcastPending(m)' /\ ~Late(m)'
      BY <1>2, <1>5, <3>3 DEF Expected, Late
    <3> QED BY <1>2, <3>2, <3>3 DEF Expected
  <2>3. due'[c] \subseteq rows' /\ (cursor[c] = 0 => due'[c] = {})
    BY <1>1, <1>2, <1>3, <1>6 DEF ClientInv, Known
  <2>4. /\ rows \subseteq rows' /\ (reordered => reordered')
        /\ \A id \in rows : BroadcastPending(id)' => BroadcastPending(id)
        /\ \A id \in rows' \ rows : BroadcastPending(id)'
        /\ Registered(c)' => \A id \in rows : BroadcastPending(id) => BroadcastPending(id)'
        /\ phase'[c] \in {"replaying", "live"} => due'[c] \subseteq due[c]
        /\ ~reordered' => \A m \in Expected(c)' : m \in Expected(c) \/ \A n \in rows : n < m
        /\ phase'[c] = phase[c] \/ phase'[c] = "closing"
    BY <1>2, <1>5, <1>10, <2>1, <2>2
  <2> QED BY <1>1, <2>1, <2>3, <2>4, Untouched
<1> QED BY <1>8, <1>9, <1>10

LEMMA HeartbeatStep ==
  ASSUME IInv, TypeOK', Heartbeat, NEW c \in Clients
  PROVE  ClientInv(c)'
<1>1. TypeOK /\ ClientInv(c)
  BY DEF IInv
<1>2. /\ Enqueue(Clients, HeartbeatEvent)
      /\ UNCHANGED <<rows, upload, callId, reordered, since, replay, page, listed, got, synced, cursor, cut, due>>
  BY DEF Heartbeat, db, server, client, history
<1>3. HeartbeatEvent \in Frames /\ {id \in Ids : HeartbeatEvent = Call(id)} = {}
  BY FramesDiffer
<1>4. \/ Registered(c) /\ phase'[c] = phase[c] /\ queue'[c] = Append(queue[c], HeartbeatEvent)
      \/ queue'[c] = queue[c] /\ (phase'[c] = "closing" \/ phase'[c] = phase[c])
  BY <1>1, <1>2, <1>3, Enqueued
<1>5. CASE Registered(c) /\ phase'[c] = phase[c] /\ queue'[c] = Append(queue[c], HeartbeatEvent)
  BY <1>1, <1>2, <1>3, <1>5, Advances
<1>6. CASE queue'[c] = queue[c] /\ (phase'[c] = "closing" \/ phase'[c] = phase[c])
  BY <1>1, <1>2, <1>6, Elsewhere DEF KeepsOwn
<1> QED BY <1>4, <1>5, <1>6

\* A client removed in the middle of its page.
LEMMA PageDropped ==
  ASSUME TypeOK, TypeOK', NEW c \in Clients, ClientInv(c), UNCHANGED <<rows, upload, callId, reordered>>,
         queue'[c] = queue[c], phase'[c] = "closing", since'[c] = since[c],
         replay'[c] \subseteq replay[c], page'[c] = page[c], listed'[c] = listed[c],
         got'[c] = got[c], synced'[c] = synced[c], cursor'[c] = cursor[c], cut'[c] = cut[c],
         due'[c] = due[c]
  PROVE  ClientInv(c)'
<1>1. /\ \A i : Told(c, i)' = Told(c, i) /\ (Complete(c, i)' <=> Complete(c, i))
      /\ Len(queue'[c]) = Len(queue[c])
  BY Unmoved
<1>2. /\ \A id : BroadcastPending(id)' <=> BroadcastPending(id)
      /\ Expected(c)' = Expected(c)
  BY WorldSame
<1>3. InStore(c)' \subseteq InStore(c)
  BY <1>1 DEF InStore
<1>4. /\ Known(c) /\ Course(c) /\ Fresh(c) /\ PageFirst(c) /\ InOrder(c)
  BY DEF ClientInv
<1>5. Known(c)'
  BY <1>3, <1>4 DEF Known, Newest
<1>6. Course(c)'
  BY <1>4 DEF Course
<1>7. Fresh(c)'
  BY <1>2, <1>3, <1>4 DEF Fresh
<1>8. PageFirst(c)'
  BY <1>1, <1>4 DEF PageFirst
<1>9. InOrder(c)'
  BY <1>1, <1>2, <1>4 DEF InOrder, Gapless
<1>10. Followed(c)'
  BY DEF Followed, GapFree, Prefixed, Registered
<1> QED BY <1>5, <1>6, <1>7, <1>8, <1>9, <1>10 DEF ClientInv

LEMMA ReplayEnqueueStep ==
  ASSUME IInv, TypeOK', NEW c \in Clients, ReplayEnqueue(c), NEW d \in Clients
  PROVE  ClientInv(d)'
<1>1. TypeOK /\ ClientInv(d)
  BY DEF IInv
<1>2. PICK id \in replay[c] : Enqueue({c}, Call(id)) /\ replay' = [replay EXCEPT ![c] = @ \ {id}]
  BY DEF ReplayEnqueue
<1>3. /\ phase[c] = "replaying"
      /\ UNCHANGED <<rows, upload, callId, reordered, since, page, listed, got, synced, cursor, cut, due>>
  BY DEF ReplayEnqueue, db, server, client, history
<1>4. id \in Ids /\ Call(id) \in Frames /\ {k \in Ids : Call(id) = Call(k)} = {id}
  <2>1. id \in Ids
    BY <1>1, QueueTyped
  <2> QED BY <2>1, FramesDiffer
<1>5. \/ d = c /\ phase'[d] = phase[d] /\ queue'[d] = Append(queue[d], Call(id))
      \/ d = c /\ phase'[d] = "closing" /\ queue'[d] = queue[d]
      \/ d # c /\ phase'[d] = phase[d] /\ queue'[d] = queue[d]
  <2>1. Registered(c)
    BY <1>3 DEF Registered
  <2> QED BY <1>1, <1>2, <1>4, <2>1, Enqueued
<1>6. replay'[d] = IF d = c THEN replay[d] \ {id} ELSE replay[d]
  BY <1>1, <1>2 DEF TypeOK
<1>7. CASE d = c /\ phase'[d] = phase[d] /\ queue'[d] = Append(queue[d], Call(id))
  <2>1. replay'[d] \subseteq replay[d] /\ replay[d] = replay'[d] \cup {k \in Ids : Call(id) = Call(k)}
    BY <1>2, <1>4, <1>6, <1>7
  <2>2. (\E k \in Ids : Call(id) = Call(k)) /\ phase[d] = "replaying" /\ phase'[d] = "replaying"
    BY <1>3, <1>4, <1>7
  <2> QED BY <1>1, <1>3, <1>4, <1>7, <2>1, <2>2, Advances
<1>8. CASE d = c /\ phase'[d] = "closing" /\ queue'[d] = queue[d]
  <2>1. replay'[d] \subseteq replay[d]
    BY <1>6
  <2> QED BY <1>1, <1>3, <1>8, <2>1, PageDropped
<1>9. CASE d # c /\ phase'[d] = phase[d] /\ queue'[d] = queue[d]
  BY <1>1, <1>3, <1>6, <1>9, Elsewhere DEF KeepsOwn
<1> QED BY <1>5, <1>7, <1>8, <1>9

LEMMA ReplayFinishStep ==
  ASSUME TypeOK, TypeOK', NEW c \in Clients, ClientInv(c), ReplayFinish(c)
  PROVE  ClientInv(c)'
<1>1. /\ PageSent(c)
      /\ UNCHANGED <<rows, upload, callId, reordered, since, replay, page, listed, got, synced, cursor, cut, due>>
  BY DEF ReplayFinish, db, server, client, history
<1>2. /\ phase'[c] = IF Full(c) THEN "closing" ELSE "live"
      /\ queue'[c] = IF Full(c) THEN queue[c] ELSE Append(queue[c], ReplayComplete)
  BY DEF ReplayFinish, TypeOK, Removed
<1>3. ReplayComplete \in Frames /\ {id \in Ids : ReplayComplete = Call(id)} = {}
  BY FramesDiffer
<1>4. CASE Full(c)
  <2>1. KeepsOwn(c) /\ phase'[c] = "closing"
    BY <1>1, <1>2, <1>4 DEF KeepsOwn
  <2> QED BY <1>1, <2>1, Elsewhere
<1>5. CASE ~Full(c)
  <2>1. queue'[c] = Append(queue[c], ReplayComplete) /\ phase'[c] = "live"
    BY <1>2, <1>5
  <2>2. replay[c] = replay'[c] \cup {id \in Ids : ReplayComplete = Call(id)}
    BY <1>1, <1>3
  <2> QED BY <1>1, <1>3, <2>1, <2>2, Advances
<1> QED BY <1>4, <1>5

LEMMA EndStep ==
  ASSUME TypeOK, TypeOK', NEW c \in Clients, ClientInv(c), CloseConn(c) \/ Disconnect(c)
  PROVE  ClientInv(c)'
<1>1. /\ queue'[c] = <<>> /\ phase'[c] = "off"
      /\ UNCHANGED <<rows, upload, callId, reordered, since, replay, page, listed, got, synced, cursor, cut, due>>
  BY DEF CloseConn, Disconnect, TypeOK, db, server, client, history
<1>2. /\ \A id \in rows : BroadcastPending(id)' => BroadcastPending(id)
      /\ Expected(c)' \subseteq Expected(c)
  BY <1>1, WorldSame
<1> QED BY <1>1, <1>2, Dropped

\* A restart forgets the broadcasts to come.
LEMMA RestartStep ==
  ASSUME IInv, TypeOK', Restart, NEW c \in Clients
  PROVE  ClientInv(c)'
<1>1. TypeOK /\ ClientInv(c)
  BY DEF IInv
<1>2. /\ queue'[c] = <<>> /\ phase'[c] = "off" /\ upload' = [u \in Uploaders |-> "idle"]
      /\ UNCHANGED <<rows, reordered, since, replay, page, listed, got, synced, cursor, cut, due>>
  BY DEF Restart, db, client, history
<1>3. \A id : ~BroadcastPending(id)'
  BY <1>2 DEF BroadcastPending
<1>4. Expected(c)' \subseteq Expected(c)
  BY <1>2, <1>3 DEF Expected
<1> QED BY <1>1, <1>2, <1>3, <1>4, Dropped

\* What one client's step does to the others.
LEMMA OneClient ==
  ASSUME IInv, TypeOK', NEW c \in Clients, NEW d \in Clients, d # c,
         Connect(c) \/ ReplayList(c) \/ ReplayFinish(c) \/ WriteFrame(c) \/ CloseConn(c) \/ Disconnect(c)
  PROVE  ClientInv(d)'
<1>1. TypeOK /\ ClientInv(d)
  BY DEF IInv
<1>2. UNCHANGED <<rows, upload, callId, reordered, due>>
  BY DEF Connect, ReplayList, ReplayFinish, WriteFrame, CloseConn, Disconnect, db, server, history
<1>3. KeepsOwn(d) /\ phase'[d] = phase[d]
  <2> USE <1>1 DEF TypeOK, KeepsOwn, client, history
  <2>1. CASE Connect(c)
    BY <2>1 DEF Connect
  <2>2. CASE ReplayList(c)
    BY <2>2 DEF ReplayList
  <2>3. CASE ReplayFinish(c)
    BY <2>3 DEF ReplayFinish
  <2>4. CASE WriteFrame(c)
    BY <2>4 DEF WriteFrame
  <2>5. CASE CloseConn(c)
    BY <2>5 DEF CloseConn
  <2>6. CASE Disconnect(c)
    BY <2>6 DEF Disconnect
  <2> QED BY <2>1, <2>2, <2>3, <2>4, <2>5, <2>6
<1> QED BY <1>1, <1>2, <1>3, Elsewhere

-----------------------------------------------------------------------------
(* The inductive invariant.                                                 *)

LEMMA InitIInv == Init => IInv
<1> SUFFICES ASSUME Init PROVE IInv
  OBVIOUS
<1> USE LiveFeedAssumption
<1>1. TypeOK
  <2>1. <<>> \in Seq(Frames) /\ Len(<<>>) = 0 /\ 0 <= SendBuffer
    OBVIOUS
  <2>2. 0 \in 0..MaxCalls /\ 1 \in 1..(MaxCalls + 1) /\ 0 \in 0..MaxBeats /\ 0 \in 0..MaxDrops
    OBVIOUS
  <2>3. queue \in [Clients -> Seq(Frames)] /\ \A c \in Clients : Len(queue[c]) <= SendBuffer
    BY <2>1 DEF Init
  <2> QED BY <2>2, <2>3 DEF Init, TypeOK
<1>2. Uploaded
  BY DEF Init, Uploaded
<1>3. ASSUME NEW c \in Clients PROVE ClientInv(c)
  <2>1. /\ rows = {} /\ phase[c] = "off" /\ since[c] = 0 /\ replay[c] = {} /\ page[c] = {}
        /\ ~listed[c] /\ queue[c] = <<>> /\ got[c] = {} /\ ~synced[c] /\ cursor[c] = 0
        /\ due[c] = {}
    BY DEF Init
  <2>2. Len(queue[c]) = 0 /\ 1..0 = {}
    BY <2>1
  <2>3. /\ InStore(c) = {} /\ Expected(c) = {}
        /\ \A i \in 0..Len(queue[c]) : Told(c, i) = {} /\ ~Complete(c, i)
    BY <2>1, <2>2 DEF InStore, Expected, Told, Complete
  <2>4. Known(c)
    BY <2>1, <2>3 DEF Known
  <2>5. Course(c)
    BY <2>1 DEF Course
  <2>6. Fresh(c)
    BY <2>1, <2>3 DEF Fresh
  <2>7. PageFirst(c) /\ InOrder(c)
    BY <2>1, <2>3 DEF PageFirst, InOrder
  <2>8. Followed(c)
    BY <2>1 DEF Followed, GapFree, Prefixed
  <2> QED BY <2>4, <2>5, <2>6, <2>7, <2>8 DEF ClientInv
<1> QED BY <1>1, <1>2, <1>3 DEF IInv

LEMMA ClientStep == IInv /\ [Next]_vars => \A d \in Clients : ClientInv(d)'
<1> SUFFICES ASSUME IInv, [Next]_vars, NEW d \in Clients PROVE ClientInv(d)'
  OBVIOUS
<1>1. TypeOK /\ TypeOK' /\ ClientInv(d)
  BY TypeStep DEF IInv
<1>2. ASSUME NEW u \in Uploaders, UploadStep(u) PROVE ClientInv(d)'
  BY <1>1, <1>2, BeginInsertStep, CommitInsertStep, BroadcastStep DEF UploadStep
<1>3. ASSUME NEW c \in Clients,
             Connect(c) \/ ReplayStep(c) \/ WriteFrame(c) \/ CloseConn(c) \/ Disconnect(c)
      PROVE  ClientInv(d)'
  <2>1. CASE ReplayEnqueue(c)
    BY <1>1, <2>1, ReplayEnqueueStep
  <2>2. CASE Connect(c) \/ ReplayList(c) \/ ReplayFinish(c) \/ WriteFrame(c) \/ CloseConn(c) \/ Disconnect(c)
    <3>1. CASE d # c
      BY <1>1, <2>2, <3>1, OneClient
    <3>2. CASE d = c
      BY <1>1, <2>2, <3>2, ConnectStep, ReplayListStep, ReplayFinishStep, WriteFrameStep, EndStep
    <3> QED BY <3>1, <3>2
  <2> QED BY <1>3, <2>1, <2>2 DEF ReplayStep
<1>4. CASE Heartbeat
  BY <1>1, <1>4, HeartbeatStep
<1>5. CASE Restart
  BY <1>1, <1>5, RestartStep
<1>6. CASE UNCHANGED vars
  <2>1. KeepsOwn(d) /\ phase'[d] = phase[d] /\ UNCHANGED <<rows, upload, callId, reordered, due>>
    BY <1>6 DEF vars, db, server, connection, client, history, KeepsOwn
  <2> QED BY <1>1, <2>1, Elsewhere
<1> QED BY <1>2, <1>3, <1>4, <1>5, <1>6 DEF Next

THEOREM IInvHolds == Spec => []IInv
<1>1. IInv /\ [Next]_vars => IInv'
  BY TypeStep, UploadedStep, ClientStep DEF IInv
<1> QED BY InitIInv, <1>1, PTL DEF Spec

\* The feed's state keeps its shape: no send queue grows beyond clientSendBuffer, and a
\* cursor is a call id or 0 (hub.go enqueueLocked, handleWebSocket; calls.go).
THEOREM TypeCorrect == Spec => []TypeOK
<1>1. IInv => TypeOK
  BY DEF IInv
<1> QED BY <1>1, IInvHolds, PTL

-----------------------------------------------------------------------------
(* What the invariant promises.                                             *)

\* hub.go handleWebSocket, calls.go replayMissedCalls: registering before listing leaves no
\* gap, replay_complete follows its page, and the page jumps over no row, wherever the
\* registration, the listing, the page and the live frames of other uploads fall.
THEOREM ReplayIsSound == Spec => []ReplaySound
<1>1. IInv => ReplaySound
  <2> SUFFICES ASSUME IInv PROVE ReplaySound
    OBVIOUS
  <2>1. TypeOK /\ \A c \in Clients : ClientInv(c)
    BY DEF IInv
  <2>2. NoReplayLiveGap
    <3> SUFFICES ASSUME NEW c \in Clients, phase[c] \in {"replaying", "live"}, listed[c],
                        NEW id \in Above(since[c])
                 PROVE  Accounted(c, id)
      BY DEF NoReplayLiveGap
    <3>1. BroadcastPending(id) \/ id \in InStore(c)
      BY <2>1 DEF ClientInv, Followed, GapFree
    <3> QED BY <2>1, <3>1, QueueTyped DEF Accounted
  <2>3. SentinelClosesPage
    <3> SUFFICES ASSUME NEW c \in Clients, synced[c] PROVE page[c] \subseteq got[c]
      BY DEF SentinelClosesPage
    <3>1. PageFirst(c) /\ Len(queue[c]) \in Nat
      BY <2>1, QueueTyped DEF ClientInv
    <3>2. 0 \in 0..Len(queue[c]) /\ 1..0 = {}
      BY <3>1
    <3>3. Complete(c, 0) /\ Told(c, 0) = got[c]
      BY <3>2 DEF Complete, Told
    <3> QED BY <3>1, <3>2, <3>3 DEF PageFirst
  <2>4. PageIsPrefix
    <3> SUFFICES ASSUME NEW c \in Clients, NEW m \in rows, NEW n \in rows, Registered(c),
                        m \in page[c], n > since[c], n < m, n \notin page[c]
                 PROVE  BroadcastPending(n) \/ n \in got[c] \cup Queued(c)
      BY DEF PageIsPrefix
    <3>1. BroadcastPending(n) \/ n \in InStore(c)
      BY <2>1 DEF ClientInv, Followed, Prefixed
    <3>2. n \notin replay[c]
      BY <2>1 DEF ClientInv, Known
    <3> QED BY <2>1, <3>1, <3>2, QueueTyped
  <2> QED BY <2>2, <2>3, <2>4 DEF ReplaySound
<1> QED BY <1>1, IInvHolds, PTL

\* hub.go:15-17, enqueueLocked and calls.go replayMissedCalls: a client that reconnected with
\* its cursor and is live again has, or is about to be sent, every call broadcast since it
\* has a cursor, whatever connections and restarts came in between, unless calls were
\* stored or broadcast out of id order or a listing failed or was cut at its limit.
THEOREM NothingElseLoses == Spec => []NothingElseLosesTraffic
<1>1. IInv => NothingElseLosesTraffic
  <2> SUFFICES ASSUME IInv, NEW c \in Clients, phase[c] = "live", ~reordered, ~cut[c],
                      NEW id \in due[c]
               PROVE  Accounted(c, id)
    BY DEF NothingElseLosesTraffic, CaughtUp
  <2>1. TypeOK /\ InOrder(c)
    BY DEF IInv, ClientInv
  <2>2. id \in InStore(c)
    BY <2>1 DEF InOrder
  <2> QED BY <2>1, <2>2, QueueTyped DEF Accounted
<1> QED BY <1>1, IInvHolds, PTL

-----------------------------------------------------------------------------
(* Part 2: incidents. Types.                                                *)

LEMMA AnyIdTyped == AnyId \in IncidentIds
  BY IncidentsAssumption DEF AnyId

LEMMA IdleTyped == Idle \in Request /\ Idle.pc = "idle" /\ Idle.then = "idle"
  BY AnyIdTyped, IncidentsAssumption DEF Idle, Request, AfterToken, Tokens, NoToken

\* What a request goes on with is a request, on the same incident if it is at work.
LEMMA DoneTyped ==
  ASSUME NEW s \in Request
  PROVE  Done(s) \in Request /\ Done(s).pc \in {"idle", "next"}
  BY IdleTyped DEF Done, Request

LEMMA WithTokenTyped ==
  ASSUME NEW s \in Request, NEW t \in Tokens
  PROVE  /\ WithToken(s, t) \in Request
         /\ s.then = "idle" => WithToken(s, t).pc \in {"idle", "next"}
         /\ s.then # "idle" =>
               /\ WithToken(s, t).i = s.i /\ WithToken(s, t).token = t
               /\ WithToken(s, t).pc = IF s.then = "stream" THEN "ensure" ELSE s.then
               /\ WithToken(s, t).then = IF s.then = "stream" THEN "save" ELSE s.then
<1> DEFINE u == [s EXCEPT !.token = t]
<1>1. u \in Request /\ u.i = s.i /\ u.then = s.then /\ u.token = t
  BY DEF Request
<1>2. CASE s.then = "idle"
  <2>1. WithToken(s, t) = Done(u)
    BY <1>2 DEF WithToken
  <2>2. Done(u) \in Request /\ Done(u).pc \in {"idle", "next"}
    BY <1>1, DoneTyped
  <2> HIDE DEF u
  <2> QED BY <1>2, <2>1, <2>2
<1>3. CASE s.then = "stream"
  <2>1. WithToken(s, t) = [u EXCEPT !.pc = "ensure", !.then = "save"]
    BY <1>3 DEF WithToken
  <2> HIDE DEF u
  <2> QED BY <1>1, <1>3, <2>1 DEF Request, AfterToken
<1>4. CASE s.then \in {"queue", "save"}
  <2>1. WithToken(s, t) = [u EXCEPT !.pc = s.then]
    BY <1>4 DEF WithToken
  <2> HIDE DEF u
  <2> QED BY <1>1, <1>4, <2>1 DEF Request, AfterToken
<1> QED BY <1>2, <1>3, <1>4 DEF Request, AfterToken

\* A step that gives one request a state.
LEMMA RequestTyped ==
  ASSUME req \in [Requests -> Request], NEW r, NEW s \in Request, req' = [req EXCEPT ![r] = s]
  PROVE  req' \in [Requests -> Request]
  OBVIOUS

LEMMA NoteTyped ==
  ASSUME excuse \in [IncidentIds -> SUBSET Excuses], NEW i \in IncidentIds,
         NEW marks \in SUBSET Excuses, Note(i, marks)
  PROVE  excuse' \in [IncidentIds -> SUBSET Excuses]
  BY DEF Note, Noted

LEMMA BesideTyped == \A i : Beside(i) \in SUBSET Excuses
  BY DEF Beside, Excuses

-----------------------------------------------------------------------------

\* What BeginReport makes of the request.
Verdict(i, verdict) ==
    IF bridge[i].status = "none" THEN Idle
    ELSE [Idle EXCEPT !.pc = verdict, !.i = i, !.token = bridge[i].stream]

LEMMA VerdictTyped ==
  ASSUME IncidentsTypeOK, NEW i \in IncidentIds, NEW verdict \in {"complete", "fail"}
  PROVE  Verdict(i, verdict) \in Request
  BY IdleTyped DEF IncidentsTypeOK, Verdict, Request, Bridge

\* The requests' variables.
LEMMA BeginTyped ==
  ASSUME IncidentsTypeOK, NEW r, NEW i \in IncidentIds, NEW s \in Request, Begin(r, i, s)
  PROVE  /\ req' \in [Requests -> Request] /\ excuse' \in [IncidentIds -> SUBSET Excuses]
         /\ starts' \in 0..MaxStarts /\ UNCHANGED <<purge, era, faults>>
<1>1. excuse' \in [IncidentIds -> SUBSET Excuses]
  BY BesideTyped, NoteTyped DEF IncidentsTypeOK, Begin
<1>2. req' \in [Requests -> Request]
  BY DEF IncidentsTypeOK, Begin, Starts
<1>3. starts' \in 0..MaxStarts
  BY IncidentsAssumption DEF IncidentsTypeOK, Begin, Starts
<1> QED BY <1>1, <1>2, <1>3 DEF Begin, Starts

LEMMA GoesTyped ==
  ASSUME IncidentsTypeOK, NEW r, NEW s \in Request, Goes(r, s)
  PROVE  /\ req' \in [Requests -> Request]
         /\ UNCHANGED <<tasks, purge, era, starts, faults>>
  BY DEF IncidentsTypeOK, Goes, bounds

LEMMA AsideTyped ==
  ASSUME IncidentsTypeOK, NEW i \in IncidentIds, NEW marks \in SUBSET Excuses, Aside(i, marks)
  PROVE  /\ excuse' \in [IncidentIds -> SUBSET Excuses]
         /\ starts' \in 0..MaxStarts /\ UNCHANGED <<tasks, req, purge, token, era, faults>>
<1>1. marks \cup Beside(i) \in SUBSET Excuses
  BY BesideTyped
<1>2. excuse' \in [IncidentIds -> SUBSET Excuses]
  BY <1>1, NoteTyped DEF IncidentsTypeOK, Aside
<1>3. starts' \in 0..MaxStarts
  BY IncidentsAssumption DEF IncidentsTypeOK, Aside
<1> QED BY <1>2, <1>3 DEF Aside

\* The tables.
LEMMA RowTyped ==
  ASSUME inc \in [IncidentIds -> Incident], NEW i \in IncidentIds, NEW s \in Incident,
         inc' = [inc EXCEPT ![i] = s]
  PROVE  inc' \in [IncidentIds -> Incident]
  OBVIOUS

LEMMA InitTyped == IncidentsInit => IncidentsTypeOK
<1> SUFFICES ASSUME IncidentsInit PROVE IncidentsTypeOK
  OBVIOUS
<1>1. PICK e \in [IncidentIds -> Exposures] :
        inc = [i \in IncidentIds |-> [status |-> "none", exposure |-> e[i],
                                      closed |-> 0, archived |-> 0, ended |-> 0]]
  BY DEF IncidentsInit
<1>2. inc \in [IncidentIds -> Incident] /\ \A i \in IncidentIds : inc[i].status = "none"
  BY <1>1, IncidentsAssumption DEF Incident, Stamps
<1>3. /\ set \in [IncidentIds -> RadioSet] /\ bridge \in [IncidentIds -> Bridge]
      /\ \A i \in IncidentIds : set[i].token = NoToken /\ bridge[i].status = "none"
  BY IncidentsAssumption DEF IncidentsInit, RadioSet, Bridge, NoSet, NoBridge, Tokens, NoToken
<1>4. /\ req \in [Requests -> Request] /\ excuse \in [IncidentIds -> SUBSET Excuses]
      /\ purge \in Purge /\ tasks = {}
  BY AnyIdTyped, IdleTyped DEF IncidentsInit, Purge
<1>5. /\ token \in Tokens /\ era \in 1..MaxEra
      /\ starts \in 0..MaxStarts /\ faults \in 0..MaxFaults
  BY IncidentsAssumption DEF IncidentsInit, Tokens, NoToken
<1> QED BY <1>2, <1>3, <1>4, <1>5 DEF IncidentsTypeOK

\* What the tables may become.
TablesTyped ==
    /\ inc \in [IncidentIds -> Incident] /\ set \in [IncidentIds -> RadioSet]
    /\ bridge \in [IncidentIds -> Bridge]
    /\ \A i \in IncidentIds : ~set[i].exists => set[i].token = NoToken
    /\ \A i \in IncidentIds : inc[i].status \in {"none", "purged"} => bridge[i].status = "none"

LEMMA TablesKept == IncidentsTypeOK /\ UNCHANGED tables => TablesTyped'
  BY DEF IncidentsTypeOK, TablesTyped, tables

LEMMA TypeBeginTables ==
  ASSUME IncidentsTypeOK, NEW r, NEW i \in IncidentIds, NEW s \in Request, Begin(r, i, s),
         TablesTyped', UNCHANGED <<tasks, token>>
  PROVE  IncidentsTypeOK'
<1>1. /\ req' \in [Requests -> Request] /\ excuse' \in [IncidentIds -> SUBSET Excuses]
      /\ starts' \in 0..MaxStarts /\ UNCHANGED <<purge, era, faults>>
  BY BeginTyped
<1> QED BY <1>1 DEF IncidentsTypeOK, TablesTyped

LEMMA TypeGoes ==
  ASSUME IncidentsTypeOK, NEW r, NEW s \in Request, Goes(r, s), TablesTyped',
         token' \in Tokens, excuse' \in [IncidentIds -> SUBSET Excuses]
  PROVE  IncidentsTypeOK'
<1>1. /\ req' \in [Requests -> Request] /\ UNCHANGED <<tasks, purge, era, starts, faults>>
  BY GoesTyped
<1> QED BY <1>1 DEF IncidentsTypeOK, TablesTyped

LEMMA TypeAside ==
  ASSUME IncidentsTypeOK, NEW i \in IncidentIds, NEW marks \in SUBSET Excuses,
         Aside(i, marks), TablesTyped'
  PROVE  IncidentsTypeOK'
<1>1. /\ excuse' \in [IncidentIds -> SUBSET Excuses]
      /\ starts' \in 0..MaxStarts /\ UNCHANGED <<tasks, req, purge, token, era, faults>>
  BY AsideTyped
<1> QED BY <1>1 DEF IncidentsTypeOK, TablesTyped

\* Requests that begin.
LEMMA TypeBegin ==
  ASSUME IncidentsTypeOK, NEW r \in Requests, NEW i \in IncidentIds,
         \/ \E activate \in BOOLEAN : BeginCreate(r, i, activate)
         \/ BeginActivate(r, i) \/ BeginAsk(r, i) \/ BeginClose(r, i)
         \/ BeginCloseBySet(r, i) \/ BeginUnbridge(r, i) \/ BeginShare(r, i)
         \/ BeginComplete(r, i) \/ BeginFail(r, i)
  PROVE  IncidentsTypeOK'
<1>1. ASSUME NEW activate \in BOOLEAN, BeginCreate(r, i, activate) PROVE IncidentsTypeOK'
  <2> DEFINE s == [Idle EXCEPT !.pc = "insert", !.i = i, !.activate = activate]
  <2>1. s \in Request
    BY IdleTyped DEF Request
  <2>2. TablesTyped'
    BY <1>1, IncidentsAssumption DEF BeginCreate, IncidentsTypeOK, TablesTyped, RadioSet, Tokens, NoToken
  <2>3. Begin(r, i, s) /\ UNCHANGED <<tasks, token>>
    BY <1>1 DEF BeginCreate
  <2> HIDE DEF s
  <2> QED BY <2>1, <2>2, <2>3, TypeBeginTables
<1>2. CASE BeginActivate(r, i)
  <2> DEFINE s == [Idle EXCEPT !.pc = "activate", !.i = i]
  <2>1. s \in Request
    BY IdleTyped DEF Request
  <2>2. Begin(r, i, s) /\ UNCHANGED <<tables, tasks, token>>
    BY <1>2 DEF BeginActivate
  <2> HIDE DEF s
  <2> QED BY <2>1, <2>2, TablesKept, TypeBeginTables
<1>3. CASE BeginAsk(r, i)
  <2> DEFINE s == [Idle EXCEPT !.pc = "queue", !.i = i]
  <2>1. s \in Request
    BY IdleTyped DEF Request
  <2>2. Begin(r, i, s) /\ UNCHANGED <<tables, tasks, token>>
    BY <1>3 DEF BeginAsk
  <2> HIDE DEF s
  <2> QED BY <2>1, <2>2, TablesKept, TypeBeginTables
<1>4. ASSUME BeginClose(r, i) PROVE IncidentsTypeOK'
  <2> DEFINE s == [Idle EXCEPT !.pc = "mark", !.i = i, !.linked = set[i].exists]
  <2>1. s \in Request
    BY IdleTyped DEF Request, IncidentsTypeOK, RadioSet
  <2>2. era \in Stamps
    BY IncidentsAssumption DEF IncidentsTypeOK, Stamps
  <2>3. TablesTyped'
    <3> DEFINE c == [inc[i] EXCEPT !.status = "closed", !.closed = era,
                                   !.ended = IF Ended(i) THEN @ ELSE era]
    <3>1. inc[i] \in Incident /\ inc \in [IncidentIds -> Incident]
      BY DEF IncidentsTypeOK
    <3>2. inc' = [inc EXCEPT ![i] = c]
      BY <1>4, <3>1 DEF BeginClose
    <3>3. c \in Incident /\ c.status = "closed"
      BY <2>2, <3>1 DEF Incident
    <3> HIDE DEF c
    <3>4. inc' \in [IncidentIds -> Incident] /\ inc'[i].status = "closed"
          /\ \A j \in IncidentIds : j # i => inc'[j] = inc[j]
      BY <3>1, <3>2, <3>3
    <3> QED BY <1>4, <3>4 DEF BeginClose, Stored, IncidentsTypeOK, TablesTyped
  <2>4. Begin(r, i, s) /\ UNCHANGED <<tasks, token>>
    BY <1>4 DEF BeginClose
  <2> HIDE DEF s
  <2> QED BY <2>1, <2>3, <2>4, TypeBeginTables
<1>5. CASE BeginCloseBySet(r, i)
  BY <1>4, <1>5 DEF BeginCloseBySet
<1>6. CASE BeginUnbridge(r, i)
  <2> DEFINE s == [Idle EXCEPT !.pc = "mark", !.i = i]
  <2>1. s \in Request
    BY IdleTyped DEF Request
  <2>2. Begin(r, i, s) /\ UNCHANGED <<tables, tasks, token>>
    BY <1>6 DEF BeginUnbridge
  <2> HIDE DEF s
  <2> QED BY <2>1, <2>2, TablesKept, TypeBeginTables
<1>7. CASE BeginShare(r, i)
  <2> DEFINE s == [Idle EXCEPT !.pc = "mint", !.i = i]
  <2>1. s \in Request
    BY IdleTyped DEF Request
  <2>2. Begin(r, i, s) /\ UNCHANGED <<tables, tasks, token>>
    BY <1>7 DEF BeginShare
  <2> HIDE DEF s
  <2> QED BY <2>1, <2>2, TablesKept, TypeBeginTables
<1>8. ASSUME NEW verdict \in {"complete", "fail"}, BeginReport(r, i, verdict)
      PROVE  IncidentsTypeOK'
  <2>1. req' = [req EXCEPT ![r] = Verdict(i, verdict)]
    BY <1>8 DEF BeginReport, Verdict
  <2>2. req' \in [Requests -> Request]
    BY <2>1, VerdictTyped DEF IncidentsTypeOK
  <2>3. excuse' \in [IncidentIds -> SUBSET Excuses]
    BY <1>8, BesideTyped, NoteTyped DEF BeginReport, IncidentsTypeOK
  <2>4. tasks' \subseteq Task /\ UNCHANGED <<tables, purge, token, era, starts, faults>>
    BY <1>8 DEF BeginReport, IncidentsTypeOK, bounds
  <2> QED BY <2>2, <2>3, <2>4 DEF IncidentsTypeOK, tables
<1> QED BY <1>1, <1>2, <1>3, <1>4, <1>5, <1>6, <1>7, <1>8 DEF BeginComplete, BeginFail

\* A statement that gives one incident a status.
LEMMA StatusTyped ==
  ASSUME IncidentsTypeOK, NEW i \in IncidentIds, NEW st \in {"draft", "active"},
         inc' = [inc EXCEPT ![i].status = st], UNCHANGED <<set, bridge>>
  PROVE  TablesTyped'
<1> DEFINE c == [inc[i] EXCEPT !.status = st]
<1>1. inc[i] \in Incident /\ inc \in [IncidentIds -> Incident]
  BY DEF IncidentsTypeOK
<1>2. inc' = [inc EXCEPT ![i] = c]
  BY <1>1
<1>3. c \in Incident /\ c.status = st
  BY <1>1 DEF Incident
<1> HIDE DEF c
<1>4. /\ inc' \in [IncidentIds -> Incident] /\ inc'[i].status = st
      /\ \A j \in IncidentIds : j # i => inc'[j] = inc[j]
  BY <1>1, <1>2, <1>3
<1> QED BY <1>4 DEF IncidentsTypeOK, TablesTyped

\* Steps of requests.
LEMMA TypeRequest ==
  ASSUME IncidentsTypeOK, NEW r \in Requests, RequestStep(r)
  PROVE  IncidentsTypeOK'
<1> DEFINE i == req[r].i
<1>0. /\ req[r] \in Request /\ i \in IncidentIds /\ excuse \in [IncidentIds -> SUBSET Excuses]
      /\ inc[i] \in Incident /\ set[i] \in RadioSet /\ bridge[i] \in Bridge
  BY DEF IncidentsTypeOK, Request
<1>r. \A pc \in {"idle", "insert", "activate", "ensure", "mint", "queue", "look", "save",
                 "mark", "clear", "complete", "fail", "next"} :
         [req[r] EXCEPT !.pc = pc] \in Request
  BY <1>0 DEF Request
<1>1. CASE Insert(r)
  <2> DEFINE s == IF set[i].exists /\ req[r].activate THEN [req[r] EXCEPT !.pc = "activate"] ELSE Idle
  <2>1. s \in Request
    BY <1>r, IdleTyped
  <2>2. Goes(r, s) /\ UNCHANGED <<set, bridge, token, excuse>>
    BY <1>1 DEF Insert
  <2>3. TablesTyped'
    <3>1. CASE set[i].exists
      BY <1>0, <1>1, <3>1, StatusTyped DEF Insert
    <3>2. CASE ~set[i].exists
      BY <1>1, <3>2, TablesKept DEF Insert, tables
    <3> QED BY <3>1, <3>2
  <2> HIDE DEF s
  <2> QED BY <2>1, <2>2, <2>3, TypeGoes DEF IncidentsTypeOK
<1>2. CASE Activate(r)
  <2> DEFINE s == IF ~Stored(i) THEN Idle
                  ELSE IF Shared(i) THEN [req[r] EXCEPT !.pc = "ensure", !.then = "queue"]
                  ELSE [req[r] EXCEPT !.pc = "queue"]
  <2>1. s \in Request
    <3>1. [req[r] EXCEPT !.pc = "ensure", !.then = "queue"] \in Request
      BY <1>0 DEF Request, AfterToken
    <3> QED BY <1>r, <3>1, IdleTyped
  <2>2. Goes(r, s) /\ UNCHANGED <<set, bridge, token>>
    BY <1>2 DEF Activate
  <2>3. TablesTyped'
    <3>1. CASE Stored(i)
      BY <1>0, <1>2, <3>1, StatusTyped DEF Activate
    <3>2. CASE ~Stored(i)
      BY <1>2, <3>2, TablesKept DEF Activate, tables
    <3> QED BY <3>1, <3>2
  <2>4. excuse' \in [IncidentIds -> SUBSET Excuses]
    <3>1. {"reopened"} \in SUBSET Excuses
      BY DEF Excuses
    <3> QED BY <1>0, <1>2, <3>1, NoteTyped DEF Activate
  <2> HIDE DEF s
  <2> QED BY <2>1, <2>2, <2>3, <2>4, TypeGoes DEF IncidentsTypeOK
<1>3. CASE Ensure(r)
  <2> DEFINE s == IF set[i].exists /\ set[i].token = NoToken
                  THEN [req[r] EXCEPT !.pc = "mint"] ELSE WithToken(req[r], set[i].token)
  <2>1. s \in Request
    BY <1>0, <1>r, WithTokenTyped DEF RadioSet
  <2>2. Goes(r, s) /\ UNCHANGED <<tables, token, excuse>>
    BY <1>3 DEF Ensure
  <2> HIDE DEF s
  <2> QED BY <2>1, <2>2, TablesKept, TypeGoes DEF IncidentsTypeOK
<1>4. CASE Mint(r)
  <2> DEFINE s == WithToken(req[r], token + 1)
  <2>1. token + 1 \in Tokens
    BY <1>4, IncidentsAssumption DEF Mint, IncidentsTypeOK, Tokens
  <2>2. s \in Request
    BY <1>0, <2>1, WithTokenTyped
  <2>3. Goes(r, s) /\ token' \in Tokens
    BY <1>4, <2>1 DEF Mint
  <2>4. TablesTyped'
    BY <1>0, <1>4, <2>1, IncidentsAssumption DEF Mint, IncidentsTypeOK, TablesTyped, RadioSet, Tokens, NoToken
  <2>5. excuse' \in [IncidentIds -> SUBSET Excuses]
    <3>1. (IF req[r].then = "idle" THEN {"shared"} ELSE {}) \in SUBSET Excuses
      BY DEF Excuses
    <3> QED BY <1>0, <1>4, <3>1, NoteTyped DEF Mint
  <2> HIDE DEF s
  <2> QED BY <2>2, <2>3, <2>4, <2>5, TypeGoes
<1>5. CASE Queue(r)
  <2> DEFINE s == IF ~Stored(i) \/ Skipped(i) THEN Done(req[r])
                  ELSE [req[r] EXCEPT !.pc = "look", !.linked = set[i].exists]
  <2>1. s \in Request
    BY <1>0, DoneTyped DEF Request, RadioSet
  <2>2. Goes(r, s) /\ UNCHANGED <<tables, token, excuse>>
    BY <1>5 DEF Queue
  <2> HIDE DEF s
  <2> QED BY <2>1, <2>2, TablesKept, TypeGoes DEF IncidentsTypeOK
<1>6. CASE Look(r)
  <2>1. PICK stale \in BOOLEAN :
          Goes(r, IF Kept(bridge[i], stale) THEN Done(req[r])
                  ELSE IF ~req[r].linked THEN [req[r] EXCEPT !.pc = "save", !.token = NoToken]
                  ELSE [req[r] EXCEPT !.pc = "ensure",
                                      !.then = IF inc[i].exposure = "community" THEN "stream"
                                                                                ELSE "save"])
    BY <1>6 DEF Look
  <2> DEFINE s == IF Kept(bridge[i], stale) THEN Done(req[r])
                  ELSE IF ~req[r].linked THEN [req[r] EXCEPT !.pc = "save", !.token = NoToken]
                  ELSE [req[r] EXCEPT !.pc = "ensure",
                                      !.then = IF inc[i].exposure = "community" THEN "stream"
                                                                                ELSE "save"]
  <2>2. s \in Request
    <3>1. [req[r] EXCEPT !.pc = "save", !.token = NoToken] \in Request
      <4>1. NoToken \in Tokens
        BY IncidentsAssumption DEF Tokens, NoToken
      <4> QED BY <1>0, <4>1 DEF Request
    <3>2. \A th \in AfterToken : [req[r] EXCEPT !.pc = "ensure", !.then = th] \in Request
      BY <1>0 DEF Request
    <3>3. Done(req[r]) \in Request
      BY <1>0, DoneTyped
    <3> QED BY <3>1, <3>2, <3>3 DEF AfterToken
  <2>3. Goes(r, s) /\ UNCHANGED <<tables, token, excuse>>
    BY <1>6, <2>1 DEF Look
  <2> HIDE DEF s
  <2> QED BY <2>2, <2>3, TablesKept, TypeGoes DEF IncidentsTypeOK
<1>7. CASE Save(r)
  <2>1. Done(req[r]) \in Request
    BY <1>0, DoneTyped
  <2>2. TablesTyped'
    BY <1>0, <1>7 DEF Save, Upserted, Stored, IncidentsTypeOK, TablesTyped, Bridge, Request
  <2> QED BY <1>7, <2>1, <2>2, TypeGoes DEF Save, IncidentsTypeOK
<1>8. CASE Mark(r)
  <2> DEFINE s == IF req[r].linked THEN [req[r] EXCEPT !.pc = "clear"] ELSE Idle
  <2>1. s \in Request
    BY <1>r, IdleTyped
  <2>2. Goes(r, s) /\ UNCHANGED <<inc, set, token, excuse>>
    BY <1>8 DEF Mark
  <2>3. TablesTyped'
    BY <1>0, <1>8 DEF Mark, Stopping, IncidentsTypeOK, TablesTyped, Bridge
  <2> HIDE DEF s
  <2> QED BY <2>1, <2>2, <2>3, TypeGoes DEF IncidentsTypeOK
<1>9. CASE Clear(r)
  <2>1. TablesTyped'
    BY <1>0, <1>9, IncidentsAssumption DEF Clear, Cleared, IncidentsTypeOK, TablesTyped, RadioSet, Tokens, NoToken
  <2>2. excuse' \in [IncidentIds -> SUBSET Excuses]
    BY <1>0, <1>9 DEF Clear
  <2> QED BY <1>9, <2>1, <2>2, IdleTyped, TypeGoes DEF Clear, IncidentsTypeOK
<1>10. CASE Reconcile(r)
  <2>1. TablesTyped' /\ token' \in Tokens
    BY <1>10, TablesKept DEF Reconcile, IncidentsTypeOK
  <2>2. CASE req[r].todo # {}
    <3>1. PICK j \in req[r].todo :
            /\ Goes(r, [req[r] EXCEPT !.pc = "queue", !.i = j, !.todo = @ \ {j}])
            /\ Note(j, Beside(j))
      BY <1>10, <2>2 DEF Reconcile
    <3> DEFINE s == [req[r] EXCEPT !.pc = "queue", !.i = j, !.todo = @ \ {j}]
    <3>2. s \in Request /\ j \in IncidentIds
      BY <1>0 DEF Request
    <3>3. excuse' \in [IncidentIds -> SUBSET Excuses]
      BY <1>0, <3>1, <3>2, BesideTyped, NoteTyped
    <3>4. Goes(r, s)
      BY <3>1
    <3> HIDE DEF s
    <3> QED BY <2>1, <3>2, <3>3, <3>4, TypeGoes
  <2>3. CASE req[r].todo = {}
    <3> DEFINE s == IF req[r].round = 1 /\ Failed # {}
                    THEN [req[r] EXCEPT !.round = 2, !.todo = Failed] ELSE Idle
    <3>1. s \in Request
      <4>1. Failed \subseteq IncidentIds
        BY DEF Failed
      <4>2. [req[r] EXCEPT !.round = 2, !.todo = Failed] \in Request
        <5>1. 2 \in 0..2
          OBVIOUS
        <5> QED BY <1>0, <4>1, <5>1 DEF Request
      <4> QED BY <4>2, IdleTyped
    <3>2. Goes(r, s) /\ UNCHANGED excuse
      BY <1>10, <2>3 DEF Reconcile
    <3> HIDE DEF s
    <3> QED BY <1>0, <2>1, <3>1, <3>2, TypeGoes
  <2> QED BY <2>2, <2>3
<1>11. CASE Report(r)
  <2>1. TablesTyped'
    BY <1>0, <1>11 DEF Report, IncidentsTypeOK, TablesTyped, Bridge, Request
  <2>2. excuse' \in [IncidentIds -> SUBSET Excuses]
    <3>1. (IF bridge[i].status = "pending" THEN {} ELSE {"late"}) \in SUBSET Excuses
      BY DEF Excuses
    <3> QED BY <1>0, <1>11, <3>1, NoteTyped DEF Report
  <2> QED BY <1>11, <2>1, <2>2, IdleTyped, TypeGoes DEF Report, IncidentsTypeOK
<1> QED BY <1>1, <1>2, <1>3, <1>4, <1>5, <1>6, <1>7, <1>8, <1>9, <1>10, <1>11 DEF RequestStep

\* Statements beside requests, the bot, the purge and restarts.
LEMMA TypeOther ==
  ASSUME IncidentsTypeOK,
         \/ \E i \in IncidentIds :
               \/ Archive(i) \/ Revoke(i) \/ DeleteSet(i)
               \/ Take(i) \/ ReportStop(i) \/ PurgeDelete(i)
         \/ PurgeList \/ PurgeDrop \/ BotRestart \/ Tick \/ HubRestart
         \/ \E r \in Requests : BeginReconcile(r)
  PROVE  IncidentsTypeOK'
<1>1. ASSUME NEW i \in IncidentIds, Archive(i) PROVE IncidentsTypeOK'
  <2> DEFINE c == [inc[i] EXCEPT !.status = "archived", !.archived = era,
                                 !.ended = IF Ended(i) THEN @ ELSE era]
             marks == IF Ended(i) THEN {} ELSE {"kept"}
  <2>1. inc[i] \in Incident /\ inc \in [IncidentIds -> Incident] /\ era \in Stamps
    BY IncidentsAssumption DEF IncidentsTypeOK, Stamps
  <2>2. inc' = [inc EXCEPT ![i] = c]
    BY <1>1, <2>1 DEF Archive
  <2>3. c \in Incident /\ c.status = "archived"
    BY <2>1 DEF Incident
  <2>4. marks \in SUBSET Excuses /\ Aside(i, marks)
    BY <1>1 DEF Archive, Excuses
  <2> HIDE DEF c, marks
  <2>5. inc' \in [IncidentIds -> Incident] /\ inc'[i].status = "archived"
        /\ \A j \in IncidentIds : j # i => inc'[j] = inc[j]
    BY <2>1, <2>2, <2>3
  <2>6. TablesTyped'
    BY <1>1, <2>5 DEF Archive, IncidentsTypeOK, TablesTyped
  <2> QED BY <2>4, <2>6, TypeAside
<1>2. ASSUME NEW i \in IncidentIds, Revoke(i) PROVE IncidentsTypeOK'
  <2>1. TablesTyped'
    BY <1>2, IncidentsAssumption DEF Revoke, Cleared, IncidentsTypeOK, TablesTyped, RadioSet, Tokens, NoToken
  <2>2. {"revoked"} \in SUBSET Excuses
    BY DEF Excuses
  <2> QED BY <1>2, <2>1, <2>2, TypeAside DEF Revoke
<1>3. ASSUME NEW i \in IncidentIds, DeleteSet(i) PROVE IncidentsTypeOK'
  <2>1. TablesTyped'
    BY <1>3, IncidentsAssumption DEF DeleteSet, NoSet, IncidentsTypeOK, TablesTyped, RadioSet, Tokens, NoToken
  <2> QED BY <1>3, <2>1, TypeAside DEF DeleteSet
<1>4. ASSUME NEW i \in IncidentIds, Take(i) PROVE IncidentsTypeOK'
  <2>1. tasks' \subseteq Task
    BY <1>4 DEF Take, IncidentsTypeOK, Task
  <2> QED BY <1>4, <2>1 DEF Take, IncidentsTypeOK, tables, bounds
<1>5. ASSUME NEW i \in IncidentIds, ReportStop(i) PROVE IncidentsTypeOK'
  <2>1. TablesTyped'
    BY <1>5 DEF ReportStop, IncidentsTypeOK, TablesTyped, Bridge
  <2>2. excuse' \in [IncidentIds -> SUBSET Excuses]
    BY <1>5, BesideTyped, NoteTyped DEF ReportStop, IncidentsTypeOK
  <2>3. tasks' \subseteq Task /\ UNCHANGED <<req, purge, token, era, starts, faults>>
    BY <1>5 DEF ReportStop, IncidentsTypeOK, bounds
  <2> QED BY <2>1, <2>2, <2>3 DEF IncidentsTypeOK, TablesTyped
<1>6. ASSUME NEW i \in IncidentIds, PurgeDelete(i) PROVE IncidentsTypeOK'
  <2>1. TablesTyped'
    <3>1. inc' = [inc EXCEPT ![i].status = "purged"] /\ bridge' = [bridge EXCEPT ![i] = NoBridge]
          /\ set' = set
      BY <1>6 DEF PurgeDelete
    <3>2. inc' \in [IncidentIds -> Incident] /\ \A j \in IncidentIds : j # i => inc'[j] = inc[j]
      BY <3>1 DEF IncidentsTypeOK, Incident
    <3>3. /\ bridge' \in [IncidentIds -> Bridge] /\ bridge'[i].status = "none"
          /\ \A j \in IncidentIds : j # i => bridge'[j] = bridge[j]
      BY <3>1, IncidentsAssumption DEF IncidentsTypeOK, Bridge, NoBridge, Tokens, NoToken
    <3> QED BY <3>1, <3>2, <3>3 DEF IncidentsTypeOK, TablesTyped
  <2>2. excuse' \in [IncidentIds -> SUBSET Excuses]
    BY <1>6, BesideTyped, NoteTyped DEF PurgeDelete, IncidentsTypeOK
  <2>3. purge' \in Purge
    BY <1>6 DEF PurgeDelete, IncidentsTypeOK, Purge
  <2>4. UNCHANGED <<tasks, req, token, era, starts, faults>>
    BY <1>6 DEF PurgeDelete, bounds
  <2> QED BY <2>1, <2>2, <2>3, <2>4 DEF IncidentsTypeOK, TablesTyped
<1>7. CASE PurgeList
  <2>1. excuse' \in [IncidentIds -> SUBSET Excuses]
    BY <1>7 DEF PurgeList, IncidentsTypeOK, Excuses
  <2>2. purge' \in Purge
    BY <1>7 DEF PurgeList, IncidentsTypeOK, Purge
  <2> QED BY <1>7, <2>1, <2>2 DEF PurgeList, IncidentsTypeOK, tables, bounds
<1>8. CASE PurgeDrop
  <2>1. TablesTyped'
    BY <1>8, IncidentsAssumption DEF PurgeDrop, NoSet, IncidentsTypeOK, TablesTyped, RadioSet, Tokens, NoToken, Purge
  <2>2. purge' \in Purge
    BY <1>8 DEF PurgeDrop, IncidentsTypeOK, Purge
  <2> QED BY <1>8, <2>1, <2>2 DEF PurgeDrop, IncidentsTypeOK, TablesTyped, bounds
<1>9. CASE BotRestart
  <2>1. faults' \in 0..MaxFaults
    BY <1>9, IncidentsAssumption DEF BotRestart, IncidentsTypeOK
  <2> QED BY <1>9, <2>1 DEF BotRestart, IncidentsTypeOK, tables
<1>10. CASE Tick
  <2>1. era' \in 1..MaxEra
    BY <1>10, IncidentsAssumption DEF Tick, IncidentsTypeOK
  <2> QED BY <1>10, <2>1 DEF Tick, IncidentsTypeOK, tables, bounds
<1>11. CASE HubRestart
  <2>1. faults' \in 0..MaxFaults
    BY <1>11, IncidentsAssumption DEF HubRestart, IncidentsTypeOK
  <2>2. req' \in [Requests -> Request]
    BY <1>11, IdleTyped DEF HubRestart
  <2>3. excuse' \in [IncidentIds -> SUBSET Excuses]
    BY <1>11, BesideTyped DEF HubRestart, IncidentsTypeOK, Noted, Excuses
  <2>4. purge' \in Purge
    BY <1>11 DEF HubRestart, IncidentsTypeOK, Purge
  <2> QED BY <1>11, <2>1, <2>2, <2>3, <2>4 DEF HubRestart, IncidentsTypeOK, tables
<1>12. ASSUME NEW r \in Requests, BeginReconcile(r) PROVE IncidentsTypeOK'
  <2> DEFINE s == [Idle EXCEPT !.pc = "next", !.round = 1, !.todo = Missing]
  <2>1. s \in Request
    <3>1. Missing \subseteq IncidentIds /\ 1 \in 0..2
      BY DEF Missing
    <3> QED BY <3>1, IdleTyped DEF Request
  <2>2. req' = [req EXCEPT ![r] = s] /\ UNCHANGED <<tables, tasks, token, excuse, purge, era, faults>>
    BY <1>12 DEF BeginReconcile, Starts
  <2>3. starts' \in 0..MaxStarts
    BY <1>12, IncidentsAssumption DEF BeginReconcile, Starts, IncidentsTypeOK
  <2> HIDE DEF s
  <2> QED BY <2>1, <2>2, <2>3 DEF IncidentsTypeOK, tables
<1> QED BY <1>1, <1>2, <1>3, <1>4, <1>5, <1>6, <1>7, <1>8, <1>9, <1>10, <1>11, <1>12

LEMMA TypeIncidents == IncidentsTypeOK /\ [IncidentsNext]_incidentsVars => IncidentsTypeOK'
<1> SUFFICES ASSUME IncidentsTypeOK, [IncidentsNext]_incidentsVars PROVE IncidentsTypeOK'
  OBVIOUS
<1>1. CASE UNCHANGED incidentsVars
  BY <1>1 DEF IncidentsTypeOK, incidentsVars, tables, bounds
<1>2. CASE IncidentsNext
  BY <1>2, TypeBegin, TypeRequest, TypeOther DEF IncidentsNext
<1> QED BY <1>1, <1>2

-----------------------------------------------------------------------------
(* The inductive invariant of incidents.                                    *)

Up(link) == link.status \in {"pending", "active"}
Over(line) == line.status \in {"closed", "archived"}
AtWork(q) == q.pc \notin {"idle", "next"}

\* While request q is at work on an incident that nothing else touched: its row, its radio
\* set, its bridge and what is excused. An open incident can be listened to, or q is about
\* to see to that; ...
Heard(line, radio, marks, q) ==
    (line.status = "active" /\ line.exposure = "community" /\ radio.exists /\ "revoked" \notin marks)
      => \/ radio.token # NoToken
         \/ q.pc = "activate"
         \/ q.pc \in {"ensure", "mint"} /\ q.then = "queue"

\* ... one that is over has neither token nor bridge, or q is about to take them; ...
Silent(line, radio, link, marks, q) ==
    (Over(line) /\ "kept" \notin marks)
      => /\ \/ "shared" \in marks \/ radio.token = NoToken
            \/ q.pc = "clear" \/ (q.pc = "mark" /\ q.linked)
         /\ "late" \in marks \/ ~Up(link) \/ q.pc = "mark"

\* ... a bridge streams with the token, which is there; a draft never had one; ...
Current(line, radio, link, marks) ==
    /\ (/\ line.status = "active" /\ radio.exists /\ Up(link)
        /\ marks \cap {"revoked", "late", "kept"} = {})
         => link.stream = radio.token /\ radio.token # NoToken
    /\ line.status = "draft" => link.status = "none"

\* ... and what q has read still holds.
Intent(line, radio, link, marks, q) ==
    /\ q.pc \in {"look", "save", "ensure"} => line.status = "active"
    /\ q.pc = "mint" => /\ radio.token = NoToken
                        /\ q.then # "idle" => line.status = "active"
    /\ q.pc = "look" => (q.linked <=> radio.exists)
    /\ (q.pc = "save" /\ radio.exists) => q.token = radio.token /\ q.token # NoToken
    /\ (q.pc = "mark" /\ q.linked) => Over(line)
    /\ q.pc = "clear" => Over(line) /\ ("late" \in marks \/ ~Up(link))
    /\ q.pc \in {"complete", "fail"} => q.token = link.stream

Fits(line, radio, link, marks, q) ==
    /\ Heard(line, radio, marks, q) /\ Silent(line, radio, link, marks, q)
    /\ Current(line, radio, link, marks) /\ Intent(line, radio, link, marks, q)

\* No two requests were ever at work on i at once.
Alone(i) == "raced" \notin excuse[i]
Agree(i) ==
    /\ \A r, q \in On(i) : r = q
    /\ On(i) = {} => Fits(inc[i], set[i], bridge[i], excuse[i], Idle)
    /\ \A r \in On(i) : Fits(inc[i], set[i], bridge[i], excuse[i], req[r])
AllAgree == \A i \in IncidentIds : Alone(i) => Agree(i)

\* One request makes an incident.
Making ==
    \A r \in Requests : req[r].pc = "insert" =>
        /\ inc[req[r].i].status = "none"
        /\ \A q \in Requests : req[q].pc = "insert" /\ req[q].i = req[r].i => q = r

\* Whoever is about to give an incident a bridge or a stream of its own found it not internal.
Outward ==
    \A r \in Requests :
        /\ req[r].pc \in {"look", "save", "ensure"} => inc[req[r].i].exposure # "internal"
        /\ (req[r].pc = "mint" /\ req[r].then # "idle") => inc[req[r].i].exposure # "internal"
        /\ req[r].pc = "ensure" => req[r].then # "idle"

\* Stamps are of this era or earlier; the last closing is not before the end.
Ages ==
    \A i \in IncidentIds :
        /\ inc[i].closed <= era /\ inc[i].archived <= era /\ inc[i].ended <= era
        /\ inc[i].status = "closed" => inc[i].ended <= inc[i].closed
        /\ inc[i].status = "archived" => inc[i].archived > 0

\* What the purge still has to do.
Gone ==
    \A i \in IncidentIds : inc[i].status = "purged" /\ set[i].exists =>
        "orphan" \in excuse[i] \/ (purge.pc = "drop" /\ purge.i = i)
Due(i) == \/ {"reopened", "restamped"} \cap excuse[i] # {}
          \/ Ended(i) /\ inc[i].ended < era
Purging ==
    /\ purge.pc = "drop" => inc[purge.i].status = "purged"
    /\ purge.pc = "idle" => purge.todo = {}
    /\ \A i \in purge.todo : Stored(i) /\ Due(i)

IncidentsIInv ==
    /\ IncidentsTypeOK /\ AllAgree
    /\ Making /\ Outward /\ InternalStaysIn
    /\ Ages /\ Gone /\ Purging

-----------------------------------------------------------------------------
(* What a step means to the incidents it does and does not touch.           *)

LEMMA RestFits ==
  ASSUME NEW line, NEW radio, NEW link, NEW marks, NEW q, NEW s,
         Fits(line, radio, link, marks, q), ~AtWork(q), ~AtWork(s)
  PROVE  Fits(line, radio, link, marks, s)
  BY DEF Fits, Heard, Silent, Current, Intent, AtWork

LEMMA MarksFit ==
  ASSUME NEW line, NEW radio, NEW link, NEW marks, NEW new, NEW q,
         \A m \in {"revoked", "kept", "shared", "late"} : m \in new <=> m \in marks,
         Fits(line, radio, link, marks, q)
  PROVE  Fits(line, radio, link, new, q)
<1>1. Heard(line, radio, new, q)
  BY DEF Fits, Heard
<1>2. Silent(line, radio, link, new, q)
  BY DEF Fits, Silent
<1>3. Current(line, radio, link, new)
  BY DEF Fits, Current
<1>4. Intent(line, radio, link, new, q)
  BY DEF Fits, Intent
<1> QED BY <1>1, <1>2, <1>3, <1>4 DEF Fits

\* Nothing that concerns i.
LEMMA ElsewhereAgrees ==
  ASSUME NEW i \in IncidentIds, Alone(i)' => Alone(i), Alone(i) => Agree(i),
         inc'[i] = inc[i], set'[i] = set[i], bridge'[i] = bridge[i],
         \A m \in {"revoked", "kept", "shared", "late"} : m \in excuse'[i] <=> m \in excuse[i],
         \A r \in Requests : r \in On(i)' <=> r \in On(i),
         \A r \in On(i) : req'[r] = req[r]
  PROVE  Alone(i)' => Agree(i)'
<1> SUFFICES ASSUME Alone(i)' PROVE Agree(i)'
  OBVIOUS
<1>1. On(i)' = On(i)
  BY DEF On
<1>2. Agree(i)
  OBVIOUS
<1>3. \A q : Fits(inc[i], set[i], bridge[i], excuse[i], q) => Fits(inc'[i], set'[i], bridge'[i], excuse'[i], q)
  BY MarksFit
<1>4. \A r, q \in On(i)' : r = q
  BY <1>1, <1>2 DEF Agree
<1>5. On(i)' = {} => Fits(inc'[i], set'[i], bridge'[i], excuse'[i], Idle)
  BY <1>1, <1>2, <1>3 DEF Agree
<1>6. \A r \in On(i)' : Fits(inc'[i], set'[i], bridge'[i], excuse'[i], req'[r])
  BY <1>1, <1>2, <1>3 DEF Agree
<1> QED BY <1>4, <1>5, <1>6 DEF Agree

\* Only r may be at work on i afterwards, and what it goes on with fits.
LEMMA OnlyOneAgrees ==
  ASSUME NEW i \in IncidentIds, NEW r \in Requests, On(i)' \subseteq {r},
         r \notin On(i)' => ~AtWork(req'[r]) ,
         Fits(inc'[i], set'[i], bridge'[i], excuse'[i], req'[r])
  PROVE  Agree(i)'
<1>1. \A p, q \in On(i)' : p = q
  OBVIOUS
<1>2. On(i)' = {} => Fits(inc'[i], set'[i], bridge'[i], excuse'[i], Idle)
  BY RestFits DEF Idle, AtWork
<1>3. \A q \in On(i)' : Fits(inc'[i], set'[i], bridge'[i], excuse'[i], req'[q])
  OBVIOUS
<1> QED BY <1>1, <1>2, <1>3 DEF Agree

\* What a step leaves alone of the others.
OthersUntouched(i) ==
    \A j \in IncidentIds : j # i => /\ inc'[j] = inc[j] /\ set'[j] = set[j]
                                    /\ bridge'[j] = bridge[j] /\ excuse'[j] = excuse[j]

\* A step of a request that is at work on i.
LEMMA StepAgrees ==
  ASSUME IncidentsTypeOK, AllAgree, NEW r \in Requests, NEW s \in Request, AtWork(req[r]),
         NEW i \in IncidentIds, req[r].i = i,
         req' = [req EXCEPT ![r] = s], AtWork(s) => s.i = i,
         OthersUntouched(i), Alone(i)' => Alone(i),
         (Alone(i)' /\ Fits(inc[i], set[i], bridge[i], excuse[i], req[r]))
           => Fits(inc'[i], set'[i], bridge'[i], excuse'[i], s)
  PROVE  AllAgree'
<1>1. r \in On(i) /\ req'[r] = s /\ \A q \in Requests : q # r => req'[q] = req[q]
  BY DEF IncidentsTypeOK, On, AtWork
<1>2. ASSUME NEW j \in IncidentIds, j # i PROVE Alone(j)' => Agree(j)'
  <2>1. r \notin On(j) /\ r \notin On(j)'
    BY <1>1, <1>2 DEF On, AtWork
  <2>2. /\ \A q \in Requests : q \in On(j)' <=> q \in On(j)
        /\ \A q \in On(j) : req'[q] = req[q]
    BY <1>1, <2>1 DEF On
  <2>3. inc'[j] = inc[j] /\ set'[j] = set[j] /\ bridge'[j] = bridge[j] /\ excuse'[j] = excuse[j]
    BY <1>2 DEF OthersUntouched
  <2>4. (Alone(j)' => Alone(j)) /\ (Alone(j) => Agree(j))
    BY <2>3 DEF Alone, AllAgree
  <2> QED BY <2>2, <2>3, <2>4, ElsewhereAgrees
<1>3. ASSUME Alone(i)' PROVE Agree(i)'
  <2>1. Agree(i)
    BY <1>1, <1>3 DEF AllAgree
  <2>2. On(i) = {r} /\ Fits(inc[i], set[i], bridge[i], excuse[i], req[r])
    BY <1>1, <2>1 DEF Agree
  <2>3. Fits(inc'[i], set'[i], bridge'[i], excuse'[i], req'[r])
    BY <1>1, <1>3, <2>2
  <2>4. On(i)' \subseteq {r}
    <3>1. \A q \in Requests : q # r => ~(AtWork(req[q]) /\ req[q].i = i)
      BY <2>2 DEF On, AtWork
    <3>2. \A q \in Requests : q # r => q \notin On(i)'
      BY <1>1, <3>1 DEF On, AtWork
    <3> QED BY <3>2 DEF On
  <2>5. r \notin On(i)' => ~AtWork(req'[r])
    BY <1>1 DEF On, AtWork
  <2> QED BY <1>1, <2>3, <2>4, <2>5, OnlyOneAgrees
<1> QED BY <1>2, <1>3 DEF AllAgree

\* A step that notes overlapping, on i.
LEMMA BesideAlone ==
  ASSUME NEW i \in IncidentIds, NEW marks, excuse \in [IncidentIds -> SUBSET Excuses],
         Note(i, marks), Beside(i) \subseteq marks, Alone(i)'
  PROVE  On(i) = {} /\ Alone(i) /\ excuse'[i] = excuse[i] \cup marks
<1>1. excuse'[i] = Noted(excuse[i], marks)
  BY DEF Note
<1>2. "raced" \notin excuse[i] \cup marks
  BY <1>1 DEF Alone, Noted
<1>3. excuse'[i] = excuse[i] \cup marks
  BY <1>1, <1>2 DEF Noted
<1>4. On(i) = {}
  BY <1>2 DEF Beside
<1> QED BY <1>2, <1>3, <1>4 DEF Alone

\* A request that begins on i, and a statement beside requests (s is idle, r any).
LEMMA BeginAgrees ==
  ASSUME IncidentsTypeOK, AllAgree, NEW i \in IncidentIds, NEW r \in Requests, NEW s \in Request,
         ~AtWork(req[r]), AtWork(s) => s.i = i, req' = [req EXCEPT ![r] = s],
         OthersUntouched(i), NEW marks, Note(i, marks), Beside(i) \subseteq marks,
         (/\ excuse'[i] = excuse[i] \cup marks
          /\ Fits(inc[i], set[i], bridge[i], excuse[i], Idle))
           => Fits(inc'[i], set'[i], bridge'[i], excuse'[i], s)
  PROVE  AllAgree'
<1>1. req'[r] = s /\ \A q \in Requests : q # r => req'[q] = req[q]
  BY DEF IncidentsTypeOK
<1>2. ASSUME NEW j \in IncidentIds, j # i PROVE Alone(j)' => Agree(j)'
  <2>1. r \notin On(j) /\ r \notin On(j)'
    BY <1>1, <1>2 DEF On, AtWork
  <2>2. /\ \A q \in Requests : q \in On(j)' <=> q \in On(j)
        /\ \A q \in On(j) : req'[q] = req[q]
    BY <1>1, <2>1 DEF On
  <2>3. inc'[j] = inc[j] /\ set'[j] = set[j] /\ bridge'[j] = bridge[j] /\ excuse'[j] = excuse[j]
    BY <1>2 DEF OthersUntouched
  <2>4. (Alone(j)' => Alone(j)) /\ (Alone(j) => Agree(j))
    BY <2>3 DEF Alone, AllAgree
  <2> QED BY <2>2, <2>3, <2>4, ElsewhereAgrees
<1>3. ASSUME Alone(i)' PROVE Agree(i)'
  <2>1. On(i) = {} /\ Alone(i) /\ excuse'[i] = excuse[i] \cup marks
    BY <1>3, BesideAlone DEF IncidentsTypeOK
  <2>2. Fits(inc[i], set[i], bridge[i], excuse[i], Idle)
    BY <2>1 DEF AllAgree, Agree
  <2>3. Fits(inc'[i], set'[i], bridge'[i], excuse'[i], req'[r])
    BY <1>1, <2>1, <2>2
  <2>4. On(i)' \subseteq {r}
    <3>1. \A q \in Requests : ~(AtWork(req[q]) /\ req[q].i = i)
      BY <2>1 DEF On, AtWork
    <3>2. \A q \in Requests : q # r => q \notin On(i)'
      BY <1>1, <3>1 DEF On, AtWork
    <3> QED BY <3>2 DEF On
  <2>5. r \notin On(i)' => ~AtWork(req'[r])
    BY <1>1 DEF On, AtWork
  <2> QED BY <2>3, <2>4, <2>5, OnlyOneAgrees
<1> QED BY <1>2, <1>3 DEF AllAgree

LEMMA BesideAgrees ==
  ASSUME IncidentsTypeOK, AllAgree, NEW i \in IncidentIds, UNCHANGED req,
         OthersUntouched(i), NEW marks, Note(i, marks), Beside(i) \subseteq marks,
         (/\ excuse'[i] = excuse[i] \cup marks
          /\ Fits(inc[i], set[i], bridge[i], excuse[i], Idle))
           => Fits(inc'[i], set'[i], bridge'[i], excuse'[i], Idle)
  PROVE  AllAgree'
<1>1. \A j \in IncidentIds : On(j)' = On(j)
  BY DEF On
<1>2. ASSUME NEW j \in IncidentIds, j # i PROVE Alone(j)' => Agree(j)'
  <2>1. inc'[j] = inc[j] /\ set'[j] = set[j] /\ bridge'[j] = bridge[j] /\ excuse'[j] = excuse[j]
    BY <1>2 DEF OthersUntouched
  <2>2. (Alone(j)' => Alone(j)) /\ (Alone(j) => Agree(j))
    BY <2>1 DEF Alone, AllAgree
  <2> QED BY <1>1, <2>1, <2>2, ElsewhereAgrees
<1>3. ASSUME Alone(i)' PROVE Agree(i)'
  <2>1. On(i) = {} /\ Alone(i) /\ excuse'[i] = excuse[i] \cup marks
    BY <1>3, BesideAlone DEF IncidentsTypeOK
  <2>2. Fits(inc[i], set[i], bridge[i], excuse[i], Idle)
    BY <2>1 DEF AllAgree, Agree
  <2>3. Fits(inc'[i], set'[i], bridge'[i], excuse'[i], Idle)
    BY <2>1, <2>2
  <2> QED BY <1>1, <2>1, <2>3 DEF Agree
<1> QED BY <1>2, <1>3 DEF AllAgree

\* An excuse excuses.
LEMMA MoreMarks ==
  ASSUME NEW line, NEW radio, NEW link, NEW marks, NEW new, NEW q,
         marks \subseteq new, Fits(line, radio, link, marks, q)
  PROVE  Fits(line, radio, link, new, q)
<1>1. Heard(line, radio, new, q)
  BY DEF Fits, Heard
<1>2. Silent(line, radio, link, new, q)
  BY DEF Fits, Silent
<1>3. Current(line, radio, link, new)
  BY DEF Fits, Current
<1>4. Intent(line, radio, link, new, q)
  BY DEF Fits, Intent
<1> QED BY <1>1, <1>2, <1>3, <1>4 DEF Fits

\* A request that begins and has changed nothing yet.
LEMMA FreshAgrees ==
  ASSUME IncidentsTypeOK, AllAgree, NEW r \in Requests, NEW i \in IncidentIds, NEW s \in Request,
         Begin(r, i, s), s.i = i, UNCHANGED tables,
         Intent(inc[i], set[i], bridge[i], excuse[i], s)
  PROVE  AllAgree'
<1>1. /\ ~AtWork(req[r]) /\ req' = [req EXCEPT ![r] = s] /\ OthersUntouched(i)
      /\ Note(i, Beside(i)) /\ UNCHANGED <<inc, set, bridge>>
  BY DEF Begin, Starts, AtWork, OthersUntouched, Note, IncidentsTypeOK, tables
<1>2. ASSUME excuse'[i] = excuse[i] \cup Beside(i),
             Fits(inc[i], set[i], bridge[i], excuse[i], Idle)
      PROVE  Fits(inc'[i], set'[i], bridge'[i], excuse'[i], s)
  <2>1. Fits(inc[i], set[i], bridge[i], excuse[i], s)
    <3>1. Heard(inc[i], set[i], excuse[i], s)
      BY <1>2 DEF Fits, Heard, Idle
    <3>2. Silent(inc[i], set[i], bridge[i], excuse[i], s)
      BY <1>2 DEF Fits, Silent, Idle
    <3>3. Current(inc[i], set[i], bridge[i], excuse[i])
      BY <1>2 DEF Fits
    <3> QED BY <3>1, <3>2, <3>3 DEF Fits
  <2> QED BY <1>1, <1>2, <2>1, MoreMarks
<1> QED BY <1>1, <1>2, BeginAgrees

LEMMA AgreeBegin ==
  ASSUME IncidentsTypeOK, AllAgree, NEW r \in Requests, NEW i \in IncidentIds,
         \/ \E activate \in BOOLEAN : BeginCreate(r, i, activate)
         \/ BeginActivate(r, i) \/ BeginAsk(r, i) \/ BeginClose(r, i)
         \/ BeginCloseBySet(r, i) \/ BeginUnbridge(r, i) \/ BeginShare(r, i)
         \/ BeginComplete(r, i) \/ BeginFail(r, i)
  PROVE  AllAgree'
<1>0. inc[i] \in Incident /\ set[i] \in RadioSet /\ bridge[i] \in Bridge
      /\ (~set[i].exists => set[i].token = NoToken)
  BY DEF IncidentsTypeOK
<1>1. ASSUME NEW activate \in BOOLEAN, BeginCreate(r, i, activate) PROVE AllAgree'
  <2> DEFINE s == [Idle EXCEPT !.pc = "insert", !.i = i, !.activate = activate]
  <2>1. s \in Request /\ s.i = i /\ s.pc = "insert"
    BY IdleTyped DEF Request
  <2>2. /\ Begin(r, i, s) /\ inc[i].status = "none" /\ UNCHANGED <<inc, bridge>>
        /\ set' = [set EXCEPT ![i] = [exists |-> TRUE, token |-> NoToken]]
    BY <1>1 DEF BeginCreate
  <2> HIDE DEF s
  <2>3. /\ ~AtWork(req[r]) /\ req' = [req EXCEPT ![r] = s] /\ OthersUntouched(i)
        /\ Note(i, Beside(i))
    BY <2>2 DEF Begin, Starts, AtWork, OthersUntouched, Note, IncidentsTypeOK
  <2>4. Fits(inc'[i], set'[i], bridge'[i], excuse'[i], s)
    BY <2>1, <2>2 DEF Fits, Heard, Silent, Current, Intent, Over
  <2> QED BY <2>1, <2>3, <2>4, BeginAgrees
<1>2. CASE BeginActivate(r, i)
  <2> DEFINE s == [Idle EXCEPT !.pc = "activate", !.i = i]
  <2>1. s \in Request /\ s.i = i /\ s.pc = "activate"
    BY IdleTyped DEF Request
  <2>2. Begin(r, i, s) /\ UNCHANGED tables
    BY <1>2 DEF BeginActivate
  <2> HIDE DEF s
  <2> QED BY <2>1, <2>2, FreshAgrees DEF Intent
<1>3. CASE BeginAsk(r, i)
  <2> DEFINE s == [Idle EXCEPT !.pc = "queue", !.i = i]
  <2>1. s \in Request /\ s.i = i /\ s.pc = "queue"
    BY IdleTyped DEF Request
  <2>2. Begin(r, i, s) /\ UNCHANGED tables
    BY <1>3 DEF BeginAsk
  <2> HIDE DEF s
  <2> QED BY <2>1, <2>2, FreshAgrees DEF Intent
\* The incident is over from now on; token and bridge follow.
<1>4. ASSUME BeginClose(r, i) PROVE AllAgree'
  <2> DEFINE s == [Idle EXCEPT !.pc = "mark", !.i = i, !.linked = set[i].exists]
  <2>1. s \in Request /\ s.i = i /\ s.pc = "mark" /\ s.linked = set[i].exists
    BY <1>0, IdleTyped DEF Request, RadioSet
  <2>2. Begin(r, i, s) /\ UNCHANGED <<set, bridge>>
    BY <1>4 DEF BeginClose
  <2> HIDE DEF s
  <2>3. inc'[i].status = "closed" /\ \A j \in IncidentIds : j # i => inc'[j] = inc[j]
    BY <1>0, <1>4 DEF BeginClose, IncidentsTypeOK, Incident
  <2>4. /\ ~AtWork(req[r]) /\ req' = [req EXCEPT ![r] = s] /\ OthersUntouched(i)
        /\ Note(i, Beside(i))
    BY <2>2, <2>3 DEF Begin, Starts, AtWork, OthersUntouched, Note, IncidentsTypeOK
  <2>5. Fits(inc'[i], set'[i], bridge'[i], excuse'[i], s)
    BY <1>0, <2>1, <2>2, <2>3 DEF Fits, Heard, Silent, Current, Intent, Over
  <2> QED BY <2>1, <2>4, <2>5, BeginAgrees
<1>5. CASE BeginCloseBySet(r, i)
  BY <1>4, <1>5 DEF BeginCloseBySet
<1>6. CASE BeginUnbridge(r, i)
  <2> DEFINE s == [Idle EXCEPT !.pc = "mark", !.i = i]
  <2>1. s \in Request /\ s.i = i /\ s.pc = "mark" /\ ~s.linked
    BY IdleTyped DEF Request, Idle
  <2>2. Begin(r, i, s) /\ UNCHANGED tables
    BY <1>6 DEF BeginUnbridge
  <2> HIDE DEF s
  <2> QED BY <2>1, <2>2, FreshAgrees DEF Intent
<1>7. CASE BeginShare(r, i)
  <2> DEFINE s == [Idle EXCEPT !.pc = "mint", !.i = i]
  <2>1. s \in Request /\ s.i = i /\ s.pc = "mint" /\ s.then = "idle"
    BY IdleTyped DEF Request
  <2>2. Begin(r, i, s) /\ UNCHANGED tables /\ set[i].token = NoToken
    BY <1>7 DEF BeginShare
  <2> HIDE DEF s
  <2> QED BY <2>1, <2>2, FreshAgrees DEF Intent
<1>8. ASSUME NEW verdict \in {"complete", "fail"}, BeginReport(r, i, verdict)
      PROVE  AllAgree'
  <2>1. PICK s \in Request : s = Verdict(i, verdict)
    BY VerdictTyped
  <2>2. AtWork(s) => s.i = i /\ s.pc = verdict /\ s.token = bridge[i].stream
    BY <2>1, IdleTyped DEF Verdict, AtWork, Request
  <2>3. /\ req' = [req EXCEPT ![r] = s] /\ ~AtWork(req[r]) /\ UNCHANGED <<inc, set, bridge>>
        /\ Note(i, Beside(i))
    BY <1>8, <2>1 DEF BeginReport, Verdict, tables, AtWork
  <2>4. OthersUntouched(i)
    BY <2>3 DEF OthersUntouched, Note, IncidentsTypeOK
  <2>5. ASSUME excuse'[i] = excuse[i] \cup Beside(i),
               Fits(inc[i], set[i], bridge[i], excuse[i], Idle)
        PROVE  Fits(inc'[i], set'[i], bridge'[i], excuse'[i], s)
    <3>1. Heard(inc[i], set[i], excuse[i], s)
      BY <2>5 DEF Fits, Heard, Idle
    <3>2. Silent(inc[i], set[i], bridge[i], excuse[i], s)
      BY <2>5 DEF Fits, Silent, Idle
    <3>3. Current(inc[i], set[i], bridge[i], excuse[i])
      BY <2>5 DEF Fits
    <3>4. Intent(inc[i], set[i], bridge[i], excuse[i], s)
      BY <2>2 DEF Intent, AtWork
    <3>5. Fits(inc[i], set[i], bridge[i], excuse[i], s)
      BY <3>1, <3>2, <3>3, <3>4 DEF Fits
    <3> QED BY <2>3, <2>5, <3>5, MoreMarks
  <2> QED BY <2>2, <2>3, <2>4, <2>5, BeginAgrees
<1> QED BY <1>1, <1>2, <1>3, <1>4, <1>5, <1>6, <1>7, <1>8 DEF BeginComplete, BeginFail

\* A request that is not at work goes on not being at work.
LEMMA RestAgrees ==
  ASSUME IncidentsTypeOK, AllAgree, NEW r \in Requests, NEW s, ~AtWork(req[r]), ~AtWork(s),
         req' = [req EXCEPT ![r] = s], UNCHANGED <<inc, set, bridge, excuse>>
  PROVE  AllAgree'
<1>1. req'[r] = s /\ \A q \in Requests : q # r => req'[q] = req[q]
  BY DEF IncidentsTypeOK
<1>2. ASSUME NEW j \in IncidentIds PROVE Alone(j)' => Agree(j)'
  <2>1. r \notin On(j) /\ r \notin On(j)'
    BY <1>1 DEF On, AtWork
  <2>2. /\ \A q \in Requests : q \in On(j)' <=> q \in On(j)
        /\ \A q \in On(j) : req'[q] = req[q]
    BY <1>1, <2>1 DEF On
  <2>3. (Alone(j)' => Alone(j)) /\ (Alone(j) => Agree(j))
    BY DEF Alone, AllAgree
  <2> QED BY <2>2, <2>3, ElsewhereAgrees
<1> QED BY <1>2 DEF AllAgree

LEMMA AgreeRequest ==
  ASSUME IncidentsTypeOK, AllAgree, Making, Outward, NEW r \in Requests, RequestStep(r)
  PROVE  AllAgree'
<1>0. PICK i \in IncidentIds : i = req[r].i
  BY DEF IncidentsTypeOK, Request
<1>t. /\ req[r] \in Request /\ inc[i] \in Incident /\ set[i] \in RadioSet /\ bridge[i] \in Bridge
      /\ (~set[i].exists => set[i].token = NoToken)
      /\ (inc[i].status \in {"none", "purged"} => bridge[i].status = "none")
  BY <1>0 DEF IncidentsTypeOK
<1> DEFINE Fit == Fits(inc[i], set[i], bridge[i], excuse[i], req[r])
<1>1. CASE Insert(r)
  <2> DEFINE s == IF set[i].exists /\ req[r].activate THEN [req[r] EXCEPT !.pc = "activate"] ELSE Idle
  <2>1. /\ s \in Request /\ (s.pc = "activate" => s.i = i)
        /\ s.pc = IF set[i].exists /\ req[r].activate THEN "activate" ELSE "idle"
    BY <1>0, <1>t, IdleTyped DEF Request
  <2>2. Goes(r, s) /\ req[r].pc = "insert" /\ UNCHANGED <<set, bridge, excuse>>
    BY <1>0, <1>1 DEF Insert
  <2> HIDE DEF s
  <2>3. /\ inc'[i].status = IF set[i].exists THEN IF req[r].activate THEN "active" ELSE "draft"
                                             ELSE inc[i].status
        /\ inc[i].status = "none" /\ \A j \in IncidentIds : j # i => inc'[j] = inc[j]
    BY <1>0, <1>1 DEF Insert, Making, IncidentsTypeOK, Incident
  <2>4. /\ AtWork(req[r]) /\ req' = [req EXCEPT ![r] = s] /\ OthersUntouched(i)
        /\ (Alone(i)' => Alone(i)) /\ (AtWork(s) => s.i = i)
    BY <2>1, <2>2, <2>3 DEF Goes, AtWork, OthersUntouched, Alone
  <2>5. Fits(inc'[i], set'[i], bridge'[i], excuse'[i], s)
    BY <1>t, <2>1, <2>2, <2>3 DEF Fits, Heard, Silent, Current, Intent, Over, Up
  <2> QED BY <1>0, <2>1, <2>4, <2>5, StepAgrees
\* It is open again, and the token is looked after next.
<1>2. CASE Activate(r)
  <2> DEFINE s == IF ~Stored(i) THEN Idle
                  ELSE IF Shared(i) THEN [req[r] EXCEPT !.pc = "ensure", !.then = "queue"]
                  ELSE [req[r] EXCEPT !.pc = "queue"]
  <2>1. /\ s \in Request
        /\ IF ~Stored(i) THEN s.pc = "idle"
           ELSE s.i = i /\ IF Shared(i) THEN s.pc = "ensure" /\ s.then = "queue" ELSE s.pc = "queue"
    <3>1. CASE ~Stored(i)
      BY <3>1, IdleTyped
    <3>2. CASE Stored(i) /\ Shared(i)
      BY <1>0, <1>t, <3>2 DEF Request, AfterToken
    <3>3. CASE Stored(i) /\ ~Shared(i)
      BY <1>0, <1>t, <3>3 DEF Request
    <3> QED BY <3>1, <3>2, <3>3
  <2>2. Goes(r, s) /\ req[r].pc = "activate" /\ UNCHANGED <<set, bridge>>
    BY <1>0, <1>2 DEF Activate
  <2> HIDE DEF s
  <2>3. /\ IF Stored(i) THEN inc'[i] = [inc[i] EXCEPT !.status = "active"] /\ Note(i, {"reopened"})
                        ELSE inc'[i] = inc[i] /\ excuse' = excuse
        /\ \A j \in IncidentIds : j # i => inc'[j] = inc[j]
    BY <1>0, <1>2 DEF Activate, IncidentsTypeOK
  <2>4. /\ AtWork(req[r]) /\ req' = [req EXCEPT ![r] = s] /\ (AtWork(s) => s.i = i)
    BY <2>1, <2>2 DEF Goes, AtWork
  <2>5. \A j \in IncidentIds : j # i => excuse'[j] = excuse[j]
    BY <2>3 DEF Note, IncidentsTypeOK
  <2>6. OthersUntouched(i)
    BY <2>2, <2>3, <2>5 DEF OthersUntouched
  <2>7. Alone(i)' => Alone(i) /\ excuse[i] \subseteq excuse'[i]
    BY <2>3 DEF Note, Noted, Alone, IncidentsTypeOK
  <2>8. ASSUME Alone(i)', Fit PROVE Fits(inc'[i], set'[i], bridge'[i], excuse'[i], s)
    <3>1. CASE Stored(i)
      <4>1. /\ inc'[i].status = "active" /\ inc'[i].exposure = inc[i].exposure
            /\ inc[i].status \in {"draft", "active", "closed", "archived"}
        BY <1>t, <2>3, <3>1 DEF Incident, Stored
      <4>2. Heard(inc'[i], set'[i], excuse[i], s)
        BY <2>1, <2>2, <3>1, <4>1 DEF Heard, Shared
      <4>3. Silent(inc'[i], set'[i], bridge'[i], excuse[i], s)
        BY <4>1 DEF Silent, Over
      <4>4. Current(inc'[i], set'[i], bridge'[i], excuse[i])
        BY <2>2, <2>8, <4>1 DEF Fits, Silent, Current, Over, Up
      <4>5. Intent(inc'[i], set'[i], bridge'[i], excuse[i], s)
        BY <2>1, <3>1, <4>1 DEF Intent
      <4>6. Fits(inc'[i], set'[i], bridge'[i], excuse[i], s)
        BY <4>2, <4>3, <4>4, <4>5 DEF Fits
      <4> QED BY <2>7, <2>8, <4>6, MoreMarks
    <3>2. CASE ~Stored(i)
      BY <1>t, <2>1, <2>2, <2>3, <3>2 DEF Fits, Heard, Silent, Current, Intent, Over, Up, Stored
    <3> QED BY <3>1, <3>2
  <2> QED BY <1>0, <2>1, <2>4, <2>6, <2>7, <2>8, StepAgrees
<1>3. CASE Ensure(r)
  <2>1. PICK s : s = IF set[i].exists /\ set[i].token = NoToken
                     THEN [req[r] EXCEPT !.pc = "mint"] ELSE WithToken(req[r], set[i].token)
    OBVIOUS
  <2>2. Goes(r, s) /\ req[r].pc = "ensure" /\ UNCHANGED <<inc, set, bridge, excuse>>
    BY <1>0, <1>3, <2>1 DEF Ensure, tables
  <2>3. req[r].then # "idle" /\ req[r].then \in AfterToken /\ set[i].token \in Tokens
    BY <1>t, <2>2 DEF Outward, Request, RadioSet
  <2>4. /\ s \in Request /\ s.i = i
        /\ \/ set[i].exists /\ set[i].token = NoToken /\ s.pc = "mint" /\ s.then = req[r].then
           \/ /\ ~set[i].exists \/ set[i].token # NoToken
              /\ s.token = set[i].token /\ s.pc \in {"ensure", "queue", "save"}
              /\ s.pc = "ensure" => s.then = "save"
    <3>1. CASE set[i].exists /\ set[i].token = NoToken
      BY <1>0, <1>t, <2>1, <3>1 DEF Request
    <3>2. CASE ~(set[i].exists /\ set[i].token = NoToken)
      BY <1>0, <1>t, <2>1, <2>3, <3>2, WithTokenTyped DEF AfterToken
    <3> QED BY <3>1, <3>2
  <2>5. /\ AtWork(req[r]) /\ req' = [req EXCEPT ![r] = s] /\ (AtWork(s) => s.i = i)
        /\ OthersUntouched(i) /\ (Alone(i)' => Alone(i))
    BY <2>2, <2>4 DEF Goes, AtWork, OthersUntouched, Alone
  <2>6. ASSUME Fit PROVE Fits(inc'[i], set'[i], bridge'[i], excuse'[i], s)
    <3>1. Heard(inc[i], set[i], excuse[i], s)
      BY <2>2, <2>4, <2>6 DEF Fits, Heard
    <3>2. Silent(inc[i], set[i], bridge[i], excuse[i], s)
      BY <2>2, <2>6 DEF Fits, Silent
    <3>3. Current(inc[i], set[i], bridge[i], excuse[i])
      BY <2>6 DEF Fits
    <3>4. Intent(inc[i], set[i], bridge[i], excuse[i], s)
      BY <2>2, <2>4, <2>6 DEF Fits, Intent
    <3> QED BY <2>2, <3>1, <3>2, <3>3, <3>4 DEF Fits
  <2> QED BY <1>0, <2>4, <2>5, <2>6, StepAgrees
<1>4. CASE Mint(r)
  <2>1. PICK s : s = WithToken(req[r], token + 1)
    OBVIOUS
  <2>2. /\ Goes(r, s) /\ req[r].pc = "mint" /\ UNCHANGED <<inc, bridge>>
        /\ Note(i, IF req[r].then = "idle" THEN {"shared"} ELSE {})
    BY <1>0, <1>4, <2>1 DEF Mint
  <2>3. /\ set'[i].exists = set[i].exists
        /\ set'[i].token = IF set[i].exists THEN token + 1 ELSE NoToken
        /\ \A j \in IncidentIds : j # i => set'[j] = set[j]
    BY <1>0, <1>4 DEF Mint, IncidentsTypeOK, RadioSet
  <2>4. token + 1 \in Tokens /\ token + 1 # NoToken
    BY <1>4, IncidentsAssumption DEF Mint, IncidentsTypeOK, Tokens, NoToken
  <2>5. /\ s \in Request
        /\ req[r].then = "idle" => ~AtWork(s)
        /\ req[r].then # "idle" => /\ s.i = i /\ s.token = token + 1
                                   /\ s.pc \in {"ensure", "queue", "save"}
                                   /\ s.pc = "ensure" => s.then = "save"
    BY <1>0, <1>t, <2>1, <2>4, WithTokenTyped DEF AfterToken, AtWork, Request
  <2>6. /\ AtWork(req[r]) /\ req' = [req EXCEPT ![r] = s] /\ (AtWork(s) => s.i = i)
    BY <2>2, <2>5 DEF Goes, AtWork
  <2>7. \A j \in IncidentIds : j # i => excuse'[j] = excuse[j]
    BY <2>2 DEF Note, IncidentsTypeOK
  <2>8. OthersUntouched(i)
    BY <2>2, <2>3, <2>7 DEF OthersUntouched
  <2>9. Alone(i)' => /\ Alone(i) /\ excuse[i] \subseteq excuse'[i]
                     /\ req[r].then = "idle" => "shared" \in excuse'[i]
    BY <2>2 DEF Note, Noted, Alone, IncidentsTypeOK
  <2>10. ASSUME Alone(i)', Fit PROVE Fits(inc'[i], set'[i], bridge'[i], excuse'[i], s)
    <3>1. Heard(inc'[i], set'[i], excuse'[i], s)
      BY <2>3, <2>4 DEF Heard
    <3>2. /\ set[i].token = NoToken /\ (req[r].then # "idle" => inc[i].status = "active")
          /\ Silent(inc[i], set[i], bridge[i], excuse[i], req[r])
          /\ Current(inc[i], set[i], bridge[i], excuse[i])
      BY <2>2, <2>10 DEF Fits, Intent
    <3>3. Silent(inc'[i], set'[i], bridge'[i], excuse'[i], s)
      BY <2>2, <2>9, <2>10, <3>2 DEF Silent, Over
    <3>4. Current(inc'[i], set'[i], bridge'[i], excuse'[i])
      <4>1. inc'[i] = inc[i] /\ bridge'[i] = bridge[i] /\ excuse[i] \subseteq excuse'[i]
        BY <2>2, <2>9, <2>10
      <4> QED BY <2>3, <3>2, <4>1 DEF Current
    <3>5. Intent(inc'[i], set'[i], bridge'[i], excuse'[i], s)
      BY <2>2, <2>3, <2>4, <2>5, <3>2 DEF Intent, AtWork
    <3> QED BY <3>1, <3>3, <3>4, <3>5 DEF Fits
  <2> QED BY <1>0, <2>5, <2>6, <2>8, <2>9, <2>10, StepAgrees
<1>5. CASE Queue(r)
  <2>1. PICK s : s = IF ~Stored(i) \/ Skipped(i) THEN Done(req[r])
                     ELSE [req[r] EXCEPT !.pc = "look", !.linked = set[i].exists]
    OBVIOUS
  <2>2. Goes(r, s) /\ req[r].pc = "queue" /\ UNCHANGED <<inc, set, bridge, excuse>>
    BY <1>0, <1>5, <2>1 DEF Queue, tables
  <2>3. /\ s \in Request
        /\ \/ ~AtWork(s)
           \/ /\ s.i = i /\ s.pc = "look" /\ (s.linked <=> set[i].exists)
              /\ inc[i].status = "active"
    <3>1. CASE ~Stored(i) \/ Skipped(i)
      BY <1>t, <2>1, <3>1, DoneTyped DEF AtWork
    <3>2. CASE ~(~Stored(i) \/ Skipped(i))
      BY <1>0, <1>t, <2>1, <3>2 DEF Request, RadioSet, Skipped
    <3> QED BY <3>1, <3>2
  <2>4. /\ AtWork(req[r]) /\ req' = [req EXCEPT ![r] = s] /\ (AtWork(s) => s.i = i)
        /\ OthersUntouched(i) /\ (Alone(i)' => Alone(i))
    BY <2>2, <2>3 DEF Goes, AtWork, OthersUntouched, Alone
  <2>5. ASSUME Fit PROVE Fits(inc'[i], set'[i], bridge'[i], excuse'[i], s)
    <3>1. Heard(inc[i], set[i], excuse[i], s)
      BY <2>2, <2>5 DEF Fits, Heard
    <3>2. Silent(inc[i], set[i], bridge[i], excuse[i], s)
      BY <2>2, <2>5 DEF Fits, Silent
    <3>3. Current(inc[i], set[i], bridge[i], excuse[i])
      BY <2>5 DEF Fits
    <3>4. Intent(inc[i], set[i], bridge[i], excuse[i], s)
      BY <2>3 DEF Intent, AtWork
    <3> QED BY <2>2, <3>1, <3>2, <3>3, <3>4 DEF Fits
  <2> QED BY <1>0, <2>3, <2>4, <2>5, StepAgrees
<1>6. CASE Look(r)
  <2>1. PICK s : /\ Goes(r, s)
                 /\ \/ s = Done(req[r])
                    \/ ~req[r].linked /\ s = [req[r] EXCEPT !.pc = "save", !.token = NoToken]
                    \/ /\ req[r].linked
                       /\ \E th \in {"stream", "save"} :
                             s = [req[r] EXCEPT !.pc = "ensure", !.then = th]
    BY <1>0, <1>6 DEF Look
  <2>2. req[r].pc = "look" /\ UNCHANGED <<inc, set, bridge, excuse>>
    BY <1>6 DEF Look, tables
  <2>3. /\ s \in Request
        /\ \/ ~AtWork(s)
           \/ s.i = i /\ s.pc = "save" /\ ~req[r].linked
           \/ s.i = i /\ s.pc = "ensure"
    <3>1. CASE s = Done(req[r])
      BY <1>t, <3>1, DoneTyped DEF AtWork
    <3>2. CASE ~req[r].linked /\ s = [req[r] EXCEPT !.pc = "save", !.token = NoToken]
      <4>1. NoToken \in Tokens
        BY IncidentsAssumption DEF Tokens, NoToken
      <4> QED BY <1>0, <1>t, <3>2, <4>1 DEF Request
    <3>3. ASSUME NEW th \in {"stream", "save"}, s = [req[r] EXCEPT !.pc = "ensure", !.then = th]
          PROVE  s \in Request /\ s.i = i /\ s.pc = "ensure"
      BY <1>0, <1>t, <3>3 DEF Request, AfterToken
    <3> QED BY <2>1, <3>1, <3>2, <3>3
  <2>4. /\ AtWork(req[r]) /\ req' = [req EXCEPT ![r] = s] /\ (AtWork(s) => s.i = i)
        /\ OthersUntouched(i) /\ (Alone(i)' => Alone(i))
    BY <2>1, <2>2, <2>3 DEF Goes, AtWork, OthersUntouched, Alone
  <2>5. ASSUME Fit PROVE Fits(inc'[i], set'[i], bridge'[i], excuse'[i], s)
    <3>1. Heard(inc[i], set[i], excuse[i], s)
      BY <2>2, <2>5 DEF Fits, Heard
    <3>2. Silent(inc[i], set[i], bridge[i], excuse[i], s)
      BY <2>2, <2>5 DEF Fits, Silent
    <3>3. Current(inc[i], set[i], bridge[i], excuse[i])
      BY <2>5 DEF Fits
    <3>4. Intent(inc[i], set[i], bridge[i], excuse[i], s)
      BY <2>2, <2>3, <2>5 DEF Fits, Intent, AtWork
    <3> QED BY <2>2, <3>1, <3>2, <3>3, <3>4 DEF Fits
  <2> QED BY <1>0, <2>3, <2>4, <2>5, StepAgrees
<1>7. CASE Save(r)
  <2>1. PICK s : s = Done(req[r])
    OBVIOUS
  <2>2. Goes(r, s) /\ req[r].pc = "save" /\ UNCHANGED <<inc, set, excuse>>
    BY <1>7, <2>1 DEF Save
  <2>3. s \in Request /\ ~AtWork(s)
    BY <1>t, <2>1, DoneTyped DEF AtWork
  <2>4. /\ bridge'[i] = Upserted(i, req[r].token)
        /\ \A j \in IncidentIds : j # i => bridge'[j] = bridge[j]
    BY <1>0, <1>7 DEF Save, IncidentsTypeOK
  <2>5. /\ AtWork(req[r]) /\ req' = [req EXCEPT ![r] = s] /\ (AtWork(s) => s.i = i)
        /\ OthersUntouched(i) /\ (Alone(i)' => Alone(i))
    BY <2>2, <2>3, <2>4 DEF Goes, AtWork, OthersUntouched, Alone
  <2>6. ASSUME Fit PROVE Fits(inc'[i], set'[i], bridge'[i], excuse'[i], s)
    <3>1. /\ inc[i].status = "active" /\ Heard(inc[i], set[i], excuse[i], req[r])
          /\ set[i].exists => req[r].token = set[i].token /\ req[r].token # NoToken
      BY <2>2, <2>6 DEF Fits, Intent
    <3>2. bridge'[i] = [status |-> "pending", stream |-> req[r].token]
      BY <2>4, <3>1 DEF Upserted, Stored
    <3>3. Heard(inc'[i], set'[i], excuse'[i], s)
      BY <2>2, <3>1 DEF Heard
    <3>4. Silent(inc'[i], set'[i], bridge'[i], excuse'[i], s)
      BY <2>2, <3>1 DEF Silent, Over
    <3>5. Current(inc'[i], set'[i], bridge'[i], excuse'[i])
      BY <2>2, <3>1, <3>2 DEF Current
    <3>6. Intent(inc'[i], set'[i], bridge'[i], excuse'[i], s)
      BY <2>3 DEF Intent, AtWork
    <3> QED BY <3>3, <3>4, <3>5, <3>6 DEF Fits
  <2> QED BY <1>0, <2>3, <2>5, <2>6, StepAgrees
<1>8. CASE Mark(r)
  <2>1. PICK s : s = IF req[r].linked THEN [req[r] EXCEPT !.pc = "clear"] ELSE Idle
    OBVIOUS
  <2>2. Goes(r, s) /\ req[r].pc = "mark" /\ UNCHANGED <<inc, set, excuse>>
    BY <1>8, <2>1 DEF Mark
  <2>3. s \in Request /\ IF req[r].linked THEN s.i = i /\ s.pc = "clear" ELSE ~AtWork(s)
    BY <1>0, <1>t, <2>1, IdleTyped DEF Request, AtWork
  <2>4. /\ bridge'[i] = Stopping(bridge[i])
        /\ \A j \in IncidentIds : j # i => bridge'[j] = bridge[j]
    BY <1>0, <1>8 DEF Mark, IncidentsTypeOK
  <2>5. ~Up(bridge'[i]) /\ (bridge[i].status = "none" => bridge'[i].status = "none")
    BY <1>t, <2>4 DEF Stopping, Up, Bridge
  <2>6. /\ AtWork(req[r]) /\ req' = [req EXCEPT ![r] = s] /\ (AtWork(s) => s.i = i)
        /\ OthersUntouched(i) /\ (Alone(i)' => Alone(i))
    BY <2>2, <2>3, <2>4 DEF Goes, AtWork, OthersUntouched, Alone
  <2>7. ASSUME Fit PROVE Fits(inc'[i], set'[i], bridge'[i], excuse'[i], s)
    <3>1. Heard(inc'[i], set'[i], excuse'[i], s)
      BY <2>2, <2>7 DEF Fits, Heard
    <3>2. Silent(inc'[i], set'[i], bridge'[i], excuse'[i], s)
      BY <2>2, <2>3, <2>5, <2>7 DEF Fits, Silent
    <3>3. Current(inc'[i], set'[i], bridge'[i], excuse'[i])
      BY <2>2, <2>5, <2>7 DEF Fits, Current
    <3>4. Intent(inc'[i], set'[i], bridge'[i], excuse'[i], s)
      BY <2>2, <2>3, <2>5, <2>7 DEF Fits, Intent, AtWork
    <3> QED BY <3>1, <3>2, <3>3, <3>4 DEF Fits
  <2> QED BY <1>0, <2>3, <2>6, <2>7, StepAgrees
<1>9. CASE Clear(r)
  <2>1. /\ Goes(r, Idle) /\ req[r].pc = "clear" /\ UNCHANGED <<inc, bridge>>
        /\ set'[i].token = NoToken /\ excuse'[i] = excuse[i] \ {"shared", "kept"}
        /\ \A j \in IncidentIds : j # i => set'[j] = set[j] /\ excuse'[j] = excuse[j]
    BY <1>0, <1>9 DEF Clear, Cleared, IncidentsTypeOK, RadioSet
  <2>2. /\ AtWork(req[r]) /\ req' = [req EXCEPT ![r] = Idle] /\ ~AtWork(Idle)
        /\ OthersUntouched(i) /\ (Alone(i)' => Alone(i))
    BY <2>1, IdleTyped DEF Goes, AtWork, OthersUntouched, Alone
  <2>3. ASSUME Fit PROVE Fits(inc'[i], set'[i], bridge'[i], excuse'[i], Idle)
    <3>1. Over(inc[i]) /\ ("late" \in excuse[i] \/ ~Up(bridge[i]))
      BY <2>1, <2>3 DEF Fits, Intent
    <3>2. Heard(inc'[i], set'[i], excuse'[i], Idle)
      BY <2>1, <3>1 DEF Heard, Over
    <3>3. Silent(inc'[i], set'[i], bridge'[i], excuse'[i], Idle)
      BY <2>1, <3>1 DEF Silent
    <3>4. Current(inc'[i], set'[i], bridge'[i], excuse'[i])
      BY <2>1, <3>1 DEF Current, Over
    <3>5. Intent(inc'[i], set'[i], bridge'[i], excuse'[i], Idle)
      BY <2>2 DEF Intent, AtWork
    <3> QED BY <3>2, <3>3, <3>4, <3>5 DEF Fits
  <2> QED BY <1>0, <2>2, <2>3, IdleTyped, StepAgrees
<1>10. CASE Reconcile(r)
  <2>1. req[r].pc = "next" /\ UNCHANGED <<inc, set, bridge>> /\ ~AtWork(req[r])
    BY <1>10 DEF Reconcile, tables, AtWork
  <2>2. CASE req[r].todo # {}
    <3>1. PICK j \in req[r].todo :
            /\ Goes(r, [req[r] EXCEPT !.pc = "queue", !.i = j, !.todo = @ \ {j}])
            /\ Note(j, Beside(j))
      BY <1>10, <2>2 DEF Reconcile
    <3>2. PICK s : s = [req[r] EXCEPT !.pc = "queue", !.i = j, !.todo = @ \ {j}]
      OBVIOUS
    <3>3. s \in Request /\ s.i = j /\ s.pc = "queue" /\ j \in IncidentIds
      BY <1>t, <3>2 DEF Request
    <3>4. req' = [req EXCEPT ![r] = s] /\ OthersUntouched(j)
      BY <2>1, <3>1, <3>2 DEF Goes, OthersUntouched, Note, IncidentsTypeOK
    <3>5. ASSUME excuse'[j] = excuse[j] \cup Beside(j),
                 Fits(inc[j], set[j], bridge[j], excuse[j], Idle)
          PROVE  Fits(inc'[j], set'[j], bridge'[j], excuse'[j], s)
      <4>1. Heard(inc[j], set[j], excuse[j], s)
        BY <3>5 DEF Fits, Heard, Idle
      <4>2. Silent(inc[j], set[j], bridge[j], excuse[j], s)
        BY <3>5 DEF Fits, Silent, Idle
      <4>3. Current(inc[j], set[j], bridge[j], excuse[j])
        BY <3>5 DEF Fits
      <4>4. Intent(inc[j], set[j], bridge[j], excuse[j], s)
        BY <3>3 DEF Intent
      <4>5. Fits(inc[j], set[j], bridge[j], excuse[j], s)
        BY <4>1, <4>2, <4>3, <4>4 DEF Fits
      <4> QED BY <2>1, <3>5, <4>5, MoreMarks
    <3> QED BY <2>1, <3>1, <3>3, <3>4, <3>5, BeginAgrees
  <2>3. CASE req[r].todo = {}
    <3>1. PICK s : s = IF req[r].round = 1 /\ Failed # {}
                       THEN [req[r] EXCEPT !.round = 2, !.todo = Failed] ELSE Idle
      OBVIOUS
    <3>2. Goes(r, s) /\ UNCHANGED excuse
      BY <1>10, <2>3, <3>1 DEF Reconcile
    <3>3. ~AtWork(s)
      BY <1>t, <2>1, <3>1, IdleTyped DEF Request, AtWork
    <3> QED BY <2>1, <3>2, <3>3, RestAgrees DEF Goes
  <2> QED BY <2>2, <2>3
<1>11. CASE Report(r)
  <2>1. /\ Goes(r, Idle) /\ req[r].pc \in {"complete", "fail"} /\ UNCHANGED <<inc, set>>
        /\ Note(i, IF bridge[i].status = "pending" THEN {} ELSE {"late"})
    BY <1>0, <1>11 DEF Report
  <2>2. /\ bridge[i].status = "none" => bridge'[i] = bridge[i]
        /\ bridge[i].status # "none" => bridge'[i].stream = req[r].token
        /\ \A j \in IncidentIds : j # i => bridge'[j] = bridge[j]
    BY <1>0, <1>11 DEF Report, IncidentsTypeOK, Bridge
  <2>3. /\ AtWork(req[r]) /\ req' = [req EXCEPT ![r] = Idle] /\ ~AtWork(Idle)
    BY <2>1, IdleTyped DEF Goes, AtWork
  <2>4. OthersUntouched(i)
    BY <2>1, <2>2 DEF OthersUntouched, Note, IncidentsTypeOK
  <2>5. Alone(i)' => /\ Alone(i) /\ excuse[i] \subseteq excuse'[i]
                     /\ "late" \in excuse'[i] \/ bridge[i].status = "pending"
    BY <2>1 DEF Note, Noted, Alone, IncidentsTypeOK
  <2>6. ASSUME Alone(i)', Fit PROVE Fits(inc'[i], set'[i], bridge'[i], excuse'[i], Idle)
    <3>1. /\ Heard(inc[i], set[i], excuse[i], req[r]) /\ req[r].token = bridge[i].stream
          /\ Silent(inc[i], set[i], bridge[i], excuse[i], req[r])
          /\ Current(inc[i], set[i], bridge[i], excuse[i])
      BY <2>1, <2>6 DEF Fits, Intent
    <3>2. inc'[i] = inc[i] /\ set'[i] = set[i] /\ excuse[i] \subseteq excuse'[i]
      BY <2>1, <2>5, <2>6
    <3>3. Heard(inc'[i], set'[i], excuse'[i], Idle)
      BY <2>1, <3>1, <3>2 DEF Heard
    <3>4. Silent(inc'[i], set'[i], bridge'[i], excuse'[i], Idle)
      BY <2>1, <2>5, <2>6, <3>1, <3>2 DEF Silent, Up
    <3>5. Current(inc'[i], set'[i], bridge'[i], excuse'[i])
      BY <2>2, <2>5, <2>6, <3>1, <3>2 DEF Current, Up
    <3>6. Intent(inc'[i], set'[i], bridge'[i], excuse'[i], Idle)
      BY <2>3 DEF Intent, AtWork
    <3> QED BY <3>3, <3>4, <3>5, <3>6 DEF Fits
  <2> QED BY <1>0, <2>3, <2>4, <2>5, <2>6, IdleTyped, StepAgrees
<1> QED BY <1>1, <1>2, <1>3, <1>4, <1>5, <1>6, <1>7, <1>8, <1>9, <1>10, <1>11 DEF RequestStep

LEMMA AgreeOther ==
  ASSUME IncidentsTypeOK, AllAgree, Purging,
         \/ \E i \in IncidentIds :
               \/ Archive(i) \/ Revoke(i) \/ DeleteSet(i)
               \/ Take(i) \/ ReportStop(i) \/ PurgeDelete(i)
         \/ PurgeList \/ PurgeDrop \/ BotRestart \/ Tick \/ HubRestart
         \/ \E r \in Requests : BeginReconcile(r)
  PROVE  AllAgree'
<1>t. \A i \in IncidentIds : inc[i] \in Incident /\ set[i] \in RadioSet /\ bridge[i] \in Bridge
  BY DEF IncidentsTypeOK
\* What is archived while it is open is kept as it is, and excused until it is closed.
<1>1. ASSUME NEW i \in IncidentIds, Archive(i) PROVE AllAgree'
  <2>1. PICK marks : /\ marks = (IF Ended(i) THEN {} ELSE {"kept"}) \cup Beside(i)
                     /\ Note(i, marks)
    BY <1>1 DEF Archive, Aside
  <2>2. /\ inc'[i].status = "archived" /\ \A j \in IncidentIds : j # i => inc'[j] = inc[j]
        /\ UNCHANGED <<set, bridge, req>>
    BY <1>1, <1>t DEF Archive, Aside, IncidentsTypeOK, Incident
  <2>3. OthersUntouched(i)
    BY <2>1, <2>2 DEF OthersUntouched, Note, IncidentsTypeOK
  <2>4. ASSUME excuse'[i] = excuse[i] \cup marks,
               Fits(inc[i], set[i], bridge[i], excuse[i], Idle)
        PROVE  Fits(inc'[i], set'[i], bridge'[i], excuse'[i], Idle)
    <3>1. Over(inc[i]) \/ "kept" \in excuse'[i]
      BY <2>1, <2>4 DEF Ended, Over
    <3>2. Silent(inc'[i], set'[i], bridge'[i], excuse'[i], Idle)
      BY <2>2, <2>4, <3>1 DEF Fits, Silent
    <3> QED BY <2>2, <3>2 DEF Fits, Heard, Current, Intent, Idle
  <2> QED BY <2>1, <2>2, <2>3, <2>4, BesideAgrees
<1>2. ASSUME NEW i \in IncidentIds, Revoke(i) PROVE AllAgree'
  <2>1. Note(i, {"revoked"} \cup Beside(i)) /\ UNCHANGED <<inc, bridge, req>>
    BY <1>2 DEF Revoke, Aside
  <2>2. set'[i].token = NoToken /\ \A j \in IncidentIds : j # i => set'[j] = set[j]
    BY <1>2, <1>t DEF Revoke, Cleared, IncidentsTypeOK, RadioSet
  <2>3. OthersUntouched(i)
    BY <2>1, <2>2 DEF OthersUntouched, Note, IncidentsTypeOK
  <2>4. ASSUME excuse'[i] = excuse[i] \cup ({"revoked"} \cup Beside(i)),
               Fits(inc[i], set[i], bridge[i], excuse[i], Idle)
        PROVE  Fits(inc'[i], set'[i], bridge'[i], excuse'[i], Idle)
    BY <2>1, <2>2, <2>4 DEF Fits, Heard, Silent, Current, Intent, Idle
  <2> QED BY <2>1, <2>3, <2>4, BesideAgrees
<1>3. ASSUME NEW i \in IncidentIds, DeleteSet(i) PROVE AllAgree'
  <2>1. Note(i, Beside(i)) /\ UNCHANGED <<inc, bridge, req>>
    BY <1>3 DEF DeleteSet, Aside
  <2>2. set'[i] = NoSet /\ \A j \in IncidentIds : j # i => set'[j] = set[j]
    BY <1>3, <1>t DEF DeleteSet, IncidentsTypeOK
  <2>3. OthersUntouched(i)
    BY <2>1, <2>2 DEF OthersUntouched, Note, IncidentsTypeOK
  <2>4. ASSUME excuse'[i] = excuse[i] \cup Beside(i),
               Fits(inc[i], set[i], bridge[i], excuse[i], Idle)
        PROVE  Fits(inc'[i], set'[i], bridge'[i], excuse'[i], Idle)
    BY <2>1, <2>2, <2>4 DEF Fits, Heard, Silent, Current, Intent, Idle, NoSet
  <2> QED BY <2>1, <2>3, <2>4, BesideAgrees
<1>4. ASSUME NEW i \in IncidentIds, ReportStop(i) PROVE AllAgree'
  <2>1. Note(i, Beside(i)) /\ UNCHANGED <<inc, set, req>>
    BY <1>4 DEF ReportStop
  <2>2. /\ ~Up(bridge'[i]) /\ (bridge[i].status = "none" => bridge'[i].status = "none")
        /\ \A j \in IncidentIds : j # i => bridge'[j] = bridge[j]
    BY <1>4, <1>t DEF ReportStop, Up, IncidentsTypeOK, Bridge
  <2>3. OthersUntouched(i)
    BY <2>1, <2>2 DEF OthersUntouched, Note, IncidentsTypeOK
  <2>4. ASSUME excuse'[i] = excuse[i] \cup Beside(i),
               Fits(inc[i], set[i], bridge[i], excuse[i], Idle)
        PROVE  Fits(inc'[i], set'[i], bridge'[i], excuse'[i], Idle)
    BY <2>1, <2>2, <2>4 DEF Fits, Heard, Silent, Current, Intent, Idle
  <2> QED BY <2>1, <2>3, <2>4, BesideAgrees
<1>5. ASSUME NEW i \in IncidentIds, PurgeDelete(i) PROVE AllAgree'
  <2>1. Note(i, Beside(i)) /\ UNCHANGED <<set, req>>
    BY <1>5 DEF PurgeDelete
  <2>2. /\ inc'[i].status = "purged" /\ bridge'[i] = NoBridge
        /\ \A j \in IncidentIds : j # i => inc'[j] = inc[j] /\ bridge'[j] = bridge[j]
    BY <1>5, <1>t DEF PurgeDelete, IncidentsTypeOK, Incident
  <2>3. OthersUntouched(i)
    BY <2>1, <2>2 DEF OthersUntouched, Note, IncidentsTypeOK
  <2>4. Fits(inc'[i], set'[i], bridge'[i], excuse'[i], Idle)
    BY <2>2 DEF Fits, Heard, Silent, Current, Intent, Idle, Over
  <2> QED BY <2>1, <2>3, <2>4, BesideAgrees
\* The radio set of a purged incident goes, whoever is still at work on it.
<1>6. CASE PurgeDrop
  <2>1. PICK i \in IncidentIds : i = purge.i
    BY DEF IncidentsTypeOK, Purge
  <2>2. /\ UNCHANGED <<inc, bridge, req, excuse>> /\ set'[i] = NoSet /\ inc[i].status = "purged"
        /\ \A j \in IncidentIds : j # i => set'[j] = set[j]
    BY <1>6, <2>1 DEF PurgeDrop, Purging, IncidentsTypeOK
  <2>3. \A j \in IncidentIds : On(j)' = On(j)
    BY <2>2 DEF On
  <2>4. ASSUME NEW j \in IncidentIds PROVE Alone(j)' => Agree(j)'
    <3>1. (Alone(j)' => Alone(j)) /\ (Alone(j) => Agree(j))
      BY <2>2 DEF Alone, AllAgree
    <3>2. CASE j # i
      BY <2>2, <2>3, <3>1, <3>2, ElsewhereAgrees
    <3>3. CASE j = i
      <4>1. \A q : Fits(inc[i], set[i], bridge[i], excuse[i], q)
                      => Fits(inc'[i], set'[i], bridge'[i], excuse'[i], q)
        <5> SUFFICES ASSUME NEW q, Fits(inc[i], set[i], bridge[i], excuse[i], q)
                     PROVE  Fits(inc'[i], set'[i], bridge'[i], excuse'[i], q)
          OBVIOUS
        <5>1. inc'[i] = inc[i] /\ bridge'[i] = bridge[i] /\ excuse'[i] = excuse[i]
          BY <2>2
        <5>2. q.pc \notin {"look", "save", "ensure", "clear"}
              /\ (q.pc = "mark" => ~q.linked) /\ (q.pc = "mint" => q.then = "idle")
          BY <2>2 DEF Fits, Intent, Over
        <5>3. set'[i].exists = FALSE /\ set'[i].token = NoToken
          BY <2>2 DEF NoSet
        <5> QED BY <2>2, <5>1, <5>2, <5>3 DEF Fits, Heard, Silent, Current, Intent, Over
      <4> QED BY <2>2, <2>3, <3>1, <3>3, <4>1 DEF Agree
    <3> QED BY <3>2, <3>3
  <2> QED BY <2>4 DEF AllAgree
<1>7. ASSUME UNCHANGED <<inc, set, bridge, req>>,
             \A i \in IncidentIds : \A m \in {"raced", "revoked", "kept", "shared", "late"} :
                m \in excuse'[i] <=> m \in excuse[i]
      PROVE  AllAgree'
  <2>1. \A j \in IncidentIds : On(j)' = On(j)
    BY <1>7 DEF On
  <2>2. ASSUME NEW j \in IncidentIds PROVE Alone(j)' => Agree(j)'
    <3>1. (Alone(j)' => Alone(j)) /\ (Alone(j) => Agree(j))
      BY <1>7 DEF Alone, AllAgree
    <3> QED BY <1>7, <2>1, <3>1, ElsewhereAgrees
  <2> QED BY <2>2 DEF AllAgree
<1>8. ASSUME NEW i \in IncidentIds, Take(i) PROVE AllAgree'
  BY <1>7, <1>8 DEF Take, tables
<1>9. CASE PurgeList
  BY <1>7, <1>9 DEF PurgeList, tables
<1>10. CASE BotRestart
  BY <1>7, <1>10 DEF BotRestart, tables
<1>11. CASE Tick
  BY <1>7, <1>11 DEF Tick, tables
\* Whoever was at work is cut off, and that is noted.
<1>12. CASE HubRestart
  <2>1. UNCHANGED <<inc, set, bridge>> /\ \A r \in Requests : req'[r] = Idle
    BY <1>12 DEF HubRestart, tables
  <2>2. ASSUME NEW j \in IncidentIds, Alone(j)' PROVE Agree(j)'
    <3>1. PICK marks \in {{}, {"orphan"}} : excuse'[j] = Noted(excuse[j], Beside(j) \cup marks)
      BY <1>12 DEF HubRestart, IncidentsTypeOK
    <3>2. "raced" \notin excuse[j] \cup (Beside(j) \cup marks)
      BY <2>2, <3>1 DEF Alone, Noted
    <3>3. excuse'[j] = excuse[j] \cup (Beside(j) \cup marks) /\ On(j) = {} /\ Alone(j)
      BY <3>1, <3>2 DEF Noted, Beside, Alone
    <3>4. Fits(inc[j], set[j], bridge[j], excuse[j], Idle)
      BY <3>3 DEF AllAgree, Agree
    <3>5. On(j)' = {}
      BY <2>1, IdleTyped DEF On
    <3>6. Fits(inc'[j], set'[j], bridge'[j], excuse'[j], Idle)
      BY <2>1, <3>3, <3>4, MoreMarks
    <3> QED BY <3>5, <3>6 DEF Agree
  <2> QED BY <2>2 DEF AllAgree
<1>13. ASSUME NEW r \in Requests, BeginReconcile(r) PROVE AllAgree'
  <2>1. PICK s : s = [Idle EXCEPT !.pc = "next", !.round = 1, !.todo = Missing]
    OBVIOUS
  <2>2. s.pc = "next"
    BY <2>1, IdleTyped DEF Request
  <2> QED BY <1>13, <2>1, <2>2, RestAgrees DEF BeginReconcile, Starts, AtWork, tables
<1> QED BY <1>1, <1>2, <1>3, <1>4, <1>5, <1>6, <1>8, <1>9, <1>10, <1>11, <1>12, <1>13

-----------------------------------------------------------------------------
(* Who makes incidents, and who may give them a bridge.                     *)

\* What the rows of incidents go through.
RowStep(i) ==
    \/ inc'[i] = inc[i]
    \/ \E r \in Requests : /\ Insert(r) /\ req[r].i = i
                           /\ \/ inc'[i] = [inc[i] EXCEPT !.status = "active"]
                              \/ inc'[i] = [inc[i] EXCEPT !.status = "draft"]
    \/ \E r \in Requests : /\ Activate(r) /\ req[r].i = i /\ Stored(i)
                           /\ inc'[i] = [inc[i] EXCEPT !.status = "active"]
    \/ /\ Stored(i)
       /\ inc'[i] = [inc[i] EXCEPT !.status = "closed", !.closed = era,
                                   !.ended = IF Ended(i) THEN @ ELSE era]
    \/ /\ Stored(i)
       /\ inc'[i] = [inc[i] EXCEPT !.status = "archived", !.archived = era,
                                   !.ended = IF Ended(i) THEN @ ELSE era]
    \/ PurgeDelete(i) /\ inc'[i] = [inc[i] EXCEPT !.status = "purged"]

LEMMA RowSteps ==
  ASSUME IncidentsTypeOK, IncidentsNext
  PROVE  \A j \in IncidentIds : RowStep(j)
<1> DEFINE Shape == \A j \in IncidentIds : RowStep(j)
<1>1. ASSUME UNCHANGED inc PROVE Shape
  BY <1>1 DEF RowStep
<1>2. ASSUME NEW i \in IncidentIds, NEW v, inc' = [inc EXCEPT ![i] = v],
             (inc'[i] = v) => RowStep(i)
      PROVE  Shape
  <2>1. inc'[i] = v /\ \A j \in IncidentIds : j # i => inc'[j] = inc[j]
    BY <1>2 DEF IncidentsTypeOK
  <2> QED BY <1>2, <2>1 DEF RowStep
<1> HIDE DEF Shape
<1>3. ASSUME NEW r \in Requests, Insert(r) PROVE Shape
  <2>1. CASE set[req[r].i].exists
    <3>1. PICK i \in IncidentIds : i = req[r].i
      BY DEF IncidentsTypeOK, Request
    <3>2. PICK v \in {[inc[i] EXCEPT !.status = "active"], [inc[i] EXCEPT !.status = "draft"]} :
             inc' = [inc EXCEPT ![i] = v]
      BY <1>3, <2>1, <3>1 DEF Insert, IncidentsTypeOK
    <3>3. (inc'[i] = v) => RowStep(i)
      BY <1>3, <3>1, <3>2 DEF RowStep
    <3> QED BY <1>2, <3>2, <3>3
  <2>2. CASE ~set[req[r].i].exists
    BY <1>1, <1>3, <2>2 DEF Insert
  <2> QED BY <2>1, <2>2
<1>4. ASSUME NEW r \in Requests, Activate(r) PROVE Shape
  <2>1. CASE Stored(req[r].i)
    <3>1. PICK i \in IncidentIds : i = req[r].i
      BY DEF IncidentsTypeOK, Request
    <3>2. PICK v : v = [inc[i] EXCEPT !.status = "active"]
      OBVIOUS
    <3>3. inc' = [inc EXCEPT ![i] = v]
      BY <1>4, <2>1, <3>1, <3>2 DEF Activate, IncidentsTypeOK
    <3>4. (inc'[i] = v) => RowStep(i)
      BY <1>4, <2>1, <3>1, <3>2 DEF RowStep
    <3> QED BY <1>2, <3>3, <3>4
  <2>2. CASE ~Stored(req[r].i)
    BY <1>1, <1>4, <2>2 DEF Activate
  <2> QED BY <2>1, <2>2
<1>5. ASSUME NEW r \in Requests, NEW i \in IncidentIds, BeginClose(r, i) PROVE Shape
  <2>1. PICK v : v = [inc[i] EXCEPT !.status = "closed", !.closed = era,
                                    !.ended = IF Ended(i) THEN @ ELSE era]
    OBVIOUS
  <2>2. inc' = [inc EXCEPT ![i] = v]
    BY <1>5, <2>1 DEF BeginClose, IncidentsTypeOK
  <2>3. Stored(i)
    BY <1>5 DEF BeginClose
  <2>4. (inc'[i] = v) => RowStep(i)
    BY <2>1, <2>3 DEF RowStep
  <2> QED BY <1>2, <2>2, <2>4
<1>6. ASSUME NEW i \in IncidentIds, Archive(i) PROVE Shape
  <2>1. PICK v : v = [inc[i] EXCEPT !.status = "archived", !.archived = era,
                                    !.ended = IF Ended(i) THEN @ ELSE era]
    OBVIOUS
  <2>2. inc' = [inc EXCEPT ![i] = v]
    BY <1>6, <2>1 DEF Archive, IncidentsTypeOK
  <2>3. Stored(i)
    BY <1>6 DEF Archive
  <2>4. (inc'[i] = v) => RowStep(i)
    BY <2>1, <2>3 DEF RowStep
  <2> QED BY <1>2, <2>2, <2>4
<1>7. ASSUME NEW i \in IncidentIds, PurgeDelete(i) PROVE Shape
  <2>1. PICK v : v = [inc[i] EXCEPT !.status = "purged"]
    OBVIOUS
  <2>2. inc' = [inc EXCEPT ![i] = v]
    BY <1>7, <2>1 DEF PurgeDelete, IncidentsTypeOK
  <2>3. (inc'[i] = v) => RowStep(i)
    BY <1>7, <2>1 DEF RowStep
  <2> QED BY <1>2, <2>2, <2>3
<1>8. ASSUME NEW r \in Requests, NEW i \in IncidentIds,
             \/ \E activate \in BOOLEAN : BeginCreate(r, i, activate)
             \/ BeginActivate(r, i) \/ BeginAsk(r, i) \/ BeginClose(r, i)
             \/ BeginCloseBySet(r, i) \/ BeginUnbridge(r, i) \/ BeginShare(r, i)
             \/ BeginComplete(r, i) \/ BeginFail(r, i)
      PROVE  Shape
  BY <1>1, <1>5, <1>8 DEF BeginCreate, BeginActivate, BeginAsk, BeginCloseBySet, BeginUnbridge,
       BeginShare, BeginComplete, BeginFail, BeginReport, tables
<1>9. ASSUME NEW r \in Requests, RequestStep(r) \/ BeginReconcile(r) PROVE Shape
  BY <1>1, <1>3, <1>4, <1>9 DEF RequestStep, Ensure, Mint, Queue, Look, Save, Mark, Clear,
       Reconcile, Report, BeginReconcile, tables
<1>10. ASSUME NEW i \in IncidentIds, Revoke(i) \/ DeleteSet(i) \/ Take(i) \/ ReportStop(i) PROVE Shape
  BY <1>1, <1>10 DEF Revoke, DeleteSet, Take, ReportStop, tables
<1>11. ASSUME PurgeList \/ PurgeDrop \/ BotRestart \/ Tick \/ HubRestart PROVE Shape
  BY <1>1, <1>11 DEF PurgeList, PurgeDrop, BotRestart, Tick, HubRestart, tables
<1>12. Shape
  BY <1>6, <1>7, <1>8, <1>9, <1>10, <1>11 DEF IncidentsNext
<1> QED BY <1>12 DEF Shape

\* The exposure never changes, and only its making takes an incident from "none".
LEMMA RowsKept ==
  ASSUME IncidentsTypeOK, Purging, IncidentsNext, NEW i \in IncidentIds
  PROVE  /\ inc'[i].exposure = inc[i].exposure
         /\ inc'[i].status = "none" => inc[i].status = "none"
         /\ inc[i].status = "none" =>
               inc'[i].status = "none" \/ \E r \in Requests : Insert(r) /\ req[r].i = i
<1>1. inc[i] \in Incident /\ RowStep(i)
  BY RowSteps DEF IncidentsTypeOK
<1>2. PurgeDelete(i) => Stored(i)
  BY DEF PurgeDelete, Purging
<1> QED BY <1>1, <1>2 DEF RowStep, Incident, Stored

\* What a request may become, other than the maker of an incident.
Permitted(s) ==
    /\ s.pc # "insert"
    /\ s.pc \in {"look", "save", "ensure"} => inc[s.i].exposure # "internal"
    /\ (s.pc = "mint" /\ s.then # "idle") => inc[s.i].exposure # "internal"
    /\ s.pc = "ensure" => s.then # "idle"

LEMMA RestPermitted == \A s : s.pc \in {"idle", "next"} => Permitted(s)
  BY DEF Permitted

LEMMA BeginPermitted ==
  ASSUME IncidentsTypeOK, NEW r \in Requests, NEW i \in IncidentIds,
         \/ BeginActivate(r, i) \/ BeginAsk(r, i) \/ BeginClose(r, i)
         \/ BeginCloseBySet(r, i) \/ BeginUnbridge(r, i) \/ BeginShare(r, i)
         \/ BeginComplete(r, i) \/ BeginFail(r, i)
  PROVE  \E s \in Request : req' = [req EXCEPT ![r] = s] /\ Permitted(s)
<1> DEFINE Move == \E s \in Request : req' = [req EXCEPT ![r] = s] /\ Permitted(s)
<1>0. Idle \in Request /\ Idle.then = "idle" /\ Idle.pc = "idle"
  BY IdleTyped
<1>1. ASSUME NEW pc \in {"activate", "queue", "mark", "mint"}, NEW linked \in BOOLEAN,
             \/ Begin(r, i, [Idle EXCEPT !.pc = pc, !.i = i])
             \/ Begin(r, i, [Idle EXCEPT !.pc = pc, !.i = i, !.linked = linked])
      PROVE  Move
  <2>1. PICK s : /\ req' = [req EXCEPT ![r] = s]
                 /\ \/ s = [Idle EXCEPT !.pc = pc, !.i = i]
                    \/ s = [Idle EXCEPT !.pc = pc, !.i = i, !.linked = linked]
    BY <1>1 DEF Begin, Starts
  <2>2. s \in Request /\ s.pc = pc /\ s.then = "idle"
    BY <1>0, <2>1 DEF Request
  <2> QED BY <2>1, <2>2 DEF Permitted
<1>2. ASSUME NEW verdict \in {"complete", "fail"}, BeginReport(r, i, verdict) PROVE Move
  <2>1. PICK s \in Request : s = Verdict(i, verdict)
    BY VerdictTyped
  <2>2. req' = [req EXCEPT ![r] = s]
    BY <1>2, <2>1 DEF BeginReport, Verdict
  <2>3. s.pc \in {"idle", verdict}
    BY <1>0, <2>1 DEF Verdict, Request
  <2> QED BY <2>2, <2>3 DEF Permitted
<1> HIDE DEF Move
<1>3. FALSE \in BOOLEAN /\ set[i].exists \in BOOLEAN
  BY DEF IncidentsTypeOK, RadioSet
<1>4. ASSUME BeginActivate(r, i) PROVE Move
  <2>1. Begin(r, i, [Idle EXCEPT !.pc = "activate", !.i = i])
    BY <1>4 DEF BeginActivate
  <2> QED BY ONLY <1>1, <1>3, <2>1
<1>5. ASSUME BeginAsk(r, i) PROVE Move
  <2>1. Begin(r, i, [Idle EXCEPT !.pc = "queue", !.i = i])
    BY <1>5 DEF BeginAsk
  <2> QED BY ONLY <1>1, <1>3, <2>1
<1>6. ASSUME BeginClose(r, i) PROVE Move
  <2>1. Begin(r, i, [Idle EXCEPT !.pc = "mark", !.i = i, !.linked = set[i].exists])
    BY <1>6 DEF BeginClose
  <2> QED BY ONLY <1>1, <1>3, <2>1
<1>7. ASSUME BeginCloseBySet(r, i) PROVE Move
  BY <1>6, <1>7 DEF BeginCloseBySet
<1>8. ASSUME BeginUnbridge(r, i) PROVE Move
  <2>1. Begin(r, i, [Idle EXCEPT !.pc = "mark", !.i = i])
    BY <1>8 DEF BeginUnbridge
  <2> QED BY ONLY <1>1, <1>3, <2>1
<1>9. ASSUME BeginShare(r, i) PROVE Move
  <2>1. Begin(r, i, [Idle EXCEPT !.pc = "mint", !.i = i])
    BY <1>9 DEF BeginShare
  <2> QED BY ONLY <1>1, <1>3, <2>1
<1>10. ASSUME BeginComplete(r, i) \/ BeginFail(r, i) PROVE Move
  <2>1. BeginReport(r, i, "complete") \/ BeginReport(r, i, "fail")
    BY <1>10 DEF BeginComplete, BeginFail
  <2> QED BY ONLY <1>2, <2>1
<1>11. Move
  BY <1>4, <1>5, <1>6, <1>7, <1>8, <1>9, <1>10
<1> QED BY <1>11 DEF Move

LEMMA StepPermitted ==
  ASSUME IncidentsTypeOK, Outward, NEW r \in Requests, RequestStep(r) \/ BeginReconcile(r)
  PROVE  \E s \in Request : req' = [req EXCEPT ![r] = s] /\ Permitted(s)
<1> DEFINE Move == \E s \in Request : req' = [req EXCEPT ![r] = s] /\ Permitted(s)
<1>0. PICK i \in IncidentIds : i = req[r].i
  BY DEF IncidentsTypeOK, Request
<1>t. /\ req[r] \in Request /\ inc[i] \in Incident /\ set[i] \in RadioSet /\ bridge[i] \in Bridge
      /\ Idle \in Request /\ Idle.pc = "idle"
  BY <1>0, IdleTyped DEF IncidentsTypeOK
<1>r. \A pc \in {"activate", "queue", "clear"} :
        LET s == [req[r] EXCEPT !.pc = pc] IN s \in Request /\ s.pc = pc
  BY <1>t DEF Request
<1>d. Done(req[r]) \in Request /\ Permitted(Done(req[r]))
  BY <1>t, DoneTyped, RestPermitted
<1>p. Permitted(Idle)
  BY <1>t, RestPermitted
<1>m. ASSUME NEW s \in Request, Permitted(s), Goes(r, s) PROVE Move
  BY <1>m DEF Goes
<1>1. CASE Insert(r)
  <2>1. PICK s \in {[req[r] EXCEPT !.pc = "activate"], Idle} : Goes(r, s)
    BY <1>1 DEF Insert
  <2> QED BY <1>t, <1>r, <2>1 DEF Goes, Permitted
<1>2. CASE Activate(r)
  <2>1. PICK s : /\ Goes(r, s)
                 /\ \/ s = Idle \/ s = [req[r] EXCEPT !.pc = "queue"]
                    \/ Shared(i) /\ s = [req[r] EXCEPT !.pc = "ensure", !.then = "queue"]
    BY <1>0, <1>2 DEF Activate
  <2>2. CASE s = Idle \/ s = [req[r] EXCEPT !.pc = "queue"]
    BY <1>t, <1>r, <2>1, <2>2 DEF Goes, Permitted
  <2>3. CASE Shared(i) /\ s = [req[r] EXCEPT !.pc = "ensure", !.then = "queue"]
    <3>1. s \in Request /\ s.pc = "ensure" /\ s.then = "queue" /\ s.i = i
      BY <1>0, <1>t, <2>3 DEF Request, AfterToken
    <3> QED BY <2>1, <2>3, <3>1 DEF Goes, Permitted, Shared
  <2> QED BY <2>1, <2>2, <2>3
<1>3. CASE Ensure(r)
  <2>1. /\ req[r].pc = "ensure" /\ inc[i].exposure # "internal" /\ req[r].then # "idle"
        /\ set[i].token \in Tokens
    BY <1>0, <1>t, <1>3 DEF Ensure, Outward, RadioSet
  <2>2. PICK s : /\ Goes(r, s)
                 /\ s = [req[r] EXCEPT !.pc = "mint"] \/ s = WithToken(req[r], set[i].token)
    BY <1>0, <1>3 DEF Ensure
  <2>3. s \in Request /\ s.i = i /\ s.pc # "insert" /\ (s.pc = "ensure" => s.then # "idle")
    <3>1. CASE s = [req[r] EXCEPT !.pc = "mint"]
      BY <1>0, <1>t, <3>1 DEF Request
    <3>2. CASE s = WithToken(req[r], set[i].token)
      BY <1>0, <1>t, <2>1, <3>2, WithTokenTyped DEF Request, AfterToken
    <3> QED BY <2>2, <3>1, <3>2
  <2> QED BY <2>1, <2>2, <2>3 DEF Goes, Permitted
<1>4. CASE Mint(r)
  <2>1. PICK s : s = WithToken(req[r], token + 1) /\ Goes(r, s)
    BY <1>4 DEF Mint
  <2>2. token + 1 \in Tokens /\ req[r].pc = "mint"
    BY <1>4, IncidentsAssumption DEF Mint, IncidentsTypeOK, Tokens
  <2>3. s \in Request /\ (req[r].then = "idle" => s.pc \in {"idle", "next"})
        /\ (req[r].then # "idle" => /\ s.i = i /\ s.pc \in {"ensure", "queue", "save"}
                                    /\ s.pc = "ensure" => s.then # "idle")
    BY <1>0, <1>t, <2>1, <2>2, WithTokenTyped DEF Request, AfterToken
  <2>4. req[r].then # "idle" => inc[i].exposure # "internal"
    BY <1>0, <2>2 DEF Outward
  <2> QED BY <2>1, <2>3, <2>4 DEF Goes, Permitted
<1>5. CASE Queue(r)
  <2>1. PICK s : /\ Goes(r, s)
                 /\ \/ s = Done(req[r])
                    \/ ~Skipped(i) /\ s = [req[r] EXCEPT !.pc = "look", !.linked = set[i].exists]
    BY <1>0, <1>5 DEF Queue
  <2>2. CASE s = Done(req[r])
    BY <1>d, <1>m, <2>1, <2>2
  <2>3. CASE ~Skipped(i) /\ s = [req[r] EXCEPT !.pc = "look", !.linked = set[i].exists]
    <3>1. s \in Request /\ s.pc = "look" /\ s.i = i
      BY <1>0, <1>t, <2>3 DEF Request, RadioSet
    <3> QED BY <2>1, <2>3, <3>1 DEF Goes, Permitted, Skipped
  <2> QED BY <2>1, <2>2, <2>3
<1>6. CASE Look(r)
  <2>1. PICK s : /\ Goes(r, s)
                 /\ \/ s = Done(req[r])
                    \/ s = [req[r] EXCEPT !.pc = "save", !.token = NoToken]
                    \/ \E th \in {"stream", "save"} :
                             s = [req[r] EXCEPT !.pc = "ensure", !.then = th]
    BY <1>0, <1>6 DEF Look
  <2>2. req[r].pc = "look" /\ inc[i].exposure # "internal"
    BY <1>0, <1>6 DEF Look, Outward
  <2>3. CASE s = Done(req[r])
    BY <1>d, <1>m, <2>1, <2>3
  <2>4. CASE s = [req[r] EXCEPT !.pc = "save", !.token = NoToken]
    <3>1. NoToken \in Tokens
      BY IncidentsAssumption DEF Tokens, NoToken
    <3>2. s \in Request /\ s.pc = "save" /\ s.i = i
      BY <1>0, <1>t, <2>4, <3>1 DEF Request
    <3> QED BY <2>1, <2>2, <3>2 DEF Goes, Permitted
  <2>5. ASSUME NEW th \in {"stream", "save"}, s = [req[r] EXCEPT !.pc = "ensure", !.then = th]
        PROVE  Move
    <3>1. s \in Request /\ s.pc = "ensure" /\ s.i = i /\ s.then # "idle"
      BY <1>0, <1>t, <2>5 DEF Request, AfterToken
    <3> QED BY <2>1, <2>2, <3>1 DEF Goes, Permitted
  <2> QED BY <2>1, <2>3, <2>4, <2>5
<1>7. CASE Save(r)
  <2>1. Goes(r, Done(req[r]))
    BY <1>7 DEF Save
  <2> QED BY <1>d, <1>m, <2>1
<1>8. CASE Mark(r)
  <2>1. PICK s \in {[req[r] EXCEPT !.pc = "clear"], Idle} : Goes(r, s)
    BY <1>8 DEF Mark
  <2> QED BY <1>t, <1>r, <2>1 DEF Goes, Permitted
<1>9. CASE Clear(r) \/ Report(r)
  <2>1. Goes(r, Idle)
    BY <1>9 DEF Clear, Report
  <2> QED BY <1>t, <1>p, <1>m, <2>1
<1>10. CASE Reconcile(r)
  <2>1. CASE req[r].todo # {}
    <3>1. PICK j \in req[r].todo :
            Goes(r, [req[r] EXCEPT !.pc = "queue", !.i = j, !.todo = @ \ {j}])
      BY <1>10, <2>1 DEF Reconcile
    <3>2. PICK s : s = [req[r] EXCEPT !.pc = "queue", !.i = j, !.todo = @ \ {j}]
      OBVIOUS
    <3>3. s \in Request /\ s.pc = "queue"
      BY <1>t, <3>2 DEF Request
    <3> QED BY <3>1, <3>2, <3>3 DEF Goes, Permitted
  <2>2. CASE req[r].todo = {}
    <3>1. PICK s : /\ s = IF req[r].round = 1 /\ Failed # {}
                          THEN [req[r] EXCEPT !.round = 2, !.todo = Failed] ELSE Idle
                   /\ Goes(r, s)
      BY <1>10, <2>2 DEF Reconcile
    <3>2. s \in Request /\ s.pc \in {"idle", "next"}
      <4>1. Failed \in SUBSET IncidentIds
        BY DEF Failed
      <4>2. req[r].pc = "next"
        BY <1>10 DEF Reconcile
      <4>3. 2 \in 0..2
        OBVIOUS
      <4>4. PICK f \in SUBSET IncidentIds : f = Failed
        BY <4>1
      <4>5. s = Idle \/ s = [req[r] EXCEPT !.round = 2, !.todo = f]
        BY <3>1, <4>4
      <4> QED BY <1>t, <4>2, <4>3, <4>5 DEF Request
    <3>3. Permitted(s)
      BY <3>2, RestPermitted
    <3> QED BY <1>m, <3>1, <3>2, <3>3
  <2> QED BY <2>1, <2>2
<1>11. CASE BeginReconcile(r)
  <2>1. PICK s : s = [Idle EXCEPT !.pc = "next", !.round = 1, !.todo = Missing]
    OBVIOUS
  <2>2. s \in Request /\ s.pc = "next"
    <3>1. Missing \subseteq IncidentIds /\ 1 \in 0..2
      BY DEF Missing
    <3> QED BY <1>t, <2>1, <3>1 DEF Request
  <2>3. Permitted(s)
    BY <2>2, RestPermitted
  <2>4. req' = [req EXCEPT ![r] = s]
    BY <1>11, <2>1 DEF BeginReconcile, Starts
  <2> QED BY <2>2, <2>3, <2>4
<1> QED BY <1>1, <1>2, <1>3, <1>4, <1>5, <1>6, <1>7, <1>8, <1>9, <1>10, <1>11 DEF RequestStep

LEMMA MakersKept ==
  ASSUME IncidentsTypeOK, Purging, Making, Outward, IncidentsNext
  PROVE  Making' /\ Outward'
<1>0. /\ \A r \in Requests : req[r] \in Request /\ req[r].i \in IncidentIds
      /\ Permitted(Idle) /\ Idle \in Request
  BY RestPermitted, IdleTyped DEF IncidentsTypeOK, Request
<1>k. \A i \in IncidentIds :
         /\ inc'[i].exposure = inc[i].exposure
         /\ inc[i].status = "none" =>
               inc'[i].status = "none" \/ \E r \in Requests : Insert(r) /\ req[r].i = i
  BY RowsKept
\* The others stay where they are, and what begins or goes on may do so.
<1>1. ASSUME \A r \in Requests : req'[r] = req[r] \/ Permitted(req'[r]),
             \A r \in Requests : req'[r].i \in IncidentIds
      PROVE  Making' /\ Outward'
  <2>1. Outward'
    <3> SUFFICES ASSUME NEW r \in Requests
                 PROVE  /\ req'[r].pc \in {"look", "save", "ensure"} => inc'[req'[r].i].exposure # "internal"
                        /\ (req'[r].pc = "mint" /\ req'[r].then # "idle") => inc'[req'[r].i].exposure # "internal"
                        /\ req'[r].pc = "ensure" => req'[r].then # "idle"
      BY DEF Outward
    <3>1. inc'[req'[r].i].exposure = inc[req'[r].i].exposure
      BY <1>k, <1>1
    <3> QED BY <1>1, <3>1 DEF Outward, Permitted
  <2>2. Making'
    <3> SUFFICES ASSUME NEW r \in Requests, req'[r].pc = "insert"
                 PROVE  /\ inc'[req'[r].i].status = "none"
                        /\ \A q \in Requests : req'[q].pc = "insert" /\ req'[q].i = req'[r].i => q = r
      BY DEF Making
    <3>1. \A q \in Requests : req'[q].pc = "insert" => req'[q] = req[q]
      BY <1>1 DEF Permitted
    <3>2. \A q \in Requests : req'[q].pc = "insert" /\ req'[q].i = req'[r].i => q = r
      BY <3>1 DEF Making
    <3>3. PICK i \in IncidentIds : i = req[r].i
      BY <1>0
    <3>4. inc[i].status = "none" /\ req'[r].i = i
      BY <3>1, <3>3 DEF Making
    <3>5. ASSUME NEW q \in Requests, Insert(q), req[q].i = i PROVE FALSE
      <4>1. req[q].pc = "insert"
        BY <3>5 DEF Insert
      <4>2. q = r
        BY <3>1, <3>3, <3>5, <4>1 DEF Making
      <4>3. \/ req' = [req EXCEPT ![r] = [req[r] EXCEPT !.pc = "activate"]]
            \/ req' = [req EXCEPT ![r] = Idle]
        BY <3>5, <4>2 DEF Insert, Goes
      <4>4. req'[r].pc \in {"activate", "idle"}
        BY <1>0, <4>3, IdleTyped DEF IncidentsTypeOK, Request
      <4> QED BY <4>4
    <3> QED BY <1>k, <3>2, <3>4, <3>5
  <2> QED BY <2>1, <2>2
<1>2. ASSUME NEW r \in Requests, NEW s \in Request, req' = [req EXCEPT ![r] = s], Permitted(s)
      PROVE  Making' /\ Outward'
  <2>1. \A q \in Requests : req'[q] = IF q = r THEN s ELSE req[q]
    BY <1>2 DEF IncidentsTypeOK
  <2>2. s.i \in IncidentIds
    BY DEF Request
  <2> QED BY <1>0, <1>1, <1>2, <2>1, <2>2
\* The maker of an incident is alone with it, and there is no incident yet.
<1>3. ASSUME NEW r \in Requests, NEW i \in IncidentIds, NEW activate \in BOOLEAN,
             BeginCreate(r, i, activate)
      PROVE  Making' /\ Outward'
  <2>1. PICK s : /\ s = [Idle EXCEPT !.pc = "insert", !.i = i, !.activate = activate]
                 /\ req' = [req EXCEPT ![r] = s]
    BY <1>3 DEF BeginCreate, Begin, Starts
  <2>2. s.pc = "insert" /\ s.i = i
    BY <1>0, <2>1 DEF Request
  <2>3. \A q \in Requests : req'[q] = IF q = r THEN s ELSE req[q]
    BY <2>1 DEF IncidentsTypeOK
  <2>4. UNCHANGED inc /\ inc[i].status = "none" /\ On(i) = {}
    BY <1>3 DEF BeginCreate
  <2>5. \A q \in Requests : req[q].pc = "insert" => req[q].i # i
    BY <2>4 DEF On
  <2>6. Making'
    BY <2>2, <2>3, <2>4, <2>5 DEF Making
  <2>7. Outward'
    BY <2>2, <2>3, <2>4 DEF Outward
  <2> QED BY <2>6, <2>7
<1>4. ASSUME UNCHANGED req PROVE Making' /\ Outward'
  BY <1>0, <1>1, <1>4
<1>5. ASSUME HubRestart PROVE Making' /\ Outward'
  <2>1. \A r \in Requests : req'[r] = Idle
    BY <1>5 DEF HubRestart
  <2>2. Idle.i \in IncidentIds
    BY <1>0 DEF Request
  <2> QED BY <1>0, <1>1, <2>1, <2>2
<1>6. ASSUME NEW r \in Requests, RequestStep(r) \/ BeginReconcile(r) PROVE Making' /\ Outward'
  BY <1>2, <1>6, StepPermitted
<1>7. ASSUME NEW r \in Requests, NEW i \in IncidentIds,
             \/ BeginActivate(r, i) \/ BeginAsk(r, i) \/ BeginClose(r, i)
             \/ BeginCloseBySet(r, i) \/ BeginUnbridge(r, i) \/ BeginShare(r, i)
             \/ BeginComplete(r, i) \/ BeginFail(r, i)
      PROVE  Making' /\ Outward'
  BY <1>2, <1>7, BeginPermitted
<1>8. ASSUME NEW i \in IncidentIds,
             \/ Archive(i) \/ Revoke(i) \/ DeleteSet(i)
             \/ Take(i) \/ ReportStop(i) \/ PurgeDelete(i)
      PROVE  Making' /\ Outward'
  BY <1>4, <1>8 DEF Archive, Revoke, DeleteSet, Take, ReportStop, PurgeDelete, Aside
<1>9. ASSUME PurgeList \/ PurgeDrop \/ BotRestart \/ Tick PROVE Making' /\ Outward'
  BY <1>4, <1>9 DEF PurgeList, PurgeDrop, BotRestart, Tick
<1> QED BY <1>3, <1>5, <1>6, <1>7, <1>8, <1>9 DEF IncidentsNext

-----------------------------------------------------------------------------
(* What stays on the books, and what an internal incident is given.         *)

LEMMA NoteStays ==
  ASSUME IncidentsTypeOK, NEW i \in IncidentIds, NEW marks, Note(i, marks)
  PROVE  \A j \in IncidentIds : \A m \in {"orphan", "reopened", "restamped", "shared"} :
            m \in excuse[j] => m \in excuse'[j]
  BY DEF Note, Noted, IncidentsTypeOK

\* Only the closing of an incident clears that its set is shared by hand, and only the
\* purge forgets that it was opened again.
LEMMA MarksStay ==
  ASSUME IncidentsTypeOK, IncidentsNext, NEW j \in IncidentIds
  PROVE  /\ "orphan" \in excuse[j] => "orphan" \in excuse'[j]
         /\ PurgeList \/ \A m \in {"reopened", "restamped"} : m \in excuse[j] => m \in excuse'[j]
         /\ "shared" \in excuse[j] =>
               "shared" \in excuse'[j] \/ \E r \in Requests : Clear(r) /\ req[r].i = j
<1> DEFINE Stays == \A m \in {"orphan", "reopened", "restamped", "shared"} :
                       m \in excuse[j] => m \in excuse'[j]
<1>1. ASSUME NEW i \in IncidentIds, NEW marks, Note(i, marks) PROVE Stays
  BY <1>1, NoteStays
<1>2. ASSUME UNCHANGED excuse PROVE Stays
  BY <1>2
<1>3. \A r \in Requests : req[r].i \in IncidentIds
  BY DEF IncidentsTypeOK, Request
<1> HIDE DEF Stays
<1>4. ASSUME NEW r \in Requests, NEW i \in IncidentIds,
             \/ \E activate \in BOOLEAN : BeginCreate(r, i, activate)
             \/ BeginActivate(r, i) \/ BeginAsk(r, i) \/ BeginClose(r, i)
             \/ BeginCloseBySet(r, i) \/ BeginUnbridge(r, i) \/ BeginShare(r, i)
             \/ BeginComplete(r, i) \/ BeginFail(r, i)
      PROVE  Stays
  BY <1>1, <1>4 DEF BeginCreate, BeginActivate, BeginAsk, BeginClose, BeginCloseBySet,
       BeginUnbridge, BeginShare, BeginComplete, BeginFail, BeginReport, Begin
<1>5. ASSUME NEW r \in Requests,
             \/ Insert(r) \/ Ensure(r) \/ Queue(r) \/ Look(r) \/ Save(r) \/ Mark(r)
             \/ BeginReconcile(r)
      PROVE  Stays
  BY <1>2, <1>5 DEF Insert, Ensure, Queue, Look, Save, Mark, BeginReconcile
<1>6. ASSUME NEW r \in Requests, Activate(r) \/ Mint(r) \/ Report(r) PROVE Stays
  <2>1. UNCHANGED excuse \/ \E marks : Note(req[r].i, marks)
    BY <1>6 DEF Activate, Mint, Report
  <2> QED BY <1>1, <1>2, <1>3, <2>1
<1>7. ASSUME NEW r \in Requests, Reconcile(r) PROVE Stays
  <2>1. CASE req[r].todo # {}
    <3>1. PICK i \in req[r].todo : Note(i, Beside(i))
      BY <1>7, <2>1 DEF Reconcile
    <3>2. i \in IncidentIds
      BY DEF IncidentsTypeOK, Request
    <3> QED BY <1>1, <3>1, <3>2
  <2>2. CASE req[r].todo = {}
    BY <1>2, <1>7, <2>2 DEF Reconcile
  <2> QED BY <2>1, <2>2
<1>8. ASSUME NEW i \in IncidentIds,
             \/ Archive(i) \/ Revoke(i) \/ DeleteSet(i)
             \/ Take(i) \/ ReportStop(i) \/ PurgeDelete(i)
      PROVE  Stays
  BY <1>1, <1>2, <1>8 DEF Archive, Revoke, DeleteSet, Take, ReportStop, PurgeDelete, Aside
<1>9. ASSUME PurgeDrop \/ BotRestart \/ Tick PROVE Stays
  BY <1>2, <1>9 DEF PurgeDrop, BotRestart, Tick
<1>10. ASSUME HubRestart PROVE Stays
  BY <1>10 DEF HubRestart, Noted, Stays
<1>11. CASE Stays
  BY <1>11 DEF Stays
<1>12. ASSUME NEW r \in Requests, Clear(r) PROVE
         /\ \A m \in {"orphan", "reopened", "restamped"} : m \in excuse[j] => m \in excuse'[j]
         /\ "shared" \in excuse[j] => "shared" \in excuse'[j] \/ req[r].i = j
  BY <1>12 DEF Clear, IncidentsTypeOK
<1>13. CASE PurgeList
  BY <1>13 DEF PurgeList
<1> QED
  BY <1>4, <1>5, <1>6, <1>7, <1>8, <1>9, <1>10, <1>11, <1>12, <1>13 DEF IncidentsNext, RequestStep

\* A bridge is set up by the last statement of a request that asked for one.
LEMMA BridgeComes ==
  ASSUME IncidentsTypeOK, IncidentsNext, NEW j \in IncidentIds,
         bridge[j].status = "none", bridge'[j].status # "none"
  PROVE  \E r \in Requests : req[r].pc = "save" /\ req[r].i = j
<1>0. \A i \in IncidentIds : bridge[i] \in Bridge
  BY DEF IncidentsTypeOK
<1>1. ASSUME UNCHANGED bridge PROVE FALSE
  BY <1>1
<1>2. ASSUME NEW r \in Requests, Mark(r) PROVE FALSE
  <2>1. bridge' = [bridge EXCEPT ![req[r].i] = Stopping(bridge[req[r].i])]
    BY <1>2 DEF Mark
  <2>2. bridge'[j] = bridge[j] \/ bridge'[j] = Stopping(bridge[j])
    BY <2>1 DEF IncidentsTypeOK
  <2> QED BY <2>2 DEF Stopping
<1>3. ASSUME NEW r \in Requests, Report(r) PROVE FALSE
  <2>1. CASE req[r].i = j
    BY <1>1, <1>3, <2>1 DEF Report
  <2>2. CASE req[r].i # j
    BY <1>3, <2>2 DEF Report, IncidentsTypeOK
  <2> QED BY <2>1, <2>2
<1>4. ASSUME NEW i \in IncidentIds, ReportStop(i) PROVE FALSE
  <2>1. CASE i = j
    BY <1>1, <1>4, <2>1 DEF ReportStop
  <2>2. CASE i # j
    BY <1>4, <2>2 DEF ReportStop, IncidentsTypeOK
  <2> QED BY <2>1, <2>2
<1>5. ASSUME NEW i \in IncidentIds, PurgeDelete(i) PROVE FALSE
  BY <1>5 DEF PurgeDelete, NoBridge, IncidentsTypeOK
<1>6. ASSUME NEW r \in Requests, NEW i \in IncidentIds,
             \/ \E activate \in BOOLEAN : BeginCreate(r, i, activate)
             \/ BeginActivate(r, i) \/ BeginAsk(r, i) \/ BeginClose(r, i)
             \/ BeginCloseBySet(r, i) \/ BeginUnbridge(r, i) \/ BeginShare(r, i)
             \/ BeginComplete(r, i) \/ BeginFail(r, i)
      PROVE  FALSE
  BY <1>1, <1>6 DEF BeginCreate, BeginActivate, BeginAsk, BeginClose, BeginCloseBySet,
       BeginUnbridge, BeginShare, BeginComplete, BeginFail, BeginReport, tables
<1>7. ASSUME NEW r \in Requests,
             \/ Insert(r) \/ Activate(r) \/ Ensure(r) \/ Mint(r) \/ Queue(r) \/ Look(r)
             \/ Clear(r) \/ Reconcile(r) \/ BeginReconcile(r)
      PROVE  FALSE
  BY <1>1, <1>7 DEF Insert, Activate, Ensure, Mint, Queue, Look, Clear, Reconcile, BeginReconcile, tables
<1>8. ASSUME NEW i \in IncidentIds, Archive(i) \/ Revoke(i) \/ DeleteSet(i) \/ Take(i) PROVE FALSE
  BY <1>1, <1>8 DEF Archive, Revoke, DeleteSet, Take, tables
<1>9. ASSUME PurgeList \/ PurgeDrop \/ BotRestart \/ Tick \/ HubRestart PROVE FALSE
  BY <1>1, <1>9 DEF PurgeList, PurgeDrop, BotRestart, Tick, HubRestart, tables
<1>10. ASSUME NEW r \in Requests, Save(r) PROVE req[r].pc = "save" /\ req[r].i = j
  BY <1>10 DEF Save, IncidentsTypeOK
<1> QED
  BY <1>2, <1>3, <1>4, <1>5, <1>6, <1>7, <1>8, <1>9, <1>10 DEF IncidentsNext, RequestStep

\* A radio set exists from the moment its incident is made, and is shared by a mint only.
LEMMA SetSteps ==
  ASSUME IncidentsTypeOK, IncidentsNext, NEW j \in IncidentIds
  PROVE  \/ set'[j] = set[j]
         \/ set'[j] = [set[j] EXCEPT !.token = NoToken]
         \/ set'[j] = NoSet
         \/ inc[j].status = "none" /\ UNCHANGED inc /\ set'[j].token = NoToken
         \/ \E r \in Requests : /\ Mint(r) /\ req[r].i = j
                                /\ set'[j].exists = set[j].exists
<1>0. \A i \in IncidentIds : set[i] \in RadioSet
  BY DEF IncidentsTypeOK
<1> DEFINE Goal == \/ set'[j] = set[j]
                   \/ set'[j] = [set[j] EXCEPT !.token = NoToken]
                   \/ set'[j] = NoSet
                   \/ inc[j].status = "none" /\ UNCHANGED inc /\ set'[j].token = NoToken
                   \/ \E r \in Requests : /\ Mint(r) /\ req[r].i = j
                                          /\ set'[j].exists = set[j].exists
<1>1. ASSUME UNCHANGED set PROVE Goal
  BY <1>1
<1>2. ASSUME NEW r \in Requests, NEW i \in IncidentIds, NEW activate \in BOOLEAN,
             BeginCreate(r, i, activate)
      PROVE  Goal
  BY <1>2 DEF BeginCreate, IncidentsTypeOK
<1>3. ASSUME NEW r \in Requests, Mint(r) PROVE Goal
  <2>1. PICK i \in IncidentIds : i = req[r].i
    BY DEF IncidentsTypeOK, Request
  <2>2. PICK v : v = [set[i] EXCEPT !.token = IF set[i].exists THEN token + 1 ELSE NoToken]
    OBVIOUS
  <2>3. set' = [set EXCEPT ![i] = v] /\ v.exists = set[i].exists
    BY <1>0, <1>3, <2>1, <2>2 DEF Mint, RadioSet, IncidentsTypeOK
  <2>4. set'[j] = IF i = j THEN v ELSE set[j]
    BY <2>3 DEF IncidentsTypeOK
  <2> QED BY <1>3, <2>1, <2>3, <2>4
<1>4. ASSUME NEW r \in Requests, Clear(r) PROVE Goal
  BY <1>4 DEF Clear, Cleared, IncidentsTypeOK
<1>5. ASSUME NEW i \in IncidentIds, Revoke(i) \/ DeleteSet(i) PROVE Goal
  BY <1>5 DEF Revoke, DeleteSet, Cleared, IncidentsTypeOK
<1>6. ASSUME PurgeDrop PROVE Goal
  BY <1>6 DEF PurgeDrop, IncidentsTypeOK
<1> HIDE DEF Goal
<1>7. ASSUME NEW r \in Requests, NEW i \in IncidentIds,
             \/ BeginActivate(r, i) \/ BeginAsk(r, i) \/ BeginClose(r, i)
             \/ BeginCloseBySet(r, i) \/ BeginUnbridge(r, i) \/ BeginShare(r, i)
             \/ BeginComplete(r, i) \/ BeginFail(r, i)
      PROVE  Goal
  BY <1>1, <1>7 DEF BeginActivate, BeginAsk, BeginClose, BeginCloseBySet,
       BeginUnbridge, BeginShare, BeginComplete, BeginFail, BeginReport, tables
<1>8. ASSUME NEW r \in Requests,
             \/ Insert(r) \/ Activate(r) \/ Ensure(r) \/ Queue(r) \/ Look(r) \/ Save(r)
             \/ Mark(r) \/ Report(r) \/ Reconcile(r) \/ BeginReconcile(r)
      PROVE  Goal
  BY <1>1, <1>8 DEF Insert, Activate, Ensure, Queue, Look, Save, Mark, Report, Reconcile,
       BeginReconcile, tables
<1>9. ASSUME NEW i \in IncidentIds, Archive(i) \/ Take(i) \/ ReportStop(i) \/ PurgeDelete(i) PROVE Goal
  BY <1>1, <1>9 DEF Archive, Take, ReportStop, PurgeDelete, tables
<1>10. ASSUME PurgeList \/ BotRestart \/ Tick \/ HubRestart PROVE Goal
  BY <1>1, <1>10 DEF PurgeList, BotRestart, Tick, HubRestart, tables
<1>11. Goal
  BY <1>2, <1>3, <1>4, <1>5, <1>6, <1>7, <1>8, <1>9, <1>10 DEF IncidentsNext, RequestStep
<1> QED BY <1>11 DEF Goal

LEMMA InternalKept ==
  ASSUME IncidentsTypeOK, Outward, Purging, InternalStaysIn, IncidentsNext
  PROVE  InternalStaysIn'
<1> SUFFICES ASSUME NEW j \in IncidentIds, inc'[j].exposure = "internal"
             PROVE  bridge'[j].status = "none" /\ (set'[j].token # NoToken => "shared" \in excuse'[j])
  BY DEF InternalStaysIn
<1>1. /\ inc[j].exposure = "internal" /\ bridge[j].status = "none"
      /\ set[j].token # NoToken => "shared" \in excuse[j]
  BY RowsKept DEF InternalStaysIn
<1>2. bridge'[j].status = "none"
  BY <1>1, BridgeComes DEF Outward
<1>3. ASSUME set'[j].token # NoToken PROVE "shared" \in excuse'[j]
  <2>1. set[j] \in RadioSet
    BY DEF IncidentsTypeOK
  <2>2. CASE \E r \in Requests : Mint(r) /\ req[r].i = j
    <3>1. PICK r \in Requests : Mint(r) /\ req[r].i = j
      BY <2>2
    <3>2. req[r].pc = "mint" /\ req[r].then = "idle"
      BY <1>1, <3>1 DEF Mint, Outward
    <3>3. Note(j, {"shared"})
      BY <3>1, <3>2 DEF Mint
    <3> QED BY <3>3 DEF Note, Noted, IncidentsTypeOK
  <2>3. CASE set'[j] = set[j] /\ \A r \in Requests : ~(Clear(r) /\ req[r].i = j)
    BY <1>1, <1>3, <2>3, MarksStay
  <2>4. ASSUME NEW r \in Requests, Clear(r), req[r].i = j PROVE FALSE
    <3>1. set'[j] = [set[j] EXCEPT !.token = NoToken]
      BY <2>4 DEF Clear, Cleared, IncidentsTypeOK
    <3> QED BY <1>3, <2>1, <3>1 DEF RadioSet
  <2>5. [set[j] EXCEPT !.token = NoToken].token = NoToken /\ NoSet.token = NoToken
    BY <2>1 DEF RadioSet, NoSet
  <2> QED BY <1>3, <2>2, <2>3, <2>4, <2>5, SetSteps
<1> QED BY <1>2, <1>3

-----------------------------------------------------------------------------
(* Stamps, and what the purge does with them.                               *)

LEMMA EraGrows ==
  ASSUME IncidentsTypeOK, IncidentsNext
  PROVE  era \in Nat /\ era' \in Nat /\ era > 0 /\ era <= era' /\ (era' = era \/ (Tick /\ UNCHANGED inc))
<1>0. era \in Nat /\ era > 0
  BY IncidentsAssumption DEF IncidentsTypeOK
<1>1. ASSUME NEW r \in Requests, NEW i \in IncidentIds,
             \/ \E activate \in BOOLEAN : BeginCreate(r, i, activate)
             \/ BeginActivate(r, i) \/ BeginAsk(r, i) \/ BeginClose(r, i)
             \/ BeginCloseBySet(r, i) \/ BeginUnbridge(r, i) \/ BeginShare(r, i)
             \/ BeginComplete(r, i) \/ BeginFail(r, i)
      PROVE  era' = era
  BY <1>1 DEF BeginCreate, BeginActivate, BeginAsk, BeginClose, BeginCloseBySet, BeginUnbridge,
       BeginShare, BeginComplete, BeginFail, BeginReport, Begin, Starts
<1>2. ASSUME NEW r \in Requests, RequestStep(r) \/ BeginReconcile(r) PROVE era' = era
  BY <1>2 DEF RequestStep, Insert, Activate, Ensure, Mint, Queue, Look, Save, Mark, Clear,
       Reconcile, Report, BeginReconcile, Goes, Starts
<1>3. ASSUME NEW i \in IncidentIds,
             \/ Archive(i) \/ Revoke(i) \/ DeleteSet(i)
             \/ Take(i) \/ ReportStop(i) \/ PurgeDelete(i)
      PROVE  era' = era
  BY <1>3 DEF Archive, Revoke, DeleteSet, Take, ReportStop, PurgeDelete, Aside
<1>4. ASSUME PurgeList \/ PurgeDrop \/ BotRestart \/ HubRestart PROVE era' = era
  BY <1>4 DEF PurgeList, PurgeDrop, BotRestart, HubRestart
<1>5. CASE Tick
  BY <1>0, <1>5 DEF Tick, tables
<1>6. CASE era' = era
  BY <1>0, <1>6
<1> QED BY <1>1, <1>2, <1>3, <1>4, <1>5, <1>6 DEF IncidentsNext

LEMMA AgesKept ==
  ASSUME IncidentsTypeOK, Ages, IncidentsNext
  PROVE  Ages'
<1> DEFINE Aged(line, e) == /\ line.closed <= e /\ line.archived <= e /\ line.ended <= e
                            /\ line.status = "closed" => line.ended <= line.closed
                            /\ line.status = "archived" => line.archived > 0
<1> SUFFICES ASSUME NEW i \in IncidentIds PROVE Aged(inc'[i], era')
  BY DEF Ages
<1>1. era \in Nat /\ era' \in Nat /\ era > 0 /\ era <= era'
  BY EraGrows
<1>2. inc[i] \in Incident /\ RowStep(i) /\ Aged(inc[i], era)
  BY RowSteps DEF IncidentsTypeOK, Ages
<1>3. inc[i].closed \in Nat /\ inc[i].archived \in Nat /\ inc[i].ended \in Nat
  BY <1>2, IncidentsAssumption DEF Incident, Stamps
<1>4. CASE inc'[i] = inc[i]
  BY <1>1, <1>2, <1>3, <1>4
<1>5. ASSUME NEW status \in {"active", "draft", "purged"}, inc'[i] = [inc[i] EXCEPT !.status = status]
      PROVE  Aged(inc'[i], era')
  <2>1. /\ inc'[i].status = status /\ inc'[i].closed = inc[i].closed
        /\ inc'[i].archived = inc[i].archived /\ inc'[i].ended = inc[i].ended
    BY <1>2, <1>5 DEF Incident
  <2> QED BY <1>1, <1>2, <1>3, <2>1
<1>6. CASE inc'[i] = [inc[i] EXCEPT !.status = "closed", !.closed = era,
                                    !.ended = IF Ended(i) THEN @ ELSE era]
  <2>1. /\ inc'[i].status = "closed" /\ inc'[i].closed = era /\ inc'[i].archived = inc[i].archived
        /\ inc'[i].ended \in {inc[i].ended, era}
    BY <1>2, <1>6 DEF Incident
  <2> QED BY <1>1, <1>2, <1>3, <2>1
<1>7. CASE inc'[i] = [inc[i] EXCEPT !.status = "archived", !.archived = era,
                                    !.ended = IF Ended(i) THEN @ ELSE era]
  <2>1. /\ inc'[i].status = "archived" /\ inc'[i].closed = inc[i].closed /\ inc'[i].archived = era
        /\ inc'[i].ended \in {inc[i].ended, era}
    BY <1>2, <1>7 DEF Incident
  <2> QED BY <1>1, <1>2, <1>3, <2>1
<1> QED BY <1>2, <1>4, <1>5, <1>6, <1>7 DEF RowStep

LEMMA PurgeSteps ==
  ASSUME IncidentsNext
  PROVE  \/ UNCHANGED purge
         \/ PurgeList \/ PurgeDrop \/ HubRestart \/ \E i \in IncidentIds : PurgeDelete(i)
<1>1. ASSUME NEW r \in Requests, NEW i \in IncidentIds,
             \/ \E activate \in BOOLEAN : BeginCreate(r, i, activate)
             \/ BeginActivate(r, i) \/ BeginAsk(r, i) \/ BeginClose(r, i)
             \/ BeginCloseBySet(r, i) \/ BeginUnbridge(r, i) \/ BeginShare(r, i)
             \/ BeginComplete(r, i) \/ BeginFail(r, i)
      PROVE  UNCHANGED purge
  BY <1>1 DEF BeginCreate, BeginActivate, BeginAsk, BeginClose, BeginCloseBySet, BeginUnbridge,
       BeginShare, BeginComplete, BeginFail, BeginReport, Begin, Starts
<1>2. ASSUME NEW r \in Requests, RequestStep(r) \/ BeginReconcile(r) PROVE UNCHANGED purge
  BY <1>2 DEF RequestStep, Insert, Activate, Ensure, Mint, Queue, Look, Save, Mark, Clear,
       Reconcile, Report, BeginReconcile, Goes, Starts
<1>3. ASSUME NEW i \in IncidentIds, Archive(i) \/ Revoke(i) \/ DeleteSet(i) \/ Take(i) \/ ReportStop(i)
      PROVE  UNCHANGED purge
  BY <1>3 DEF Archive, Revoke, DeleteSet, Take, ReportStop, Aside
<1>4. ASSUME BotRestart \/ Tick PROVE UNCHANGED purge
  BY <1>4 DEF BotRestart, Tick
<1> QED BY <1>1, <1>2, <1>3, <1>4 DEF IncidentsNext

\* What is purged stays so.
LEMMA PurgedStays ==
  ASSUME IncidentsTypeOK, Making, IncidentsNext, NEW i \in IncidentIds
  PROVE  /\ inc[i].status = "purged" => inc'[i].status = "purged"
         /\ Stored(i) => Stored(i)' \/ PurgeDelete(i)
         /\ inc'[i].status = "purged" => inc[i].status = "purged" \/ PurgeDelete(i)
<1>1. inc[i] \in Incident /\ RowStep(i)
  BY RowSteps DEF IncidentsTypeOK
<1>2. \A r \in Requests : Insert(r) /\ req[r].i = i => inc[i].status = "none"
  BY DEF Insert, Making
<1>3. PurgeDelete(i) /\ inc'[i] = [inc[i] EXCEPT !.status = "purged"] => inc'[i].status = "purged"
  BY <1>1 DEF Incident
<1> QED BY <1>1, <1>2, <1>3 DEF RowStep, Incident, Stored

LEMMA GoneKept ==
  ASSUME IncidentsTypeOK, Making, Gone, IncidentsNext
  PROVE  Gone'
<1> SUFFICES ASSUME NEW i \in IncidentIds, inc'[i].status = "purged", set'[i].exists
             PROVE  "orphan" \in excuse'[i] \/ (purge'.pc = "drop" /\ purge'.i = i)
  BY DEF Gone
<1>0. set[i] \in RadioSet /\ inc[i] \in Incident /\ excuse[i] \in SUBSET Excuses
  BY DEF IncidentsTypeOK
<1>1. CASE PurgeDelete(i)
  <2>1. set[i].exists
    BY <1>1 DEF PurgeDelete
  <2> QED BY <1>1, <2>1 DEF PurgeDelete
<1>2. CASE inc[i].status = "purged" /\ ~PurgeDelete(i)
  <2>1. set[i].exists
    <3>1. [set[i] EXCEPT !.token = NoToken].exists = set[i].exists /\ ~NoSet.exists
      BY <1>0 DEF RadioSet, NoSet
    <3>2. inc[i].status # "none"
      BY <1>2
    <3> QED BY <3>1, <3>2, SetSteps
  <2>2. CASE "orphan" \in excuse[i]
    BY <2>2, MarksStay
  <2>3. CASE purge.pc = "drop" /\ purge.i = i
    <3>1. CASE UNCHANGED purge
      BY <2>3, <3>1
    <3>2. CASE PurgeDrop
      BY <2>3, <3>2 DEF PurgeDrop, NoSet, IncidentsTypeOK
    <3>3. CASE HubRestart
      BY <2>3, <3>3 DEF HubRestart, Noted
    <3>4. CASE PurgeList \/ \E j \in IncidentIds : PurgeDelete(j)
      BY <2>3, <3>4 DEF PurgeList, PurgeDelete
    <3> QED BY <3>1, <3>2, <3>3, <3>4, PurgeSteps
  <2> QED BY <1>2, <2>1, <2>2, <2>3 DEF Gone
<1> QED BY <1>1, <1>2, PurgedStays

\* The stamp the listing goes by is not before the end, unless it is of an earlier archiving.
LEMMA ListedIsDue ==
  ASSUME IncidentsTypeOK, Ages, NEW i \in IncidentIds, Ended(i), Stamp(i) < era
  PROVE  OldStamp(i) \/ inc[i].ended < era
<1>1. /\ inc[i].closed \in Nat /\ inc[i].archived \in Nat /\ inc[i].ended \in Nat
      /\ era \in Nat
  BY IncidentsAssumption DEF IncidentsTypeOK, Incident, Stamps
<1>2. /\ inc[i].status = "closed" => inc[i].ended <= inc[i].closed
      /\ inc[i].status = "archived" => inc[i].archived > 0
  BY DEF Ages
<1>3. inc[i].status \in {"closed", "archived"}
  BY DEF Ended
<1> QED BY <1>1, <1>2, <1>3 DEF Stamp, OldStamp

LEMMA PurgingKept ==
  ASSUME IncidentsTypeOK, Making, Ages, Purging, IncidentsNext
  PROVE  Purging'
<1>1. purge'.pc = "drop" => inc'[purge'.i].status = "purged"
  <2> SUFFICES ASSUME purge'.pc = "drop" PROVE inc'[purge'.i].status = "purged"
    OBVIOUS
  <2>1. CASE UNCHANGED purge
    BY <2>1, PurgedStays DEF Purging, IncidentsTypeOK, Purge
  <2>2. CASE PurgeList \/ PurgeDrop \/ HubRestart
    BY <2>2 DEF PurgeList, PurgeDrop, HubRestart, IncidentsTypeOK, Purge
  <2>3. ASSUME NEW i \in IncidentIds, PurgeDelete(i) PROVE inc'[purge'.i].status = "purged"
    <3>1. purge'.i = i
      BY <2>3 DEF PurgeDelete
    <3>2. inc' = [inc EXCEPT ![i].status = "purged"] /\ inc[i] \in Incident
      BY <2>3 DEF PurgeDelete, IncidentsTypeOK
    <3>3. inc'[i].status = "purged"
      BY <3>2 DEF IncidentsTypeOK, Incident
    <3> QED BY <3>1, <3>3
  <2> QED BY <2>1, <2>2, <2>3, PurgeSteps
<1>2. purge'.pc = "idle" => purge'.todo = {}
  <2>1. CASE UNCHANGED purge
    BY <2>1 DEF Purging
  <2>2. CASE HubRestart
    BY <2>2 DEF HubRestart
  <2>3. CASE PurgeList \/ PurgeDrop
    BY <2>3 DEF PurgeList, PurgeDrop, IncidentsTypeOK, Purge
  <2>4. ASSUME NEW i \in IncidentIds, PurgeDelete(i) PROVE purge'.pc = "idle" => purge'.todo = {}
    BY <2>4 DEF PurgeDelete
  <2> QED BY <2>1, <2>2, <2>3, <2>4, PurgeSteps
<1>3. CASE PurgeList
  <2>1. purge'.todo = {i \in IncidentIds : Ended(i) /\ Stamp(i) < era} /\ UNCHANGED <<inc, era>>
    BY <1>3 DEF PurgeList, tables
  <2>2. ASSUME NEW i \in purge'.todo PROVE Stored(i)' /\ Due(i)'
    <3>1. i \in IncidentIds /\ Ended(i) /\ Stamp(i) < era
      BY <2>1, <2>2
    <3>2. Stored(i)'
      BY <2>1, <3>1 DEF Ended, Stored
    <3>3. CASE OldStamp(i)
      <4>1. "restamped" \in excuse'[i]
        BY <1>3, <3>1, <3>3 DEF PurgeList
      <4> QED BY <3>2, <4>1 DEF Due
    <3>4. CASE inc[i].ended < era
      BY <2>1, <3>1, <3>2, <3>4 DEF Due, Ended
    <3> QED BY <3>1, <3>3, <3>4, ListedIsDue
  <2> QED BY <1>1, <1>2, <2>2 DEF Purging
<1>4. CASE ~PurgeList
  <2>1. purge'.todo \subseteq purge.todo /\ \A i \in purge'.todo : ~PurgeDelete(i)
    <3>1. \A i : PurgeDelete(i) => i \in purge.todo /\ purge'.todo = purge.todo \ {i}
      BY DEF PurgeDelete
    <3>2. purge'.todo \subseteq purge.todo
      <4>1. CASE UNCHANGED purge
        BY <4>1
      <4>2. CASE PurgeDrop \/ HubRestart
        BY <4>2 DEF PurgeDrop, HubRestart, IncidentsTypeOK, Purge
      <4> QED BY <1>4, <3>1, <4>1, <4>2, PurgeSteps
    <3> QED BY <3>1, <3>2
  <2>2. ASSUME NEW i \in purge'.todo PROVE Stored(i)' /\ Due(i)'
    <3>1. i \in IncidentIds /\ Stored(i) /\ Due(i) /\ ~PurgeDelete(i)
      BY <2>1, <2>2 DEF Purging, IncidentsTypeOK, Purge
    <3>2. Stored(i)'
      BY <3>1, PurgedStays
    <3>3. CASE {"reopened", "restamped"} \cap excuse[i] # {}
      BY <1>4, <3>1, <3>2, <3>3, MarksStay DEF Due
    <3>4. CASE Ended(i) /\ inc[i].ended < era
      <4>1. inc[i] \in Incident /\ RowStep(i)
        BY <3>1, RowSteps DEF IncidentsTypeOK
      <4>2. inc[i].ended \in Nat /\ era \in Nat /\ era' \in Nat /\ era <= era'
        BY <4>1, IncidentsAssumption, EraGrows DEF Incident, Stamps
      <4>3. CASE \E r \in Requests : Activate(r) /\ req[r].i = i /\ Stored(i)
        <5>1. Note(i, {"reopened"})
          BY <4>3 DEF Activate
        <5>2. "reopened" \in excuse'[i]
          BY <3>1, <5>1 DEF Note, Noted, IncidentsTypeOK
        <5> QED BY <3>2, <5>2 DEF Due
      <4>4. CASE /\ inc'[i].status \in {inc[i].status, "closed", "archived"}
                 /\ inc'[i].ended = inc[i].ended
        BY <3>2, <3>4, <4>2, <4>4 DEF Due, Ended
      <4>5. CASE inc'[i] = [inc[i] EXCEPT !.status = "closed", !.closed = era,
                                          !.ended = IF Ended(i) THEN @ ELSE era]
        BY <3>4, <4>1, <4>4, <4>5 DEF Incident
      <4>6. CASE inc'[i] = [inc[i] EXCEPT !.status = "archived", !.archived = era,
                                          !.ended = IF Ended(i) THEN @ ELSE era]
        BY <3>4, <4>1, <4>4, <4>6 DEF Incident
      <4>7. CASE \E r \in Requests : Insert(r) /\ req[r].i = i
        BY <3>1, <4>7 DEF Insert, Making, Stored
      <4> QED BY <3>1, <4>1, <4>3, <4>4, <4>5, <4>6, <4>7 DEF RowStep
    <3> QED BY <3>1, <3>3, <3>4 DEF Due
  <2> QED BY <1>1, <1>2, <2>2 DEF Purging
<1> QED BY <1>3, <1>4

-----------------------------------------------------------------------------
(* The theorems.                                                            *)

LEMMA IncidentsInitIInv == IncidentsInit => IncidentsIInv
<1> SUFFICES ASSUME IncidentsInit PROVE IncidentsIInv
  OBVIOUS
<1>1. IncidentsTypeOK
  BY InitTyped
<1>2. PICK e \in [IncidentIds -> Exposures] :
        inc = [i \in IncidentIds |-> [status |-> "none", exposure |-> e[i],
                                      closed |-> 0, archived |-> 0, ended |-> 0]]
  BY DEF IncidentsInit
<1>3. /\ \A i \in IncidentIds : /\ inc[i].status = "none" /\ inc[i].closed = 0
                                /\ inc[i].archived = 0 /\ inc[i].ended = 0
                                /\ set[i] = NoSet /\ bridge[i] = NoBridge /\ excuse[i] = {}
      /\ \A r \in Requests : req[r].pc = "idle"
      /\ purge.pc = "idle" /\ purge.todo = {} /\ era = 1
  BY <1>2, IdleTyped DEF IncidentsInit
<1>4. AllAgree
  <2> SUFFICES ASSUME NEW i \in IncidentIds PROVE Agree(i)
    BY DEF AllAgree
  <2>1. On(i) = {}
    BY <1>3 DEF On
  <2>2. Fits(inc[i], set[i], bridge[i], excuse[i], Idle)
    BY <1>3, IdleTyped DEF Fits, Heard, Silent, Current, Intent, Over, Up, NoSet, NoBridge
  <2> QED BY <2>1, <2>2 DEF Agree
<1>5. Making /\ Outward
  BY <1>3 DEF Making, Outward
<1>6. InternalStaysIn
  BY <1>3 DEF InternalStaysIn, NoSet, NoBridge
<1>7. Ages
  BY <1>3 DEF Ages
<1>8. Gone
  BY <1>3 DEF Gone
<1>9. Purging
  BY <1>3 DEF Purging
<1> QED BY <1>1, <1>4, <1>5, <1>6, <1>7, <1>8, <1>9 DEF IncidentsIInv

LEMMA IncidentsNextIInv == IncidentsIInv /\ [IncidentsNext]_incidentsVars => IncidentsIInv'
<1> SUFFICES ASSUME IncidentsIInv, [IncidentsNext]_incidentsVars PROVE IncidentsIInv'
  OBVIOUS
<1>0. IncidentsTypeOK'
  BY TypeIncidents DEF IncidentsIInv
<1>1. CASE IncidentsNext
  <2>1. AllAgree'
    BY <1>1, AgreeBegin, AgreeRequest, AgreeOther DEF IncidentsNext, IncidentsIInv
  <2>2. Making' /\ Outward'
    BY <1>1, MakersKept DEF IncidentsIInv
  <2>3. InternalStaysIn'
    BY <1>1, InternalKept DEF IncidentsIInv
  <2>4. Ages' /\ Gone' /\ Purging'
    BY <1>1, AgesKept, GoneKept, PurgingKept DEF IncidentsIInv
  <2> QED BY <1>0, <2>1, <2>2, <2>3, <2>4 DEF IncidentsIInv
<1>2. CASE UNCHANGED incidentsVars
  <2>1. UNCHANGED <<inc, set, bridge, req, excuse, purge, era>>
    BY <1>2 DEF incidentsVars, tables
  <2>2. AllAgree'
    <3>1. \A i : On(i)' = On(i)
      BY <2>1 DEF On
    <3> QED BY <2>1, <3>1 DEF IncidentsIInv, AllAgree, Agree, Alone
  <2>3. Making' /\ Outward' /\ Ages' /\ Gone'
    BY <2>1 DEF IncidentsIInv, Making, Outward, Ages, Gone
  <2>4. InternalStaysIn'
    BY <2>1 DEF IncidentsIInv, InternalStaysIn
  <2>5. Purging'
    BY <2>1 DEF IncidentsIInv, Purging, Stored, Due, Ended
  <2> QED BY <1>0, <2>2, <2>3, <2>4, <2>5 DEF IncidentsIInv
<1> QED BY <1>1, <1>2

\* Rows, radio sets, bridges, requests, the purge and the marks keep their shapes, a radio
\* set that is gone has no token and an incident that is gone no bridge, whatever
\* statements of incidents.go, incident_discord.go and incident_cleanup.go interleave.
THEOREM IncidentsTypeCorrect == IncidentsSpec => []IncidentsTypeOK
<1>1. IncidentsInit => IncidentsTypeOK
  BY InitTyped
<1>2. IncidentsTypeOK /\ [IncidentsNext]_incidentsVars => IncidentsTypeOK'
  BY TypeIncidents
<1> QED BY <1>1, <1>2, PTL DEF IncidentsSpec

LEMMA IncidentsInvariant == IncidentsSpec => []IncidentsIInv
  BY IncidentsInitIInv, IncidentsNextIInv, PTL DEF IncidentsSpec

LEMMA RowsDoAgree == IncidentsIInv => RowsAgree
<1> SUFFICES ASSUME IncidentsIInv, NEW i \in IncidentIds, Quiet(i)
             PROVE  /\ OpenIsShared(i) /\ EndedIsSilent(i)
                    /\ BridgeIsCurrent(i) /\ PurgedIsGone(i)
  BY DEF RowsAgree
<1>1. On(i) = {} /\ purge.pc = "idle"
  BY DEF Quiet
<1>2. PurgedIsGone(i)
  BY <1>1 DEF PurgedIsGone, Without, IncidentsIInv, Gone, IncidentsTypeOK
<1>3. CASE Alone(i)
  <2>1. Fits(inc[i], set[i], bridge[i], excuse[i], Idle)
    BY <1>1, <1>3 DEF IncidentsIInv, AllAgree, Agree
  <2>2. OpenIsShared(i)
    BY <2>1, IdleTyped DEF Fits, Heard, OpenIsShared, Shared, Without
  <2>3. EndedIsSilent(i)
    BY <2>1, IdleTyped DEF Fits, Silent, EndedIsSilent, Ended, Over, Up, Without
  <2>4. BridgeIsCurrent(i)
    BY <2>1 DEF Fits, Current, BridgeIsCurrent, Up, Without
  <2> QED BY <1>2, <2>2, <2>3, <2>4
<1>4. CASE ~Alone(i)
  BY <1>2, <1>4 DEF Alone, OpenIsShared, EndedIsSilent, BridgeIsCurrent, Without
<1> QED BY <1>3, <1>4

\* Whenever nothing is at work on an incident, its row, the token of its radio set and its
\* bridge agree, or one of the named ways to make them disagree took place; and an
\* internal incident never has a bridge, nor a token its owner did not ask for.
THEOREM IncidentPartsAgree == IncidentsSpec => []PartsAgree
<1>1. IncidentsIInv => PartsAgree
  BY RowsDoAgree DEF PartsAgree, IncidentsIInv
<1> QED BY <1>1, IncidentsInvariant, PTL

\* No incident is purged that is open or ended within the retention, unless it was opened
\* again after the listing or carries the stamp of an earlier archiving
\* (ListIncidentsForPurge, DeleteIncident).
THEOREM IncidentPurgeKeepsRetention == IncidentsSpec => PurgeKeepsRetention
<1>1. IncidentsIInv /\ [IncidentsNext]_incidentsVars =>
        [\A i \in IncidentIds : inc[i].status # "purged" /\ inc'[i].status = "purged" =>
            \/ {"reopened", "restamped"} \cap excuse[i] # {}
            \/ Ended(i) /\ inc[i].ended < era]_incidentsVars
  <2> SUFFICES ASSUME IncidentsIInv, IncidentsNext, NEW i \in IncidentIds,
                      inc[i].status # "purged", inc'[i].status = "purged"
               PROVE  Due(i)
    BY DEF Due
  <2>1. PurgeDelete(i)
    BY PurgedStays DEF IncidentsIInv
  <2> QED BY <2>1 DEF PurgeDelete, IncidentsIInv, Purging
<1> QED BY <1>1, IncidentsInvariant, PTL DEF IncidentsSpec, PurgeKeepsRetention
=============================================================================
