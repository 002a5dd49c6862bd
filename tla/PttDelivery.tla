---------------------------- MODULE PttDelivery ----------------------------
(***************************************************************************)
(* Push-to-talk: a request stores a recording as a call, links it to the   *)
(* client's idempotency key in ptt_uploads, and pushes it to the listeners. *)
(* An upload goes to one radio set under the key <<clientId>>; a dispatcher *)
(* broadcast goes through its radio sets one after another, each under the  *)
(* derived key <<clientId, radioSetId>>.  Clients retry at any time.        *)
(* (src/server/internal/api/ptt.go, database/ptt.go)                        *)
(***************************************************************************)
EXTENDS Naturals, FiniteSets

CONSTANTS
    Requests,       \* request goroutines
    Clips,          \* clientIds, one per recording
    RadioSets,      \* radio sets a broadcast may be sent to
    MaxCalls,       \* bound: calls ever stored
    MaxRestarts,    \* bound: server restarts
    DbMayFail       \* may a statement on ptt_uploads fail with a database error?

ASSUME PttAssumption ==
    /\ MaxCalls \in Nat
    /\ MaxRestarts \in Nat
    /\ DbMayFail \in BOOLEAN

VARIABLES
    nextId,     \* the sequence behind calls.id
    keyOf,      \* keyOf[id]: the key a stored call was sent under
    uploads,    \* ptt_uploads: uploads[k] is the call recorded for k, 0 if none
    pc,         \* pc[r]: where the handler of r is
    todo,       \* todo[r]: keys (one per radio set) not visited yet
    key,        \* key[r]: the key being delivered
    callId,     \* callId[r]: the call stored for it
    delivered,  \* calls pushed to the stream hub and the WebSocket hub
    answers,    \* <<key, id>> pairs ever answered with success (history)
    unlinked,   \* calls whose record failed and that are delivered anyway (history)
    orphaned,   \* calls recorded but cut off from delivery by a restart (history)
    restarts

store == <<nextId, keyOf, uploads>>
request == <<pc, todo, key, callId>>
outcome == <<delivered, answers>>
history == <<unlinked, orphaned>>
vars == <<store, request, outcome, history, restarts>>

Ids == 1..MaxCalls
Keys == {<<c>> : c \in Clips} \cup (Clips \X RadioSets)
NoKey == <<>>

TypeOK ==
    /\ nextId \in 1..(MaxCalls + 1)
    /\ keyOf \in [Ids -> Keys \cup {NoKey}]
    /\ uploads \in [Keys -> 0..MaxCalls]
    /\ pc \in [Requests -> {"idle", "lookup", "insert", "record", "deliver"}]
    /\ todo \in [Requests -> SUBSET Keys]
    /\ key \in [Requests -> Keys \cup {NoKey}]
    /\ callId \in [Requests -> 0..MaxCalls]
    /\ delivered \subseteq Ids
    /\ answers \subseteq Keys \X Ids
    /\ unlinked \subseteq Ids
    /\ orphaned \subseteq Ids
    /\ restarts \in 0..MaxRestarts

Init ==
    /\ nextId = 1
    /\ keyOf = [id \in Ids |-> NoKey]
    /\ uploads = [k \in Keys |-> 0]
    /\ pc = [r \in Requests |-> "idle"]
    /\ todo = [r \in Requests |-> {}]
    /\ key = [r \in Requests |-> NoKey]
    /\ callId = [r \in Requests |-> 0]
    /\ delivered = {}
    /\ answers = {}
    /\ unlinked = {}
    /\ orphaned = {}
    /\ restarts = 0

-----------------------------------------------------------------------------
(* One delivery under one key: handlePTTUpload, or deliverPTTToSet.         *)

\* The key of an upload, or of every radio set of a broadcast.
Targets(c) == {{<<c>>}} \cup {{c} \X S : S \in SUBSET RadioSets \ {{}}}

Start(r) ==
    /\ pc[r] = "idle"
    /\ \E c \in Clips : \E K \in Targets(c) : todo' = [todo EXCEPT ![r] = K]
    /\ pc' = [pc EXCEPT ![r] = "lookup"]
    /\ UNCHANGED <<store, key, callId, outcome, history, restarts>>

\* On to the next radio set, or to the response.
Resume(r) ==
    /\ pc' = [pc EXCEPT ![r] = IF todo[r] = {} THEN "idle" ELSE "lookup"]
    /\ key' = [key EXCEPT ![r] = NoKey]
    /\ callId' = [callId EXCEPT ![r] = 0]

FaultAnswer(k, id) == answers' = answers \cup {<<k, 0>>}
Answer(k, id) == answers' = answers \cup {<<k, id>>}

\* GetPTTUploadCallID misses: go on to store the recording.
LookupMiss(r) ==
    /\ pc[r] = "lookup"
    /\ \E k \in todo[r] :
         /\ uploads[k] = 0
         /\ key' = [key EXCEPT ![r] = k]
         /\ todo' = [todo EXCEPT ![r] = @ \ {k}]
    /\ pc' = [pc EXCEPT ![r] = "insert"]
    /\ UNCHANGED <<store, callId, outcome, history, restarts>>

\* GetPTTUploadCallID hits: the recorded call is the answer.
LookupHit(r) ==
    /\ pc[r] = "lookup"
    /\ \E k \in todo[r] :
         /\ uploads[k] # 0
         /\ Answer(k, uploads[k])
         /\ todo' = [todo EXCEPT ![r] = @ \ {k}]
         /\ pc' = [pc EXCEPT ![r] = IF todo[r] = {k} THEN "idle" ELSE "lookup"]
    /\ UNCHANGED <<store, key, callId, delivered, history, restarts>>

\* The radio set is gone, has no PTT talkgroup, or a lookup fails: no answer.
Reject(r) ==
    /\ pc[r] = "lookup"
    /\ \E k \in todo[r] :
         /\ todo' = [todo EXCEPT ![r] = @ \ {k}]
         /\ pc' = [pc EXCEPT ![r] = IF todo[r] = {k} THEN "idle" ELSE "lookup"]
    /\ UNCHANGED <<store, key, callId, outcome, history, restarts>>

InsertCall(r) ==
    /\ pc[r] = "insert"
    /\ nextId <= MaxCalls
    /\ keyOf' = [keyOf EXCEPT ![nextId] = key[r]]
    /\ callId' = [callId EXCEPT ![r] = nextId]
    /\ nextId' = nextId + 1
    /\ pc' = [pc EXCEPT ![r] = "record"]
    /\ UNCHANGED <<uploads, todo, key, outcome, history, restarts>>

InsertFails(r) ==
    /\ pc[r] = "insert"
    /\ Resume(r)
    /\ UNCHANGED <<store, todo, outcome, history, restarts>>

\* The primary key of ptt_uploads.
FaultTaken(k) == FALSE
Taken(k) == uploads[k] # 0

FaultAfterRecord(r) == IF todo[r] = {} THEN "idle" ELSE "lookup"
AfterRecord(r) == "deliver"

RecordPTTUpload(r) ==
    /\ pc[r] = "record"
    /\ ~Taken(key[r])
    /\ uploads' = [uploads EXCEPT ![key[r]] = callId[r]]
    /\ pc' = [pc EXCEPT ![r] = AfterRecord(r)]
    /\ UNCHANGED <<nextId, keyOf, todo, key, callId, outcome, history, restarts>>

FaultWinner(r) == callId[r]
Winner(r) == uploads[key[r]]

\* A concurrent retry recorded the key first: its call is the answer, the call
\* stored here stays behind.
RaceLost(r) ==
    /\ pc[r] = "record"
    /\ Taken(key[r])
    /\ Answer(key[r], Winner(r))
    /\ Resume(r)
    /\ UNCHANGED <<store, todo, delivered, history, restarts>>

\* The insert fails for another reason, or it is a duplicate and the second
\* lookup fails: the error is logged and the call is delivered all the same.
RecordFails(r) ==
    /\ DbMayFail
    /\ pc[r] = "record"
    /\ pc' = [pc EXCEPT ![r] = "deliver"]
    /\ unlinked' = unlinked \cup {callId[r]}
    /\ UNCHANGED <<store, todo, key, callId, outcome, orphaned, restarts>>

\* finalizeCallTranscription, streamHub.push, broadcastCall and the response.
Deliver(r) ==
    /\ pc[r] = "deliver"
    /\ delivered' = delivered \cup {callId[r]}
    /\ Answer(key[r], callId[r])
    /\ Resume(r)
    /\ UNCHANGED <<store, todo, history, restarts>>

\* The server process stops: requests are gone, rows remain.
Restart ==
    /\ restarts < MaxRestarts
    /\ restarts' = restarts + 1
    /\ orphaned' = orphaned \cup {callId[r] : r \in {q \in Requests : pc[q] = "deliver"}}
    /\ pc' = [r \in Requests |-> "idle"]
    /\ todo' = [r \in Requests |-> {}]
    /\ key' = [r \in Requests |-> NoKey]
    /\ callId' = [r \in Requests |-> 0]
    /\ UNCHANGED <<store, outcome, unlinked>>

-----------------------------------------------------------------------------
Lookup(r) == LookupMiss(r) \/ LookupHit(r) \/ Reject(r)
Insert(r) == InsertCall(r) \/ InsertFails(r)
Record(r) == RecordPTTUpload(r) \/ RaceLost(r) \/ RecordFails(r)

Next ==
    \/ \E r \in Requests : Start(r) \/ Lookup(r) \/ Insert(r) \/ Record(r) \/ Deliver(r)
    \/ Restart

Spec == Init /\ [][Next]_vars

\* A handler that was started runs to its response.
FairSpec ==
    Spec /\ \A r \in Requests :
        WF_vars(Lookup(r) \/ Insert(r) \/ Record(r) \/ Deliver(r))

-----------------------------------------------------------------------------
(* Properties *)

\* However requests with one key interleave, and whatever restarts come between
\* them, the listeners get at most one call of that key (ptt.go:30-31 "a retry with
\* the same clientId is treated as a duplicate"), calls whose record failed apart.
DeliveredOnce ==
    \A m, n \in delivered \ unlinked : keyOf[m] = keyOf[n] => m = n

\* Every successful answer for a key names the recorded call (ptt.go:31 "returns the
\* original callId"), never the one a lost race left behind.
AnswerNamesOriginal ==
    \A a \in answers : a[2] = uploads[a[1]] \/ a[2] \in unlinked

\* A client that is told a call id may stop retrying (ptt.go:297-298 "so retries
\* are safe"): that call was delivered or its request is about to deliver it,
\* unless a restart came between its record and its delivery.
AnsweredIsDelivered ==
    \A a \in answers :
        \/ a[2] \in delivered \cup orphaned
        \/ \E r \in Requests : pc[r] = "deliver" /\ callId[r] = a[2]

\* ptt.go:297-298 "so retries are safe": an answer names the recorded call, and that
\* call gets to the listeners.
AnswersStand == AnswerNamesOriginal /\ AnsweredIsDelivered

\* ptt.go:30-31 "a retry with the same clientId is treated as a duplicate": when no
\* request is running, no two stored calls came from one key.
NoDuplicateStored ==
    (\A r \in Requests : pc[r] = "idle")
        => \A m, n \in Ids : keyOf[m] # NoKey /\ keyOf[m] = keyOf[n] => m = n
=============================================================================
