------------------------- MODULE PttDelivery_proofs -------------------------
(***************************************************************************)
(* TLAPS proofs about PttDelivery: its type invariant, its three safety    *)
(* invariants, and that it implements Delivery (PttRefinement), for every  *)
(* set of requests, clips and radio sets and every bound.                  *)
(***************************************************************************)
EXTENDS PttRefinement, TLAPS

\* A call in the hands of a request was given out by the sequence and is stored
\* under the request's key.
InHand ==
    \A r \in Requests :
        /\ pc[r] \in {"insert", "record", "deliver"} => key[r] \in Keys
        /\ pc[r] \in {"record", "deliver"} =>
             callId[r] \in Ids /\ callId[r] < nextId /\ keyOf[callId[r]] = key[r]

\* Only given-out ids are known anywhere else, and a record is a call of its key.
Fresh ==
    /\ \A id \in delivered : id < nextId
    /\ \A k \in Keys : uploads[k] # 0 => uploads[k] < nextId /\ keyOf[uploads[k]] = k

\* What is delivered, or about to be, is the recorded call of its key.
Linked ==
    /\ \A r \in Requests : pc[r] = "deliver" =>
           callId[r] \in unlinked \/ uploads[key[r]] = callId[r]
    /\ \A id \in delivered : id \in unlinked \/ uploads[keyOf[id]] = id

Reaches(id) ==
    \/ id \in delivered \cup orphaned
    \/ \E r \in Requests : pc[r] = "deliver" /\ callId[r] = id

\* What is recorded was delivered, is about to be, or was cut off by a restart.
RecordReaches == \A k \in Keys : uploads[k] # 0 => Reaches(uploads[k])

IInv ==
    /\ TypeOK
    /\ InHand
    /\ Fresh
    /\ Linked
    /\ RecordReaches
    /\ AnswerNamesOriginal
    /\ AnsweredIsDelivered

-----------------------------------------------------------------------------
\* The keys of a request are keys.
LEMMA TargetsAreKeys == \A c \in Clips : \A K \in Targets(c) : K \subseteq Keys
  BY DEF Targets, Keys

\* NoKey is no key: keys have one or two fields.
LEMMA NoKeyIsNoKey == NoKey \notin Keys
  BY DEF NoKey, Keys

\* Type correctness is inductive by itself but for the key in a request's hands.
LEMMA TypeInductive == TypeOK /\ InHand /\ Fresh /\ [Next]_vars => TypeOK'
<1> SUFFICES ASSUME TypeOK, InHand, Fresh, [Next]_vars PROVE TypeOK'
  OBVIOUS
<1> USE PttAssumption DEF TypeOK, Ids
<1>1. CASE UNCHANGED vars
  BY <1>1 DEF vars, store, request, outcome, history
<1>2. CASE Restart
  <2>1. orphaned' \subseteq Ids
    BY <1>2 DEF Restart, InHand
  <2>2. /\ pc' \in [Requests -> {"idle", "lookup", "insert", "record", "deliver"}]
        /\ todo' \in [Requests -> SUBSET Keys]
        /\ key' \in [Requests -> Keys \cup {NoKey}]
        /\ callId' \in [Requests -> 0..MaxCalls]
        /\ restarts' \in 0..MaxRestarts
    BY <1>2 DEF Restart
  <2>3. UNCHANGED <<nextId, keyOf, uploads, delivered, answers, unlinked>>
    BY <1>2 DEF Restart, store, outcome
  <2> QED BY <2>1, <2>2, <2>3
<1>3. ASSUME NEW r \in Requests,
             Start(r) \/ Lookup(r) \/ Insert(r) \/ Record(r) \/ Deliver(r)
      PROVE  TypeOK'
  <2>1. CASE Start(r)
    BY <2>1, TargetsAreKeys DEF Start, store, outcome, history
  <2>2. CASE LookupMiss(r)
    BY <2>2 DEF LookupMiss, store, outcome, history
  <2>3. CASE LookupHit(r)
    <3>1. PICK k \in todo[r] :
             /\ uploads[k] # 0
             /\ Answer(k, uploads[k])
             /\ todo' = [todo EXCEPT ![r] = @ \ {k}]
             /\ pc' = [pc EXCEPT ![r] = IF todo[r] = {k} THEN "idle" ELSE "lookup"]
      BY <2>3 DEF LookupHit
    <3>2. k \in Keys /\ uploads[k] \in 1..MaxCalls
      BY <3>1
    <3>3. answers' \subseteq Keys \X Ids
      BY <3>1, <3>2 DEF Answer
    <3>4. UNCHANGED <<nextId, keyOf, uploads, key, callId, delivered, unlinked, orphaned, restarts>>
      BY <2>3 DEF LookupHit, store, history
    <3> HIDE DEF Ids
    <3> QED BY <3>1, <3>3, <3>4
  <2>4. CASE Reject(r)
    BY <2>4 DEF Reject, store, outcome, history
  <2>5. CASE InsertCall(r)
    <3>1. keyOf' \in [Ids -> Keys \cup {NoKey}]
      BY <2>5 DEF InsertCall, InHand
    <3> QED BY <2>5, <3>1 DEF InsertCall, outcome, history
  <2>6. CASE InsertFails(r)
    BY <2>6 DEF InsertFails, Resume, store, outcome, history
  <2>7. CASE RecordPTTUpload(r)
    BY <2>7 DEF RecordPTTUpload, InHand, AfterRecord, outcome, history
  <2>8. CASE RaceLost(r)
    <3>1. key[r] \in Keys /\ uploads[key[r]] \in Ids
      BY <2>8 DEF RaceLost, InHand, Taken
    <3>2. answers' \subseteq Keys \X Ids
      BY <2>8, <3>1 DEF RaceLost, Answer, Winner
    <3>3. UNCHANGED <<nextId, keyOf, uploads, todo, delivered, unlinked, orphaned, restarts>>
      BY <2>8 DEF RaceLost, store, history
    <3>4. /\ pc' \in [Requests -> {"idle", "lookup", "insert", "record", "deliver"}]
          /\ key' \in [Requests -> Keys \cup {NoKey}]
          /\ callId' \in [Requests -> 0..MaxCalls]
      BY <2>8 DEF RaceLost, Resume
    <3> QED BY <3>2, <3>3, <3>4
  <2>9. CASE RecordFails(r)
    BY <2>9 DEF RecordFails, InHand, store, outcome
  <2>10. CASE Deliver(r)
    <3>1. key[r] \in Keys /\ callId[r] \in Ids
      BY <2>10 DEF Deliver, InHand
    <3>2. answers' \subseteq Keys \X Ids
      BY <2>10, <3>1 DEF Deliver, Answer
    <3>3. UNCHANGED <<nextId, keyOf, uploads, todo, unlinked, orphaned, restarts>>
      BY <2>10 DEF Deliver, store, history
    <3>4. /\ pc' \in [Requests -> {"idle", "lookup", "insert", "record", "deliver"}]
          /\ key' \in [Requests -> Keys \cup {NoKey}]
          /\ callId' \in [Requests -> 0..MaxCalls]
      BY <2>10 DEF Deliver, Resume
    <3>5. delivered' \subseteq Ids
      BY <2>10, <3>1 DEF Deliver
    <3> QED BY <3>2, <3>3, <3>4, <3>5
  <2> QED BY <1>3, <2>1, <2>2, <2>3, <2>4, <2>5, <2>6, <2>7, <2>8, <2>9, <2>10
          DEF Lookup, Insert, Record
<1> QED BY <1>1, <1>2, <1>3 DEF Next

-----------------------------------------------------------------------------
(* The inductive invariant, one action at a time. *)

LEMMA InitIInv == Init => IInv
<1> SUFFICES ASSUME Init PROVE IInv
  OBVIOUS
<1>1. TypeOK
  BY PttAssumption DEF Init, TypeOK, Ids
<1>2. InHand /\ Fresh /\ Linked /\ RecordReaches
  BY DEF Init, InHand, Fresh, Linked, RecordReaches
<1>3. AnswerNamesOriginal /\ AnsweredIsDelivered
  BY DEF Init, AnswerNamesOriginal, AnsweredIsDelivered
<1> QED BY <1>1, <1>2, <1>3 DEF IInv

\* Steps that only move a request along, before it has stored anything.
LEMMA QuietInductive ==
    ASSUME IInv, NEW r \in Requests,
           Start(r) \/ LookupMiss(r) \/ Reject(r) \/ InsertFails(r)
    PROVE  InHand' /\ Fresh' /\ Linked' /\ RecordReaches' /\ AnswerNamesOriginal' /\ AnsweredIsDelivered'
<1>1. UNCHANGED <<nextId, keyOf, uploads, delivered, answers, unlinked, orphaned>>
  BY DEF Start, LookupMiss, Reject, InsertFails, store, outcome, history
<1>2. /\ pc'[r] \in {"idle", "lookup", "insert"}
      /\ pc'[r] = "insert" => key'[r] \in Keys
      /\ pc[r] \in {"idle", "lookup", "insert"}
  BY DEF IInv, TypeOK, Start, LookupMiss, Reject, InsertFails, Resume
<1>3. \A q \in Requests \ {r} :
          pc'[q] = pc[q] /\ key'[q] = key[q] /\ callId'[q] = callId[q]
  BY DEF IInv, TypeOK, Start, LookupMiss, Reject, InsertFails, Resume
<1>4. InHand'
  BY <1>1, <1>2, <1>3 DEF IInv, InHand
<1>5. Fresh'
  BY <1>1 DEF IInv, Fresh
<1>6. Linked'
  BY <1>1, <1>2, <1>3 DEF IInv, Linked
<1>7. \A id : Reaches(id) => Reaches(id)'
  BY <1>1, <1>2, <1>3 DEF Reaches
<1>8. RecordReaches'
  BY <1>1, <1>7 DEF IInv, RecordReaches
<1>9. AnswerNamesOriginal' /\ AnsweredIsDelivered'
  BY <1>1, <1>2, <1>3 DEF IInv, AnswerNamesOriginal, AnsweredIsDelivered
<1> QED BY <1>4, <1>5, <1>6, <1>8, <1>9

LEMMA LookupHitInductive ==
    ASSUME IInv, NEW r \in Requests, LookupHit(r)
    PROVE  InHand' /\ Fresh' /\ Linked' /\ RecordReaches' /\ AnswerNamesOriginal' /\ AnsweredIsDelivered'
<1>1. UNCHANGED <<nextId, keyOf, uploads, key, callId, delivered, unlinked, orphaned>>
  BY DEF LookupHit, store, history
<1>2. PICK k \in todo[r] :
         /\ uploads[k] # 0
         /\ Answer(k, uploads[k])
         /\ todo' = [todo EXCEPT ![r] = @ \ {k}]
         /\ pc' = [pc EXCEPT ![r] = IF todo[r] = {k} THEN "idle" ELSE "lookup"]
  BY DEF LookupHit
<1>3. pc[r] = "lookup" /\ pc'[r] \in {"idle", "lookup"} /\ k \in Keys
  BY <1>2 DEF LookupHit, IInv, TypeOK
<1>4. \A q \in Requests \ {r} : pc'[q] = pc[q]
  BY <1>2 DEF IInv, TypeOK
<1>5. \A id : Reaches(id) => Reaches(id)'
  BY <1>1, <1>3, <1>4 DEF Reaches
<1>6. InHand' /\ Fresh' /\ Linked'
  BY <1>1, <1>3, <1>4 DEF IInv, InHand, Fresh, Linked
<1>7. RecordReaches'
  BY <1>1, <1>5 DEF IInv, RecordReaches
<1>8. \A a \in answers' : a \in answers \/ a = <<k, uploads[k]>>
  BY <1>2 DEF Answer
<1>9. AnswerNamesOriginal'
  BY <1>1, <1>3, <1>8 DEF IInv, AnswerNamesOriginal
<1>10. Reaches(uploads[k])
  BY <1>2, <1>3 DEF IInv, RecordReaches
<1>11. AnsweredIsDelivered'
  BY <1>5, <1>8, <1>10 DEF IInv, AnsweredIsDelivered, Reaches
<1> QED BY <1>6, <1>7, <1>9, <1>11

LEMMA InsertCallInductive ==
    ASSUME IInv, NEW r \in Requests, InsertCall(r)
    PROVE  InHand' /\ Fresh' /\ Linked' /\ RecordReaches' /\ AnswerNamesOriginal' /\ AnsweredIsDelivered'
<1> USE PttAssumption DEF Ids
<1>1. /\ UNCHANGED <<uploads, todo, key, delivered, answers, unlinked, orphaned>>
      /\ nextId \in Ids
      /\ nextId' = nextId + 1
      /\ pc[r] = "insert"
      /\ pc' = [pc EXCEPT ![r] = "record"]
      /\ callId' = [callId EXCEPT ![r] = nextId]
      /\ keyOf' = [keyOf EXCEPT ![nextId] = key[r]]
  BY DEF InsertCall, outcome, history, IInv, TypeOK
<1>2. \A id \in Ids : id < nextId => keyOf'[id] = keyOf[id]
  BY <1>1 DEF IInv, TypeOK
<1>3. keyOf'[nextId] = key[r] /\ key[r] \in Keys /\ callId'[r] = nextId /\ pc'[r] = "record"
  BY <1>1 DEF IInv, TypeOK, InHand
<1>4. \A q \in Requests \ {r} : pc'[q] = pc[q] /\ callId'[q] = callId[q]
  BY <1>1 DEF IInv, TypeOK
<1>5. InHand'
  BY <1>1, <1>2, <1>3, <1>4 DEF IInv, InHand, TypeOK
<1>6. \A k \in Keys : uploads[k] \in Ids \cup {0}
  BY DEF IInv, TypeOK
<1>7. Fresh'
  BY <1>1, <1>2, <1>6 DEF IInv, Fresh, TypeOK
<1>8. \A id \in delivered : keyOf'[id] = keyOf[id]
  BY <1>2 DEF IInv, Fresh, TypeOK
<1>9. Linked'
  BY <1>1, <1>3, <1>4, <1>8 DEF IInv, Linked
<1>10. \A id : Reaches(id) => Reaches(id)'
  BY <1>1, <1>4 DEF Reaches
<1>11. RecordReaches'
  BY <1>1, <1>10 DEF IInv, RecordReaches
<1>12. AnswerNamesOriginal' /\ AnsweredIsDelivered'
  BY <1>1, <1>10 DEF IInv, AnswerNamesOriginal, AnsweredIsDelivered, Reaches
<1> QED BY <1>5, <1>7, <1>9, <1>11, <1>12

LEMMA RecordPTTUploadInductive ==
    ASSUME IInv, NEW r \in Requests, RecordPTTUpload(r)
    PROVE  InHand' /\ Fresh' /\ Linked' /\ RecordReaches' /\ AnswerNamesOriginal' /\ AnsweredIsDelivered'
<1>1. /\ UNCHANGED <<nextId, keyOf, todo, key, callId, delivered, answers, unlinked, orphaned>>
      /\ pc[r] = "record"
      /\ pc' = [pc EXCEPT ![r] = "deliver"]
      /\ uploads[key[r]] = 0
      /\ uploads' = [uploads EXCEPT ![key[r]] = callId[r]]
  BY DEF RecordPTTUpload, AfterRecord, Taken, outcome, history
<1>2. /\ key[r] \in Keys
      /\ callId[r] \in Ids /\ callId[r] < nextId /\ keyOf[callId[r]] = key[r]
  BY <1>1 DEF IInv, InHand
<1>3. /\ pc'[r] = "deliver"
      /\ \A q \in Requests \ {r} : pc'[q] = pc[q]
      /\ uploads'[key[r]] = callId[r]
      /\ \A k \in Keys \ {key[r]} : uploads'[k] = uploads[k]
  BY <1>1, <1>2 DEF IInv, TypeOK
<1>4. InHand'
  BY <1>1, <1>2, <1>3 DEF IInv, InHand
<1>5. Fresh'
  BY <1>1, <1>2, <1>3 DEF IInv, Fresh
<1>6. \A k \in Keys : uploads[k] # 0 => uploads'[k] = uploads[k]
  BY <1>1, <1>3
<1>7. \A id \in Ids : id # 0
  BY DEF Ids
<1>8. \A q \in Requests : pc'[q] = "deliver" =>
          callId'[q] \in unlinked' \/ uploads'[key'[q]] = callId'[q]
  <2> SUFFICES ASSUME NEW q \in Requests, pc'[q] = "deliver"
               PROVE  callId'[q] \in unlinked' \/ uploads'[key'[q]] = callId'[q]
    OBVIOUS
  <2>1. CASE q = r
    BY <2>1, <1>1, <1>3
  <2>2. CASE q # r
    <3>1. pc[q] = "deliver" /\ key[q] \in Keys /\ callId[q] \in Ids
      BY <2>2, <1>3 DEF IInv, InHand
    <3>2. callId[q] \in unlinked \/ uploads[key[q]] = callId[q]
      BY <3>1 DEF IInv, Linked
    <3> QED BY <3>1, <3>2, <1>1, <1>6, <1>7
  <2> QED BY <2>1, <2>2
<1>9. \A id \in delivered : id \in unlinked \/ uploads'[keyOf[id]] = id
  <2> SUFFICES ASSUME NEW id \in delivered, id \notin unlinked
               PROVE  uploads'[keyOf[id]] = id
    OBVIOUS
  <2>1. uploads[keyOf[id]] = id /\ id \in Ids
    BY DEF IInv, Linked, TypeOK
  <2>2. CASE keyOf[id] \in Keys
    BY <2>1, <2>2, <1>6, <1>7
  <2>3. CASE keyOf[id] \notin Keys
    BY <2>1, <2>3, <1>1, <1>2 DEF IInv, TypeOK
  <2> QED BY <2>2, <2>3
<1>10. Linked'
  BY <1>1, <1>8, <1>9 DEF Linked
<1>11. \A id : Reaches(id) => Reaches(id)'
  BY <1>1, <1>3 DEF Reaches
<1>12. Reaches(callId[r])'
  BY <1>1, <1>3 DEF Reaches
<1>13. RecordReaches'
  <2> SUFFICES ASSUME NEW k \in Keys, uploads'[k] # 0
               PROVE  Reaches(uploads[k])'
    BY DEF RecordReaches
  <2>1. CASE k = key[r]
    BY <2>1, <1>1, <1>3, <1>12 DEF Reaches
  <2>2. CASE k # key[r]
    BY <2>2, <1>3, <1>11 DEF IInv, RecordReaches
  <2> QED BY <2>1, <2>2
<1>14. AnswerNamesOriginal'
  BY <1>1, <1>6, <1>7 DEF IInv, AnswerNamesOriginal, TypeOK
<1>15. AnsweredIsDelivered'
  BY <1>1, <1>11 DEF IInv, AnsweredIsDelivered, Reaches
<1> QED BY <1>4, <1>5, <1>10, <1>13, <1>14, <1>15

LEMMA RaceLostInductive ==
    ASSUME IInv, NEW r \in Requests, RaceLost(r)
    PROVE  InHand' /\ Fresh' /\ Linked' /\ RecordReaches' /\ AnswerNamesOriginal' /\ AnsweredIsDelivered'
<1>1. /\ UNCHANGED <<nextId, keyOf, uploads, todo, delivered, unlinked, orphaned>>
      /\ pc[r] = "record" /\ uploads[key[r]] # 0
      /\ answers' = answers \cup {<<key[r], uploads[key[r]]>>}
  BY DEF RaceLost, Answer, Winner, Taken, store, history
<1>2. /\ pc'[r] \in {"idle", "lookup"}
      /\ \A q \in Requests \ {r} :
             pc'[q] = pc[q] /\ key'[q] = key[q] /\ callId'[q] = callId[q]
  BY DEF RaceLost, Resume, IInv, TypeOK
<1>3. key[r] \in Keys
  BY <1>1 DEF IInv, InHand
<1>4. InHand' /\ Fresh' /\ Linked'
  BY <1>1, <1>2 DEF IInv, InHand, Fresh, Linked
<1>5. \A id : Reaches(id) => Reaches(id)'
  BY <1>1, <1>2 DEF Reaches
<1>6. RecordReaches'
  BY <1>1, <1>5 DEF IInv, RecordReaches
<1>7. AnswerNamesOriginal'
  BY <1>1, <1>3 DEF IInv, AnswerNamesOriginal
<1>8. Reaches(uploads[key[r]])
  BY <1>1, <1>3 DEF IInv, RecordReaches
<1>9. AnsweredIsDelivered'
  BY <1>1, <1>5, <1>8 DEF IInv, AnsweredIsDelivered, Reaches
<1> QED BY <1>4, <1>6, <1>7, <1>9

LEMMA RecordFailsInductive ==
    ASSUME IInv, NEW r \in Requests, RecordFails(r)
    PROVE  InHand' /\ Fresh' /\ Linked' /\ RecordReaches' /\ AnswerNamesOriginal' /\ AnsweredIsDelivered'
<1>1. /\ UNCHANGED <<nextId, keyOf, uploads, todo, key, callId, delivered, answers, orphaned>>
      /\ pc[r] = "record" /\ pc' = [pc EXCEPT ![r] = "deliver"]
      /\ unlinked' = unlinked \cup {callId[r]}
  BY DEF RecordFails, store, outcome
<1>2. pc'[r] = "deliver" /\ \A q \in Requests \ {r} : pc'[q] = pc[q]
  BY <1>1 DEF IInv, TypeOK
<1>3. InHand' /\ Fresh' /\ Linked'
  BY <1>1, <1>2 DEF IInv, InHand, Fresh, Linked
<1>4. \A id : Reaches(id) => Reaches(id)'
  BY <1>1, <1>2 DEF Reaches
<1>5. RecordReaches' /\ AnswerNamesOriginal' /\ AnsweredIsDelivered'
  BY <1>1, <1>4 DEF IInv, RecordReaches, AnswerNamesOriginal, AnsweredIsDelivered, Reaches
<1> QED BY <1>3, <1>5

LEMMA DeliverInductive ==
    ASSUME IInv, NEW r \in Requests, Deliver(r)
    PROVE  InHand' /\ Fresh' /\ Linked' /\ RecordReaches' /\ AnswerNamesOriginal' /\ AnsweredIsDelivered'
<1>1. /\ UNCHANGED <<nextId, keyOf, uploads, todo, unlinked, orphaned>>
      /\ pc[r] = "deliver"
      /\ delivered' = delivered \cup {callId[r]}
      /\ answers' = answers \cup {<<key[r], callId[r]>>}
  BY DEF Deliver, Answer, store, history
<1>2. /\ pc'[r] \in {"idle", "lookup"}
      /\ \A q \in Requests \ {r} :
             pc'[q] = pc[q] /\ key'[q] = key[q] /\ callId'[q] = callId[q]
  BY DEF Deliver, Resume, IInv, TypeOK
<1>3. /\ key[r] \in Keys /\ callId[r] < nextId /\ keyOf[callId[r]] = key[r]
      /\ callId[r] \in unlinked \/ uploads[key[r]] = callId[r]
  BY <1>1 DEF IInv, InHand, Linked
<1>4. InHand' /\ Fresh' /\ Linked'
  BY <1>1, <1>2, <1>3 DEF IInv, InHand, Fresh, Linked
<1>5. \A id : Reaches(id) => Reaches(id)'
  BY <1>1, <1>2 DEF Reaches
<1>6. RecordReaches'
  BY <1>1, <1>5 DEF IInv, RecordReaches
<1>7. AnswerNamesOriginal'
  BY <1>1, <1>3 DEF IInv, AnswerNamesOriginal
<1>8. AnsweredIsDelivered'
  BY <1>1, <1>5 DEF IInv, AnsweredIsDelivered, Reaches
<1> QED BY <1>4, <1>6, <1>7, <1>8

LEMMA RestartInductive ==
    ASSUME IInv, Restart
    PROVE  InHand' /\ Fresh' /\ Linked' /\ RecordReaches' /\ AnswerNamesOriginal' /\ AnsweredIsDelivered'
<1>1. /\ UNCHANGED <<nextId, keyOf, uploads, delivered, answers, unlinked>>
      /\ \A r \in Requests : pc'[r] = "idle"
      /\ orphaned \subseteq orphaned'
      /\ \A r \in Requests : pc[r] = "deliver" => callId[r] \in orphaned'
  BY DEF Restart, store, outcome
<1>2. InHand' /\ Fresh' /\ Linked'
  BY <1>1 DEF IInv, InHand, Fresh, Linked
<1>3. \A id : Reaches(id) => Reaches(id)'
  BY <1>1 DEF Reaches
<1>4. RecordReaches' /\ AnswerNamesOriginal' /\ AnsweredIsDelivered'
  BY <1>1, <1>3 DEF IInv, RecordReaches, AnswerNamesOriginal, AnsweredIsDelivered, Reaches
<1> QED BY <1>2, <1>4

LEMMA NextIInv == IInv /\ [Next]_vars => IInv'
<1> SUFFICES ASSUME IInv, [Next]_vars PROVE IInv'
  OBVIOUS
<1>1. TypeOK'
  BY TypeInductive DEF IInv
<1>2. InHand' /\ Fresh' /\ Linked' /\ RecordReaches' /\ AnswerNamesOriginal' /\ AnsweredIsDelivered'
  <2>1. CASE UNCHANGED vars
    BY <2>1 DEF vars, store, request, outcome, history, IInv, InHand, Fresh, Linked,
         RecordReaches, Reaches, AnswerNamesOriginal, AnsweredIsDelivered
  <2>2. CASE Restart
    BY <2>2, RestartInductive
  <2>3. ASSUME NEW r \in Requests,
               Start(r) \/ Lookup(r) \/ Insert(r) \/ Record(r) \/ Deliver(r)
        PROVE  InHand' /\ Fresh' /\ Linked' /\ RecordReaches' /\ AnswerNamesOriginal' /\ AnsweredIsDelivered'
    BY <2>3, QuietInductive, LookupHitInductive, InsertCallInductive,
       RecordPTTUploadInductive, RaceLostInductive, RecordFailsInductive, DeliverInductive
       DEF Lookup, Insert, Record
  <2> QED BY <2>1, <2>2, <2>3 DEF Next
<1> QED BY <1>1, <1>2 DEF IInv

\* The inductive invariant holds of every behaviour.
LEMMA IInvHolds == Spec => []IInv
  BY InitIInv, NextIInv, PTL DEF Spec

-----------------------------------------------------------------------------
\* Type correctness of the PTT tables and of every request handler.
THEOREM TypeCorrect == Spec => []TypeOK
<1>1. IInv => TypeOK
  BY DEF IInv
<1> QED BY <1>1, IInvHolds, PTL

\* However requests with one key interleave with each other and with restarts, at most
\* one call of that key is delivered, calls whose record failed apart (ptt.go
\* handlePTTUpload, deliverPTTToSet).
THEOREM DeliveryIsIdempotent == Spec => []DeliveredOnce
<1>1. IInv => DeliveredOnce
  BY DEF IInv, Linked, DeliveredOnce
<1> QED BY <1>1, IInvHolds, PTL

\* Every answer names the recorded call of its key, the call left behind by a lost
\* race never (ptt.go "idempotency race resolved").
THEOREM AnswersAgree == Spec => []AnswerNamesOriginal
<1>1. IInv => AnswerNamesOriginal
  BY DEF IInv
<1> QED BY <1>1, IInvHolds, PTL

\* A call a client was told of was delivered, is about to be, or was cut off by a
\* restart between its record and its delivery.
THEOREM AnswersAreDelivered == Spec => []AnsweredIsDelivered
<1>1. IInv => AnsweredIsDelivered
  BY DEF IInv
<1> QED BY <1>1, IInvHolds, PTL

\* A client that got an answer can rely on it: it names the recorded call, and that call
\* was delivered, is about to be, or was cut off by a restart (ptt.go "so retries are safe").
THEOREM AnswersHold == Spec => []AnswersStand
<1>1. IInv => AnswersStand
  BY DEF IInv, AnswersStand
<1> QED BY <1>1, IInvHolds, PTL

-----------------------------------------------------------------------------
(* The refinement: what the steps of PttDelivery are in Delivery.           *)

Holds(r) == pc[r] \in {"record", "deliver"}

\* A call in the hands of a request is in nobody else's and was not pushed; until
\* its record is written, no table and no history knows it.
Sole ==
    /\ \A q, r \in Requests : Holds(q) /\ Holds(r) /\ callId[q] = callId[r] => q = r
    /\ \A r \in Requests : Holds(r) => callId[r] \notin delivered \cup orphaned
    /\ \A r \in Requests : pc[r] = "record" =>
          callId[r] \notin unlinked /\ \A k \in Keys : uploads[k] # callId[r]

\* What a failed record leaves unlinked stays so, and every known id was given out.
Apart ==
    /\ \A k \in Keys : uploads[k] \notin unlinked
    /\ \A id \in orphaned \cup unlinked : id < nextId

RInv == IInv /\ Sole /\ Apart

-----------------------------------------------------------------------------
LEMMA InitRInv == Init => RInv
<1> SUFFICES ASSUME Init PROVE RInv
  OBVIOUS
<1>1. IInv
  BY InitIInv
<1>2. Sole /\ Apart
  BY DEF Init, Sole, Apart, Holds
<1> QED BY <1>1, <1>2 DEF RInv

\* A step that changes no table and lets at most one request go of its call.
LEMMA IdleInductive ==
    ASSUME RInv, NEW r \in Requests,
           UNCHANGED <<nextId, uploads, delivered, unlinked, orphaned>>,
           ~Holds(r)', pc'[r] # "record",
           \A q \in Requests \ {r} : pc'[q] = pc[q] /\ callId'[q] = callId[q]
    PROVE  Sole' /\ Apart'
<1>1. Sole'
  BY DEF RInv, Sole, Holds
<1>2. Apart'
  BY DEF RInv, Apart
<1> QED BY <1>1, <1>2

LEMMA InsertSole ==
    ASSUME RInv, NEW r \in Requests, InsertCall(r)
    PROVE  Sole' /\ Apart'
<1>1. /\ UNCHANGED <<uploads, delivered, unlinked, orphaned>>
      /\ nextId' = nextId + 1 /\ nextId \in Nat
      /\ pc'[r] = "record" /\ callId'[r] = nextId
      /\ \A q \in Requests \ {r} : pc'[q] = pc[q] /\ callId'[q] = callId[q]
  BY PttAssumption DEF InsertCall, outcome, history, RInv, IInv, TypeOK, Ids
<1>2. \A q \in Requests : Holds(q) => callId[q] # nextId
  BY <1>1, PttAssumption DEF RInv, IInv, InHand, Holds, TypeOK, Ids
<1>3. nextId \notin delivered \cup orphaned \cup unlinked
  BY <1>1 DEF RInv, IInv, Fresh, Apart
<1>4. \A k \in Keys : uploads[k] # nextId
  BY <1>1, PttAssumption DEF RInv, IInv, Fresh, TypeOK, InsertCall
<1>5. Sole'
  BY <1>1, <1>2, <1>3, <1>4 DEF RInv, Sole, Holds
<1>6. \A id \in orphaned \cup unlinked : id \in Nat
  BY PttAssumption DEF RInv, IInv, TypeOK, Ids
<1>7. Apart'
  BY <1>1, <1>6 DEF RInv, Apart
<1> QED BY <1>5, <1>7

LEMMA RecordSole ==
    ASSUME RInv, NEW r \in Requests, RecordPTTUpload(r)
    PROVE  Sole' /\ Apart'
<1>1. /\ UNCHANGED <<nextId, callId, delivered, unlinked, orphaned>>
      /\ pc[r] = "record" /\ pc'[r] = "deliver"
      /\ \A q \in Requests \ {r} : pc'[q] = pc[q]
      /\ \A k \in Keys : uploads'[k] = uploads[k] \/ uploads'[k] = callId[r]
  BY DEF RecordPTTUpload, AfterRecord, outcome, history, RInv, IInv, TypeOK
<1>2. Sole'
  BY <1>1 DEF RInv, Sole, Holds
<1>3. Apart'
  BY <1>1 DEF RInv, Sole, Apart
<1> QED BY <1>2, <1>3

LEMMA RecordFailsSole ==
    ASSUME RInv, NEW r \in Requests, RecordFails(r)
    PROVE  Sole' /\ Apart'
<1>1. /\ UNCHANGED <<nextId, uploads, callId, delivered, orphaned>>
      /\ unlinked' = unlinked \cup {callId[r]}
      /\ pc[r] = "record" /\ pc'[r] = "deliver"
      /\ \A q \in Requests \ {r} : pc'[q] = pc[q]
  BY DEF RecordFails, store, outcome, RInv, IInv, TypeOK
<1>2. Sole'
  BY <1>1 DEF RInv, Sole, Holds
<1>3. Apart'
  BY <1>1 DEF RInv, IInv, InHand, Sole, Apart
<1> QED BY <1>2, <1>3

LEMMA DeliverSole ==
    ASSUME RInv, NEW r \in Requests, Deliver(r)
    PROVE  Sole' /\ Apart'
<1>1. /\ UNCHANGED <<nextId, uploads, unlinked, orphaned>>
      /\ delivered' = delivered \cup {callId[r]}
      /\ pc[r] = "deliver" /\ pc'[r] \in {"idle", "lookup"}
      /\ \A q \in Requests \ {r} : pc'[q] = pc[q] /\ callId'[q] = callId[q]
  BY DEF Deliver, Resume, store, history, RInv, IInv, TypeOK
<1>2. Sole'
  BY <1>1 DEF RInv, Sole, Holds
<1>3. Apart'
  BY <1>1 DEF RInv, Apart
<1> QED BY <1>2, <1>3

LEMMA RestartSole ==
    ASSUME RInv, Restart
    PROVE  Sole' /\ Apart'
<1>1. /\ UNCHANGED <<nextId, uploads, delivered, unlinked>>
      /\ orphaned' = orphaned \cup {callId[r] : r \in {q \in Requests : pc[q] = "deliver"}}
      /\ \A r \in Requests : pc'[r] = "idle"
  BY DEF Restart, store, outcome
<1>2. Sole'
  BY <1>1 DEF Sole, Holds
<1>3. Apart'
  BY <1>1 DEF RInv, IInv, InHand, Apart
<1> QED BY <1>2, <1>3

LEMMA NextRInv == RInv /\ [Next]_vars => RInv'
<1> SUFFICES ASSUME RInv, [Next]_vars PROVE RInv'
  OBVIOUS
<1>1. IInv'
  BY NextIInv DEF RInv
<1>2. Sole' /\ Apart'
  <2>1. CASE UNCHANGED vars
    BY <2>1 DEF vars, store, request, outcome, history, RInv, Sole, Apart, Holds
  <2>2. CASE Restart
    BY <2>2, RestartSole
  <2>3. ASSUME NEW r \in Requests,
               Start(r) \/ LookupMiss(r) \/ LookupHit(r) \/ Reject(r)
                        \/ InsertFails(r) \/ RaceLost(r)
        PROVE  Sole' /\ Apart'
    <3>1. UNCHANGED <<nextId, uploads, delivered, unlinked, orphaned>>
      BY <2>3 DEF Start, LookupMiss, LookupHit, Reject, InsertFails, RaceLost,
                  store, outcome, history
    <3>2. pc'[r] \in {"idle", "lookup", "insert"}
      BY <2>3 DEF Start, LookupMiss, LookupHit, Reject, InsertFails, RaceLost, Resume,
                  RInv, IInv, TypeOK
    <3>3. \A q \in Requests \ {r} : pc'[q] = pc[q] /\ callId'[q] = callId[q]
      BY <2>3 DEF Start, LookupMiss, LookupHit, Reject, InsertFails, RaceLost, Resume,
                  RInv, IInv, TypeOK
    <3>4. ~Holds(r)' /\ pc'[r] # "record"
      BY <3>2 DEF Holds
    <3> QED BY <3>1, <3>3, <3>4, IdleInductive
  <2>4. ASSUME NEW r \in Requests,
               InsertCall(r) \/ RecordPTTUpload(r) \/ RecordFails(r) \/ Deliver(r)
        PROVE  Sole' /\ Apart'
    BY <2>4, InsertSole, RecordSole, RecordFailsSole, DeliverSole
  <2> QED BY <2>1, <2>2, <2>3, <2>4 DEF Next, Lookup, Insert, Record
<1> QED BY <1>1, <1>2 DEF RInv

LEMMA RInvHolds == Spec => []RInv
  BY InitRInv, NextRInv, PTL DEF Spec

-----------------------------------------------------------------------------
\* The promise's tables in terms of the hub's.
sentBar == delivered \ unlinked
toldBar == {a \in answers : a[2] \notin unlinked}
cutBar == orphaned \ unlinked

\* Steps that touch neither the record of a key nor what was pushed or answered.
LEMMA StutterStep ==
    ASSUME UNCHANGED <<uploads, delivered, answers, unlinked, orphaned>>
    PROVE  UNCHANGED D!dvars
  BY DEF D!dvars

\* A request that is answered with the recorded call: LookupHit, RaceLost.
LEMMA TellStep ==
    ASSUME RInv, NEW k \in Keys, uploads[k] # 0, Answer(k, uploads[k]),
           UNCHANGED <<uploads, delivered, unlinked, orphaned>>
    PROVE  D!Tell(k)
<1>1. toldBar' = toldBar \cup {<<k, uploads[k]>>}
  BY DEF Answer, toldBar, RInv, Apart
<1> QED BY <1>1 DEF D!Tell, toldBar

LEMMA ChooseStep ==
    ASSUME RInv, NEW r \in Requests, RecordPTTUpload(r)
    PROVE  key[r] \in Keys /\ callId[r] \in Ids /\ D!Choose(key[r], callId[r])
<1>1. pc[r] = "record" /\ key[r] \in Keys /\ callId[r] \in Ids
  BY DEF RecordPTTUpload, RInv, IInv, InHand
<1>2. /\ uploads[key[r]] = 0
      /\ uploads' = [uploads EXCEPT ![key[r]] = callId[r]]
      /\ UNCHANGED <<delivered, answers, unlinked, orphaned>>
  BY DEF RecordPTTUpload, Taken, outcome, history
<1>3. \A k \in Keys : uploads[k] # callId[r]
  BY <1>1 DEF RInv, Sole
<1>4. callId[r] \notin sentBar \cup cutBar
  BY <1>1 DEF RInv, Sole, Holds, sentBar, cutBar
<1> QED BY <1>1, <1>2, <1>3, <1>4 DEF D!Choose, sentBar, cutBar

\* A failed record takes its call out of the promise: nothing of it was there.
LEMMA RecordFailsStep ==
    ASSUME RInv, NEW r \in Requests, RecordFails(r)
    PROVE  UNCHANGED D!dvars
<1>1. /\ pc[r] = "record"
      /\ unlinked' = unlinked \cup {callId[r]}
      /\ UNCHANGED <<uploads, delivered, answers, orphaned>>
  BY DEF RecordFails, store, outcome
<1>2. callId[r] \notin delivered \cup orphaned
  BY <1>1 DEF RInv, Sole, Holds
<1>3. \A a \in answers : a[2] \notin unlinked => a[2] # callId[r]
  BY <1>1 DEF RInv, IInv, Sole, AnswerNamesOriginal, TypeOK
<1>4. toldBar' = toldBar
  BY <1>1, <1>3 DEF toldBar
<1> QED BY <1>1, <1>2, <1>4 DEF D!dvars, toldBar

\* A delivery pushes the recorded call of its key, or one outside the promise.
LEMMA SendStep ==
    ASSUME RInv, NEW r \in Requests, Deliver(r)
    PROVE  key[r] \in Keys /\ (D!Send(key[r]) \/ UNCHANGED D!dvars)
<1>1. /\ pc[r] = "deliver" /\ key[r] \in Keys /\ callId[r] \in Ids
      /\ delivered' = delivered \cup {callId[r]}
      /\ Answer(key[r], callId[r])
      /\ UNCHANGED <<uploads, unlinked, orphaned>>
  BY DEF Deliver, store, history, RInv, IInv, InHand
<1>2. CASE callId[r] \in unlinked
  <2>1. toldBar' = toldBar
    BY <1>1, <1>2 DEF Answer, toldBar
  <2> QED BY <1>1, <1>2, <2>1 DEF D!dvars, toldBar
<1>3. CASE callId[r] \notin unlinked
  <2>1. uploads[key[r]] = callId[r]
    BY <1>1, <1>3 DEF RInv, IInv, Linked
  <2>2. callId[r] \notin delivered \cup orphaned /\ callId[r] # 0
    BY <1>1, PttAssumption DEF RInv, Sole, Holds, Ids
  <2>3. D!Waiting(key[r])
    BY <2>1, <2>2 DEF D!Waiting
  <2>4. sentBar' = sentBar \cup {callId[r]}
    BY <1>1, <1>3 DEF sentBar
  <2>5. toldBar' = toldBar \cup {<<key[r], callId[r]>>}
    BY <1>1, <1>3 DEF Answer, toldBar
  <2> QED BY <1>1, <2>1, <2>3, <2>4, <2>5 DEF D!Send, sentBar, toldBar
<1> QED BY <1>1, <1>2, <1>3

\* A restart cuts off the keys whose call was about to be pushed.
LEMMA CutStep ==
    ASSUME RInv, Restart
    PROVE  (\E K \in SUBSET Keys : D!CutOff(K)) \/ UNCHANGED D!dvars
<1> DEFINE R == {r \in Requests : pc[r] = "deliver" /\ callId[r] \notin unlinked}
           K == {key[r] : r \in R}
<1>1. /\ orphaned' = orphaned \cup {callId[r] : r \in {q \in Requests : pc[q] = "deliver"}}
      /\ UNCHANGED <<uploads, delivered, answers, unlinked>>
  BY DEF Restart, store, outcome
<1>2. \A r \in R : key[r] \in Keys /\ uploads[key[r]] = callId[r] /\ D!Waiting(key[r])
  <2> SUFFICES ASSUME NEW r \in R
               PROVE  key[r] \in Keys /\ uploads[key[r]] = callId[r] /\ D!Waiting(key[r])
    OBVIOUS
  <2>1. key[r] \in Keys /\ uploads[key[r]] = callId[r]
    BY DEF RInv, IInv, InHand, Linked
  <2>2. callId[r] \notin delivered \cup orphaned /\ callId[r] # 0
    BY PttAssumption DEF RInv, IInv, InHand, Sole, Holds, Ids
  <2> QED BY <2>1, <2>2 DEF D!Waiting
<1>3. cutBar' = cutBar \cup {uploads[k] : k \in K}
  BY <1>1, <1>2 DEF cutBar
<1>4. CASE K = {}
  BY <1>1, <1>3, <1>4 DEF D!dvars, cutBar
<1>5. CASE K # {}
  <2>1. D!CutOff(K)
    BY <1>1, <1>2, <1>3, <1>5 DEF D!CutOff, cutBar
  <2>2. K \in SUBSET Keys
    BY <1>2
  <2> QED BY <2>1, <2>2
<1> QED BY <1>4, <1>5

LEMMA StepRefined == RInv /\ [Next]_vars => [D!Next]_(D!dvars)
<1> SUFFICES ASSUME RInv, [Next]_vars PROVE D!Next \/ UNCHANGED D!dvars
  OBVIOUS
<1>1. CASE UNCHANGED vars
  BY <1>1, StutterStep DEF vars, store, outcome, history
<1>2. CASE Restart
  BY <1>2, CutStep DEF D!Next
<1>3. ASSUME NEW r \in Requests,
             Start(r) \/ LookupMiss(r) \/ Reject(r) \/ InsertCall(r) \/ InsertFails(r)
      PROVE  UNCHANGED D!dvars
  BY <1>3, StutterStep DEF Start, LookupMiss, Reject, InsertCall, InsertFails,
                           store, outcome, history
<1>4. ASSUME NEW r \in Requests, LookupHit(r) PROVE D!Next
  <2>1. PICK k \in todo[r] : uploads[k] # 0 /\ Answer(k, uploads[k])
    BY <1>4 DEF LookupHit
  <2>2. k \in Keys /\ UNCHANGED <<uploads, delivered, unlinked, orphaned>>
    BY <1>4, <2>1 DEF LookupHit, store, history, RInv, IInv, TypeOK
  <2>3. D!Tell(k)
    BY <2>1, <2>2, TellStep
  <2> QED BY <2>2, <2>3 DEF D!Next
<1>5. ASSUME NEW r \in Requests, RaceLost(r) PROVE D!Next
  <2>1. /\ key[r] \in Keys /\ uploads[key[r]] # 0 /\ Answer(key[r], uploads[key[r]])
        /\ UNCHANGED <<uploads, delivered, unlinked, orphaned>>
    BY <1>5 DEF RaceLost, Taken, Winner, store, history, RInv, IInv, InHand
  <2>2. PICK k \in Keys : k = key[r]
    BY <2>1
  <2>3. uploads[k] # 0 /\ Answer(k, uploads[k])
    BY <2>1, <2>2 DEF Answer
  <2>4. D!Tell(k)
    BY <2>1, <2>3, TellStep
  <2> QED BY <2>4 DEF D!Next
<1>6. ASSUME NEW r \in Requests, RecordPTTUpload(r) PROVE D!Next
  BY <1>6, ChooseStep DEF D!Next
<1>7. ASSUME NEW r \in Requests, RecordFails(r) PROVE UNCHANGED D!dvars
  BY <1>7, RecordFailsStep
<1>8. ASSUME NEW r \in Requests, Deliver(r) PROVE D!Next \/ UNCHANGED D!dvars
  <2>1. PICK k \in Keys : k = key[r]
    BY <1>8, SendStep
  <2>2. D!Send(k) \/ UNCHANGED D!dvars
    BY <1>8, <2>1, SendStep DEF D!Send, D!Waiting
  <2> QED BY <2>2 DEF D!Next
<1> QED BY <1>1, <1>2, <1>3, <1>4, <1>5, <1>6, <1>7, <1>8
        DEF Next, Lookup, Insert, Record

\* Whatever requests, retries, failures and restarts do to each other, the recorded
\* calls behave as Delivery promises: one call per key, pushed at most once or cut off,
\* named by every answer (ptt.go handlePTTUpload, deliverPTTToSet).
THEOREM DeliveryImplemented == Spec => D!Spec
<1>1. Init => D!Init
  BY DEF Init, D!Init
<1>2. RInv /\ [Next]_vars => [D!Next]_(D!dvars)
  BY StepRefined
<1> QED BY <1>1, <1>2, RInvHolds, PTL DEF Spec, D!Spec
=============================================================================
