------------------------ MODULE RecorderQueue_proofs ------------------------
(***************************************************************************)
(* TLAPS proofs about RecorderQueue: its type invariant, that no clip is    *)
(* lost, that every copy is explained and that the queue is in order, for   *)
(* all clips, stamps and bounds.                                            *)
(***************************************************************************)
EXTENDS RecorderQueue, TLAPS

\* Where the entry at hand is, and what else may hold it or its clip.
Place ==
    /\ mode # "replay" => seen = {}
    /\ pc \in Queueing =>
        /\ cur \notin desc
        /\ mode = "folder" => clip[cur] \notin batch
        /\ mode = "replay" => clip[cur] \in outside
    /\ pc = "copied" => mode = "folder"
    /\ pc \in {"copied", "describe", "upload", "answered"} => cur \in audio
    /\ pc = "cleared" => cur \notin audio
    /\ pc \in Sending => cur \notin broken \cup todo

\* An entry the recorder may still send.
Sendable(e) == e > used \/ e \in audio \/ (e = cur /\ pc \in Queueing)

\* What the hub stored, against what the recorder could not know: at most one upload
\* more, the recorder being about to act on it or having acted.
Matched == \A e \in Entries : doubts[e] <= sent[e] /\ sent[e] <= 1 + doubts[e]
Answered == pc = "answered" => doubts[cur] < sent[cur]
Unsent == \A e \in Entries :
              Sendable(e) /\ ~(e = cur /\ pc = "answered") => sent[e] <= doubts[e]
Count == Matched /\ Answered /\ Unsent

\* What the flush under way has behind it and before it: a whole entry is still to be sent,
\* or at hand, and what is at hand is the oldest.
Flushing == {"flush"} \cup Sending
Turn ==
    /\ pc \in Flushing => \A e \in 1..used : Whole(e) => e \in todo \/ e = cur
    /\ pc \in Sending => \A e \in todo : Before(cur, e)
    /\ pc \in {"idle"} \cup Queueing =>
          \A e \in 1..used : Whole(e) => \E b \in blocked : b = e \/ Before(b, e)

\* Where the clip of a described entry may not be, and where that of the entry being
\* queued may not be; a replayed file is remembered while the recorder runs.
Described == thisRun \cup earlier
Once ==
    /\ fresh \cap outside = {} /\ batch \cap seen = {}
    /\ mode = "mic" => outside = {}
    /\ mode # "replay" => \A e \in Described : clip[e] \notin fresh \cup outside
    /\ mode = "replay" /\ pc # "stopped" => \A e \in thisRun : clip[e] \in seen
    /\ pc \in Queueing =>
          /\ clip[cur] \notin fresh \cup batch
          /\ cur \notin Described
          /\ \A e \in IF mode = "replay" THEN thisRun ELSE Described : clip[e] # clip[cur]
    /\ mode # "replay" /\ pc = "describe" => clip[cur] \notin outside
    /\ QueuedOnce

\* NothingLost is kept by a step only if the entry at hand is where Place says; TypeOK's
\* bound on doubts needs Count.
IInv == TypeOK /\ Place /\ Count /\ NothingLost /\ Turn /\ Once

-----------------------------------------------------------------------------
\* The entry at hand was given out.
LEMMA HandIsEntry ==
  TypeOK => (pc \in Queueing \cup Sending => cur \in 1..used /\ cur \in Entries)
  BY RecorderAssumption DEF TypeOK, TypeQueue, TypeHand, Entries

\* What was given out may have been sent.
LEMMA UsedAreEntries ==
  TypeOK => 1..used \subseteq Entries /\ \A e \in Entries : sent[e] \in Nat
  BY RecorderAssumption DEF TypeOK, TypeQueue, TypeHub, Entries

\* n more uploads of e.
LEMMA Raised ==
  ASSUME NEW f \in [Entries -> 0..MaxSent], NEW e \in Entries,
         NEW n \in 0..1, f[e] + n <= MaxSent, NEW g, g = [f EXCEPT ![e] = f[e] + n]
  PROVE  /\ g \in [Entries -> 0..MaxSent]
         /\ \A d \in Entries : g[d] = IF d = e THEN f[e] + n ELSE f[d]
  BY RecorderAssumption

\* A step that touches no folder loses nothing if it keeps every entry that holds its
\* clip: whole ones, stored ones, stranded ones, and the one being queued.
LEMMA EntriesKept ==
  ASSUME NothingLost, UNCHANGED <<fresh, outside, used, clip>>,
         \A e \in 1..used :
            /\ Whole(e) => Whole(e)'
            /\ sent[e] > 0 => sent'[e] > 0
            /\ e \in stranded => e \in stranded'
            /\ e = cur /\ pc \in Queueing => clip[e] \in outside \/ e \in stranded'
  PROVE  NothingLost'
  BY DEF NothingLost

\* The sources: a file leaves its folder only once it is in no batch (Place).
LEMMA SourcesStep == TypeSources /\ TypeQueue /\ TypeHand /\ Place /\ [Next]_vars => TypeSources'
<1> SUFFICES ASSUME TypeSources, TypeQueue, TypeHand, Place, [Next]_vars PROVE TypeSources'
  OBVIOUS
<1> USE RecorderAssumption DEF TypeSources
<1>1. CASE UNCHANGED vars
  BY <1>1 DEF vars, config, sources, memory
<1>2. CASE Start
  BY <1>2 DEF Start, config, sources, memory
<1>3. CASE Stop
  BY <1>3 DEF Stop, Forget, config, sources, memory
<1>4. CASE Crash
  BY <1>4 DEF Crash, Fault, Forget, config, sources, memory
<1>5. CASE QueueFails
  BY <1>5 DEF QueueFails, Fault, config, sources, memory
<1>6. CASE Poll
  BY <1>6 DEF Poll, Unseen, config, sources, memory
<1>7. CASE SaveAudio
  BY <1>7 DEF SaveAudio, Place, Queueing, config, memory
<1>8. CASE RemoveSource
  BY <1>8 DEF RemoveSource, Place, Queueing, config, memory
<1>9. CASE Describe
  BY <1>9 DEF Describe, Remembered, Place, Queueing, config, sources
<1>10. CASE ListQueue
  BY <1>10 DEF ListQueue, config, sources, memory
<1>11. CASE ListFails
  BY <1>11 DEF ListFails, Fault, config, sources, memory
<1>12. CASE FlushDone
  BY <1>12 DEF FlushDone, config, sources, memory
<1>13. CASE UploadAccepted
  BY <1>13 DEF UploadAccepted, config, sources, memory
<1>14. CASE UploadRefused
  BY <1>14 DEF UploadRefused, config, sources, memory
<1>15. CASE UploadLost
  BY <1>15 DEF UploadLost, Fault, config, sources, memory
<1>16. CASE PutAway
  <2>1. clip[cur] \in Clips
    BY <1>16 DEF PutAway, TypeQueue, TypeHand, Sending
  <2> QED
    BY <1>16, <2>1 DEF PutAway, config, sources, memory
<1>17. CASE PutAwayFails
  BY <1>17 DEF PutAwayFails, Fault, config, sources, memory
<1>18. CASE RemoveDescription
  BY <1>18 DEF RemoveDescription, config, sources, memory
<1>19. CASE RemoveDescriptionFails
  BY <1>19 DEF RemoveDescriptionFails, Fault, config, sources, memory
<1>20. ASSUME NEW c \in Clips, Hear(c) PROVE TypeSources'
  BY <1>20 DEF Hear, config, sources, memory
<1>21. ASSUME NEW c \in Clips, Arrive(c) PROVE TypeSources'
  BY <1>21 DEF Arrive, config, sources, memory
<1>22. ASSUME NEW c \in Clips, Take(c) PROVE TypeSources'
  BY <1>22 DEF Take, config, sources, memory
<1>23. ASSUME NEW e \in Entries, BeginUpload(e) PROVE TypeSources'
  BY <1>23 DEF BeginUpload, config, sources, memory
<1>24. ASSUME NEW e \in Entries, AudioMissing(e) PROVE TypeSources'
  BY <1>24 DEF AudioMissing, config, sources, memory
<1>25. ASSUME NEW e \in Entries, Unreadable(e) PROVE TypeSources'
  BY <1>25 DEF Unreadable, config, sources, memory
<1>26. ASSUME NEW e \in Entries, ReadFails(e) PROVE TypeSources'
  BY <1>26 DEF ReadFails, Fault, config, sources, memory
<1> QED
  BY <1>1, <1>2, <1>3, <1>4, <1>5, <1>6, <1>7, <1>8, <1>9, <1>10, <1>11, <1>12, <1>13, <1>14,
    <1>15, <1>16, <1>17, <1>18, <1>19, <1>20, <1>21, <1>22, <1>23, <1>24, <1>25, <1>26 DEF
    Next, Work

\* The queue: what is handled has been given out.
LEMMA QueueStep == TypeQueue /\ TypeHand /\ Place /\ [Next]_vars => TypeQueue'
<1> SUFFICES ASSUME TypeQueue, TypeHand, Place, [Next]_vars PROVE TypeQueue'
  OBVIOUS
<1> USE RecorderAssumption DEF TypeQueue
<1>1. CASE UNCHANGED vars
  BY <1>1 DEF vars, queue, runs
<1>2. CASE Start
  BY <1>2 DEF Start, queue, runs
<1>3. CASE Stop
  BY <1>3 DEF Stop, Forget, queue, runs
<1>4. CASE Crash
  <2>1. cur # 0 => cur \in 1..used
    BY DEF TypeHand
  <2>2. pc \in Queueing => cur \in 1..used
    BY <2>1 DEF TypeHand
  <2>3. /\ audio' \subseteq audio \cup {cur} /\ desc \subseteq desc'
        /\ desc' \subseteq desc \cup {cur} /\ broken' \subseteq desc'
        /\ pc \notin Queueing => UNCHANGED <<audio, desc>>
    BY <1>4 DEF Crash, CutOff, Queueing, queue
  <2>4. /\ stranded' = stranded \/ (pc \in Queueing /\ stranded' = stranded \cup {cur})
        /\ todo' = {} /\ UNCHANGED <<used, clip, blocked, thisRun, earlier>>
    BY <1>4 DEF Crash, Forget, Strands, runs
  <2> QED
    BY <2>2, <2>3, <2>4
<1>5. CASE QueueFails
  <2>1. cur \in 1..used
    BY <1>5 DEF QueueFails, TypeHand
  <2>2. /\ audio' \subseteq audio \cup {cur} /\ desc \subseteq desc'
        /\ desc' \subseteq desc \cup {cur} /\ broken' \subseteq desc'
    BY <1>5 DEF QueueFails, CutOff, queue
  <2>3. /\ stranded' \subseteq stranded \cup {cur}
        /\ UNCHANGED <<used, clip, todo, blocked, thisRun, earlier>>
    BY <1>5 DEF QueueFails, runs
  <2> QED
    BY <2>1, <2>2, <2>3
<1>6. CASE Poll
  BY <1>6 DEF Poll, Unseen, queue, runs
<1>7. CASE SaveAudio
  <2>1. cur \in 1..used
    BY <1>7 DEF SaveAudio, TypeHand, Sending, Queueing
  <2> QED
    BY <1>7, <2>1 DEF SaveAudio, runs
<1>8. CASE RemoveSource
  BY <1>8 DEF RemoveSource, queue, runs
<1>9. CASE Describe
  <2>1. cur \in 1..used
    BY <1>9 DEF Describe, TypeHand, Sending, Queueing
  <2> QED
    BY <1>9, <2>1 DEF Describe, runs
<1>10. CASE ListQueue
  BY <1>10 DEF ListQueue, queue, runs
<1>11. CASE ListFails
  BY <1>11 DEF ListFails, queue, runs
<1>12. CASE FlushDone
  BY <1>12 DEF FlushDone, EndFlush, queue, runs
<1>13. CASE UploadAccepted
  BY <1>13 DEF UploadAccepted, Accepted, queue, runs
<1>14. CASE UploadRefused
  <2>1. cur \in 1..used
    BY <1>14 DEF UploadRefused, TypeHand, Sending, Queueing
  <2> QED
    BY <1>14, <2>1 DEF UploadRefused, Refused, Abort, EndFlush, queue, runs
<1>15. CASE UploadLost
  <2>1. cur \in 1..used
    BY <1>15 DEF UploadLost, TypeHand, Sending, Queueing
  <2> QED
    BY <1>15, <2>1 DEF UploadLost, Abort, EndFlush, queue, runs
<1>16. CASE PutAway
  BY <1>16 DEF PutAway, runs
<1>17. CASE PutAwayFails
  <2>1. cur \in 1..used
    BY <1>17 DEF PutAwayFails, TypeHand, Sending, Queueing
  <2> QED
    BY <1>17, <2>1 DEF PutAwayFails, Abort, EndFlush, queue, runs
<1>18. CASE RemoveDescription
  <2>1. cur \notin todo /\ cur \notin broken
    BY <1>18 DEF RemoveDescription, Place, Sending
  <2> QED
    BY <1>18, <2>1 DEF RemoveDescription, runs
<1>19. CASE RemoveDescriptionFails
  <2>1. cur \in 1..used
    BY <1>19 DEF RemoveDescriptionFails, TypeHand, Sending, Queueing
  <2> QED
    BY <1>19, <2>1 DEF RemoveDescriptionFails, Abort, EndFlush, queue, runs
<1>20. ASSUME NEW c \in Clips, Hear(c) PROVE TypeQueue'
  <2>1. /\ used' = used + 1 /\ used' \in 0..MaxEntries
        /\ clip' = [e \in 1..(used + 1) |-> IF e = used + 1 THEN c ELSE clip[e]]
        /\ UNCHANGED <<audio, desc, broken, todo, blocked, thisRun, earlier, stranded>>
    BY <1>20 DEF Hear, NewEntry, queue, runs
  <2>2. clip' \in [1..used' -> Clips]
    BY <2>1
  <2>3. 1..used \subseteq 1..used'
    BY <2>1
  <2> QED
    BY <2>1, <2>2, <2>3
<1>21. ASSUME NEW c \in Clips, Arrive(c) PROVE TypeQueue'
  BY <1>21 DEF Arrive, queue, runs
<1>22. ASSUME NEW c \in Clips, Take(c) PROVE TypeQueue'
  <2>1. /\ used' = used + 1 /\ used' \in 0..MaxEntries
        /\ clip' = [e \in 1..(used + 1) |-> IF e = used + 1 THEN c ELSE clip[e]]
        /\ UNCHANGED <<audio, desc, broken, todo, blocked, thisRun, earlier, stranded>>
    BY <1>22 DEF Take, NewEntry, queue, runs
  <2>2. clip' \in [1..used' -> Clips]
    BY <2>1
  <2>3. 1..used \subseteq 1..used'
    BY <2>1
  <2> QED
    BY <2>1, <2>2, <2>3
<1>23. ASSUME NEW e \in Entries, BeginUpload(e) PROVE TypeQueue'
  BY <1>23 DEF BeginUpload, queue, runs
<1>24. ASSUME NEW e \in Entries, AudioMissing(e) PROVE TypeQueue'
  BY <1>24 DEF AudioMissing, Missing, queue, runs
<1>25. ASSUME NEW e \in Entries, Unreadable(e) PROVE TypeQueue'
  BY <1>25 DEF Unreadable, Abort, EndFlush, queue, runs
<1>26. ASSUME NEW e \in Entries, ReadFails(e) PROVE TypeQueue'
  BY <1>26 DEF ReadFails, Abort, EndFlush, queue, runs
<1> QED
  BY <1>1, <1>2, <1>3, <1>4, <1>5, <1>6, <1>7, <1>8, <1>9, <1>10, <1>11, <1>12, <1>13, <1>14,
    <1>15, <1>16, <1>17, <1>18, <1>19, <1>20, <1>21, <1>22, <1>23, <1>24, <1>25, <1>26 DEF
    Next, Work

\* The hand: an entry is at hand while it is queued or sent.
LEMMA HandStep == TypeQueue /\ TypeHand /\ Place /\ [Next]_vars => TypeHand'
<1> SUFFICES ASSUME TypeQueue, TypeHand, Place, [Next]_vars PROVE TypeHand'
  OBVIOUS
<1>0. used \in Nat /\ used' \in Nat
  BY QueueStep, RecorderAssumption DEF TypeQueue
<1> USE <1>0 DEF TypeHand, Queueing, Sending
<1>1. CASE UNCHANGED vars
  BY <1>1 DEF vars
<1>2. CASE Start
  BY <1>2 DEF Start
<1>3. CASE Stop
  BY <1>3 DEF Stop, Forget
<1>4. CASE Crash
  BY <1>4 DEF Crash, Forget
<1>5. CASE QueueFails
  BY <1>5 DEF QueueFails
<1>6. CASE Poll
  BY <1>6 DEF Poll
<1>7. CASE SaveAudio
  BY <1>7 DEF SaveAudio
<1>8. CASE RemoveSource
  BY <1>8 DEF RemoveSource
<1>9. CASE Describe
  BY <1>9 DEF Describe
<1>10. CASE ListQueue
  BY <1>10 DEF ListQueue
<1>11. CASE ListFails
  BY <1>11 DEF ListFails
<1>12. CASE FlushDone
  BY <1>12 DEF FlushDone, EndFlush
<1>13. CASE UploadAccepted
  BY <1>13 DEF UploadAccepted, Accepted
<1>14. CASE UploadRefused
  BY <1>14 DEF UploadRefused, Refused, Abort, EndFlush
<1>15. CASE UploadLost
  BY <1>15 DEF UploadLost, Abort, EndFlush
<1>16. CASE PutAway
  BY <1>16 DEF PutAway
<1>17. CASE PutAwayFails
  BY <1>17 DEF PutAwayFails, Abort, EndFlush
<1>18. CASE RemoveDescription
  BY <1>18 DEF RemoveDescription
<1>19. CASE RemoveDescriptionFails
  BY <1>19 DEF RemoveDescriptionFails, Abort, EndFlush
<1>20. ASSUME NEW c \in Clips, Hear(c) PROVE TypeHand'
  <2>1. used' = used + 1 /\ cur' = used + 1 /\ pc' = "audio" /\ pc = "idle" /\ todo' = todo
    BY <1>20 DEF Hear, NewEntry
  <2> QED
    BY <2>1 DEF TypeQueue
<1>21. ASSUME NEW c \in Clips, Arrive(c) PROVE TypeHand'
  BY <1>21 DEF Arrive
<1>22. ASSUME NEW c \in Clips, Take(c) PROVE TypeHand'
  <2>1. used' = used + 1 /\ cur' = used + 1 /\ pc' = "audio" /\ pc = "idle" /\ todo' = todo
    BY <1>22 DEF Take, NewEntry
  <2> QED
    BY <2>1 DEF TypeQueue
<1>23. ASSUME NEW e \in Entries, BeginUpload(e) PROVE TypeHand'
  <2>1. e \in 1..used
    BY <1>23 DEF BeginUpload, TypeQueue
  <2>2. cur' = e /\ pc' = "upload" /\ used' = used
    BY <1>23 DEF BeginUpload
  <2> QED
    BY <2>1, <2>2 DEF TypeQueue
<1>24. ASSUME NEW e \in Entries, AudioMissing(e) PROVE TypeHand'
  BY <1>24 DEF AudioMissing, Missing
<1>25. ASSUME NEW e \in Entries, Unreadable(e) PROVE TypeHand'
  BY <1>25 DEF Unreadable, Abort, EndFlush
<1>26. ASSUME NEW e \in Entries, ReadFails(e) PROVE TypeHand'
  BY <1>26 DEF ReadFails, Abort, EndFlush
<1> QED
  BY <1>1, <1>2, <1>3, <1>4, <1>5, <1>6, <1>7, <1>8, <1>9, <1>10, <1>11, <1>12, <1>13, <1>14,
    <1>15, <1>16, <1>17, <1>18, <1>19, <1>20, <1>21, <1>22, <1>23, <1>24, <1>25, <1>26 DEF
    Next, Work

\* The counts of an entry.
LEMMA CountsAtHand ==
  ASSUME TypeOK, Matched, cur \in Entries
  PROVE  /\ sent[cur] \in 0..MaxSent /\ doubts[cur] \in 0..MaxSent
         /\ doubts[cur] <= sent[cur]
  BY DEF TypeOK, TypeHub, Matched

\* An answer the recorder has not acted on leaves room for a doubt.
LEMMA DoubtsBelow ==
  TypeOK /\ Matched /\ Answered /\ pc = "answered" => doubts[cur] + 1 <= MaxSent
<1> SUFFICES ASSUME TypeOK, Answered, pc = "answered" PROVE doubts[cur] + 1 <= MaxSent
  OBVIOUS
<1>1. cur \in Entries
  BY HandIsEntry DEF Sending
<1>2. doubts[cur] < sent[cur] /\ sent[cur] \in 0..MaxSent /\ doubts[cur] \in 0..MaxSent
  BY <1>1 DEF Answered, TypeOK, TypeHub
<1> QED
  BY <1>2, RecorderAssumption

\* The counts: the bound on doubts follows from the one on uploads (Matched, Answered).
LEMMA HubStep == TypeOK /\ Matched /\ Answered /\ [Next]_vars => TypeHub'
<1> SUFFICES ASSUME TypeOK, Matched, Answered, [Next]_vars PROVE TypeHub'
  OBVIOUS
<1>0. TypeHub
  BY DEF TypeOK
<1> USE <1>0, RecorderAssumption DEF TypeHub
<1>1. CASE UNCHANGED vars
  BY <1>1 DEF vars, hub
<1>2. CASE Start
  BY <1>2 DEF Start, hub
<1>3. CASE Stop
  BY <1>3 DEF Stop, hub
<1>4. CASE Crash
  <2>1. pc \in Queueing \cup Sending => cur \in Entries
    BY HandIsEntry
  <2>2. CASE pc = "answered"
    <3>1. cur \in Entries /\ doubts[cur] + 1 <= MaxSent
      BY <2>1, <2>2, DoubtsBelow DEF Sending
    <3>2. doubts' = [doubts EXCEPT ![cur] = doubts[cur] + 1] /\ sent' = sent
      BY <1>4, <2>2 DEF Crash
    <3> QED
      BY <3>1, <3>2, Raised, 1 \in 0..1
  <2>3. CASE pc = "upload" /\ sent[cur] < MaxSent
    <3>1. cur \in Entries
      BY <2>1, <2>3 DEF Sending
    <3>2. PICK n \in 0..1 : /\ sent' = [sent EXCEPT ![cur] = sent[cur] + n]
                            /\ doubts' = [doubts EXCEPT ![cur] = doubts[cur] + n]
      BY <1>4, <2>3 DEF Crash
    <3>3. sent[cur] + n <= MaxSent /\ doubts[cur] + n <= MaxSent
      BY <2>3, <3>1 DEF Matched
    <3> QED
      BY <3>1, <3>2, <3>3, Raised
  <2>4. CASE pc # "answered" /\ ~(pc = "upload" /\ sent[cur] < MaxSent)
    BY <1>4, <2>4 DEF Crash, hub
  <2> QED
    BY <2>2, <2>3, <2>4
<1>5. CASE QueueFails
  BY <1>5 DEF QueueFails, hub
<1>6. CASE Poll
  BY <1>6 DEF Poll, hub
<1>7. CASE SaveAudio
  BY <1>7 DEF SaveAudio, hub
<1>8. CASE RemoveSource
  BY <1>8 DEF RemoveSource, hub
<1>9. CASE Describe
  BY <1>9 DEF Describe, hub
<1>10. CASE ListQueue
  BY <1>10 DEF ListQueue, hub
<1>11. CASE ListFails
  BY <1>11 DEF ListFails, hub
<1>12. CASE FlushDone
  BY <1>12 DEF FlushDone, hub
<1>13. CASE UploadAccepted
  <2>1. cur \in Entries /\ sent[cur] + 1 <= MaxSent
    BY <1>13, HandIsEntry DEF UploadAccepted, Sending
  <2>2. sent' = [sent EXCEPT ![cur] = sent[cur] + 1] /\ doubts' = doubts
    BY <1>13 DEF UploadAccepted
  <2> QED
    BY <2>1, <2>2, Raised, 1 \in 0..1
<1>14. CASE UploadRefused
  BY <1>14 DEF UploadRefused, hub
<1>15. CASE UploadLost
  <2>1. cur \in Entries /\ sent[cur] < MaxSent
    BY <1>15, HandIsEntry DEF UploadLost, Sending
  <2>2. sent[cur] + 1 <= MaxSent /\ doubts[cur] + 1 <= MaxSent
    BY <2>1 DEF Matched
  <2>3. /\ sent' = [sent EXCEPT ![cur] = sent[cur] + 1]
        /\ doubts' = [doubts EXCEPT ![cur] = doubts[cur] + 1]
    BY <1>15 DEF UploadLost
  <2> QED
    BY <2>1, <2>2, <2>3, Raised, 1 \in 0..1
<1>16. CASE PutAway
  BY <1>16 DEF PutAway, hub
<1>17. CASE PutAwayFails
  <2>1. pc = "answered" /\ doubts' = [doubts EXCEPT ![cur] = doubts[cur] + 1] /\ sent' = sent
    BY <1>17 DEF PutAwayFails
  <2>2. cur \in Entries /\ doubts[cur] + 1 <= MaxSent
    BY <2>1, HandIsEntry, DoubtsBelow DEF Sending
  <2> QED
    BY <2>1, <2>2, Raised, 1 \in 0..1
<1>18. CASE RemoveDescription
  BY <1>18 DEF RemoveDescription, hub
<1>19. CASE RemoveDescriptionFails
  BY <1>19 DEF RemoveDescriptionFails, hub
<1>20. ASSUME NEW c \in Clips, Hear(c) PROVE TypeHub'
  BY <1>20 DEF Hear, hub
<1>21. ASSUME NEW c \in Clips, Arrive(c) PROVE TypeHub'
  BY <1>21 DEF Arrive, hub
<1>22. ASSUME NEW c \in Clips, Take(c) PROVE TypeHub'
  BY <1>22 DEF Take, hub
<1>23. ASSUME NEW e \in Entries, BeginUpload(e) PROVE TypeHub'
  BY <1>23 DEF BeginUpload, hub
<1>24. ASSUME NEW e \in Entries, AudioMissing(e) PROVE TypeHub'
  BY <1>24 DEF AudioMissing, hub
<1>25. ASSUME NEW e \in Entries, Unreadable(e) PROVE TypeHub'
  BY <1>25 DEF Unreadable, hub
<1>26. ASSUME NEW e \in Entries, ReadFails(e) PROVE TypeHub'
  BY <1>26 DEF ReadFails, hub
<1> QED
  BY <1>1, <1>2, <1>3, <1>4, <1>5, <1>6, <1>7, <1>8, <1>9, <1>10, <1>11, <1>12, <1>13, <1>14,
    <1>15, <1>16, <1>17, <1>18, <1>19, <1>20, <1>21, <1>22, <1>23, <1>24, <1>25, <1>26 DEF
    Next, Work

LEMMA TypeInductive == TypeOK /\ Place /\ Count /\ [Next]_vars => TypeOK'
  BY SourcesStep, QueueStep, HandStep, HubStep DEF TypeOK, Count

\* Where the entry at hand is.
LEMMA PlaceInductive == TypeOK /\ Place /\ [Next]_vars => Place'
<1> SUFFICES ASSUME TypeOK, Place, [Next]_vars PROVE Place'
  OBVIOUS
<1> USE RecorderAssumption DEF TypeOK, TypeSources, TypeQueue, TypeHand, TypeHub, Place,
  Queueing, Sending, Entries
<1>1. CASE UNCHANGED vars
  BY <1>1 DEF vars, config, sources, queue, hub, memory, runs
<1>2. CASE Start
  BY <1>2 DEF Start, config, sources, queue, hub
<1>3. CASE Stop
  BY <1>3 DEF Stop, Forget, config, sources, queue, hub, runs
<1>4. CASE Crash
  BY <1>4 DEF Crash, Fault, Forget, CutOff, Strands, config, sources, queue, hub, runs
<1>5. CASE QueueFails
  BY <1>5 DEF QueueFails, Fault, CutOff, Strands, config, sources, queue, hub, memory, runs
<1>6. CASE Poll
  BY <1>6 DEF Poll, Unseen, config, sources, queue, hub, runs
<1>7. CASE SaveAudio
  BY <1>7 DEF SaveAudio, config, hub, memory, runs
<1>8. CASE RemoveSource
  BY <1>8 DEF RemoveSource, config, queue, hub, memory, runs
<1>9. CASE Describe
  BY <1>9 DEF Describe, Remembered, config, sources, hub
<1>10. CASE ListQueue
  BY <1>10 DEF ListQueue, config, sources, queue, hub, memory, runs
<1>11. CASE ListFails
  BY <1>11 DEF ListFails, Fault, config, sources, queue, hub, memory, runs
<1>12. CASE FlushDone
  BY <1>12 DEF FlushDone, EndFlush, config, sources, queue, hub, memory, runs
<1>13. CASE UploadAccepted
  BY <1>13 DEF UploadAccepted, Accepted, config, sources, queue, memory, runs
<1>14. CASE UploadRefused
  BY <1>14 DEF UploadRefused, Refused, Abort, EndFlush, config, sources, queue, hub, memory,
    runs
<1>15. CASE UploadLost
  BY <1>15 DEF UploadLost, Fault, Abort, EndFlush, config, sources, queue, memory, runs
<1>16. CASE PutAway
  BY <1>16 DEF PutAway, CanPutAway, config, sources, hub, memory, runs
<1>17. CASE PutAwayFails
  BY <1>17 DEF PutAwayFails, CanPutAway, Fault, Abort, EndFlush, config, sources, queue,
    memory, runs
<1>18. CASE RemoveDescription
  BY <1>18 DEF RemoveDescription, config, sources, hub, memory, runs
<1>19. CASE RemoveDescriptionFails
  BY <1>19 DEF RemoveDescriptionFails, Fault, Abort, EndFlush, config, sources, queue, hub,
    memory, runs
<1>20. ASSUME NEW c \in Clips, Hear(c) PROVE Place'
  BY <1>20 DEF Hear, NewEntry, config, queue, hub, runs
<1>21. ASSUME NEW c \in Clips, Arrive(c) PROVE Place'
  BY <1>21 DEF Arrive, config, queue, hub, memory, runs
<1>22. ASSUME NEW c \in Clips, Take(c) PROVE Place'
  BY <1>22 DEF Take, NewEntry, config, sources, queue, hub, runs
<1>23. ASSUME NEW e \in Entries, BeginUpload(e) PROVE Place'
  BY <1>23 DEF BeginUpload, config, sources, queue, hub, memory, runs
<1>24. ASSUME NEW e \in Entries, AudioMissing(e) PROVE Place'
  BY <1>24 DEF AudioMissing, Missing, config, sources, hub, memory, runs
<1>25. ASSUME NEW e \in Entries, Unreadable(e) PROVE Place'
  BY <1>25 DEF Unreadable, Abort, EndFlush, config, sources, queue, hub, memory, runs
<1>26. ASSUME NEW e \in Entries, ReadFails(e) PROVE Place'
  BY <1>26 DEF ReadFails, Fault, Abort, EndFlush, config, sources, queue, hub, memory, runs
<1> QED
  BY <1>1, <1>2, <1>3, <1>4, <1>5, <1>6, <1>7, <1>8, <1>9, <1>10, <1>11, <1>12, <1>13, <1>14,
    <1>15, <1>16, <1>17, <1>18, <1>19, <1>20, <1>21, <1>22, <1>23, <1>24, <1>25, <1>26 DEF
    Next, Work

\* Every upload is matched: only answers, lost ones, crashes and failed moves count.
LEMMA CountInductive == TypeOK /\ Place /\ Count /\ [Next]_vars => Count'
<1> SUFFICES ASSUME TypeOK, Place, Count, [Next]_vars PROVE Count'
  OBVIOUS
<1> USE RecorderAssumption DEF TypeOK, TypeSources, TypeQueue, TypeHand, TypeHub, Place, Count,
  Matched, Answered, Unsent, Sendable, Queueing, Sending, Entries
<1>1. CASE UNCHANGED vars
  BY <1>1 DEF vars, config, sources, queue, hub, memory, runs
<1>2. CASE Start
  BY <1>2 DEF Start, config, sources, queue, hub
<1>3. CASE Stop
  BY <1>3 DEF Stop, Forget, config, sources, queue, hub, runs
<1>4. CASE Crash
  <2>1. pc \in Queueing \cup Sending => cur \in Entries
    BY HandIsEntry
  <2>2. \A e \in audio' : e \in audio \/ (e = cur /\ pc \in Queueing)
    BY <1>4 DEF Crash, CutOff, queue
  <2>3. pc' = "stopped" /\ used' = used
    BY <1>4 DEF Crash
  <2>4. CASE pc = "answered"
    <3>1. doubts[cur] + 1 <= MaxSent
      BY <2>1, <2>4
    <3>2. \A e \in Entries : doubts'[e] = IF e = cur THEN doubts[e] + 1 ELSE doubts[e]
      BY <1>4, <2>1, <2>4, <3>1, Raised DEF Crash
    <3>3. sent' = sent
      BY <1>4, <2>4 DEF Crash
    <3>4. Matched /\ Answered /\ Unsent /\ TypeHub /\ pc \notin Queueing /\ cur \in Entries
      BY <2>1, <2>4
    <3> HIDE RecorderAssumption DEF TypeOK, TypeSources, TypeQueue, TypeHand, TypeHub,
      Place, Count, Matched, Answered, Unsent, Queueing, Sending, Entries
    <3>5. Matched'
      BY <2>4, <3>2, <3>3, <3>4 DEF Matched, Answered, TypeHub
    <3>6. Unsent'
      BY <2>2, <2>3, <2>4, <3>2, <3>3, <3>4 DEF Unsent, Sendable, Matched, TypeHub, Queueing
    <3> QED
      BY <2>3, <3>5, <3>6 DEF Count, Answered
  <2>5. CASE pc = "upload" /\ sent[cur] < MaxSent
    <3>1. PICK n \in 0..1 : /\ sent' = [sent EXCEPT ![cur] = sent[cur] + n]
                            /\ doubts' = [doubts EXCEPT ![cur] = doubts[cur] + n]
      BY <1>4, <2>5 DEF Crash
    <3>2. sent[cur] + n <= MaxSent /\ doubts[cur] + n <= MaxSent
      <4> HIDE DEF TypeOK, Place, Count, Matched, Answered, Unsent, Entries
      <4> QED
        BY <2>1, <2>5, CountsAtHand DEF Count
    <3>3. \A e \in Entries : /\ sent'[e] = IF e = cur THEN sent[e] + n ELSE sent[e]
                             /\ doubts'[e] = IF e = cur THEN doubts[e] + n ELSE doubts[e]
      BY <2>1, <2>5, <3>1, <3>2, Raised
    <3>4. Matched /\ Unsent /\ TypeHub /\ pc \notin Queueing /\ cur \in Entries
      BY <2>1, <2>5
    <3> HIDE RecorderAssumption DEF TypeOK, TypeSources, TypeQueue, TypeHand, TypeHub,
      Place, Count, Matched, Answered, Unsent, Queueing, Sending, Entries
    <3>5. Matched'
      BY <3>3, <3>4 DEF Matched, TypeHub
    <3>6. Unsent'
      BY <2>2, <2>3, <2>5, <3>3, <3>4 DEF Unsent, Sendable, Matched, TypeHub, Queueing
    <3> QED
      BY <2>3, <3>5, <3>6 DEF Count, Answered
  <2>6. CASE pc # "answered" /\ ~(pc = "upload" /\ sent[cur] < MaxSent)
    <3>1. UNCHANGED <<sent, doubts>>
      BY <1>4, <2>6 DEF Crash, hub
    <3> QED
      BY <2>1, <2>2, <2>3, <2>6, <3>1
  <2> QED
    BY <2>4, <2>5, <2>6
<1>5. CASE QueueFails
  BY <1>5 DEF QueueFails, Fault, CutOff, Strands, config, sources, queue, hub, memory, runs
<1>6. CASE Poll
  BY <1>6 DEF Poll, Unseen, config, sources, queue, hub, runs
<1>7. CASE SaveAudio
  BY <1>7 DEF SaveAudio, config, hub, memory, runs
<1>8. CASE RemoveSource
  BY <1>8 DEF RemoveSource, config, queue, hub, memory, runs
<1>9. CASE Describe
  BY <1>9 DEF Describe, Remembered, config, sources, hub
<1>10. CASE ListQueue
  BY <1>10 DEF ListQueue, config, sources, queue, hub, memory, runs
<1>11. CASE ListFails
  BY <1>11 DEF ListFails, Fault, config, sources, queue, hub, memory, runs
<1>12. CASE FlushDone
  BY <1>12 DEF FlushDone, EndFlush, config, sources, queue, hub, memory, runs
<1>13. CASE UploadAccepted
  <2>1. cur \in Entries /\ sent[cur] + 1 <= MaxSent
    BY <1>13, HandIsEntry DEF UploadAccepted
  <2>2. \A e \in Entries : sent'[e] = IF e = cur THEN sent[e] + 1 ELSE sent[e]
    BY <1>13, <2>1, Raised DEF UploadAccepted
  <2>3. cur \in audio /\ sent[cur] <= doubts[cur]
    BY <1>13, <2>1 DEF UploadAccepted
  <2>4. UNCHANGED <<doubts, audio, used, cur>> /\ pc' = "answered"
    BY <1>13 DEF UploadAccepted, Accepted, queue
  <2>5. Matched /\ Unsent /\ TypeHub /\ pc = "upload" /\ pc \notin Queueing
    BY <1>13 DEF UploadAccepted
  <2> HIDE RecorderAssumption DEF TypeOK, TypeSources, TypeQueue, TypeHand, TypeHub, Place,
    Count, Matched, Answered, Unsent, Queueing, Sending, Entries
  <2>6. Matched'
    BY <2>1, <2>2, <2>3, <2>4, <2>5 DEF Matched, TypeHub
  <2>7. Answered'
    BY <2>1, <2>2, <2>3, <2>4, <2>5 DEF Answered, Matched, TypeHub
  <2>8. Unsent'
    BY <2>2, <2>4, <2>5 DEF Unsent, Sendable, Queueing
  <2> QED
    BY <2>6, <2>7, <2>8 DEF Count
<1>14. CASE UploadRefused
  BY <1>14 DEF UploadRefused, Refused, Abort, EndFlush, config, sources, queue, hub, memory,
    runs
<1>15. CASE UploadLost
  <2>1. cur \in Entries /\ sent[cur] < MaxSent
    BY <1>15, HandIsEntry DEF UploadLost
  <2>2. cur \in audio /\ sent[cur] <= doubts[cur]
    BY <1>15, <2>1 DEF UploadLost
  <2>3. sent[cur] + 1 <= MaxSent /\ doubts[cur] + 1 <= MaxSent
    <3> HIDE DEF TypeOK, Place, Count, Matched, Answered, Unsent, Entries
    <3> QED
      BY <2>1, CountsAtHand DEF Count
  <2>4. \A e \in Entries : /\ sent'[e] = IF e = cur THEN sent[e] + 1 ELSE sent[e]
                           /\ doubts'[e] = IF e = cur THEN doubts[e] + 1 ELSE doubts[e]
    BY <1>15, <2>1, <2>3, Raised DEF UploadLost
  <2>5. UNCHANGED <<audio, used>> /\ cur' = 0 /\ pc' = "idle"
    BY <1>15 DEF UploadLost, Abort, EndFlush, queue
  <2>6. Matched /\ Unsent /\ TypeHub /\ pc = "upload"
    BY <1>15 DEF UploadLost
  <2> HIDE RecorderAssumption DEF TypeOK, TypeSources, TypeQueue, TypeHand, TypeHub, Place,
    Count, Matched, Answered, Unsent, Queueing, Sending, Entries
  <2>7. Matched'
    BY <2>4, <2>6 DEF Matched, TypeHub
  <2>8. Unsent'
    BY <2>2, <2>4, <2>5, <2>6 DEF Unsent, Sendable, Queueing, TypeHub
  <2> QED
    BY <2>5, <2>7, <2>8 DEF Count, Answered
<1>16. CASE PutAway
  <2>1. audio' = audio \ {cur} /\ pc = "answered" /\ pc' = "cleared"
    BY <1>16 DEF PutAway
  <2>2. UNCHANGED <<sent, doubts, used, cur>>
    BY <1>16 DEF PutAway, hub
  <2>3. Matched /\ Unsent /\ pc \notin Queueing /\ cur \in 1..used /\ used \in Nat
    BY <2>1
  <2> HIDE RecorderAssumption DEF TypeOK, TypeSources, TypeQueue, TypeHand, TypeHub, Place,
    Count, Matched, Answered, Unsent, Queueing, Sending, Entries
  <2>4. Unsent'
    BY <2>1, <2>2, <2>3 DEF Unsent, Sendable, Queueing
  <2> QED
    BY <2>1, <2>2, <2>3, <2>4 DEF Count, Matched, Answered
<1>17. CASE PutAwayFails
  <2>1. cur \in Entries /\ doubts[cur] + 1 <= MaxSent /\ doubts[cur] + 1 <= sent[cur]
    <3>1. pc = "answered"
      BY <1>17 DEF PutAwayFails
    <3> HIDE DEF TypeOK, Place, Count, Matched, Answered, Unsent, Entries
    <3>2. cur \in Entries
      BY <3>1, HandIsEntry
    <3> QED
      BY <3>1, <3>2, CountsAtHand, DoubtsBelow DEF Count, Answered
  <2>2. \A e \in Entries : doubts'[e] = IF e = cur THEN doubts[e] + 1 ELSE doubts[e]
    BY <1>17, <2>1, Raised DEF PutAwayFails
  <2>3. UNCHANGED <<sent, audio, used>> /\ cur' = 0 /\ pc' = "idle"
    BY <1>17 DEF PutAwayFails, Abort, EndFlush, queue
  <2>4. Matched /\ Unsent /\ TypeHub /\ pc = "answered"
    BY <1>17 DEF PutAwayFails
  <2> HIDE RecorderAssumption DEF TypeOK, TypeSources, TypeQueue, TypeHand, TypeHub, Place,
    Count, Matched, Answered, Unsent, Queueing, Sending, Entries
  <2>5. Matched'
    BY <2>1, <2>2, <2>3, <2>4 DEF Matched, TypeHub
  <2>6. Unsent'
    BY <2>1, <2>2, <2>3, <2>4 DEF Unsent, Sendable, Queueing, Matched, TypeHub
  <2> QED
    BY <2>3, <2>5, <2>6 DEF Count, Answered
<1>18. CASE RemoveDescription
  BY <1>18 DEF RemoveDescription, config, sources, hub, memory, runs
<1>19. CASE RemoveDescriptionFails
  BY <1>19 DEF RemoveDescriptionFails, Fault, Abort, EndFlush, config, sources, queue, hub,
    memory, runs
<1>20. ASSUME NEW c \in Clips, Hear(c) PROVE Count'
  BY <1>20 DEF Hear, NewEntry, config, queue, hub, runs
<1>21. ASSUME NEW c \in Clips, Arrive(c) PROVE Count'
  BY <1>21 DEF Arrive, config, queue, hub, memory, runs
<1>22. ASSUME NEW c \in Clips, Take(c) PROVE Count'
  BY <1>22 DEF Take, NewEntry, config, sources, queue, hub, runs
<1>23. ASSUME NEW e \in Entries, BeginUpload(e) PROVE Count'
  BY <1>23 DEF BeginUpload, config, sources, queue, hub, memory, runs
<1>24. ASSUME NEW e \in Entries, AudioMissing(e) PROVE Count'
  BY <1>24 DEF AudioMissing, Missing, config, sources, hub, memory, runs
<1>25. ASSUME NEW e \in Entries, Unreadable(e) PROVE Count'
  BY <1>25 DEF Unreadable, Abort, EndFlush, config, sources, queue, hub, memory, runs
<1>26. ASSUME NEW e \in Entries, ReadFails(e) PROVE Count'
  BY <1>26 DEF ReadFails, Fault, Abort, EndFlush, config, sources, queue, hub, memory, runs
<1> QED
  BY <1>1, <1>2, <1>3, <1>4, <1>5, <1>6, <1>7, <1>8, <1>9, <1>10, <1>11, <1>12, <1>13, <1>14,
    <1>15, <1>16, <1>17, <1>18, <1>19, <1>20, <1>21, <1>22, <1>23, <1>24, <1>25, <1>26 DEF
    Next, Work

\* NothingLost: audio goes only after it was stored (Answered), or was not whole.
LEMMA NothingLostInductive == TypeOK /\ Place /\ Count /\ NothingLost /\ [Next]_vars => NothingLost'
<1> SUFFICES ASSUME TypeOK, Place, Count, NothingLost, [Next]_vars PROVE NothingLost'
  OBVIOUS
<1> USE RecorderAssumption DEF TypeOK, TypeSources, TypeQueue, TypeHand, TypeHub, Place, Count,
  Matched, Answered, Unsent, Queueing, Sending, Entries, NothingLost, Whole
<1>1. CASE UNCHANGED vars
  BY <1>1 DEF vars, config, sources, queue, hub, memory, runs
<1>2. CASE Start
  BY <1>2 DEF Start, config, sources, queue, hub
<1>3. CASE Stop
  BY <1>3 DEF Stop, Forget, config, sources, queue, hub, runs
<1>4. CASE Crash
  <2>1. pc \in Queueing \cup Sending => cur \in Entries
    BY HandIsEntry
  <2>2. \A e \in 1..used : sent[e] > 0 => sent'[e] > 0
    <3>1. CASE pc = "upload" /\ sent[cur] < MaxSent
      <4>1. PICK n \in 0..1 : sent' = [sent EXCEPT ![cur] = sent[cur] + n]
        BY <1>4, <3>1 DEF Crash
      <4>2. \A e \in Entries : sent'[e] = IF e = cur THEN sent[e] + n ELSE sent[e]
        BY <2>1, <3>1, <4>1, Raised
      <4>3. 1..used \subseteq Entries /\ \A e \in Entries : sent[e] \in Nat
        BY UsedAreEntries
      <4> HIDE RecorderAssumption DEF TypeOK, TypeHub, Place, Count, Entries, NothingLost
      <4> QED
        BY <4>2, <4>3
    <3>2. CASE ~(pc = "upload" /\ sent[cur] < MaxSent)
      BY <1>4, <3>2 DEF Crash, hub
    <3> QED
      BY <3>1, <3>2
  <2>3. \A e \in 1..used : Whole(e) => Whole(e)'
    BY <1>4 DEF Crash, CutOff, queue
  <2>4. \A e \in 1..used :
           /\ e \in stranded => e \in stranded'
           /\ e = cur /\ pc \in Queueing => clip[e] \in outside \/ e \in stranded'
    BY <1>4 DEF Crash, Strands
  <2>5. UNCHANGED <<fresh, outside, used, clip>>
    BY <1>4 DEF Crash, sources
  <2> HIDE DEF NothingLost, Whole
  <2> QED
    BY <2>2, <2>3, <2>4, <2>5, EntriesKept
<1>5. CASE QueueFails
  BY <1>5 DEF QueueFails, Fault, CutOff, Strands, config, sources, queue, hub, memory, runs
<1>6. CASE Poll
  BY <1>6 DEF Poll, Unseen, config, sources, queue, hub, runs
<1>7. CASE SaveAudio
  <2>1. /\ audio \subseteq audio' /\ outside \ {clip[cur]} \subseteq outside'
        /\ pc' \in Queueing /\ pc \in Queueing
        /\ UNCHANGED <<fresh, used, clip, cur, desc, broken, sent, stranded>>
    BY <1>7 DEF SaveAudio, hub
  <2>2. cur \in 1..used
    BY <2>1, HandIsEntry
  <2> HIDE RecorderAssumption DEF TypeOK, TypeSources, TypeQueue, TypeHand, TypeHub, Place, Count,
    Matched, Answered, Unsent, Queueing, Sending, Entries
  <2> QED
    BY <2>1, <2>2
<1>8. CASE RemoveSource
  BY <1>8 DEF RemoveSource, config, queue, hub, memory, runs
<1>9. CASE Describe
  BY <1>9 DEF Describe, Remembered, config, sources, hub
<1>10. CASE ListQueue
  BY <1>10 DEF ListQueue, config, sources, queue, hub, memory, runs
<1>11. CASE ListFails
  BY <1>11 DEF ListFails, Fault, config, sources, queue, hub, memory, runs
<1>12. CASE FlushDone
  BY <1>12 DEF FlushDone, EndFlush, config, sources, queue, hub, memory, runs
<1>13. CASE UploadAccepted
  <2>1. cur \in Entries /\ sent[cur] + 1 <= MaxSent
    BY <1>13, HandIsEntry DEF UploadAccepted
  <2>2. \A e \in Entries : sent'[e] = IF e = cur THEN sent[e] + 1 ELSE sent[e]
    BY <1>13, <2>1, Raised DEF UploadAccepted
  <2>3. \A e \in 1..used : sent[e] > 0 => sent'[e] > 0
    <3>1. 1..used \subseteq Entries /\ \A e \in Entries : sent[e] \in Nat
      BY UsedAreEntries
    <3> HIDE RecorderAssumption DEF TypeOK, TypeHub, Place, Count, Entries, NothingLost
    <3> QED
      BY <2>2, <3>1
  <2>4. UNCHANGED <<fresh, outside, used, clip, audio, desc, broken, stranded>>
    BY <1>13 DEF UploadAccepted, sources, queue
  <2>5. pc \notin Queueing
    BY <1>13 DEF UploadAccepted
  <2> HIDE DEF NothingLost
  <2> QED
    BY <2>3, <2>4, <2>5, EntriesKept
<1>14. CASE UploadRefused
  BY <1>14 DEF UploadRefused, Refused, Abort, EndFlush, config, sources, queue, hub, memory,
    runs
<1>15. CASE UploadLost
  <2>1. cur \in Entries /\ sent[cur] + 1 <= MaxSent
    BY <1>15, HandIsEntry DEF UploadLost
  <2>2. \A e \in Entries : sent'[e] = IF e = cur THEN sent[e] + 1 ELSE sent[e]
    BY <1>15, <2>1, Raised DEF UploadLost
  <2>3. \A e \in 1..used : sent[e] > 0 => sent'[e] > 0
    <3>1. 1..used \subseteq Entries /\ \A e \in Entries : sent[e] \in Nat
      BY UsedAreEntries
    <3> HIDE RecorderAssumption DEF TypeOK, TypeHub, Place, Count, Entries, NothingLost
    <3> QED
      BY <2>2, <3>1
  <2>4. UNCHANGED <<fresh, outside, used, clip, audio, desc, broken, stranded>>
    BY <1>15 DEF UploadLost, sources, queue
  <2>5. pc \notin Queueing
    BY <1>15 DEF UploadLost
  <2> HIDE DEF NothingLost
  <2> QED
    BY <2>3, <2>4, <2>5, EntriesKept
<1>16. CASE PutAway
  BY <1>16 DEF PutAway, CanPutAway, config, sources, hub, memory, runs
<1>17. CASE PutAwayFails
  BY <1>17 DEF PutAwayFails, CanPutAway, Fault, Abort, EndFlush, config, sources, queue,
    memory, runs
<1>18. CASE RemoveDescription
  BY <1>18 DEF RemoveDescription, config, sources, hub, memory, runs
<1>19. CASE RemoveDescriptionFails
  BY <1>19 DEF RemoveDescriptionFails, Fault, Abort, EndFlush, config, sources, queue, hub,
    memory, runs
<1>20. ASSUME NEW c \in Clips, Hear(c) PROVE NothingLost'
  BY <1>20 DEF Hear, NewEntry, config, queue, hub, runs
<1>21. ASSUME NEW c \in Clips, Arrive(c) PROVE NothingLost'
  BY <1>21 DEF Arrive, config, queue, hub, memory, runs
<1>22. ASSUME NEW c \in Clips, Take(c) PROVE NothingLost'
  BY <1>22 DEF Take, NewEntry, config, sources, queue, hub, runs
<1>23. ASSUME NEW e \in Entries, BeginUpload(e) PROVE NothingLost'
  BY <1>23 DEF BeginUpload, config, sources, queue, hub, memory, runs
<1>24. ASSUME NEW e \in Entries, AudioMissing(e) PROVE NothingLost'
  BY <1>24 DEF AudioMissing, Missing, config, sources, hub, memory, runs
<1>25. ASSUME NEW e \in Entries, Unreadable(e) PROVE NothingLost'
  BY <1>25 DEF Unreadable, Abort, EndFlush, config, sources, queue, hub, memory, runs
<1>26. ASSUME NEW e \in Entries, ReadFails(e) PROVE NothingLost'
  BY <1>26 DEF ReadFails, Fault, Abort, EndFlush, config, sources, queue, hub, memory, runs
<1> QED
  BY <1>1, <1>2, <1>3, <1>4, <1>5, <1>6, <1>7, <1>8, <1>9, <1>10, <1>11, <1>12, <1>13, <1>14,
    <1>15, <1>16, <1>17, <1>18, <1>19, <1>20, <1>21, <1>22, <1>23, <1>24, <1>25, <1>26 DEF
    Next, Work

\* The turn of an entry: one that is whole leaves the flush only as the one at hand.
LEMMA TurnStep == TypeQueue /\ TypeHand /\ Place /\ Turn /\ [Next]_vars => Turn'
<1> SUFFICES ASSUME TypeQueue, TypeHand, Place, Turn, [Next]_vars PROVE Turn'
  OBVIOUS
<1> USE RecorderAssumption DEF Turn, Flushing, Queueing, Sending, Whole
<1>1. CASE UNCHANGED vars
  BY <1>1 DEF vars, queue, Before
<1>2. CASE Start
  BY <1>2 DEF Start
<1>3. CASE Stop
  BY <1>3 DEF Stop
<1>4. CASE Crash
  BY <1>4 DEF Crash
<1>5. CASE QueueFails
  <2>1. /\ pc \in Queueing /\ pc' \in {"stopped", "idle"}
        /\ UNCHANGED <<used, clip, blocked>>
    BY <1>5 DEF QueueFails
  <2>2. \A e \in 1..used : Whole(e)' => Whole(e)
    BY <1>5 DEF QueueFails, CutOff, Place, queue
  <2> HIDE DEF Whole
  <2> QED
    BY <2>1, <2>2 DEF Before
<1>6. CASE Poll
  BY <1>6 DEF Poll, queue, Before
<1>7. CASE SaveAudio
  <2>1. /\ pc \in Queueing /\ pc' \in Queueing /\ UNCHANGED <<used, clip, blocked>>
        /\ \A e \in 1..used : Whole(e)' => Whole(e)
    BY <1>7 DEF SaveAudio, Place
  <2> HIDE DEF Whole
  <2> QED
    BY <2>1 DEF Before
<1>8. CASE RemoveSource
  BY <1>8 DEF RemoveSource, queue, Before
<1>9. CASE Describe
  BY <1>9 DEF Describe
<1>10. CASE ListQueue
  BY <1>10 DEF ListQueue, queue
<1>11. CASE ListFails
  BY <1>11 DEF ListFails, queue
<1>12. CASE FlushDone
  BY <1>12 DEF FlushDone, EndFlush, TypeHand, queue
<1>13. CASE UploadAccepted
  BY <1>13 DEF UploadAccepted, Accepted, queue, Before
<1>14. CASE UploadRefused
  BY <1>14 DEF UploadRefused, Refused, Abort, EndFlush, queue, Before
<1>15. CASE UploadLost
  BY <1>15 DEF UploadLost, Abort, EndFlush, queue, Before
<1>16. CASE PutAway
  BY <1>16 DEF PutAway, Before
<1>17. CASE PutAwayFails
  BY <1>17 DEF PutAwayFails, Abort, EndFlush, queue, Before
<1>18. CASE RemoveDescription
  BY <1>18 DEF RemoveDescription, Place
<1>19. CASE RemoveDescriptionFails
  BY <1>19 DEF RemoveDescriptionFails, Abort, EndFlush, queue, Before
<1>20. ASSUME NEW c \in Clips, Hear(c) PROVE Turn'
  <2>1. /\ clip' = [f \in 1..(used + 1) |-> IF f = used + 1 THEN c ELSE clip[f]]
        /\ pc = "idle" /\ pc' = "audio"
        /\ UNCHANGED <<audio, desc, broken, blocked>>
    BY <1>20 DEF Hear, NewEntry, queue
  <2>2. /\ \A f \in 1..used : clip'[f] = clip[f]
        /\ audio \subseteq 1..used /\ blocked \subseteq 1..used /\ used \in Nat
    BY <2>1 DEF TypeQueue
  <2>3. \A f \in 1..used' : Whole(f)' => f \in 1..used /\ Whole(f)
    BY <2>1, <2>2 DEF Whole
  <2>4. \A f \in 1..used : Whole(f) => \E b \in blocked : b = f \/ Before(b, f)
    BY <2>1
  <2>5. \A b \in blocked, f \in 1..used : Before(b, f) => Before(b, f)'
    BY <2>2 DEF Before
  <2> QED
    BY <2>1, <2>3, <2>4, <2>5
<1>21. ASSUME NEW c \in Clips, Arrive(c) PROVE Turn'
  BY <1>21 DEF Arrive, queue, Before
<1>22. ASSUME NEW c \in Clips, Take(c) PROVE Turn'
  <2>1. /\ clip' = [f \in 1..(used + 1) |-> IF f = used + 1 THEN c ELSE clip[f]]
        /\ pc = "idle" /\ pc' = "audio"
        /\ UNCHANGED <<audio, desc, broken, blocked>>
    BY <1>22 DEF Take, NewEntry, queue
  <2>2. /\ \A f \in 1..used : clip'[f] = clip[f]
        /\ audio \subseteq 1..used /\ blocked \subseteq 1..used /\ used \in Nat
    BY <2>1 DEF TypeQueue
  <2>3. \A f \in 1..used' : Whole(f)' => f \in 1..used /\ Whole(f)
    BY <2>1, <2>2 DEF Whole
  <2>4. \A f \in 1..used : Whole(f) => \E b \in blocked : b = f \/ Before(b, f)
    BY <2>1
  <2>5. \A b \in blocked, f \in 1..used : Before(b, f) => Before(b, f)'
    BY <2>2 DEF Before
  <2> QED
    BY <2>1, <2>3, <2>4, <2>5
<1>23. ASSUME NEW e \in Entries, BeginUpload(e) PROVE Turn'
  BY <1>23 DEF BeginUpload, IsNext, queue, Before, TypeHand
<1>24. ASSUME NEW e \in Entries, AudioMissing(e) PROVE Turn'
  BY <1>24 DEF AudioMissing, Missing, TypeHand
<1>25. ASSUME NEW e \in Entries, Unreadable(e) PROVE Turn'
  BY <1>25 DEF Unreadable, IsNext, Abort, EndFlush, queue, Before, TypeHand
<1>26. ASSUME NEW e \in Entries, ReadFails(e) PROVE Turn'
  <2>1. /\ pc = "flush" /\ cur = 0 /\ IsNext(e)
        /\ UNCHANGED <<used, clip, audio, desc, broken>>
    BY <1>26 DEF ReadFails, TypeHand, queue
  <2>2. CASE e \in audio
    BY <1>26, <2>1, <2>2 DEF ReadFails, Abort, EndFlush, IsNext, Before
  <2>3. CASE e \notin audio
    BY <1>26, <2>1, <2>3 DEF ReadFails
  <2> QED
    BY <2>2, <2>3
<1> QED
  BY <1>1, <1>2, <1>3, <1>4, <1>5, <1>6, <1>7, <1>8, <1>9, <1>10, <1>11, <1>12, <1>13, <1>14,
    <1>15, <1>16, <1>17, <1>18, <1>19, <1>20, <1>21, <1>22, <1>23, <1>24, <1>25, <1>26 DEF
    Next, Work

\* A file is queued once: what is described is gone from where it came from, or remembered.
LEMMA OnceStep == TypeSources /\ TypeQueue /\ TypeHand /\ Place /\ Once /\ [Next]_vars => Once'
<1> SUFFICES ASSUME TypeSources, TypeQueue, TypeHand, Place, Once, [Next]_vars PROVE Once'
  OBVIOUS
<1> USE RecorderAssumption DEF Once, Queueing
<1>1. CASE UNCHANGED vars
  BY <1>1 DEF vars, config, sources, memory, runs, Described, QueuedOnce
<1>2. CASE Start
  <2>1. UNCHANGED <<mode, fresh, outside, batch, seen, clip>> /\ pc' = "list" /\ pc = "stopped"
    BY <1>2 DEF Start, config, sources
  <2>2. thisRun' = {} /\ Described' = Described
    BY <1>2 DEF Start, Described
  <2>3. QueuedOnce'
    BY <2>1, <2>2 DEF QueuedOnce, Described
  <2> QED
    BY <2>1, <2>2, <2>3
<1>3. CASE Stop
  BY <1>3 DEF Stop, Forget, config, sources, runs, Described, QueuedOnce
<1>4. CASE Crash
  BY <1>4 DEF Crash, Forget, config, sources, runs, Described, QueuedOnce
<1>5. CASE QueueFails
  BY <1>5 DEF QueueFails, config, sources, memory, runs, Described, QueuedOnce
<1>6. CASE Poll
  <2>1. /\ mode # "mic" /\ pc = "idle" /\ batch' = Unseen
        /\ UNCHANGED <<mode, fresh, outside, seen, clip, pc, cur, thisRun, earlier>>
    BY <1>6 DEF Poll, config, sources, runs
  <2>2. Unseen \cap seen = {}
    BY DEF Unseen, Place
  <2> QED
    BY <2>1, <2>2 DEF Described, QueuedOnce
<1>7. CASE SaveAudio
  BY <1>7 DEF SaveAudio, TypeSources, config, memory, runs, Described, QueuedOnce
<1>8. CASE RemoveSource
  BY <1>8 DEF RemoveSource, config, memory, runs, Described, QueuedOnce, Place
<1>9. CASE Describe
  <2>1. /\ pc = "describe" /\ pc' \in {"stopped", "list"} /\ thisRun' = thisRun \cup {cur}
        /\ seen' = Remembered
        /\ UNCHANGED <<mode, fresh, outside, batch, clip, earlier>>
    BY <1>9 DEF Describe, config, sources
  <2>2. Described' = Described \cup {cur}
    BY <2>1 DEF Described
  <2>3. QueuedOnce'
    BY <2>1, <2>2 DEF QueuedOnce, Described
  <2>4. /\ batch \cap Remembered = {} /\ seen \subseteq Remembered
        /\ mode = "replay" => Remembered = seen \cup {clip[cur]}
    BY <2>1 DEF Remembered
  <2>5. mode # "replay" => \A e \in Described' : clip[e] \notin fresh \cup outside
    BY <2>1, <2>2
  <2>6. mode = "replay" => \A e \in thisRun' : clip[e] \in Remembered
    BY <2>1, <2>4
  <2> HIDE DEF QueuedOnce
  <2> QED
    BY <2>1, <2>3, <2>4, <2>5, <2>6
<1>10. CASE ListQueue
  BY <1>10 DEF ListQueue, config, sources, memory, runs, Described, QueuedOnce
<1>11. CASE ListFails
  BY <1>11 DEF ListFails, config, sources, memory, runs, Described, QueuedOnce
<1>12. CASE FlushDone
  BY <1>12 DEF FlushDone, EndFlush, config, sources, memory, runs, Described, QueuedOnce
<1>13. CASE UploadAccepted
  BY <1>13 DEF UploadAccepted, Accepted, config, sources, memory, runs, Described, QueuedOnce
<1>14. CASE UploadRefused
  BY <1>14 DEF UploadRefused, Refused, Abort, EndFlush, config, sources, memory, runs, Described, QueuedOnce
<1>15. CASE UploadLost
  BY <1>15 DEF UploadLost, Abort, EndFlush, config, sources, memory, runs, Described, QueuedOnce
<1>16. CASE PutAway
  BY <1>16 DEF PutAway, config, sources, memory, runs, Described, QueuedOnce
<1>17. CASE PutAwayFails
  BY <1>17 DEF PutAwayFails, Abort, EndFlush, config, sources, memory, runs, Described, QueuedOnce
<1>18. CASE RemoveDescription
  BY <1>18 DEF RemoveDescription, config, sources, memory, runs, Described, QueuedOnce
<1>19. CASE RemoveDescriptionFails
  BY <1>19 DEF RemoveDescriptionFails, Abort, EndFlush, config, sources, memory, runs, Described, QueuedOnce
<1>20. ASSUME NEW c \in Clips, Hear(c) PROVE Once'
  <2>1. /\ used' = used + 1 /\ cur' = used + 1 /\ pc' = "audio" /\ pc = "idle"
        /\ clip' = [f \in 1..(used + 1) |-> IF f = used + 1 THEN c ELSE clip[f]]
        /\ UNCHANGED <<mode, outside, seen, thisRun, earlier>>
    BY <1>20 DEF Hear, NewEntry, config, sources, runs
  <2>2. mode = "mic" /\ c \in fresh /\ fresh' = fresh \ {c} /\ batch' = batch /\ batch \subseteq outside
    BY <1>20 DEF Hear, sources, TypeSources
  <2>3. /\ clip'[cur'] = c /\ cur' \notin Described
        /\ \A e \in Described : clip'[e] = clip[e]
    BY <2>1 DEF TypeQueue, Described
  <2>4. \A e \in IF mode = "replay" THEN thisRun ELSE Described : clip[e] # c
    BY <2>2 DEF Described
  <2>5. QueuedOnce'
    BY <2>1, <2>3 DEF QueuedOnce, Described
  <2> QED
    BY <2>1, <2>2, <2>3, <2>4, <2>5 DEF Described
<1>21. ASSUME NEW c \in Clips, Arrive(c) PROVE Once'
  <2>1. /\ mode = "folder" /\ c \in fresh /\ fresh' = fresh \ {c} /\ outside' = outside \cup {c}
        /\ UNCHANGED <<mode, clip, pc, cur, batch, seen, thisRun, earlier>>
    BY <1>21 DEF Arrive, config, memory, runs
  <2>2. seen = {} /\ batch \subseteq outside
    BY <2>1 DEF Place, TypeSources
  <2> QED
    BY <2>1, <2>2 DEF Described, QueuedOnce
<1>22. ASSUME NEW c \in Clips, Take(c) PROVE Once'
  <2>1. /\ used' = used + 1 /\ cur' = used + 1 /\ pc' = "audio" /\ pc = "idle"
        /\ clip' = [f \in 1..(used + 1) |-> IF f = used + 1 THEN c ELSE clip[f]]
        /\ UNCHANGED <<mode, outside, seen, thisRun, earlier>>
    BY <1>22 DEF Take, NewEntry, config, sources, runs
  <2>2. c \in batch /\ c \in outside /\ batch' = batch \ {c} /\ fresh' = fresh
    BY <1>22 DEF Take, sources, TypeSources
  <2>3. /\ clip'[cur'] = c /\ cur' \notin Described
        /\ \A e \in Described : clip'[e] = clip[e]
    BY <2>1 DEF TypeQueue, Described
  <2>4. \A e \in IF mode = "replay" THEN thisRun ELSE Described : clip[e] # c
    BY <2>1, <2>2 DEF Described
  <2>5. QueuedOnce'
    BY <2>1, <2>3 DEF QueuedOnce, Described
  <2> QED
    BY <2>1, <2>2, <2>3, <2>4, <2>5 DEF Described
<1>23. ASSUME NEW e \in Entries, BeginUpload(e) PROVE Once'
  BY <1>23 DEF BeginUpload, config, sources, memory, runs, Described, QueuedOnce
<1>24. ASSUME NEW e \in Entries, AudioMissing(e) PROVE Once'
  BY <1>24 DEF AudioMissing, Missing, config, sources, memory, runs, Described, QueuedOnce
<1>25. ASSUME NEW e \in Entries, Unreadable(e) PROVE Once'
  BY <1>25 DEF Unreadable, Abort, EndFlush, config, sources, memory, runs, Described, QueuedOnce
<1>26. ASSUME NEW e \in Entries, ReadFails(e) PROVE Once'
  BY <1>26 DEF ReadFails, Abort, EndFlush, config, sources, memory, runs, Described, QueuedOnce
<1> QED
  BY <1>1, <1>2, <1>3, <1>4, <1>5, <1>6, <1>7, <1>8, <1>9, <1>10, <1>11, <1>12, <1>13, <1>14,
    <1>15, <1>16, <1>17, <1>18, <1>19, <1>20, <1>21, <1>22, <1>23, <1>24, <1>25, <1>26 DEF
    Next, Work

\* The initial states.
LEMMA InitIInv == Init => IInv
<1> SUFFICES ASSUME Init PROVE IInv
  OBVIOUS
<1> USE RecorderAssumption DEF Init
<1>1. TypeSources
  <2>1. outside \subseteq Clips
    BY Zenon
  <2>2. faults \in 0..MaxFaults
    OBVIOUS
  <2>3. moves \in BOOLEAN /\ ending \in BOOLEAN
    BY Zenon
  <2>4. /\ mode \in {"mic", "folder", "replay"}
        /\ fresh \subseteq Clips /\ processed \subseteq Clips
        /\ batch \subseteq outside /\ seen \subseteq outside
    BY Zenon
  <2> QED
    BY <2>1, <2>2, <2>3, <2>4, Zenon DEF TypeSources
<1>6. TypeHub
  BY DEF TypeHub
<1>2. clip \in [1..used -> Clips]
  OBVIOUS
<1>3. TypeQueue /\ TypeHand
  BY <1>2 DEF TypeQueue, TypeHand, Queueing, Sending
<1>4. Place /\ NothingLost
  BY DEF Place, Queueing, Sending, NothingLost
<1>7. Turn /\ Once
  BY <1>1 DEF Turn, Flushing, Once, Described, QueuedOnce, Queueing, Sending
<1>5. Count
  BY DEF Count, Matched, Answered, Unsent, Entries
<1> QED
  BY <1>1, <1>3, <1>4, <1>5, <1>6, <1>7 DEF IInv, TypeOK

\* Every step.
LEMMA NextIInv == IInv /\ [Next]_vars => IInv'
  BY TypeInductive, PlaceInductive, CountInductive, NothingLostInductive, TurnStep, OnceStep
  DEF IInv, TypeOK

\* The invariant, in every reachable state.
LEMMA Inductive == Spec => []IInv
<1>1. Init => IInv
  BY InitIInv
<1>2. IInv /\ [Next]_vars => IInv'
  BY NextIInv
<1> QED
  BY <1>1, <1>2, PTL DEF Spec

-----------------------------------------------------------------------------
\* TypeOK: what the recorder has at hand is an entry it gave out, what it is to send is
\* described, and what it reads is in the folder.
THEOREM TypeCorrect == Spec => []TypeOK
<1>1. IInv => TypeOK
  BY DEF IInv
<1> QED
  BY <1>1, Inductive, PTL

\* QueueCall, QueueExternalFile, UploadOne: at every point where the recorder may die, what
\* turned up is in its folder, on its way, whole in the queue, stored by the hub, or was
\* stranded by a failure between the two files.
THEOREM ClipsAreKept == Spec => []NothingLost
<1>1. IInv => NothingLost
  BY DEF IInv
<1> QED
  BY <1>1, Inductive, PTL

\* UploadOne: every second copy has an upload behind it whose success the recorder could
\* not know, or could not act on.
THEOREM CopiesAreExplained == Spec => []SentOnce
<1>1. IInv => SentOnce
  BY DEF IInv, Count, Matched, SentOnce
<1> QED
  BY <1>1, Inductive, PTL

\* main.go: a clip that turned up is neither lost nor needlessly repeated, wherever the
\* recorder fails, stops or dies.
THEOREM ClipsAreAccounted == Spec => []ClipsAccounted
<1>1. IInv => ClipsAccounted
  BY DEF IInv, Count, Matched, SentOnce, ClipsAccounted
<1> QED
  BY <1>1, Inductive, PTL
\* processFolderIngestBatch, FlushQueue: a file is queued once (a replayed one once in a run),
\* and an idle recorder has offered its queue oldest first, through failures and crashes.
THEOREM QueueIsInOrder == Spec => []QueuedInOrder
<1>1. IInv => QueuedInOrder
  <2> SUFFICES ASSUME IInv, pc = "idle", NEW e \in audio \cap desc, Whole(e)
               PROVE  \E b \in blocked : b = e \/ Before(b, e)
    BY DEF IInv, Once, QueuedInOrder, OldestOffered
  <2> QED
    BY DEF IInv, Turn, TypeOK, TypeQueue
<1> QED
  BY <1>1, Inductive, PTL
=============================================================================
