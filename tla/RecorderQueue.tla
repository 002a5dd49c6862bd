---------------------------- MODULE RecorderQueue ----------------------------
(***************************************************************************)
(* The recorder's queue directory.  A clip (a burst of sound, or a file     *)
(* dropped into a watched folder) becomes an audio file and then a          *)
(* description beside it; a flush sends the described clips, oldest first,  *)
(* until one fails; what was accepted is moved away or removed, audio       *)
(* first.  Nothing but these files survives a crash.                        *)
(* (src/tools/p7-recorder-go/cmd/p7-recorder-go/main.go)                    *)
(***************************************************************************)
EXTENDS Naturals, FiniteSets

CONSTANTS
    Clips,          \* sounds and files that may turn up
    StampOf(_),     \* startedAt, or the file's modification time, in seconds
    MaxEntries,     \* bound: clips put into the queue
    MaxSent,        \* bound: times one clip is stored by the hub
    MaxFaults       \* bound: failed file operations, lost answers, crashes

ASSUME RecorderAssumption ==
    /\ IsFiniteSet(Clips)
    /\ \A c \in Clips : StampOf(c) \in Nat
    /\ MaxEntries \in Nat
    /\ MaxSent \in Nat
    /\ MaxFaults \in Nat

VARIABLES
    mode,       \* mic, folder (folder_ingest) or replay (reprocess_processed)
    moves,      \* are the queue and the processed folder on one file system?
    fresh,      \* clips still to come
    outside,    \* files in the folder that is read
    processed,  \* files moved to the processed folder after their upload
    used,       \* entries 1..used were given a stem
    clip,       \* clip[e]: what entry e holds
    audio,      \* entries with an audio file in the queue
    desc,       \* entries with a description in the queue
    broken,     \* entries whose description was cut off while it was written
    pc,         \* where the recorder is
    cur,        \* the entry it works on (0: none)
    batch,      \* files of the poll under way that are still to be queued
    seen,       \* replayed files, remembered in memory
    todo,       \* descriptions the flush under way has still to send
    ending,     \* has the recorder been told to stop?
    sent,       \* sent[e]: times the hub stored entry e (history)
    doubts,     \* doubts[e]: times it did so and the recorder could not tell, or
                \* could not put the audio away (history)
    blocked,    \* what the last flush stopped at (history)
    thisRun,    \* entries described since the recorder started (history)
    earlier,    \* entries described in earlier runs (history)
    stranded,   \* entries a failure left between their two files (history)
    faults

config == <<mode, moves>>
sources == <<fresh, outside>>
queue == <<audio, desc, broken>>
hub == <<sent, doubts>>
memory == <<batch, seen, ending>>
runs == <<thisRun, earlier>>
vars == <<config, sources, processed, used, clip, queue, pc, cur, memory, runs, todo,
          hub, blocked, stranded, faults>>

Entries == 1..MaxEntries

TypeSources ==
    /\ mode \in {"mic", "folder", "replay"}
    /\ moves \in BOOLEAN
    /\ fresh \subseteq Clips /\ outside \subseteq Clips
    /\ processed \subseteq Clips
    /\ batch \subseteq outside
    /\ seen \subseteq outside
    /\ ending \in BOOLEAN
    /\ faults \in 0..MaxFaults

TypeQueue ==
    /\ used \in 0..MaxEntries
    /\ clip \in [1..used -> Clips]
    /\ audio \subseteq 1..used
    /\ desc \subseteq 1..used
    /\ broken \subseteq desc
    /\ todo \subseteq desc
    /\ blocked \subseteq 1..used
    /\ thisRun \subseteq 1..used /\ earlier \subseteq 1..used
    /\ stranded \subseteq 1..used

Sending == {"upload", "answered", "cleared"}
Queueing == {"audio", "copied", "describe"}

TypeHand ==
    /\ pc \in {"stopped", "idle", "list", "flush"} \cup Queueing \cup Sending
    /\ cur \in 0..used
    /\ pc \in Queueing \cup Sending <=> cur # 0
    /\ todo # {} => pc \in {"flush"} \cup Sending

TypeHub ==
    /\ sent \in [Entries -> 0..MaxSent]
    /\ doubts \in [Entries -> 0..MaxSent]

TypeOK == TypeSources /\ TypeQueue /\ TypeHand /\ TypeHub

Init ==
    /\ mode \in {"mic", "folder", "replay"}
    /\ moves \in BOOLEAN
    /\ outside \in IF mode = "replay" THEN SUBSET Clips ELSE {{}}
    /\ fresh = Clips \ outside
    /\ processed = {}
    /\ used = 0 /\ clip = <<>>
    /\ audio = {} /\ desc = {} /\ broken = {}
    /\ pc = "stopped" /\ cur = 0
    /\ batch = {} /\ seen = {} /\ todo = {} /\ ending = FALSE
    /\ sent = [e \in Entries |-> 0] /\ doubts = [e \in Entries |-> 0]
    /\ blocked = {} /\ thisRun = {} /\ earlier = {} /\ stranded = {}
    /\ faults = 0

\* Stems sort by the clip's time, then by the time it was queued.
Before(e, f) ==
    \/ StampOf(clip[e]) < StampOf(clip[f])
    \/ StampOf(clip[e]) = StampOf(clip[f]) /\ e < f

Fault == faults < MaxFaults /\ faults' = faults + 1

-----------------------------------------------------------------------------
(* Starting and stopping.                                                   *)

\* Run: flush what earlier runs left, then record or watch.
Start ==
    /\ pc = "stopped"
    /\ pc' = "list"
    /\ earlier' = earlier \cup thisRun /\ thisRun' = {}
    /\ ending' = FALSE
    /\ UNCHANGED <<config, sources, processed, used, clip, queue, cur, batch, seen, todo,
                   hub, blocked, stranded, faults>>

Forget == batch' = {} /\ seen' = {} /\ todo' = {} /\ cur' = 0

\* Ctrl+C is noticed between clips and between polls.
Stop ==
    /\ pc = "idle" /\ batch = {}
    /\ pc' = "stopped"
    /\ Forget
    /\ UNCHANGED <<config, sources, processed, used, clip, queue, ending, runs,
                   hub, blocked, stranded, faults>>

\* The entry being queued has left its source and has no description to go with it.
Strands == pc \in Queueing /\ clip[cur] \notin outside

CutOff ==
    CASE pc = "audio" -> /\ audio' \in {audio, audio \cup {cur}}
                         /\ UNCHANGED <<desc, broken>>
      [] pc = "describe" -> \E cut \in {{}, {cur}} : /\ desc' = desc \cup cut
                                                    /\ broken' = broken \cup cut
                                                    /\ UNCHANGED audio
      [] OTHER -> UNCHANGED queue

\* A file that was being written may be there in part, an upload under way may have been
\* stored.
Crash ==
    /\ pc # "stopped" /\ Fault
    /\ pc' = "stopped"
    /\ Forget
    /\ CutOff
    /\ stranded' = IF Strands THEN stranded \cup {cur} ELSE stranded
    /\ CASE pc = "answered" -> doubts' = [doubts EXCEPT ![cur] = @ + 1] /\ UNCHANGED sent
         [] pc = "upload" /\ sent[cur] < MaxSent ->
                \E n \in {0, 1} : /\ sent' = [sent EXCEPT ![cur] = @ + n]
                                  /\ doubts' = [doubts EXCEPT ![cur] = @ + n]
         [] OTHER -> UNCHANGED hub
    /\ UNCHANGED <<config, sources, processed, used, clip, ending, runs, blocked>>

-----------------------------------------------------------------------------
(* From a sound or a file to an entry of the queue.                         *)

NewEntry(c) ==
    /\ used < MaxEntries
    /\ used' = used + 1
    /\ clip' = [e \in 1..(used + 1) |-> IF e = used + 1 THEN c ELSE clip[e]]
    /\ cur' = used + 1
    /\ pc' = "audio"

\* A burst is over (sounds come in the order of their time), or Ctrl+C cut it off.
Hear(c) ==
    /\ mode = "mic" /\ pc = "idle"
    /\ c \in fresh /\ \A d \in fresh : StampOf(c) <= StampOf(d)
    /\ fresh' = fresh \ {c}
    /\ NewEntry(c)
    /\ ending' \in BOOLEAN
    /\ UNCHANGED <<config, outside, processed, queue, batch, seen, runs, todo,
                   hub, blocked, stranded, faults>>

\* A finished file appears in the watched folder, at any time.
Arrive(c) ==
    /\ mode = "folder" /\ c \in fresh
    /\ fresh' = fresh \ {c}
    /\ outside' = outside \cup {c}
    /\ UNCHANGED <<config, processed, used, clip, queue, pc, cur, memory, runs, todo,
                   hub, blocked, stranded, faults>>

\* The listing of processFolderIngestBatch.
Unseen == IF mode = "replay" THEN outside \ seen ELSE outside
Poll ==
    /\ mode # "mic" /\ pc = "idle" /\ batch = {}
    /\ Unseen # {}
    /\ batch' = Unseen
    /\ UNCHANGED <<config, sources, processed, used, clip, queue, pc, cur, seen, ending,
                   runs, todo, hub, blocked, stranded, faults>>

\* The next file of the batch; names, which order the listing, are arbitrary.
Take(c) ==
    /\ pc = "idle" /\ c \in batch
    /\ batch' = batch \ {c}
    /\ NewEntry(c)
    /\ UNCHANGED <<config, sources, processed, queue, seen, ending, runs, todo,
                   hub, blocked, stranded, faults>>

\* The WAV is written, or the replayed file is copied; a watched file is renamed, or
\* copied where the rename fails (as it does across file systems).
SaveAudio ==
    /\ pc = "audio"
    /\ audio' = audio \cup {cur}
    /\ \/ mode # "folder" /\ pc' = "describe" /\ UNCHANGED outside
       \/ mode = "folder" /\ pc' = "describe" /\ outside' = outside \ {clip[cur]}
       \/ mode = "folder" /\ pc' = "copied" /\ UNCHANGED outside
    /\ UNCHANGED <<config, fresh, processed, used, clip, desc, broken, cur, memory, runs, todo,
                   hub, blocked, stranded, faults>>

\* os.Remove after copyFile.
RemoveSource ==
    /\ pc = "copied"
    /\ outside' = outside \ {clip[cur]}
    /\ pc' = "describe"
    /\ UNCHANGED <<config, fresh, processed, used, clip, queue, cur, memory, runs, todo,
                   hub, blocked, stranded, faults>>

\* A replayed file is remembered once it is queued.
FaultRemembered == seen
Remembered == IF mode = "replay" THEN seen \cup {clip[cur]} ELSE seen

\* A clip cut off by Ctrl+C is queued and not sent.
Describe ==
    /\ pc = "describe"
    /\ desc' = desc \cup {cur}
    /\ seen' = Remembered
    /\ thisRun' = thisRun \cup {cur}
    /\ cur' = 0
    /\ pc' = IF ending THEN "stopped" ELSE "list"
    /\ UNCHANGED <<config, sources, processed, used, clip, audio, broken, batch, ending,
                   earlier, todo, hub, blocked, stranded, faults>>

\* Writing, renaming, copying or removing fails and may leave part of a file.  A mic
\* recorder returns the error and ends; folder ingest goes on with the next file.
QueueFails ==
    /\ pc \in Queueing /\ Fault
    /\ pc' = IF mode = "mic" THEN "stopped" ELSE "idle"
    /\ CutOff
    /\ stranded' = IF Strands THEN stranded \cup {cur} ELSE stranded
    /\ cur' = 0
    /\ UNCHANGED <<config, sources, processed, used, clip, memory, runs, todo, hub, blocked>>

-----------------------------------------------------------------------------
(* FlushQueue and UploadOne.                                                *)

ListQueue ==
    /\ pc = "list"
    /\ todo' = desc
    /\ blocked' = {}
    /\ pc' = "flush"
    /\ UNCHANGED <<config, sources, processed, used, clip, queue, cur, memory, runs,
                   hub, stranded, faults>>

ListFails ==
    /\ pc = "list" /\ Fault
    /\ blocked' = desc
    /\ pc' = "idle"
    /\ UNCHANGED <<config, sources, processed, used, clip, queue, cur, memory, runs, todo,
                   hub, stranded>>

IsNext(e) == \A f \in todo \ {e} : Before(e, f)

\* An error, or an answer that is not 2xx, ends the flush.
FaultEndFlush == pc' = "idle" /\ UNCHANGED todo /\ cur' = 0
EndFlush == pc' = "idle" /\ todo' = {} /\ cur' = 0
Abort(e) == EndFlush /\ blocked' = {e}

\* Description and audio are read.
BeginUpload(e) ==
    /\ pc = "flush" /\ e \in todo /\ IsNext(e)
    /\ e \in audio /\ e \notin broken
    /\ cur' = e /\ pc' = "upload"
    /\ todo' = todo \ {e}
    /\ UNCHANGED <<config, sources, processed, used, clip, queue, memory, runs,
                   hub, blocked, stranded, faults>>

\* The audio is gone: the description goes too, and the flush goes on.
FaultMissing(e) == Abort(e) /\ UNCHANGED desc
Missing(e) == desc' = desc \ {e} /\ todo' = todo \ {e} /\ UNCHANGED <<pc, cur, blocked>>
AudioMissing(e) ==
    /\ pc = "flush" /\ e \in todo /\ IsNext(e)
    /\ e \notin audio
    /\ Missing(e)
    /\ broken' = broken \ {e}
    /\ UNCHANGED <<config, sources, processed, used, clip, audio, memory, runs,
                   hub, stranded, faults>>

\* A description that was cut off cannot be parsed.
Unreadable(e) ==
    /\ pc = "flush" /\ e \in todo /\ IsNext(e)
    /\ e \in audio /\ e \in broken
    /\ Abort(e)
    /\ UNCHANGED <<config, sources, processed, used, clip, queue, memory, runs,
                   hub, stranded, faults>>

\* A file of the entry cannot be read or removed.
ReadFails(e) ==
    /\ pc = "flush" /\ e \in todo /\ IsNext(e) /\ Fault
    /\ IF e \in audio
       THEN Abort(e)
       ELSE todo' = todo \ {e} /\ UNCHANGED <<pc, cur, blocked>>
    /\ UNCHANGED <<config, sources, processed, used, clip, queue, memory, runs, hub, stranded>>

Accepted == pc' = "answered" /\ UNCHANGED <<cur, todo, blocked>>
UploadAccepted ==
    /\ pc = "upload" /\ sent[cur] < MaxSent
    /\ sent' = [sent EXCEPT ![cur] = @ + 1]
    /\ Accepted
    /\ UNCHANGED <<config, sources, processed, used, clip, queue, memory, runs,
                   doubts, stranded, faults>>

\* The hub is unreachable, or it answers and has stored nothing.
FaultRefused == pc' = "answered" /\ UNCHANGED <<cur, todo, blocked>>
Refused == Abort(cur)
UploadRefused ==
    /\ pc = "upload"
    /\ Refused
    /\ UNCHANGED <<config, sources, processed, used, clip, queue, memory, runs,
                   hub, stranded, faults>>

\* The hub stores the clip and its answer is lost or late.
UploadLost ==
    /\ pc = "upload" /\ sent[cur] < MaxSent /\ Fault
    /\ sent' = [sent EXCEPT ![cur] = @ + 1]
    /\ doubts' = [doubts EXCEPT ![cur] = @ + 1]
    /\ Abort(cur)
    /\ UNCHANGED <<config, sources, processed, used, clip, queue, memory, runs, stranded>>

\* A watched file goes to the processed folder, which a rename must be able to reach;
\* other audio is removed.
CanPutAway == mode # "folder" \/ moves
PutAway ==
    /\ pc = "answered" /\ CanPutAway
    /\ audio' = audio \ {cur}
    /\ processed' = IF mode = "folder" THEN processed \cup {clip[cur]} ELSE processed
    /\ pc' = "cleared"
    /\ UNCHANGED <<config, sources, used, clip, desc, broken, cur, memory, runs, todo,
                   hub, blocked, stranded, faults>>

PutAwayFails ==
    /\ pc = "answered"
    /\ IF CanPutAway THEN Fault ELSE UNCHANGED faults
    /\ doubts' = [doubts EXCEPT ![cur] = @ + 1]
    /\ Abort(cur)
    /\ UNCHANGED <<config, sources, processed, used, clip, queue, memory, runs, sent, stranded>>

RemoveDescription ==
    /\ pc = "cleared"
    /\ desc' = desc \ {cur}
    /\ cur' = 0
    /\ pc' = "flush"
    /\ UNCHANGED <<config, sources, processed, used, clip, audio, broken, memory, runs, todo,
                   hub, blocked, stranded, faults>>

RemoveDescriptionFails ==
    /\ pc = "cleared" /\ Fault
    /\ Abort(cur)
    /\ UNCHANGED <<config, sources, processed, used, clip, queue, memory, runs, hub, stranded>>

FlushDone ==
    /\ pc = "flush" /\ todo = {}
    /\ EndFlush
    /\ UNCHANGED <<config, sources, processed, used, clip, queue, memory, runs,
                   hub, blocked, stranded, faults>>

-----------------------------------------------------------------------------
Work ==
    \/ Poll \/ SaveAudio \/ RemoveSource \/ Describe
    \/ ListQueue \/ FlushDone
    \/ UploadAccepted \/ UploadRefused
    \/ PutAway \/ PutAwayFails \/ RemoveDescription
    \/ \E c \in Clips : Take(c)
    \/ \E e \in Entries : BeginUpload(e) \/ AudioMissing(e) \/ Unreadable(e)

Next ==
    \/ Work
    \/ Start \/ Stop \/ Crash
    \/ QueueFails \/ ListFails \/ UploadLost \/ RemoveDescriptionFails
    \/ \E c \in Clips : Hear(c) \/ Arrive(c)
    \/ \E e \in Entries : ReadFails(e)

Spec == Init /\ [][Next]_vars

\* A running recorder takes its next step (every request has a timeout), and a hub that
\* is asked again and again accepts some time.  Nobody has to start, stop or feed it.
FairSpec == Spec /\ WF_vars(Work) /\ SF_vars(UploadAccepted)

-----------------------------------------------------------------------------
(* Properties.                                                              *)

\* Audio and description are in the queue, whole.
Whole(e) == e \in (audio \cap desc) \ broken

\* QueueCall, QueueExternalFile, UploadOne: whatever turned up is still in its folder, on
\* its way into the queue, whole in the queue, or stored by the hub, at every point where
\* the recorder may die; only a failure between the two files of an entry strands a clip.
NothingLost ==
    \A c \in Clips \ fresh :
        \/ c \in outside
        \/ \E e \in 1..used :
            /\ clip[e] = c
            /\ \/ Whole(e) \/ sent[e] > 0 \/ e \in stranded
               \/ e = cur /\ pc \in Queueing

\* processFolderIngestBatch: polls, retries after failures and restarts queue a file once;
\* a replay queues it again only in another run ("once per recorder run").
QueuedOnce ==
    \A e, f \in thisRun \cup earlier :
        (e # f /\ clip[e] = clip[f]) => mode = "replay" /\ ~({e, f} \subseteq thisRun)

\* UploadOne: the hub stores an entry once, and once more each time the recorder could not
\* tell that it had, or could not put the audio away afterwards.
SentOnce == \A e \in Entries : sent[e] <= 1 + doubts[e]

\* main.go: a clip is neither lost nor needlessly repeated, wherever the recorder stops.
ClipsAccounted == NothingLost /\ SentOnce

\* FlushQueue: an idle recorder has offered its queue to the hub, oldest clip first: what is
\* still there is what the last flush stopped at, or younger.
OldestOffered ==
    (pc = "idle") =>
        \A e \in audio \cap desc :
            Whole(e) => \E b \in blocked : b = e \/ Before(b, e)

\* main.go: a file gets one place in the queue and its turn in the order of age, through
\* polls, failures and crashes at any step.
QueuedInOrder == QueuedOnce /\ OldestOffered

\* Entries that UploadOne never gets past: a description that cannot be parsed, and a
\* watched file whose processed folder cannot be reached.
Stuck(f) == f \in broken \/ (mode = "folder" /\ ~moves /\ f \in desc)
Behind(e) == e <= used /\ \E f \in 1..used : Stuck(f) /\ (f = e \/ Before(f, e))

\* FlushQueue: whatever the failures and restarts before, a recorder that goes on flushing
\* delivers every whole entry that is not behind one it cannot get past.
UploadedLater ==
    []<>(pc = "list") =>
        \A e \in Entries :
            (e <= used /\ Whole(e)) ~> (sent[e] > 0 \/ Behind(e))

\* src/tools/p7-recorder-go/README.md:32: the recorder "moves successfully uploaded files
\* into the processed folder".
UploadedIsMoved ==
    (mode = "folder" /\ pc = "idle") =>
        \A e \in 1..used : sent[e] > 0 => clip[e] \in processed

=============================================================================
