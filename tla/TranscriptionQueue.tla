------------------------- MODULE TranscriptionQueue -------------------------
(***************************************************************************)
(* The transcription queue: one call_transcripts row per call, leased to    *)
(* workers that claim the newest waiting call, and a talkgroup policy that  *)
(* decides which calls are queued.  Rows are written by uploads, by claims  *)
(* (which back-fill calls without a row), by workers' results, by settings  *)
(* saves and by server startup, each without looking at the others.         *)
(* (src/server/internal/database/transcriptions.go, api/calls.go,           *)
(* api/transcription.go, api/talkgroups.go, main.go)                        *)
(***************************************************************************)
EXTENDS Naturals, FiniteSets

CONSTANTS
    Calls,          \* call ids, in the order they are stored
    TalkgroupOf,    \* TalkgroupOf[c]: the talkgroup a call arrives on
    ShortCalls,     \* calls below TRANSCRIPTION_MIN_DURATION_SECONDS
    Workers,        \* transcription workers (outside src/)
    MaxSaves,       \* bound: saves of talkgroup settings
    MaxFaults,      \* bound: worker crashes, server restarts and call deletions
    PolicyMayFail   \* may the policy lookup of an upload fail?

Talkgroups == {TalkgroupOf[c] : c \in Calls}

ASSUME QueueAssumption ==
    /\ Calls \subseteq Nat \ {0}
    /\ ShortCalls \subseteq Calls
    /\ MaxSaves \in Nat
    /\ MaxFaults \in Nat
    /\ PolicyMayFail \in BOOLEAN

VARIABLES
    enabled,    \* is a worker token configured?
    selected,   \* talkgroups with transcribe = TRUE
    saving,     \* is a settings save between its two statements?
    upload,     \* upload[c]: absent, stored, queue, skip, filed, deleted
    status,     \* status[c]: call_transcripts.status, "none" without a row
    lease,      \* lease[c]: none, running, expired (claimed_until)
    worker,     \* worker[w]: idle, claiming, working
    job,        \* job[w]: the call it works on, 0 if none
    late,       \* workers whose lease ran out while working
    stale,      \* calls whose policy decision was overtaken by a save (history)
    refiled,    \* calls whose upload overwrote a claimed row (history)
    saves, faults

policy == <<enabled, selected, saving>>
queue == <<status, lease>>
workers == <<worker, job, late>>
history == <<stale, refiled>>
vars == <<policy, upload, queue, workers, history, saves, faults>>

Statuses == {"pending", "processing", "done", "failed", "skipped"}

TypeOK ==
    /\ enabled \in BOOLEAN
    /\ selected \subseteq Talkgroups
    /\ saving \in BOOLEAN
    /\ upload \in [Calls -> {"absent", "stored", "queue", "skip", "filed", "deleted"}]
    /\ status \in [Calls -> Statuses \cup {"none"}]
    /\ lease \in [Calls -> {"none", "running", "expired"}]
    /\ \A c \in Calls : lease[c] # "none" <=> status[c] = "processing"
    /\ worker \in [Workers -> {"idle", "claiming", "working"}]
    /\ job \in [Workers -> Calls \cup {0}]
    /\ late \subseteq Workers
    /\ stale \subseteq Calls
    /\ refiled \subseteq Calls
    /\ saves \in 0..MaxSaves
    /\ faults \in 0..MaxFaults

Init ==
    /\ enabled \in BOOLEAN
    /\ selected \in SUBSET Talkgroups
    /\ saving = FALSE
    /\ upload = [c \in Calls |-> "absent"]
    /\ status = [c \in Calls |-> "none"]
    /\ lease = [c \in Calls |-> "none"]
    /\ worker = [w \in Workers |-> "idle"]
    /\ job = [w \in Workers |-> 0]
    /\ late = {}
    /\ stale = {}
    /\ refiled = {}
    /\ saves = 0
    /\ faults = 0

-----------------------------------------------------------------------------
(* The statements of database/transcriptions.go, on one row *)

InDb(c) == upload[c] \notin {"absent", "deleted"}
Selected(c) == TalkgroupOf[c] \in selected

\* EnsureTranscriptionQueueRows: a call without a row is queued.
Backfilled(c) == IF InDb(c) /\ status[c] = "none" THEN "pending" ELSE status[c]

\* SkipUnselectedPendingTranscriptionJobs
FaultSkippable == {"pending"}
FaultSkippable2 == {"pending", "processing", "done"}
Skippable == {"pending", "processing"}
SkipUnselected(c, s) == IF s \in Skippable /\ ~Selected(c) THEN "skipped" ELSE s

\* SkipShortPendingTranscriptionJobs
SkipShort(c, s) == IF s = "pending" /\ c \in ShortCalls THEN "skipped" ELSE s

\* CancelPendingTranscriptionJobs
Cancelled(s) == IF s \in {"pending", "processing"} THEN "skipped" ELSE s

\* claimed_until after a statement that sets the row's status to s: cleared unless
\* the statement left a processing row alone.
FaultLeaseAfter(c, s) == lease[c]
LeaseAfter(c, s) == IF s = "processing" THEN lease[c] ELSE "none"

SetAll(newStatus) ==
    /\ status' = newStatus
    /\ lease' = [c \in Calls |-> LeaseAfter(c, newStatus[c])]

SetRow(c, s) == SetAll([status EXCEPT ![c] = s])

-----------------------------------------------------------------------------
(* Uploads: InsertCall, then finalizeCallTranscription                      *)

InsertCall(c) ==
    /\ upload[c] = "absent"
    /\ \A d \in Calls : d < c => upload[d] # "absent"
    /\ upload' = [upload EXCEPT ![c] = "stored"]
    /\ UNCHANGED <<policy, queue, workers, history, saves, faults>>

Wanted(c) == Selected(c) /\ c \notin ShortCalls

\* ShouldTranscribeTalkgroup and the minimum duration; when the lookup fails, the
\* call is queued.
Decide(c) ==
    /\ upload[c] = "stored"
    /\ \E fails \in {FALSE, PolicyMayFail} :
         /\ upload' = [upload EXCEPT ![c] =
                          IF ~enabled THEN "filed"
                          ELSE IF fails \/ Wanted(c) THEN "queue"
                          ELSE "skip"]
         /\ stale' = IF enabled /\ fails THEN stale \cup {c} ELSE stale
    /\ UNCHANGED <<policy, queue, workers, refiled, saves, faults>>

\* UpsertCallTranscriptStatus: whatever the row says by now is overwritten.
File(c) ==
    /\ upload[c] \in {"queue", "skip"}
    /\ SetRow(c, IF upload[c] = "queue" THEN "pending" ELSE "skipped")
    /\ refiled' = IF status[c] \in {"none", "pending"} THEN refiled ELSE refiled \cup {c}
    /\ upload' = [upload EXCEPT ![c] = "filed"]
    /\ UNCHANGED <<policy, workers, stale, saves, faults>>

\* Archiving or deleting a call removes its row with it.
DeleteCall(c) ==
    /\ InDb(c)
    /\ faults < MaxFaults
    /\ faults' = faults + 1
    /\ upload' = [upload EXCEPT ![c] = "deleted"]
    /\ SetRow(c, "none")
    /\ UNCHANGED <<policy, workers, history, saves>>

-----------------------------------------------------------------------------
(* Talkgroup settings: the flag is saved, then the policy is applied.       *)

SaveSetting(t) ==
    /\ saves < MaxSaves
    /\ saves' = saves + 1
    /\ selected' = IF t \in selected THEN selected \ {t} ELSE selected \cup {t}
    /\ saving' = (saving \/ enabled)
    /\ stale' = stale \cup {c \in Calls : upload[c] = "queue" /\ TalkgroupOf[c] = t}
    /\ UNCHANGED <<enabled, upload, queue, workers, refiled, faults>>

ApplyPolicy ==
    /\ saving
    /\ saving' = FALSE
    /\ SetAll([c \in Calls |-> SkipUnselected(c, status[c])])
    /\ stale' = {c \in stale : upload[c] = "queue"}
    /\ UNCHANGED <<enabled, selected, upload, workers, refiled, saves, faults>>

-----------------------------------------------------------------------------
(* Workers: ClaimTranscriptionJob is a back-fill and then a claim.          *)

BeginClaim(w) ==
    /\ worker[w] = "idle"
    /\ enabled
    /\ SetAll([c \in Calls |-> Backfilled(c)])
    /\ worker' = [worker EXCEPT ![w] = "claiming"]
    /\ UNCHANGED <<policy, upload, job, late, history, saves, faults>>

FaultReclaimable(c) == FALSE
Reclaimable(c) == lease[c] = "expired"

Claimable == {c \in Calls : \/ status[c] = "pending"
                            \/ status[c] = "processing" /\ Reclaimable(c)}

\* ORDER BY call_id DESC LIMIT 1
TakeJob(w) ==
    /\ worker[w] = "claiming"
    /\ \E c \in Claimable :
         /\ \A d \in Claimable : d <= c
         /\ status' = [status EXCEPT ![c] = "processing"]
         /\ lease' = [lease EXCEPT ![c] = "running"]
         /\ job' = [job EXCEPT ![w] = c]
    /\ worker' = [worker EXCEPT ![w] = "working"]
    /\ UNCHANGED <<policy, upload, late, history, saves, faults>>

NoJob(w) ==
    /\ worker[w] = "claiming"
    /\ Claimable = {}
    /\ worker' = [worker EXCEPT ![w] = "idle"]
    /\ UNCHANGED <<policy, upload, queue, job, late, history, saves, faults>>

\* CompleteTranscriptionJob, FailTranscriptionJob and SkipTranscriptionJob write the
\* row whoever holds it; they find no row when the call was deleted, and the server
\* refuses them while it has no worker token.
Report(w) ==
    /\ worker[w] = "working"
    /\ \E result \in {"done", "failed", "skipped"} :
         IF enabled /\ status[job[w]] # "none"
         THEN SetRow(job[w], result)
         ELSE UNCHANGED queue
    /\ worker' = [worker EXCEPT ![w] = "idle"]
    /\ job' = [job EXCEPT ![w] = 0]
    /\ late' = late \ {w}
    /\ UNCHANGED <<policy, upload, history, saves, faults>>

WorkerCrash(w) ==
    /\ worker[w] # "idle"
    /\ faults < MaxFaults
    /\ faults' = faults + 1
    /\ worker' = [worker EXCEPT ![w] = "idle"]
    /\ job' = [job EXCEPT ![w] = 0]
    /\ late' = late \ {w}
    /\ UNCHANGED <<policy, upload, queue, history, saves>>

\* claimed_until passes, and with it every earlier lease of the same call.
LeaseEnds(c) ==
    /\ lease[c] = "running"
    /\ lease' = [lease EXCEPT ![c] = "expired"]
    /\ late' = late \cup {w \in Workers : job[w] = c}
    /\ UNCHANGED <<policy, upload, status, worker, job, history, saves, faults>>

-----------------------------------------------------------------------------
\* The server restarts, perhaps with another configuration; main.go prepares the
\* queue before it serves.  Uploads and saves under way are gone.
Restart ==
    /\ faults < MaxFaults
    /\ faults' = faults + 1
    /\ enabled' \in BOOLEAN
    /\ SetAll([c \in Calls |->
                 IF enabled' THEN SkipShort(c, SkipUnselected(c, Backfilled(c)))
                 ELSE Cancelled(status[c])])
    /\ upload' = [c \in Calls |-> IF InDb(c) THEN "filed" ELSE upload[c]]
    /\ saving' = FALSE
    /\ stale' = {}
    /\ worker' = [w \in Workers |-> IF worker[w] = "working" THEN "working" ELSE "idle"]
    /\ UNCHANGED <<selected, job, late, refiled, saves>>

UploadStep(c) == InsertCall(c) \/ Decide(c) \/ File(c)
WorkerStep(w) == BeginClaim(w) \/ TakeJob(w) \/ NoJob(w) \/ Report(w)

Next ==
    \/ \E c \in Calls : UploadStep(c) \/ DeleteCall(c) \/ LeaseEnds(c)
    \/ \E t \in Talkgroups : SaveSetting(t)
    \/ ApplyPolicy
    \/ \E w \in Workers : WorkerStep(w) \/ WorkerCrash(w)
    \/ Restart

Spec == Init /\ [][Next]_vars

\* Request handlers run to their end, time passes, and workers keep polling.
Fairness ==
    /\ \A c \in Calls : WF_vars(Decide(c) \/ File(c)) /\ WF_vars(LeaseEnds(c))
    /\ WF_vars(ApplyPolicy)
    /\ \A w \in Workers : WF_vars(WorkerStep(w))

FairSpec == Spec /\ Fairness

-----------------------------------------------------------------------------
(* Properties *)

\* Two workers hold unexpired leases of one call only if its upload wrote the row
\* again after a claim had back-filled it (calls.go finalizeCallTranscription
\* against transcriptions.go ClaimTranscriptionJob).
ExclusiveLease ==
    \A v, w \in Workers \ late :
        v # w /\ job[v] = job[w] /\ job[v] # 0 => job[v] \in refiled

\* docs/TRANSCRIPTION.md:55 "only talkgroups with TX enabled are queued": outside a
\* settings save and a call's own upload, nothing waits or runs for an unselected
\* talkgroup, but what an upload decided before the save, or without the policy.
PolicyApplied ==
    \A c \in Calls :
        status[c] \in {"pending", "processing"} /\ ~Selected(c)
            => saving \/ upload[c] \in {"stored", "queue", "skip"} \/ c \in stale

\* transcriptions.go: a claim hands a call to one worker, and only a call the policy has
\* chosen, but for what an upload files around a claim or a settings save.
ClaimsSound == ExclusiveLease /\ PolicyApplied

\* A finished transcription is undone only by deleting the call, by its own upload
\* filing it late, or by another worker still on the call (transcriptions.go: only
\* claims, uploads and results look past 'pending' and 'processing').
DoneKept ==
    [][\A c \in Calls :
         status[c] = "done" /\ status'[c] # "done"
             => \/ upload'[c] = "deleted"
                \/ upload[c] \in {"queue", "skip"}
                \/ \E w \in Workers : job[w] = c]_vars

\* Every queued call gets a result, is skipped or is deleted, although workers crash
\* and the server restarts (transcriptions.go ClaimTranscriptionJob takes expired
\* leases again).
EveryJobEnds ==
    \A c \in Calls :
        (status[c] \in {"pending", "processing"})
            ~> (status[c] \in {"done", "failed", "skipped", "none"})

\* docs/TRANSCRIPTION.md:55 "With zero TX flags set, nothing is transcribed": while
\* no setting was ever saved, only calls of selected talkgroups are transcribed.
NothingUnselectedTranscribed ==
    saves = 0 => \A c \in Calls : status[c] = "done" => Selected(c)
=============================================================================
