----------------------------- MODULE CallArchive -----------------------------
(***************************************************************************)
(* Retention sweeps over the calls table.  A sweep works in batches: it     *)
(* lists old calls, writes their files into one directory per day, uploads  *)
(* those directories, deletes the calls and removes the directories.  The   *)
(* scheduled sweep and the background job exclude each other; a synchronous *)
(* request takes no lock.                                                   *)
(* (src/server/internal/api/call_archive.go, call_archive_job.go,           *)
(* call_archive_s3.go, database/call_archive.go)                            *)
(***************************************************************************)
EXTENDS Integers, FiniteSets

CONSTANTS
    Calls,          \* call ids, in the order they are stored
    DateOf(_),      \* calls.datetime
    DayOf(_),       \* the day directory of a call
    Requests,       \* synchronous requests that may be under way (bound)
    Retention,      \* CALL_RETENTION_DAYS
    BatchLimit,     \* the limit of ListCallsForArchive
    MaxTime,        \* bound: the clock
    MaxStarts,      \* bound: sweeps an administrator starts
    MaxFaults       \* bound: failed steps, and server restarts

ASSUME ArchiveAssumption ==
    /\ IsFiniteSet(Calls) /\ Calls \subseteq Nat
    /\ \A c, d \in Calls : /\ DateOf(c) \in Nat
                           /\ DateOf(c) <= DateOf(d) => DayOf(c) <= DayOf(d)
    /\ \A c \in Calls : DayOf(c) \in Nat
    /\ Requests \cap {"loop", "job"} = {}
    /\ Retention \in Nat \ {0}
    /\ BatchLimit \in Nat \ {0}
    /\ MaxTime \in Nat
    /\ MaxStarts \in Nat
    /\ MaxFaults \in Nat

VARIABLES
    now,
    stored,     \* calls ever inserted (history)
    db,         \* rows of calls
    files,      \* calls whose files are in the local archive
    s3,         \* calls whose files are in the bucket
    upload,     \* is CALL_ARCHIVE_S3_URI set?
    dropLocal,  \* CALL_ARCHIVE_DELETE_LOCAL_AFTER_S3 (of no effect without upload)
    sweep,      \* sweep[s]: how far the sweep of s is
    lock,       \* archiveSweepMu: free, loop or job
    job,        \* archiveJob.Phase: idle, running, paused, done, error
    robbed,     \* calls whose files a sweep removed before another uploaded them (history)
    starts, faults

archive == <<stored, db, files, s3, robbed>>
config == <<upload, dropLocal>>
vars == <<now, archive, config, sweep, lock, job, starts, faults>>

Sweepers == {"loop", "job"} \cup Requests
Days == {DayOf(c) : c \in Calls}

Sweep == [pc : {"off", "lock", "count", "list", "write", "sync", "delete", "remove", "next"},
          cutoff : 0..MaxTime, untilEmpty : BOOLEAN, remaining : Int,
          batch : SUBSET Calls, todo : SUBSET Calls, days : SUBSET Days]

TypeOK ==
    /\ now \in 0..MaxTime
    /\ stored \subseteq Calls
    /\ db \subseteq stored
    /\ files \subseteq stored /\ s3 \subseteq stored
    /\ upload \in BOOLEAN /\ dropLocal \in BOOLEAN
    /\ sweep \in [Sweepers -> Sweep]
    /\ \A s \in Sweepers : sweep[s].todo \subseteq sweep[s].batch
    /\ lock \in {"free", "loop", "job"}
    /\ (lock # "free") => sweep[lock].pc \notin {"off", "lock"}
    /\ job \in {"idle", "running", "paused", "done", "error"}
    /\ (job = "running") <=> (sweep["job"].pc # "off")
    /\ robbed \subseteq stored
    /\ starts \in 0..MaxStarts
    /\ faults \in 0..MaxFaults

NoSweep == [pc |-> "off", cutoff |-> 0, untilEmpty |-> TRUE, remaining |-> 0,
            batch |-> {}, todo |-> {}, days |-> {}]

NewSweep(pc, cutoff, untilEmpty) ==
    [NoSweep EXCEPT !.pc = pc, !.cutoff = cutoff, !.untilEmpty = untilEmpty]

Init ==
    /\ now = 0
    /\ stored = {} /\ db = {} /\ files = {} /\ s3 = {} /\ robbed = {}
    /\ upload \in BOOLEAN /\ dropLocal \in BOOLEAN /\ (dropLocal => upload)
    /\ sweep = [s \in Sweepers |-> NoSweep]
    /\ lock = "free"
    /\ job = "idle"
    /\ starts = 0 /\ faults = 0

Old(cutoff) == {c \in db : DateOf(c) < cutoff}

\* ORDER BY datetime ASC, id ASC LIMIT n
Before(c, d) == DateOf(c) < DateOf(d) \/ (DateOf(c) = DateOf(d) /\ c < d)
Oldest(S, n) == {c \in S : Cardinality({d \in S : Before(d, c)}) < n}

FirstDay(D) == CHOOSE d \in D : \A e \in D : d <= e
InDay(S, d) == {c \in S : DayOf(c) = d}

\* olderThanDays, counted back from now; no call is older than time 0.
Cutoff(days) == IF days < now THEN now - days ELSE 0

Becomes(s, state) == sweep' = [sweep EXCEPT ![s] = state]

-----------------------------------------------------------------------------
(* Time and traffic.                                                        *)

Tick ==
    /\ now < MaxTime
    /\ now' = now + 1
    /\ UNCHANGED <<archive, config, sweep, lock, job, starts, faults>>

\* Ids follow the order of insertion; a recorder or a peer may deliver a call long
\* after its date.
Store(c) ==
    /\ c \notin stored /\ DateOf(c) <= now
    /\ \A d \in Calls : d < c => d \in stored
    /\ stored' = stored \cup {c}
    /\ db' = db \cup {c}
    /\ UNCHANGED <<now, files, s3, robbed, config, sweep, lock, job, starts, faults>>

-----------------------------------------------------------------------------
(* Starting a sweep.                                                        *)

\* startCallArchiveLoop; a sweep under way makes it wait for the next interval.
LoopStart ==
    /\ sweep["loop"].pc = "off" /\ lock = "free"
    /\ lock' = "loop"
    /\ Becomes("loop", NewSweep("count", Cutoff(Retention), TRUE))
    /\ UNCHANGED <<now, archive, config, job, starts, faults>>

\* startArchiveJob: a job that runs answers for a second request.
JobStart ==
    /\ job # "running" /\ starts < MaxStarts
    /\ job' = "running"
    /\ starts' = starts + 1
    /\ Becomes("job", NewSweep("lock", 0, TRUE))
    /\ UNCHANGED <<now, archive, config, lock, faults>>

Unlocked == lock = "free"

FaultRefused == "running"
Refused == "error"

\* runArchiveJob: TryLock, then the cutoff of whatever retention was asked for.
JobLock ==
    /\ sweep["job"].pc = "lock"
    /\ IF Unlocked
       THEN /\ lock' = "job"
            /\ \E days \in 1..MaxTime : Becomes("job", NewSweep("count", Cutoff(days), TRUE))
            /\ UNCHANGED job
       ELSE job' = Refused /\ Becomes("job", NoSweep) /\ UNCHANGED lock
    /\ UNCHANGED <<now, archive, config, starts, faults>>

\* handleArchiveCalls with async = false.
RequestStart(s) ==
    /\ s \in Requests /\ sweep[s].pc = "off" /\ starts < MaxStarts
    /\ starts' = starts + 1
    /\ \E days \in 1..MaxTime, untilEmpty \in BOOLEAN :
            Becomes(s, NewSweep("count", Cutoff(days), untilEmpty))
    /\ UNCHANGED <<now, archive, config, lock, job, faults>>

-----------------------------------------------------------------------------
(* One batch (archiveCallsBatch).                                           *)

FaultReleased(s) == IF s = "job" THEN "free" ELSE lock
Released(s) == IF lock = s THEN "free" ELSE lock

Ends(s, phase) ==
    /\ Becomes(s, NoSweep)
    /\ lock' = Released(s)
    /\ job' = IF s = "job" THEN phase ELSE job

Count(s) ==
    LET remaining == Cardinality(Old(sweep[s].cutoff))
    IN  /\ sweep[s].pc = "count"
        /\ IF remaining = 0
           THEN Ends(s, "done")
           ELSE /\ Becomes(s, [sweep[s] EXCEPT !.pc = "list", !.remaining = remaining])
                /\ UNCHANGED <<lock, job>>
        /\ UNCHANGED <<now, archive, config, starts, faults>>

List(s) ==
    LET calls == Oldest(Old(sweep[s].cutoff), BatchLimit)
    IN  /\ sweep[s].pc = "list"
        /\ IF calls = {}
           THEN Ends(s, "done")
           ELSE /\ Becomes(s, [sweep[s] EXCEPT !.pc = "write", !.batch = calls, !.todo = calls])
                /\ UNCHANGED <<lock, job>>
        /\ UNCHANGED <<now, archive, config, starts, faults>>

\* writeCallArchiveFile for the next call; the last one hands over the day directories.
Write(s) ==
    LET c == CHOOSE d \in Oldest(sweep[s].todo, 1) : TRUE
        left == sweep[s].todo \ {c}
        days == {DayOf(d) : d \in sweep[s].batch}
    IN  /\ sweep[s].pc = "write"
        /\ files' = files \cup {c}
        /\ Becomes(s, IF left # {} THEN [sweep[s] EXCEPT !.todo = left]
                      ELSE [sweep[s] EXCEPT !.pc = IF upload THEN "sync" ELSE "delete",
                                            !.todo = left, !.days = days])
        /\ UNCHANGED <<now, stored, db, s3, robbed, config, lock, job, starts, faults>>

Uploaded(s, d) ==
    LET left == sweep[s].days \ {d}
    IN  Becomes(s, IF left # {} THEN [sweep[s] EXCEPT !.days = left]
                   ELSE [sweep[s] EXCEPT !.pc = "delete",
                                         !.days = {DayOf(c) : c \in sweep[s].batch}])

\* syncArchiveDirsToS3 for one day directory, which is skipped when it is missing.
Sync(s) ==
    LET d == FirstDay(sweep[s].days)
    IN  /\ sweep[s].pc = "sync"
        /\ s3' = s3 \cup InDay(files, d)
        /\ Uploaded(s, d)
        /\ UNCHANGED <<now, stored, db, files, robbed, config, lock, job, starts, faults>>

FaultSyncAborts(s) == FALSE
SyncAborts(s) == TRUE

\* s3cmd fails after some of the files: the batch ends before anything is deleted.
SyncFails(s) ==
    LET d == FirstDay(sweep[s].days)
    IN  /\ sweep[s].pc = "sync" /\ faults < MaxFaults
        /\ faults' = faults + 1
        /\ \E some \in SUBSET InDay(files, d) : s3' = s3 \cup some
        /\ IF SyncAborts(s) THEN Ends(s, "error")
           ELSE Uploaded(s, d) /\ UNCHANGED <<lock, job>>
        /\ UNCHANGED <<now, stored, db, files, robbed, config, starts>>

\* DeleteCallsByIDs: one statement for the batch, calls gone meanwhile do not count.
Delete(s) ==
    /\ sweep[s].pc = "delete"
    /\ db' = db \ sweep[s].batch
    /\ Becomes(s, [sweep[s] EXCEPT
            !.pc = IF dropLocal THEN "remove" ELSE "next",
            !.remaining = @ - Cardinality(db \cap sweep[s].batch)])
    /\ UNCHANGED <<now, stored, files, s3, robbed, config, lock, job, starts, faults>>

\* Calls of day d another sweep has written and not uploaded yet.
Exposed(s, d) ==
    UNION {InDay(sweep[t].batch \ sweep[t].todo, d) : t \in
        {t \in Sweepers \ {s} : \/ sweep[t].pc = "write"
                                \/ sweep[t].pc = "sync" /\ d \in sweep[t].days}}

\* removeArchiveDayDirs, one os.RemoveAll.
Remove(s) ==
    LET d == FirstDay(sweep[s].days)
        left == sweep[s].days \ {d}
    IN  /\ sweep[s].pc = "remove"
        /\ files' = {c \in files : DayOf(c) # d}
        /\ robbed' = robbed \cup (Exposed(s, d) \cap files)
        /\ Becomes(s, [sweep[s] EXCEPT !.days = left,
                                       !.pc = IF left = {} THEN "next" ELSE "remove"])
        /\ UNCHANGED <<now, stored, db, s3, config, lock, job, starts, faults>>

\* archiveCallsWithProgress after a batch: the next one, or the end of the sweep.
NextBatch(s) ==
    /\ sweep[s].pc = "next" /\ sweep[s].untilEmpty /\ sweep[s].remaining # 0
    /\ Becomes(s, NewSweep("count", sweep[s].cutoff, TRUE))
    /\ UNCHANGED <<now, archive, config, lock, job, starts, faults>>

Finish(s) ==
    /\ sweep[s].pc = "next" /\ (~sweep[s].untilEmpty \/ sweep[s].remaining = 0)
    /\ Ends(s, "done")
    /\ UNCHANGED <<now, archive, config, starts, faults>>

\* The four hours are over.
StopEarly(s) ==
    /\ sweep[s].pc = "next" /\ sweep[s].untilEmpty /\ sweep[s].remaining # 0
    /\ Ends(s, "paused")
    /\ UNCHANGED <<now, archive, config, starts, faults>>

\* Any other statement or file operation of the batch fails.
StepFails(s) ==
    /\ sweep[s].pc \in {"count", "list", "write", "delete", "remove"} /\ faults < MaxFaults
    /\ faults' = faults + 1
    /\ Ends(s, "error")
    /\ UNCHANGED <<now, archive, config, starts>>

Restart ==
    /\ faults < MaxFaults
    /\ \E s \in Sweepers : sweep[s].pc # "off"
    /\ faults' = faults + 1
    /\ sweep' = [s \in Sweepers |-> NoSweep]
    /\ lock' = "free"
    /\ job' = "idle"
    /\ UNCHANGED <<now, archive, config, starts>>

-----------------------------------------------------------------------------

Work(s) == Count(s) \/ List(s) \/ Write(s) \/ Sync(s) \/ Delete(s) \/ Remove(s)
           \/ NextBatch(s) \/ Finish(s)

Next ==
    \/ Tick
    \/ \E c \in Calls : Store(c)
    \/ LoopStart \/ JobStart \/ JobLock \/ Restart
    \/ \E s \in Sweepers :
          \/ RequestStart(s)
          \/ Count(s) \/ List(s) \/ Write(s) \/ Sync(s) \/ SyncFails(s)
          \/ Delete(s) \/ Remove(s) \/ NextBatch(s) \/ Finish(s) \/ StopEarly(s)
          \/ StepFails(s)

Spec == Init /\ [][Next]_vars

\* Time passes, the loop's timer re-arms after every sweep, and a goroutine runs.
FairSpec ==
    /\ Spec
    /\ WF_vars(Tick)
    /\ WF_vars(LoopStart)
    /\ WF_vars(JobLock)
    /\ \A s \in Sweepers : WF_vars(Work(s) \/ StopEarly(s))

-----------------------------------------------------------------------------

\* A call leaves the database only with its files in the local archive or in the
\* bucket, through failed uploads, restarts and sweeps of any overlap; the one
\* exception is a directory that another sweep removes between write and upload.
DeletedIsArchived == stored \ (db \cup robbed) \subseteq files \cup s3

\* The scheduled sweep and the job never work at the same time (archiveSweepMu).
OneLockedSweep == sweep["loop"].pc = "off" \/ sweep["job"].pc \in {"off", "lock"}

\* call_archive.go: what overlapping, failing and restarted sweeps may not do together.
SweepsSafe == DeletedIsArchived /\ OneLockedSweep

\* A job that was started reports an end, so that the next one can start, also when
\* another sweep holds the lock or the batch fails (runArchiveJob).
JobEnds == job = "running" ~> job # "running"

\* Every call older than the retention leaves the database by a scheduled sweep,
\* whatever fails before: no error path keeps the lock (startCallArchiveLoop).
RetentionApplied ==
    \A c \in Calls : (c \in db /\ DateOf(c) < MaxTime - Retention) ~> c \notin db

\* call_archive.go, call_archive_job.go: no failure keeps a job or the retention from
\* its end.
SweepsProgress == JobEnds /\ RetentionApplied

\* docs/API.md: the sweep exports calls, then deletes them.
ExportedBeforeDeleted == stored \ db \subseteq files \cup s3
=============================================================================
