------------------------ MODULE StreamAndQueue_proofs -----------------------
(***************************************************************************)
(* Proofs about two components that share neither a variable nor a name.    *)
(*                                                                          *)
(* Part 1, TranscriptionQueue: whatever workers, uploads, settings saves    *)
(* and restarts do in between, for every set of calls and workers and every *)
(* bound, a claim is exclusive and what waits was chosen.                   *)
(*                                                                          *)
(* Part 2, ListenerStream: whatever uploads, the resolution loop and the    *)
(* owner do in between, for every set of listeners and channels and every   *)
(* bound, a subscription follows its row and a listener hears exactly what  *)
(* its set let it hear. The lemmas before the invariant count positions of  *)
(* the list of calls: the seed is its newest part.                          *)
(***************************************************************************)
EXTENDS TranscriptionQueue, ListenerStream, FiniteSetTheorems, TLAPS

-----------------------------------------------------------------------------
(* Part 1: the transcription queue.                                         *)

\* Nobody works on the call under a lease that still runs.
Free(c) == \A w \in Workers : job[w] = c => w \in late

\* A call may be handed out when it waits, or its lease is over, and then it is free.
WaitingIsFree ==
    \A c \in Calls \ refiled :
        status[c] \in {"none", "pending"} /\ upload[c] # "deleted" => Free(c)
ExpiredIsFree == \A c \in Calls : lease[c] = "expired" => Free(c)
DeletedHasNoRow == \A c \in Calls : upload[c] = "deleted" => status[c] = "none"

Leases == ExclusiveLease /\ WaitingIsFree /\ ExpiredIsFree /\ DeletedHasNoRow

\* Without a worker token nothing waits; with one, a call is filed together with its row,
\* so that a back-fill finds only calls whose upload is under way.
OffIsEmpty ==
    ~enabled =>
        /\ ~saving
        /\ \A c \in Calls : /\ status[c] \notin {"pending", "processing"}
                            /\ upload[c] \notin {"queue", "skip"}
FiledHasRow == enabled => \A c \in Calls : upload[c] = "filed" => status[c] # "none"
QueuedIsChosen == \A c \in Calls : upload[c] = "queue" /\ ~Selected(c) => c \in stale

Policy == PolicyApplied /\ OffIsEmpty /\ FiledHasRow /\ QueuedIsChosen

-----------------------------------------------------------------------------
(* What a statement does to the rows.                                       *)

\* A statement on all rows keeps a lease only where it leaves the row processing.
LEMMA Rows ==
  ASSUME TypeOK, NEW s, SetAll(s), s \in [Calls -> Statuses \cup {"none"}],
         \A c \in Calls : s[c] = "processing" => status[c] = "processing"
  PROVE  /\ status' = s /\ lease' \in [Calls -> {"none", "running", "expired"}]
         /\ \A c \in Calls : lease'[c] # "none" <=> s[c] = "processing"
         /\ \A c \in Calls : lease'[c] \in {"none", lease[c]}
  BY DEF TypeOK, SetAll, LeaseAfter

\* A statement on one row, which does not set it to processing.
LEMMA OneRow ==
  ASSUME TypeOK, NEW c \in Calls, NEW s \in {"none", "pending", "done", "failed", "skipped"},
         SetRow(c, s)
  PROVE  /\ status' = [status EXCEPT ![c] = s]
         /\ status' \in [Calls -> Statuses \cup {"none"}]
         /\ lease' \in [Calls -> {"none", "running", "expired"}]
         /\ \A d \in Calls : lease'[d] # "none" <=> status'[d] = "processing"
         /\ \A d \in Calls : lease'[d] \in {"none", lease[d]}
<1> DEFINE r == [status EXCEPT ![c] = s]
<1>1. /\ r \in [Calls -> Statuses \cup {"none"}]
      /\ \A d \in Calls : r[d] = "processing" => status[d] = "processing"
  BY DEF TypeOK, Statuses
<1>2. SetAll(r)
  BY DEF SetRow
<1> HIDE DEF r
<1>3. /\ status' = r /\ lease' \in [Calls -> {"none", "running", "expired"}]
      /\ \A d \in Calls : lease'[d] # "none" <=> r[d] = "processing"
      /\ \A d \in Calls : lease'[d] \in {"none", lease[d]}
  BY <1>1, <1>2, Rows
<1> QED BY <1>1, <1>3 DEF r

\* BeginClaim's back-fill.
LEMMA BackfillRows ==
  ASSUME TypeOK, NEW w \in Workers, BeginClaim(w)
  PROVE  /\ status' = [c \in Calls |-> Backfilled(c)]
         /\ status' \in [Calls -> Statuses \cup {"none"}]
         /\ lease' \in [Calls -> {"none", "running", "expired"}]
         /\ \A c \in Calls : lease'[c] # "none" <=> status'[c] = "processing"
         /\ \A c \in Calls : lease'[c] \in {"none", lease[c]}
<1> DEFINE r == [c \in Calls |-> Backfilled(c)]
<1>1. SetAll(r)
  BY DEF BeginClaim
<1>2. /\ r \in [Calls -> Statuses \cup {"none"}]
      /\ \A c \in Calls : r[c] = "processing" => status[c] = "processing"
  BY DEF TypeOK, Statuses, Backfilled
<1> HIDE DEF r
<1> QED BY <1>1, <1>2, Rows DEF r

\* ApplyPolicy's update.
LEMMA PolicyRows ==
  ASSUME TypeOK, ApplyPolicy
  PROVE  /\ status' = [c \in Calls |-> SkipUnselected(c, status[c])]
         /\ status' \in [Calls -> Statuses \cup {"none"}]
         /\ lease' \in [Calls -> {"none", "running", "expired"}]
         /\ \A c \in Calls : lease'[c] # "none" <=> status'[c] = "processing"
         /\ \A c \in Calls : lease'[c] \in {"none", lease[c]}
<1> DEFINE r == [c \in Calls |-> SkipUnselected(c, status[c])]
<1>1. SetAll(r)
  BY DEF ApplyPolicy
<1>2. /\ r \in [Calls -> Statuses \cup {"none"}]
      /\ \A c \in Calls : r[c] = "processing" => status[c] = "processing"
  BY DEF TypeOK, Statuses, SkipUnselected, Skippable
<1> HIDE DEF r
<1> QED BY <1>1, <1>2, Rows DEF r

\* What startup makes of a row.
Prepared(c, on) ==
    IF on THEN SkipShort(c, SkipUnselected(c, Backfilled(c))) ELSE Cancelled(status[c])

LEMMA RestartRows ==
  ASSUME TypeOK, Restart
  PROVE  /\ status' = [c \in Calls |-> Prepared(c, enabled')]
         /\ status' \in [Calls -> Statuses \cup {"none"}]
         /\ lease' \in [Calls -> {"none", "running", "expired"}]
         /\ \A c \in Calls : lease'[c] # "none" <=> status'[c] = "processing"
         /\ \A c \in Calls : lease'[c] \in {"none", lease[c]}
<1> DEFINE r == [c \in Calls |-> Prepared(c, enabled')]
<1>1. SetAll(r)
  BY DEF Restart, Prepared
<1>2. \A c \in Calls : /\ Prepared(c, enabled') \in Statuses \cup {"none"}
                       /\ Prepared(c, enabled') = "processing" => status[c] = "processing"
  BY DEF TypeOK, Statuses, Prepared, SkipShort, SkipUnselected, Skippable, Backfilled, Cancelled
<1>3. /\ r \in [Calls -> Statuses \cup {"none"}]
      /\ \A c \in Calls : r[c] = "processing" => status[c] = "processing"
  BY <1>2
<1> HIDE DEF r
<1> QED BY <1>1, <1>3, Rows DEF r
\* A worker's result: its row, if it still has one and the server listens.
LEMMA Reported ==
  ASSUME TypeOK, NEW w \in Workers, Report(w)
  PROVE  /\ status' \in [Calls -> Statuses \cup {"none"}]
         /\ lease' \in [Calls -> {"none", "running", "expired"}]
         /\ \A d \in Calls : lease'[d] # "none" <=> status'[d] = "processing"
         /\ \A d \in Calls : lease'[d] \in {"none", lease[d]}
         /\ \A d \in Calls : status'[d] = status[d] \/ (status[d] # "none" /\ status'[d] \in {"done", "failed", "skipped"})
<1>1. CASE UNCHANGED queue
  BY <1>1 DEF TypeOK, queue
<1>2. CASE status[job[w]] # "none" /\ \E result \in {"done", "failed", "skipped"} : SetRow(job[w], result)
  <2>1. PICK result \in {"done", "failed", "skipped"} : SetRow(job[w], result)
    BY <1>2
  <2>2. CASE job[w] \in Calls
    BY <1>2, <2>1, <2>2, OneRow DEF TypeOK
  <2>3. CASE job[w] \notin Calls
    <3>1. [status EXCEPT ![job[w]] = result] = status
      BY <2>3 DEF TypeOK
    <3>2. SetAll(status)
      BY <2>1, <3>1 DEF SetRow
    <3>3. /\ status' = status /\ lease' \in [Calls -> {"none", "running", "expired"}]
          /\ \A d \in Calls : lease'[d] # "none" <=> status[d] = "processing"
          /\ \A d \in Calls : lease'[d] \in {"none", lease[d]}
      BY <3>2, Rows DEF TypeOK
    <3> QED BY <3>3 DEF TypeOK
  <2> QED BY <2>2, <2>3
<1> QED BY <1>1, <1>2 DEF Report

-----------------------------------------------------------------------------
(* Types.                                                                   *)

LEMMA TypeStep == TypeOK /\ [Next]_vars => TypeOK'
<1> SUFFICES ASSUME TypeOK, [Next]_vars PROVE TypeOK'
  OBVIOUS
<1> USE QueueAssumption DEF TypeOK, policy, queue, workers, history
<1>1. ASSUME NEW c \in Calls, InsertCall(c) PROVE TypeOK'
  BY <1>1 DEF InsertCall
<1>2. ASSUME NEW c \in Calls, Decide(c) PROVE TypeOK'
  BY <1>2 DEF Decide
<1>3. ASSUME NEW c \in Calls, File(c) PROVE TypeOK'
  <2>1. SetRow(c, IF upload[c] = "queue" THEN "pending" ELSE "skipped")
    BY <1>3 DEF File
  <2>2. /\ status' \in [Calls -> Statuses \cup {"none"}]
        /\ lease' \in [Calls -> {"none", "running", "expired"}]
        /\ \A d \in Calls : lease'[d] # "none" <=> status'[d] = "processing"
    BY <2>1, OneRow
  <2>3. /\ upload' \in [Calls -> {"absent", "stored", "queue", "skip", "filed", "deleted"}]
        /\ refiled' \subseteq Calls
        /\ UNCHANGED <<policy, workers, stale, saves, faults>>
    BY <1>3 DEF File
  <2> QED BY <2>2, <2>3
<1>4. ASSUME NEW c \in Calls, DeleteCall(c) PROVE TypeOK'
  <2>1. /\ status' \in [Calls -> Statuses \cup {"none"}]
        /\ lease' \in [Calls -> {"none", "running", "expired"}]
        /\ \A d \in Calls : lease'[d] # "none" <=> status'[d] = "processing"
    BY <1>4, OneRow DEF DeleteCall
  <2>2. faults' \in 0..MaxFaults
    BY <1>4 DEF DeleteCall
  <2> QED BY <1>4, <2>1, <2>2 DEF DeleteCall
<1>5. ASSUME NEW c \in Calls, LeaseEnds(c) PROVE TypeOK'
  BY <1>5 DEF LeaseEnds
<1>6. ASSUME NEW t \in Talkgroups, SaveSetting(t) PROVE TypeOK'
  <2>1. selected' \subseteq Talkgroups /\ stale' \subseteq Calls
    BY <1>6 DEF SaveSetting
  <2>2. saving' \in BOOLEAN
    BY <1>6, Zenon DEF SaveSetting
  <2>3. saves' \in 0..MaxSaves
    BY <1>6 DEF SaveSetting
  <2> QED BY <1>6, <2>1, <2>2, <2>3 DEF SaveSetting
<1>7. CASE ApplyPolicy
  <2>1. /\ status' \in [Calls -> Statuses \cup {"none"}]
        /\ lease' \in [Calls -> {"none", "running", "expired"}]
        /\ \A c \in Calls : lease'[c] # "none" <=> status'[c] = "processing"
    BY <1>7, PolicyRows
  <2>2. stale' \subseteq Calls
    BY <1>7 DEF ApplyPolicy
  <2> QED BY <1>7, <2>1, <2>2 DEF ApplyPolicy
<1>8. ASSUME NEW w \in Workers, BeginClaim(w) PROVE TypeOK'
  BY <1>8, BackfillRows DEF BeginClaim
<1>9. ASSUME NEW w \in Workers, TakeJob(w) PROVE TypeOK'
  BY <1>9 DEF TakeJob, Claimable, Statuses
<1>10. ASSUME NEW w \in Workers, NoJob(w) PROVE TypeOK'
  BY <1>10 DEF NoJob
<1>11. ASSUME NEW w \in Workers, Report(w) PROVE TypeOK'
  <2>1. /\ status' \in [Calls -> Statuses \cup {"none"}]
        /\ lease' \in [Calls -> {"none", "running", "expired"}]
        /\ \A d \in Calls : lease'[d] # "none" <=> status'[d] = "processing"
    BY <1>11, Reported
  <2> QED BY <1>11, <2>1 DEF Report
<1>12. ASSUME NEW w \in Workers, WorkerCrash(w) PROVE TypeOK'
  BY <1>12 DEF WorkerCrash
<1>13. CASE Restart
  <2>1. /\ status' \in [Calls -> Statuses \cup {"none"}]
        /\ lease' \in [Calls -> {"none", "running", "expired"}]
        /\ \A c \in Calls : lease'[c] # "none" <=> status'[c] = "processing"
    BY <1>13, RestartRows
  <2>2. faults' \in 0..MaxFaults
    BY <1>13 DEF Restart
  <2> QED BY <1>13, <2>1, <2>2 DEF Restart
<1>14. CASE UNCHANGED vars
  BY <1>14 DEF vars
<1> QED
  BY <1>1, <1>2, <1>3, <1>4, <1>5, <1>6, <1>7, <1>8, <1>9, <1>10, <1>11, <1>12, <1>13, <1>14
  DEF Next, UploadStep, WorkerStep

-----------------------------------------------------------------------------
(* Leases.                                                                  *)

LEMMA LeaseStep == TypeOK /\ Leases /\ [Next]_vars => Leases'
<1> SUFFICES ASSUME TypeOK, Leases, [Next]_vars PROVE Leases'
  OBVIOUS
<1> USE QueueAssumption DEF Leases, ExclusiveLease, WaitingIsFree, ExpiredIsFree, DeletedHasNoRow,
        Free, policy, queue, workers, history
<1>1. ASSUME NEW c \in Calls, InsertCall(c) PROVE Leases'
  BY <1>1 DEF InsertCall, TypeOK
<1>2. ASSUME NEW c \in Calls, Decide(c) PROVE Leases'
  BY <1>2 DEF Decide, TypeOK
<1>3. ASSUME NEW c \in Calls, File(c) PROVE Leases'
  <2>1. /\ status' = [status EXCEPT ![c] = IF upload[c] = "queue" THEN "pending" ELSE "skipped"]
        /\ \A d \in Calls : lease'[d] \in {"none", lease[d]}
    BY <1>3, OneRow DEF File
  <2> QED BY <1>3, <2>1 DEF File, TypeOK
<1>4. ASSUME NEW c \in Calls, DeleteCall(c) PROVE Leases'
  <2>1. /\ status' = [status EXCEPT ![c] = "none"]
        /\ \A d \in Calls : lease'[d] \in {"none", lease[d]}
    BY <1>4, OneRow DEF DeleteCall
  <2> QED BY <1>4, <2>1 DEF DeleteCall, TypeOK
<1>5. ASSUME NEW c \in Calls, LeaseEnds(c) PROVE Leases'
  BY <1>5 DEF LeaseEnds, TypeOK
<1>6. ASSUME NEW t \in Talkgroups, SaveSetting(t) PROVE Leases'
  BY <1>6 DEF SaveSetting
<1>7. CASE ApplyPolicy
  <2>1. \A c \in Calls : lease'[c] \in {"none", lease[c]} /\ status'[c] = SkipUnselected(c, status[c])
    BY <1>7, PolicyRows
  <2>2. \A c \in Calls : \/ status'[c] = status[c]
                         \/ status[c] # "none" /\ status'[c] = "skipped"
    BY <2>1 DEF SkipUnselected, Skippable
  <2>3. UNCHANGED <<upload, worker, job, late, refiled>>
    BY <1>7 DEF ApplyPolicy
  <2> QED BY <2>1, <2>2, <2>3
<1>8. ASSUME NEW w \in Workers, BeginClaim(w) PROVE Leases'
  <2>1. \A c \in Calls : /\ lease'[c] \in {"none", lease[c]}
                         /\ \/ status'[c] = status[c]
                            \/ status[c] = "none" /\ upload[c] # "deleted"
    BY <1>8, BackfillRows DEF Backfilled, InDb
  <2> QED BY <1>8, <2>1 DEF BeginClaim
\* The call was free, so the worker that takes it is alone with it.
<1>9. ASSUME NEW w \in Workers, TakeJob(w) PROVE Leases'
  <2>1. PICK c \in Claimable : /\ status' = [status EXCEPT ![c] = "processing"]
                               /\ lease' = [lease EXCEPT ![c] = "running"]
                               /\ job' = [job EXCEPT ![w] = c]
    BY <1>9 DEF TakeJob
  <2>2. c \in Calls /\ (c \in refiled \/ Free(c)) /\ upload[c] # "deleted"
    BY DEF Claimable, Reclaimable, TypeOK
  <2>3. /\ job'[w] = c /\ \A v \in Workers \ {w} : job'[v] = job[v]
        /\ late' = late /\ refiled' = refiled /\ upload' = upload
        /\ status'[c] = "processing" /\ lease'[c] = "running"
        /\ \A d \in Calls \ {c} : status'[d] = status[d] /\ lease'[d] = lease[d]
    BY <1>9, <2>1, <2>2 DEF TakeJob, TypeOK
  <2>4. ExclusiveLease'
    BY <2>2, <2>3
  <2>5. WaitingIsFree'
    BY <2>2, <2>3
  <2>6. ExpiredIsFree'
    BY <2>2, <2>3
  <2>7. DeletedHasNoRow'
    BY <2>2, <2>3
  <2> QED BY <2>4, <2>5, <2>6, <2>7
<1>10. ASSUME NEW w \in Workers, NoJob(w) PROVE Leases'
  BY <1>10 DEF NoJob
<1>11. ASSUME NEW w \in Workers, Report(w) PROVE Leases'
  <2>1. /\ \A d \in Calls : lease'[d] \in {"none", lease[d]}
        /\ \A d \in Calls : \/ status'[d] = status[d]
                            \/ status[d] # "none" /\ status'[d] \in {"done", "failed", "skipped"}
    BY <1>11, Reported
  <2> QED BY <1>11, <2>1 DEF Report, TypeOK
<1>12. ASSUME NEW w \in Workers, WorkerCrash(w) PROVE Leases'
  BY <1>12 DEF WorkerCrash, TypeOK
<1>13. CASE Restart
  <2>1. \A c \in Calls : /\ lease'[c] \in {"none", lease[c]}
                         /\ status'[c] = Prepared(c, enabled')
    BY <1>13, RestartRows
  <2>2. \A c \in Calls : upload'[c] = "deleted" <=> upload[c] = "deleted"
    BY <1>13 DEF Restart, TypeOK, InDb
  <2>3. \A c \in Calls :
           /\ status'[c] \in {"none", "pending"} => status[c] \in {"none", "pending"}
           /\ upload[c] = "deleted" => status'[c] = "none"
    BY <2>1 DEF Prepared, SkipShort, SkipUnselected, Skippable, Backfilled, Cancelled, InDb
  <2> QED BY <1>13, <2>1, <2>2, <2>3 DEF Restart
<1>14. CASE UNCHANGED vars
  BY <1>14 DEF vars
<1> QED
  BY <1>1, <1>2, <1>3, <1>4, <1>5, <1>6, <1>7, <1>8, <1>9, <1>10, <1>11, <1>12, <1>13, <1>14
  DEF Next, UploadStep, WorkerStep

-----------------------------------------------------------------------------
(* The policy.                                                              *)

LEMMA PolicyStep == TypeOK /\ Policy /\ [Next]_vars => Policy'
<1> SUFFICES ASSUME TypeOK, Policy, [Next]_vars PROVE Policy'
  OBVIOUS
<1> USE QueueAssumption DEF Policy, PolicyApplied, OffIsEmpty, FiledHasRow, QueuedIsChosen,
        Selected, policy, queue, workers, history
<1>1. ASSUME NEW c \in Calls, InsertCall(c) PROVE Policy'
  BY <1>1 DEF InsertCall, TypeOK
<1>2. ASSUME NEW c \in Calls, Decide(c) PROVE Policy'
  BY <1>2 DEF Decide, Wanted, TypeOK
<1>3. ASSUME NEW c \in Calls, File(c) PROVE Policy'
  <2>1. status' = [status EXCEPT ![c] = IF upload[c] = "queue" THEN "pending" ELSE "skipped"]
    BY <1>3, OneRow DEF File
  <2> QED BY <1>3, <2>1 DEF File, TypeOK
<1>4. ASSUME NEW c \in Calls, DeleteCall(c) PROVE Policy'
  <2>1. status' = [status EXCEPT ![c] = "none"]
    BY <1>4, OneRow DEF DeleteCall
  <2> QED BY <1>4, <2>1 DEF DeleteCall, TypeOK
<1>5. ASSUME NEW c \in Calls, LeaseEnds(c) PROVE Policy'
  BY <1>5 DEF LeaseEnds
\* What waits for the talkgroup is excused by the save under way, what is about to be
\* filed by being named.
<1>6. ASSUME NEW t \in Talkgroups, SaveSetting(t) PROVE Policy'
  BY <1>6 DEF SaveSetting, TypeOK
<1>7. CASE ApplyPolicy
  <2>1. \A c \in Calls : status'[c] = SkipUnselected(c, status[c])
    BY <1>7, PolicyRows
  <2>2. \A c \in Calls :
           /\ status'[c] \in {"pending", "processing"} => status'[c] = status[c] /\ Selected(c)
           /\ status[c] # "none" => status'[c] # "none"
    BY <2>1 DEF SkipUnselected, Skippable
  <2>3. /\ saving /\ ~saving' /\ UNCHANGED <<enabled, selected, upload>>
        /\ \A c \in stale : upload[c] = "queue" => c \in stale'
    BY <1>7 DEF ApplyPolicy
  <2> QED BY <2>2, <2>3
<1>8. ASSUME NEW w \in Workers, BeginClaim(w) PROVE Policy'
  <2>1. \A c \in Calls : \/ status'[c] = status[c]
                         \/ /\ status[c] = "none" /\ status'[c] = "pending"
                            /\ upload[c] \in {"stored", "queue", "skip", "filed"}
    BY <1>8, BackfillRows DEF Backfilled, InDb, TypeOK
  <2>2. enabled
    BY <1>8 DEF BeginClaim
  <2> QED BY <1>8, <2>1, <2>2 DEF BeginClaim
<1>9. ASSUME NEW w \in Workers, TakeJob(w) PROVE Policy'
  <2>1. PICK c \in Claimable : status' = [status EXCEPT ![c] = "processing"]
    BY <1>9 DEF TakeJob
  <2> QED BY <1>9, <2>1 DEF TakeJob, Claimable, TypeOK
<1>10. ASSUME NEW w \in Workers, NoJob(w) PROVE Policy'
  BY <1>10 DEF NoJob
<1>11. ASSUME NEW w \in Workers, Report(w) PROVE Policy'
  <2>1. \A d \in Calls : \/ status'[d] = status[d]
                         \/ status[d] # "none" /\ status'[d] \in {"done", "failed", "skipped"}
    BY <1>11, Reported
  <2> QED BY <1>11, <2>1 DEF Report
<1>12. ASSUME NEW w \in Workers, WorkerCrash(w) PROVE Policy'
  BY <1>12 DEF WorkerCrash
<1>13. CASE Restart
  <2>1. \A c \in Calls : /\ upload'[c] \notin {"queue", "skip", "stored"}
                         /\ upload'[c] = "filed" => InDb(c)
    BY <1>13 DEF Restart, TypeOK, InDb
  <2>2. \A c \in Calls : /\ status'[c] \in {"pending", "processing"} => enabled' /\ Selected(c)
                         /\ enabled' /\ InDb(c) => status'[c] # "none"
    BY <1>13, RestartRows
    DEF TypeOK, Prepared, SkipShort, SkipUnselected, Skippable, Backfilled, Cancelled
  <2> QED BY <1>13, <2>1, <2>2 DEF Restart
<1>14. CASE UNCHANGED vars
  BY <1>14 DEF vars
<1> QED
  BY <1>1, <1>2, <1>3, <1>4, <1>5, <1>6, <1>7, <1>8, <1>9, <1>10, <1>11, <1>12, <1>13, <1>14
  DEF Next, UploadStep, WorkerStep

-----------------------------------------------------------------------------
(* Theorems.                                                                *)

IInv == TypeOK /\ Leases /\ Policy

LEMMA InitIInv == Init => IInv
<1> SUFFICES ASSUME Init PROVE IInv
  OBVIOUS
<1>1. TypeOK
  <2>1. selected \subseteq Talkgroups /\ saves \in 0..MaxSaves /\ faults \in 0..MaxFaults
    BY QueueAssumption DEF Init
  <2>2. /\ status \in [Calls -> Statuses \cup {"none"}]
        /\ lease \in [Calls -> {"none", "running", "expired"}]
        /\ \A c \in Calls : lease[c] # "none" <=> status[c] = "processing"
    BY DEF Init
  <2>3. enabled \in BOOLEAN /\ saving \in BOOLEAN
    BY Zenon DEF Init
  <2> QED BY <2>1, <2>2, <2>3 DEF Init, TypeOK
<1>2. Leases
  BY QueueAssumption
  DEF Init, Leases, ExclusiveLease, WaitingIsFree, ExpiredIsFree, DeletedHasNoRow, Free
<1>3. Policy
  BY DEF Init, Policy, PolicyApplied, OffIsEmpty, FiledHasRow, QueuedIsChosen
<1> QED BY <1>1, <1>2, <1>3 DEF IInv

LEMMA IInvHolds == Spec => []IInv
<1>1. IInv /\ [Next]_vars => IInv'
  BY TypeStep, LeaseStep, PolicyStep DEF IInv
<1> QED BY InitIInv, <1>1, PTL DEF Spec

\* Types: a row has a lease exactly while it is being processed.
THEOREM TypeCorrect == Spec => []TypeOK
<1>1. IInv => TypeOK
  BY DEF IInv
<1> QED BY <1>1, IInvHolds, PTL

\* transcriptions.go ClaimTranscriptionJob, SkipUnselectedPendingTranscriptionJobs: two
\* workers share a call only where its upload filed it again, and what waits or runs was
\* chosen, but for saves and uploads under way and the calls they overtook.
THEOREM ClaimsAreSound == Spec => []ClaimsSound
<1>1. IInv => ClaimsSound
  BY DEF IInv, Leases, Policy, ClaimsSound
<1> QED BY <1>1, IInvHolds, PTL

\* transcriptions.go CompleteTranscriptionJob against SkipUnselectedPendingTranscriptionJobs,
\* EnsureTranscriptionQueueRows and CancelPendingTranscriptionJobs: no step takes a finished
\* transcription back but the deletion of its call, the filing of its own upload, or the
\* result of another worker that still holds the call.
THEOREM DoneIsKept == Spec => DoneKept
<1> DEFINE Undone(c) == status[c] = "done" /\ status'[c] # "done"
           Excused(c) == \/ upload'[c] = "deleted"
                         \/ upload[c] \in {"queue", "skip"}
                         \/ \E w \in Workers : job[w] = c
<1>1. ASSUME IInv, [Next]_vars, NEW c \in Calls, Undone(c) PROVE Excused(c)
  <2>1. TypeOK
    BY <1>1 DEF IInv
  <2>2. ASSUME UNCHANGED status PROVE FALSE
    BY <1>1, <2>2
  <2>3. ASSUME NEW d \in Calls, File(d) PROVE Excused(c)
    <3>1. PICK s \in {"pending", "skipped"} : status' = [status EXCEPT ![d] = s]
      BY <2>1, <2>3, OneRow DEF File
    <3>2. d = c
      BY <1>1, <3>1
    <3> QED BY <2>3, <3>2 DEF File
  <2>4. ASSUME NEW d \in Calls, DeleteCall(d) PROVE Excused(c)
    <3>1. status' = [status EXCEPT ![d] = "none"]
      BY <2>1, <2>4, OneRow DEF DeleteCall
    <3>2. d = c
      BY <1>1, <3>1
    <3> QED BY <2>1, <2>4, <3>2 DEF DeleteCall, TypeOK
  <2>5. ASSUME NEW w \in Workers, BeginClaim(w) PROVE FALSE
    BY <1>1, <2>1, <2>5, BackfillRows DEF Backfilled
  <2>6. ASSUME NEW w \in Workers, TakeJob(w) PROVE FALSE
    BY <1>1, <2>1, <2>6 DEF TakeJob, Claimable, TypeOK
  <2>7. ASSUME NEW w \in Workers, Report(w) PROVE Excused(c)
    <3>1. PICK s : status' = [status EXCEPT ![job[w]] = s] \/ UNCHANGED status
      BY <2>7 DEF Report, SetRow, SetAll, queue
    <3>2. job[w] = c
      BY <1>1, <2>1, <2>2, <3>1 DEF TypeOK
    <3> QED BY <3>2
  <2>8. ASSUME ApplyPolicy PROVE FALSE
    BY <1>1, <2>1, <2>8, PolicyRows DEF SkipUnselected, Skippable
  <2>9. ASSUME Restart PROVE FALSE
    BY <1>1, <2>1, <2>9, RestartRows
    DEF Prepared, SkipShort, SkipUnselected, Skippable, Backfilled, Cancelled
  <2>10. ASSUME NEW d \in Calls, InsertCall(d) \/ Decide(d) \/ LeaseEnds(d) PROVE FALSE
    BY <2>2, <2>10 DEF InsertCall, Decide, LeaseEnds, queue
  <2>11. ASSUME NEW w \in Workers, NoJob(w) \/ WorkerCrash(w) PROVE FALSE
    BY <2>2, <2>11 DEF NoJob, WorkerCrash, queue
  <2>12. ASSUME NEW t \in Talkgroups, SaveSetting(t) PROVE FALSE
    BY <2>2, <2>12 DEF SaveSetting, queue
  <2>13. ASSUME UNCHANGED vars PROVE FALSE
    BY <2>2, <2>13 DEF vars, queue
  <2> QED BY <1>1, <2>3, <2>4, <2>5, <2>6, <2>7, <2>8, <2>9, <2>10, <2>11, <2>12, <2>13
          DEF Next, UploadStep, WorkerStep
<1>2. IInv /\ [Next]_vars => [\A c \in Calls : Undone(c) => Excused(c)]_vars
  BY <1>1
<1>3. IInv /\ [Next]_vars => IInv'
  BY TypeStep, LeaseStep, PolicyStep DEF IInv
<1> QED BY <1>2, <1>3, InitIInv, PTL DEF Spec, DoneKept

-----------------------------------------------------------------------------
(* Part 2: the listener streams. The inductive invariant.                   *)

Call == [tg : StreamTalkgroups, source : Sources]
Handler == [pc : {"idle", "push", "extend", "query", "write", "reread", "hub"},
            k : 0..MaxCalls, row : Row, sub : Subscription]
Connection == [pc : {"off", "found", "subscribed", "seeding", "live", "gone"},
               row : Row, sources : SUBSET Sources, sub : Subscription,
               ch : Seq(Ids), seed : Seq(Ids), seeded : SUBSET Ids, before : SUBSET Ids,
               skipped : BOOLEAN, stale : BOOLEAN]

\* The types, as functions.
World ==
    /\ set \in Row /\ link \in {"private", "shared", "deleted"} /\ readable \subseteq Sources
    /\ calls \in Seq(Call) /\ Len(calls) <= MaxCalls
    /\ pushed \subseteq Stored
    /\ edits \in 0..MaxEdits
Handlers ==
    /\ proc \in [Processes -> Handler]
    /\ \A p \in Processes : proc[p].pc \in {"push", "extend"} => proc[p].k \in Stored
Connections ==
    /\ lst \in [Listeners -> Connection]
    /\ heard \in [Listeners -> SUBSET Ids] /\ lost \in [Listeners -> SUBSET Ids]
    /\ since \in [Listeners -> SUBSET View]

\* What a handler is about to tell the hub is what its row says, or its resolved
\* part; only the loop asks for the talkgroups of a row.
Tells(r, s) == s = Full(r) \/ (s = Resolved(r) /\ (r.mode = "groups" \/ link = "deleted"))
Telling ==
    /\ \A p \in Processes : proc[p].pc \in {"write", "hub"} => Tells(proc[p].row, proc[p].sub)
    /\ proc[Loop].pc = "query" => proc[Loop].row.mode = "groups"

\* What a listener was subscribed to is what one view showed it.
Told(v, s) == s \in {Full(v.row), Resolved(v.row)} /\ (v.ptt => s = Full(v.row))
AllShare(l, k) == \A v \in since[l] : Shares(v, k)
Got(l) == heard[l] \cup Pending(l) \cup lost[l]
Allowed(l, k) ==
    \/ calls[k].tg \in Virtual
    \/ /\ \E v \in since[l] : calls[k].source \in v.readable
       /\ \E v \in since[l] : \/ calls[k].tg \in v.row.tgs
                              \/ GroupAt(calls[k].tg) \in v.row.groups

Bounded(l) ==
    /\ Len(lst[l].ch) <= ChannelSize /\ Len(lst[l].seed) <= SeedLimit
    /\ heard[l] \cup Pending(l) \cup lst[l].seeded \subseteq Stored
    /\ lst[l].before \cup lost[l] \subseteq pushed
Viewed(l) ==
    /\ lst[l].pc \in {"off", "gone"} <=> since[l] = {}
    /\ since[l] # {} => \E v \in since[l] : v.readable = readable
    /\ lst[l].pc \in {"found", "subscribed"} => \E v \in since[l] : v.row = lst[l].row
Quiet(l) ==
    /\ lst[l].pc \in {"off", "found", "gone"} => lst[l].ch = <<>>
    /\ lst[l].pc \in {"off", "found", "subscribed", "gone"} => heard[l] = {} /\ lst[l].seed = <<>>
Subscribed(l) ==
    Listening(l) =>
        /\ \E v \in since[l] : v.readable = lst[l].sources
        /\ \E v \in since[l] : Told(v, lst[l].sub)
        /\ \A k \in pushed \ lst[l].before : AllShare(l, k) => k \in Got(l)
Seeded(l) ==
    lst[l].pc \in {"seeding", "live"} =>
        \A k \in lst[l].before : AllShare(l, k) => k \in Got(l) \/ Outdone(l, k)
Shared(l) == \A k \in heard[l] \cup Pending(l) : Allowed(l, k)

Served(l) == Bounded(l) /\ Viewed(l) /\ Quiet(l) /\ Subscribed(l) /\ Seeded(l) /\ Shared(l)

StreamIInv ==
    /\ World /\ Handlers /\ Connections
    /\ Telling /\ FollowsRow
    /\ \A l \in Listeners : Served(l)

-----------------------------------------------------------------------------
(* Counting: what Newest lists.                                             *)

\* A set of numbers has a least one, and a bounded one a greatest.
LEMMA NatMin ==
  ASSUME NEW T, T \subseteq Nat, T # {}
  PROVE  \E x \in T : \A y \in T : x <= y
<1> DEFINE R == OpToRel(<, Nat)
<1>1. PICK x \in T : \A y \in T : ~ (<<y, x>> \in R)
  <2>1. IsWellFoundedOn(R, Nat)
    BY NatLessThanWellFounded
  <2> HIDE DEF R
  <2> QED BY <2>1, WFMin
<1>2. ASSUME NEW y \in T PROVE x <= y
  <2>1. y < x => <<y, x>> \in R
    BY DEF OpToRel
  <2> HIDE DEF R
  <2> QED BY <1>1, <2>1
<1> QED BY <1>2

LEMMA NatMax ==
  ASSUME NEW T, NEW b \in Nat, T \subseteq 1..b, T # {}
  PROVE  \E x \in T : \A y \in T : y <= x
<1> DEFINE D == {b - x : x \in T}
<1>0. \A x \in T : x \in Nat /\ x <= b /\ b - x \in Nat
  OBVIOUS
<1>1. D \subseteq Nat /\ D # {}
  BY <1>0
<1>2. PICK d \in D : \A e \in D : d <= e
  <2> HIDE DEF D
  <2> QED BY <1>1, NatMin
<1>3. PICK x \in T : d = b - x
  BY <1>2
<1>4. ASSUME NEW y \in T PROVE y <= x
  <2>1. b - y \in D
    OBVIOUS
  <2>2. b - x <= b - y
    BY <1>2, <1>3, <2>1
  <2> QED BY <1>0, <2>2
<1> QED BY <1>4

\* The order of numbers, as far as sets of them need it.
LEMMA NatOrder ==
  ASSUME NEW T, T \subseteq Nat
  PROVE  /\ \A x \in T : ~ (x < x)
         /\ \A x, y \in T : x < y \/ x = y \/ y < x
         /\ \A x, y \in T : (y > x <=> x < y) /\ (x <= y <=> ~ (y < x))
         /\ \A x, y, z \in T : x < y /\ y < z => x < z
<1>1. \A x \in T : x \in Nat
  OBVIOUS
<1> QED BY <1>1

\* Numbers of a finite set by how many of it are smaller: one for each rank.
LEMMA Ranks ==
  ASSUME NEW b \in Nat, NEW K, K \subseteq 1..b
  PROVE  /\ IsFiniteSet(K) /\ Cardinality(K) \in Nat
         /\ \A i \in 1..Cardinality(K) : \E k \in K : Cardinality({j \in K : j < k}) = i - 1
         /\ \A k \in K : Cardinality({j \in K : j < k}) + 1 \in 1..Cardinality(K)
         /\ \A k, h \in K : k < h => Cardinality({j \in K : j < k}) < Cardinality({j \in K : j < h})
<1> DEFINE Below(k) == {j \in K : j < k}
<1>0. K \subseteq Nat
  OBVIOUS
<1> HIDE DEF Below
<1>o. /\ \A x \in K : ~ (x < x)
      /\ \A x, y \in K : x < y \/ x = y \/ y < x
      /\ \A x, y \in K : (y > x <=> x < y) /\ (x <= y <=> ~ (y < x))
      /\ \A x, y, z \in K : x < y /\ y < z => x < z
  BY <1>0, NatOrder
<1> USE DEF Below
<1>1. IsFiniteSet(K) /\ Cardinality(K) \in Nat
  <2>1. IsFiniteSet(1..b)
    BY FS_Interval
  <2> QED BY <2>1, FS_Subset, FS_CardinalityType
<1>2. ASSUME NEW T \in SUBSET K PROVE IsFiniteSet(T) /\ Cardinality(T) \in Nat /\ Cardinality(T) <= Cardinality(K)
  BY <1>1, FS_Subset, FS_CardinalityType
<1>3. ASSUME NEW T \in SUBSET K, NEW U \in SUBSET T, NEW x \in T, x \notin U
      PROVE  Cardinality(U) < Cardinality(T)
  <2>1. IsFiniteSet(T) /\ Cardinality(T) \in Nat /\ Cardinality(U) \in Nat
    BY <1>2
  <2>2. Cardinality(U) <= Cardinality(T) /\ (Cardinality(T) = Cardinality(U) => T = U)
    BY <2>1, FS_Subset
  <2> QED BY <1>3, <2>1, <2>2
<1>4. ASSUME NEW k \in K PROVE Cardinality(Below(k)) + 1 \in 1..Cardinality(K)
  <2>1. Below(k) \in SUBSET K /\ k \notin Below(k)
    OBVIOUS
  <2>2. Cardinality(Below(k)) < Cardinality(K) /\ Cardinality(Below(k)) \in Nat
    <3> HIDE DEF Below
    <3> QED BY <2>1, <1>2, <1>3
  <2> HIDE DEF Below
  <2> QED BY <1>1, <2>2
<1>5. ASSUME NEW k \in K, NEW h \in K, k < h PROVE Cardinality(Below(k)) < Cardinality(Below(h))
  <2>1. Below(h) \in SUBSET K /\ Below(k) \in SUBSET Below(h) /\ k \in Below(h) /\ k \notin Below(k)
    BY <1>o, <1>5
  <2> HIDE DEF Below
  <2> QED BY <2>1, <1>3
<1>6. \A i \in 1..Cardinality(K) : \E k \in K : Cardinality(Below(k)) = i - 1
  <2> DEFINE Gap == {i \in 1..Cardinality(K) : ~ \E k \in K : Cardinality(Below(k)) = i - 1}
  <2> SUFFICES ASSUME Gap # {} PROVE FALSE
    OBVIOUS
  <2>1. Gap \subseteq Nat
    BY <1>1
  <2>2. PICK i \in Gap : \A h \in Gap : i <= h
    <3> HIDE DEF Gap
    <3> QED BY <2>1, NatMin
  <2>3. i \in 1..Cardinality(K) /\ ~ \E k \in K : Cardinality(Below(k)) = i - 1
    BY <2>2
  \* The numbers of smaller rank than i - 1, and the least of the others.
  <2>4. CASE i = 1
    <3>1. K # {}
      <4>1. K = {} => Cardinality(K) = 0
        BY FS_EmptySet
      <4> QED BY <1>1, <2>3, <4>1
    <3>2. PICK m \in K : \A y \in K : m <= y
      <4>1. K \subseteq Nat
        BY <1>0
      <4> QED BY <3>1, <4>1, NatMin
    <3>3. Below(m) = {}
      <4>1. ASSUME NEW j \in K PROVE ~(j < m)
        BY <1>0, <3>2
      <4> QED BY <4>1
    <3>4. Cardinality(Below(m)) = 0
      BY <3>3, FS_EmptySet
    <3> HIDE DEF Below
    <3> QED BY <2>3, <2>4, <3>4
  <2>5. CASE i # 1
    <3>1. i - 1 \in 1..Cardinality(K) /\ i - 1 \notin Gap
      BY <1>1, <2>2, <2>3, <2>5
    <3>2. PICK k \in K : Cardinality(Below(k)) = (i - 1) - 1
      BY <3>1
    <3> DEFINE Above == {j \in K : j > k}
    <3>3. Above # {}
      <4> SUFFICES ASSUME Above = {} PROVE FALSE
        OBVIOUS
      <4>0. \A j \in K : ~ (j > k)
        OBVIOUS
      <4>1. K = Below(k) \cup {k} /\ k \notin Below(k)
        <5>1. \A j \in K : j < k \/ j = k
          BY <1>o, <4>0
        <5>2. \A j \in K : j \in Below(k) \/ j = k
          BY <5>1
        <5>3. k \notin Below(k) /\ \A j \in Below(k) : j \in K
          BY <1>o
        <5> HIDE DEF Below
        <5> QED BY <5>2, <5>3
      <4>2. IsFiniteSet(Below(k))
        <5>1. Below(k) \subseteq K
          BY ONLY TRUE
        <5> HIDE DEF Below
        <5> QED BY <5>1, <1>2
      <4>3. Cardinality(K) = Cardinality(Below(k)) + 1
        <5> HIDE DEF Below
        <5>1. Cardinality(Below(k) \cup {k}) = Cardinality(Below(k)) + 1
          BY <4>1, <4>2, FS_AddElement
        <5> QED BY <4>1, <5>1
      <4> QED BY <1>1, <2>3, <3>2, <4>3
    <3>4. PICK m \in Above : \A y \in Above : m <= y
      <4>1. Above \subseteq Nat
        BY <1>0
      <4> HIDE DEF Above
      <4> QED BY <3>3, <4>1, NatMin
    <3>5. Below(m) = Below(k) \cup {k} /\ k \notin Below(k) /\ m \in K
      <4>1. m \in K /\ k < m /\ \A y \in K : k < y => ~ (y < m)
        BY <1>o, <3>4
      <4>2. \A j \in K : j < m <=> j < k \/ j = k
        BY <1>o, <4>1
      <4>3. ~ (k < k)
        BY <1>o
      <4> QED BY <4>1, <4>2, <4>3
    <3>6. Cardinality(Below(m)) = Cardinality(Below(k)) + 1
      <4>1. Below(k) \in SUBSET K
        OBVIOUS
      <4> HIDE DEF Below
      <4>2. IsFiniteSet(Below(k))
        BY <4>1, <1>2
      <4>3. Cardinality(Below(k) \cup {k}) = Cardinality(Below(k)) + 1
        BY <3>5, <4>2, FS_AddElement
      <4> QED BY <3>5, <4>3
    <3> HIDE DEF Below, Above
    <3> QED BY <1>1, <2>3, <3>2, <3>5, <3>6
  <2> QED BY <2>4, <2>5
<1> QED BY <1>1, <1>4, <1>5, <1>6

\* Newest(K, n) lists calls of K once each, n at most; it leaves one out only when it
\* lists n newer ones.
Top(K, n) == {k \in K : Cardinality({j \in K : j > k}) < n}

LEMMA TopCount ==
  ASSUME NEW b \in Nat, NEW K, K \subseteq 1..b, NEW n \in Nat \ {0}
  PROVE  /\ Top(K, n) \subseteq K /\ IsFiniteSet(Top(K, n))
         /\ Cardinality(Top(K, n)) \in Nat /\ Cardinality(Top(K, n)) <= n
         /\ \A k \in K \ Top(K, n) : /\ Cardinality(Top(K, n)) = n
                                     /\ \A j \in Top(K, n) : j > k
<1> DEFINE Over(k) == {j \in K : j > k}
           T == Top(K, n)
<1>0. K \subseteq Nat
  OBVIOUS
<1>o. /\ \A x \in K : ~ (x < x)
      /\ \A x, y \in K : x < y \/ x = y \/ y < x
      /\ \A x, y \in K : (y > x <=> x < y) /\ (x <= y <=> ~ (y < x))
      /\ \A x, y, z \in K : x < y /\ y < z => x < z
  BY <1>0, NatOrder
<1>1. IsFiniteSet(K) /\ Cardinality(K) \in Nat
  BY Ranks
<1>2. ASSUME NEW S \in SUBSET K PROVE IsFiniteSet(S) /\ Cardinality(S) \in Nat
  BY <1>1, FS_Subset, FS_CardinalityType
<1>3. T \in SUBSET K /\ \A k \in K : k \in T <=> Cardinality(Over(k)) < n
  BY DEF Top
<1>4. ASSUME NEW k \in K, NEW j \in K, j < k, j \in T PROVE k \in T
  <2>1. Over(k) \in SUBSET Over(j) /\ Over(j) \in SUBSET K /\ Over(k) \in SUBSET K
    BY <1>o, <1>4
  <2>2. Cardinality(Over(k)) <= Cardinality(Over(j)) /\ Cardinality(Over(k)) \in Nat /\ Cardinality(Over(j)) \in Nat
    <3> HIDE DEF Over
    <3> QED BY <2>1, <1>2, FS_Subset
  <2> HIDE DEF Over, T
  <2> QED BY <1>3, <1>4, <2>2
<1>5. Cardinality(T) <= n
  <2>1. CASE T = {}
    BY <2>1, FS_EmptySet
  <2>2. CASE T # {}
    <3>1. PICK m \in T : \A y \in T : m <= y
      <4>1. T \subseteq Nat
        BY <1>0, <1>3
      <4> HIDE DEF T
      <4> QED BY <2>2, <4>1, NatMin
    <3>2. T = Over(m) \cup {m} /\ m \notin Over(m) /\ m \in K /\ Over(m) \in SUBSET K
      <4> HIDE DEF T
      <4> QED BY <1>o, <1>3, <1>4, <3>1
    <3>3. Cardinality(T) = Cardinality(Over(m)) + 1 /\ Cardinality(Over(m)) \in Nat
      <4> HIDE DEF T, Over
      <4>1. IsFiniteSet(Over(m)) /\ Cardinality(Over(m)) \in Nat
        BY <3>2, <1>2
      <4>2. Cardinality(Over(m) \cup {m}) = Cardinality(Over(m)) + 1
        BY <3>2, <4>1, FS_AddElement
      <4> QED BY <3>2, <4>1, <4>2
    <3> HIDE DEF T, Over
    <3> QED BY <1>3, <3>1, <3>2, <3>3
  <2> QED BY <2>1, <2>2
<1>6. ASSUME NEW k \in K \ T PROVE Cardinality(T) = n /\ \A j \in T : j > k
  <2>1. \A j \in T : j > k
    <3> HIDE DEF T
    <3> QED BY <1>3, <1>4, <1>6
  <2>2. PICK x \in K \ T : \A y \in K \ T : y <= x
    <3>1. K \ T \subseteq 1..b
      OBVIOUS
    <3> DEFINE S == K \ T
    <3>2. S \subseteq 1..b /\ S # {}
      BY <1>6, <3>1
    <3> HIDE DEF S
    <3>3. \E x \in S : \A y \in S : y <= x
      BY <3>2, NatMax
    <3> QED BY <3>3 DEF S
  <2>3. Over(x) = T
    <3>1. x \in K /\ x \notin T /\ \A y \in T : y > x
      <4> HIDE DEF T
      <4> QED BY <1>3, <1>4, <2>2
    <3>2. \A y \in K : y > x => y \in T
      BY <2>2
    <3> HIDE DEF T
    <3> QED BY <1>3, <3>1, <3>2
  <2>4. ~ (Cardinality(Over(x)) < n)
    <3> HIDE DEF T
    <3> QED BY <1>3, <2>2
  <2>5. Cardinality(T) \in Nat
    <3> HIDE DEF T
    <3> QED BY <1>2, <1>3
  <2> HIDE DEF T, Over
  <2> QED BY <1>5, <2>1, <2>3, <2>4, <2>5
<1>7. IsFiniteSet(T) /\ Cardinality(T) \in Nat
  <2> HIDE DEF T
  <2> QED BY <1>2, <1>3
<1> QED BY <1>3, <1>5, <1>6, <1>7

LEMMA NewestLists ==
  ASSUME NEW b \in Nat, NEW K, K \subseteq 1..b, NEW n \in Nat \ {0}
  PROVE  LET s == Newest(K, n)
             m == Cardinality(Top(K, n))
         IN  /\ s \in Seq(K) /\ Len(s) = m
             /\ \A i \in 1..m : s[i] \in Top(K, n)
             /\ \A k \in Top(K, n) : \E i \in 1..m : s[i] = k
             /\ \A i, j \in 1..m : s[i] = s[j] => i = j
<1> DEFINE T == Top(K, n)
           m == Cardinality(T)
           Nth(i) == CHOOSE k \in T : Cardinality({j \in T : j < k}) = i - 1
           s == [i \in 1..m |-> Nth(i)]
<1>1. T \subseteq 1..b /\ m \in Nat /\ T \subseteq K
  BY TopCount
<1>2. Newest(K, n) = s
  BY DEF Newest, Top
<1> HIDE DEF T
<1>3. /\ \A i \in 1..m : \E k \in T : Cardinality({j \in T : j < k}) = i - 1
      /\ \A k \in T : Cardinality({j \in T : j < k}) + 1 \in 1..m
      /\ \A k, h \in T : k < h => Cardinality({j \in T : j < k}) < Cardinality({j \in T : j < h})
  BY <1>1, Ranks
<1>4. \A i \in 1..m : Nth(i) \in T /\ Cardinality({j \in T : j < Nth(i)}) = i - 1
  BY <1>3
<1> HIDE DEF Nth
<1>5. s \in [1..m -> K] /\ Len(s) = m /\ s \in Seq(K) /\ \A i \in 1..m : s[i] = Nth(i)
  <2>1. s \in [1..m -> K] /\ \A i \in 1..m : s[i] = Nth(i)
    BY <1>1, <1>4
  <2> HIDE DEF s, m
  <2> QED BY <1>1, <2>1
<1>6. ASSUME NEW k \in T PROVE \E i \in 1..m : s[i] = k
  <2>1. PICK i \in 1..m : i = Cardinality({j \in T : j < k}) + 1
    BY <1>3
  <2> DEFINE h == Nth(i)
  <2>2. h \in T /\ Cardinality({j \in T : j < h}) = i - 1
    BY <1>4
  <2> HIDE DEF h
  <2>3. Cardinality({j \in T : j < k}) = Cardinality({j \in T : j < h}) /\ Cardinality({j \in T : j < h}) \in Nat
    <3>1. Cardinality({j \in T : j < k}) + 1 \in 1..m /\ IsFiniteSet({j \in T : j < k})
      <4>1. IsFiniteSet(T) /\ {j \in T : j < k} \in SUBSET T
        BY TopCount DEF T
      <4> QED BY <4>1, <1>3, FS_Subset
    <3>2. Cardinality({j \in T : j < k}) \in Nat
      BY <3>1, FS_CardinalityType
    <3> QED BY <2>1, <2>2, <3>2, <1>1
  <2>4. ~(k < h) /\ ~(h < k)
    BY <1>3, <2>2, <2>3
  <2>5. h = k
    BY <1>1, <2>2, <2>4
  <2> QED BY <1>5, <2>5 DEF h
<1>7. ASSUME NEW i \in 1..m, NEW j \in 1..m, s[i] = s[j] PROVE i = j
  <2>1. Nth(i) = Nth(j)
    BY <1>5, <1>7
  <2>2. i - 1 = j - 1
    BY <1>4, <2>1
  <2> QED BY <1>1, <2>2
<1> HIDE DEF s
<1> QED BY <1>1, <1>2, <1>4, <1>5, <1>6, <1>7 DEF T

-----------------------------------------------------------------------------
(* Types.                                                                   *)

\* The types of the specification follow.
LEMMA StreamTyped == StreamIInv => StreamTypeOK
<1> SUFFICES ASSUME StreamIInv PROVE StreamTypeOK
  OBVIOUS
<1>1. World /\ Handlers /\ Connections /\ \A l \in Listeners : Bounded(l)
  BY DEF StreamIInv, Served
<1>2. \A k \in Stored : calls[k] \in [tg : StreamTalkgroups, source : Sources]
  <2>1. \A k \in DOMAIN calls : calls[k] \in Call
    BY <1>1 DEF World
  <2> QED BY <2>1 DEF Call, Stored
<1>3. ASSUME NEW l \in Listeners
      PROVE  /\ lst[l].pc \in {"off", "found", "subscribed", "seeding", "live", "gone"}
             /\ lst[l].row \in Row /\ lst[l].sources \subseteq Sources
             /\ lst[l].sub \in Subscription
             /\ Len(lst[l].ch) <= ChannelSize
             /\ Len(lst[l].seed) <= SeedLimit
             /\ lst[l].seeded \subseteq Stored /\ lst[l].before \subseteq pushed
             /\ lst[l].skipped \in BOOLEAN /\ lst[l].stale \in BOOLEAN
             /\ heard[l] \subseteq Stored /\ lost[l] \subseteq pushed
             /\ since[l] \subseteq View
  <2>1. lst[l] \in Connection /\ since[l] \subseteq View
    BY <1>1 DEF Connections
  <2>2. lst[l].skipped \in BOOLEAN /\ lst[l].stale \in BOOLEAN
    BY <2>1, Zenon DEF Connection
  <2>3. /\ lst[l].pc \in {"off", "found", "subscribed", "seeding", "live", "gone"}
        /\ lst[l].row \in Row /\ lst[l].sources \subseteq Sources /\ lst[l].sub \in Subscription
    BY <2>1 DEF Connection
  <2>4. Bounded(l)
    BY <1>1
  <2> QED BY <2>1, <2>2, <2>3, <2>4 DEF Bounded
<1> QED BY <1>1, <1>2, <1>3 DEF World, Handlers, Handler, StreamTypeOK

LEMMA RowTyped ==
  ASSUME NEW r \in Row
  PROVE  Full(r) \in Subscription /\ Resolved(r) \in Subscription
  BY ListenerStreamAssumption DEF Row, Full, Resolved, Subscription, StreamTalkgroups

LEMMA NoneTyped ==
  /\ NoRow \in Row /\ NoSub \in Subscription /\ Idle \in Handler
  /\ Off \in Connection
<1>1. NoRow \in Row /\ NoSub \in Subscription
  BY DEF NoRow, NoSub, Row, Subscription
<1>2. Idle \in Handler
  BY <1>1, ListenerStreamAssumption DEF Idle, Handler
<1>3. Off \in Connection
  <2>1. <<>> \in Seq(Ids) /\ FALSE \in BOOLEAN /\ {} \in SUBSET Ids /\ {} \in SUBSET Sources
    OBVIOUS
  <2> QED BY <1>1, <2>1, Zenon DEF Off, Connection
<1> QED BY <1>1, <1>2, <1>3

\* What a handler does next.
LEMMA HandlerGoes ==
  ASSUME Handlers, NEW p \in Processes, NEW state \in Handler, Goes(p, state),
         DOMAIN calls \subseteq DOMAIN calls',
         state.pc \in {"push", "extend"} => state.k \in DOMAIN calls'
  PROVE  /\ Handlers'
         /\ proc'[p] = state /\ \A q \in Processes : q # p => proc'[q] = proc[q]
<1>1. proc' = [proc EXCEPT ![p] = state] /\ proc \in [Processes -> Handler]
  BY DEF Goes, Handlers
<1>2. proc'[p] = state /\ \A q \in Processes : q # p => proc'[q] = proc[q]
  BY <1>1
<1>3. proc' \in [Processes -> Handler]
  BY <1>1
<1>4. ASSUME NEW q \in Processes, proc'[q].pc \in {"push", "extend"} PROVE proc'[q].k \in Stored'
  BY <1>2, <1>4 DEF Handlers, Stored
<1> QED BY <1>2, <1>3, <1>4 DEF Handlers

\* A view of a typed row is added to what listeners may have been shown.
LEMMA ShownTyped ==
  ASSUME Connections, NEW r \in Row, NEW ok \in SUBSET Sources, NEW ptt \in BOOLEAN,
         Shown(ViewOf(r, ok, ptt))
  PROVE  since' \in [Listeners -> SUBSET View]
<1>1. ViewOf(r, ok, ptt) \in View
  BY Zenon DEF ViewOf, View
<1> QED BY <1>1 DEF Connections, Shown

-----------------------------------------------------------------------------
(* What a step leaves alone.                                                *)

\* A step of a handler that adds no call to what a listener has to get: the listener
\* may have been shown one more view, and there may be one more call.
Untouched(l) ==
    /\ lst'[l] = lst[l] /\ heard'[l] = heard[l] /\ lost'[l] = lost[l]
    /\ pushed' = pushed
    /\ Stored \subseteq Stored' /\ \A k \in Stored : calls'[k] = calls[k]
    /\ since[l] \subseteq since'[l]
    /\ since[l] = {} => since'[l] = {}
    /\ since[l] # {} => \E v \in since'[l] : v.readable = readable'

LEMMA CallSame ==
  ASSUME NEW k, calls'[k] = calls[k]
  PROVE  /\ Ptt(k)' <=> Ptt(k)
         /\ \A v : Shares(v, k)' <=> Shares(v, k)
<1>1. Ptt(k)' <=> Ptt(k)
  BY DEF Ptt
<1> QED BY <1>1 DEF Shares, GroupAt

LEMMA UntouchedServed ==
  ASSUME World, NEW l \in Listeners, Served(l), Untouched(l)
  PROVE  Served(l)'
<1> USE DEF Untouched
<1>1. /\ Pending(l)' = Pending(l) /\ Got(l)' = Got(l)
      /\ Listening(l)' = Listening(l)
  BY DEF Pending, Got, Listening
<1>2. ASSUME NEW k \in Stored, AllShare(l, k)' PROVE AllShare(l, k)
  <2>1. \A v : Shares(v, k)' <=> Shares(v, k)
    BY CallSame
  <2> QED BY <1>2, <2>1 DEF AllShare
<1>3. ASSUME NEW k \in Stored, Allowed(l, k) PROVE Allowed(l, k)'
  <2>1. calls'[k] = calls[k]
    OBVIOUS
  <2> QED BY <1>3, <2>1 DEF Allowed, GroupAt
<1>4. ASSUME NEW k \in Stored, Outdone(l, k) PROVE Outdone(l, k)'
  <2>1. Ptt(k)' <=> Ptt(k)
    BY CallSame
  <2> QED BY <1>4, <2>1 DEF Outdone
<1>5. pushed \subseteq Stored
  BY DEF World
<1>6. Bounded(l)'
  BY <1>1 DEF Served, Bounded
<1>7. Viewed(l)'
  BY DEF Served, Viewed
<1>8. Quiet(l)'
  BY DEF Served, Quiet
<1>9. Subscribed(l)'
  BY <1>1, <1>2, <1>5 DEF Served, Subscribed
<1>10. Seeded(l)'
  <2>1. lst[l].before \subseteq Stored
    BY <1>5 DEF Served, Bounded
  <2> QED BY <1>1, <1>2, <1>4, <2>1 DEF Served, Seeded
<1>11. Shared(l)'
  <2>1. heard[l] \cup Pending(l) \subseteq Stored
    BY DEF Served, Bounded
  <2> QED BY <1>1, <1>3, <2>1 DEF Served, Shared
<1> QED BY <1>6, <1>7, <1>8, <1>9, <1>10, <1>11 DEF Served

\* So does a step that changes neither calls nor rows, for a listener it is not about.
LEMMA ElsewhereServed ==
  ASSUME World, NEW l \in Listeners, Served(l),
         lst'[l] = lst[l], heard'[l] = heard[l], lost'[l] = lost[l], since'[l] = since[l],
         UNCHANGED <<calls, pushed, readable>>
  PROVE  Served(l)'
<1>1. Untouched(l)
  BY DEF Untouched, Stored, Served, Viewed
<1> QED BY <1>1, UntouchedServed

\* Whoever was shown something is shown the new view as well.
LEMMA ShownUntouched ==
  ASSUME World, Connections, NEW r, NEW ptt, Shown(ViewOf(r, readable', ptt)),
         UNCHANGED <<lst, heard, lost, calls, pushed>>
  PROVE  \A l \in Listeners : Untouched(l)
<1> SUFFICES ASSUME NEW l \in Listeners PROVE Untouched(l)
  OBVIOUS
<1> DEFINE v == ViewOf(r, readable', ptt)
<1>1. v.readable = readable'
  BY DEF ViewOf
<1>2. since'[l] = IF since[l] = {} THEN {} ELSE since[l] \cup {v}
  BY DEF Shown
<1> HIDE DEF v
<1> QED BY <1>1, <1>2 DEF Untouched, Stored

\* A row is followed until the next write to it, or until a handler says what it read.
LEMMA StillFollows ==
  ASSUME FollowsRow, Untold => Untold', UNCHANGED <<set, link>>,
         \A l \in Listeners : Listening(l)' => Listening(l) /\ lst'[l].sub = lst[l].sub
                                                /\ (lst'[l].stale <=> lst[l].stale)
  PROVE  FollowsRow'
  BY DEF FollowsRow, Full, Resolved

-----------------------------------------------------------------------------
(* Uploads.                                                                 *)

LEMMA TellingSame ==
  ASSUME Telling, NEW p \in Processes, link = "deleted" => link' = "deleted",
         \A q \in Processes : q # p => proc'[q] = proc[q],
         proc'[p].pc \in {"write", "hub"} =>
            \/ proc'[p].sub = Full(proc'[p].row)
            \/ /\ proc'[p].sub = Resolved(proc'[p].row)
               /\ proc'[p].row.mode = "groups" \/ link' = "deleted",
         proc'[p].pc = "query" => proc'[p].row.mode = "groups"
  PROVE  Telling'
<1>1. ASSUME NEW q \in Processes, proc'[q].pc \in {"write", "hub"}
      PROVE  Tells(proc[q].row, proc[q].sub)'
  BY <1>1 DEF Telling, Tells, Full, Resolved
<1>2. Loop \in Processes
  BY DEF Processes
<1> QED BY <1>1, <1>2 DEF Telling

LEMMA StoreStep ==
  ASSUME StreamIInv, NEW p \in Processes, NEW tg \in StreamTalkgroups, NEW source \in Sources,
         Store(p, tg, source)
  PROVE  StreamIInv'
<1> DEFINE new == [tg |-> tg, source |-> source]
<1>1. World /\ Handlers /\ Connections /\ Telling /\ FollowsRow /\ \A l \in Listeners : Served(l)
  BY DEF StreamIInv
<1>2. /\ p \in Processes /\ proc[p].pc = "idle" /\ Len(calls) < MaxCalls
      /\ calls' = Append(calls, new)
      /\ Goes(p, [Idle EXCEPT !.pc = "push", !.k = Len(calls) + 1])
      /\ UNCHANGED <<set, link, readable, pushed, lst, heard, lost, since, edits>>
  BY DEF Store, Processes, row
<1>3. calls \in Seq(Call) /\ Len(calls) \in Nat /\ new \in Call /\ MaxCalls \in Nat
  BY <1>1, ListenerStreamAssumption DEF World, Call
<1> HIDE DEF new
<1>4. /\ calls' \in Seq(Call) /\ Len(calls') = Len(calls) + 1
      /\ DOMAIN calls = 1..Len(calls) /\ DOMAIN calls' = 1..(Len(calls) + 1)
      /\ \A k \in 1..Len(calls) : calls'[k] = calls[k]
  BY <1>2, <1>3
<1>5. /\ Stored \subseteq Stored' /\ \A k \in Stored : calls'[k] = calls[k]
      /\ Len(calls) + 1 \in Stored'
  BY <1>3, <1>4 DEF Stored
<1>6. World'
  BY <1>1, <1>2, <1>3, <1>4, <1>5 DEF World
<1>7. /\ Handlers' /\ proc'[p].pc = "push" /\ \A q \in Processes : q # p => proc'[q] = proc[q]
  <2> DEFINE state == [Idle EXCEPT !.pc = "push", !.k = Len(calls) + 1]
  <2>1. state \in Handler /\ state.pc = "push" /\ state.k = Len(calls) + 1
    <3>1. Len(calls) + 1 \in 0..MaxCalls
      BY <1>2, <1>3
    <3> QED BY <3>1, NoneTyped DEF Idle, Handler
  <2>2. DOMAIN calls \subseteq DOMAIN calls' /\ Len(calls) + 1 \in DOMAIN calls'
    BY <1>5 DEF Stored
  <2> HIDE DEF state
  <2> QED BY <1>1, <1>2, <2>1, <2>2, HandlerGoes DEF state
<1>8. Connections'
  BY <1>1, <1>2 DEF Connections
<1>9. Telling'
  BY <1>1, <1>2, <1>7, TellingSame
<1>10. FollowsRow'
  <2>1. Untold => Untold'
    BY <1>2, <1>7 DEF Untold
  <2>2. \A l \in Listeners : Listening(l)' => Listening(l)
    BY <1>2 DEF Listening
  <2> QED BY <1>1, <1>2, <2>1, <2>2, StillFollows
<1>11. \A l \in Listeners : Served(l)'
  <2>1. ASSUME NEW l \in Listeners PROVE Untouched(l)
    BY <1>1, <1>2, <1>5 DEF Untouched, Served, Viewed
  <2> QED BY <1>1, <2>1, UntouchedServed
<1> QED BY <1>6, <1>7, <1>8, <1>9, <1>10, <1>11 DEF StreamIInv

\* A push is what a subscription asks for, where every view shares the call.
LEMMA SharedMatches ==
  ASSUME World, Connections, NEW l \in Listeners, NEW k \in Stored, Listening(l), Subscribed(l),
         AllShare(l, k)
  PROVE  Matches(l, k)
<1>1. PICK v \in since[l] : v.readable = lst[l].sources
  BY DEF Subscribed
<1>2. PICK w \in since[l] : Told(w, lst[l].sub)
  BY DEF Subscribed
<1>3. Shares(v, k) /\ Shares(w, k)
  BY DEF AllShare
<1>4. CASE Ptt(k)
  <2>1. calls[k].tg = "own" /\ w.ptt
    BY <1>3, <1>4 DEF Shares
  <2>2. lst[l].sub = Full(w.row)
    BY <1>2, <2>1 DEF Told
  <2> QED BY <1>4, <2>1, <2>2 DEF Matches, Full
<1>5. CASE ~ Ptt(k)
  <2>1. calls[k].source \in lst[l].sources
    BY <1>1, <1>3, <1>5, ListenerStreamAssumption DEF Shares, Ptt
  <2>2. IF w.row.mode = "groups" THEN GroupAt(calls[k].tg) \in w.row.groups
                                 ELSE calls[k].tg \in w.row.tgs
    BY <1>3, <1>5, ListenerStreamAssumption DEF Shares, Ptt
  <2>3. w.row.mode \in {"groups", "talkgroups"}
    BY DEF Connections, View, Row
  <2> QED BY <1>2, <2>1, <2>2, <2>3 DEF Matches, Told, Full, Resolved
<1> QED BY <1>4, <1>5

\* And it asks for nothing that no view allows.
LEMMA MatchesAllowed ==
  ASSUME World, Connections, NEW l \in Listeners, NEW k \in Stored, Listening(l), Subscribed(l),
         Matches(l, k)
  PROVE  Allowed(l, k)
<1>1. PICK v \in since[l] : v.readable = lst[l].sources
  BY DEF Subscribed
<1>2. PICK w \in since[l] : Told(w, lst[l].sub)
  BY DEF Subscribed
<1>3. CASE calls[k].tg \in Virtual
  BY <1>3 DEF Allowed
<1>4. CASE calls[k].tg \notin Virtual
  <2>1. calls[k] \in Call
    BY DEF World, Stored
  <2>2. calls[k].tg \in Channels
    BY <1>4, <2>1 DEF Call, StreamTalkgroups
  <2>3. GroupAt(calls[k].tg) # "PTT"
    BY <2>2, ListenerStreamAssumption DEF GroupAt
  <2>4. calls[k].tg # "own"
    BY <1>4, ListenerStreamAssumption
  <2>5. calls[k].source \in v.readable
    BY <1>1, <1>4 DEF Matches, Ptt
  <2>6. calls[k].tg \in w.row.tgs \/ GroupAt(calls[k].tg) \in w.row.groups
    BY <1>2, <2>3, <2>4 DEF Matches, Told, Full, Resolved
  <2> QED BY <2>5, <2>6 DEF Allowed
<1> QED BY <1>3, <1>4

\* A sequence and its first element, or one more.
Elements(s) == {s[i] : i \in DOMAIN s}

LEMMA MoreElements ==
  ASSUME NEW S, NEW s \in Seq(S), NEW e \in S
  PROVE  /\ Append(s, e) \in Seq(S) /\ Len(Append(s, e)) = Len(s) + 1
         /\ Elements(Append(s, e)) = Elements(s) \cup {e}
<1>1. /\ Append(s, e) \in Seq(S) /\ Len(s) \in Nat /\ Len(Append(s, e)) = Len(s) + 1
      /\ DOMAIN s = 1..Len(s) /\ DOMAIN Append(s, e) = 1..(Len(s) + 1)
      /\ \A i \in 1..Len(s) : Append(s, e)[i] = s[i]
      /\ Append(s, e)[Len(s) + 1] = e
  OBVIOUS
<1> DEFINE t == Append(s, e)
           n == Len(s)
<1>2. 1..(n + 1) = (1..n) \cup {n + 1}
  BY <1>1
<1> HIDE DEF t, n
<1>3. Elements(t) = Elements(s) \cup {e}
  BY <1>1, <1>2 DEF Elements, t, n
<1> QED BY <1>1, <1>3 DEF t

LEMMA FewerElements ==
  ASSUME NEW S, NEW s \in Seq(S), s # <<>>
  PROVE  /\ Tail(s) \in Seq(S) /\ Len(Tail(s)) <= Len(s)
         /\ Head(s) \in S
         /\ Elements(s) = Elements(Tail(s)) \cup {Head(s)}
<1>1. /\ Tail(s) \in Seq(S) /\ Len(s) \in Nat \ {0} /\ Len(Tail(s)) = Len(s) - 1
      /\ DOMAIN s = 1..Len(s) /\ DOMAIN Tail(s) = 1..(Len(s) - 1)
      /\ \A i \in 1..(Len(s) - 1) : Tail(s)[i] = s[i + 1]
      /\ Head(s) = s[1] /\ s[1] \in S
  OBVIOUS
<1>2. Elements(Tail(s)) \cup {Head(s)} \subseteq Elements(s)
  <2>1. \A i \in 1..(Len(s) - 1) : i + 1 \in 1..Len(s)
    BY <1>1
  <2>2. 1 \in 1..Len(s)
    BY <1>1
  <2> QED BY <1>1, <2>1, <2>2 DEF Elements
<1>3. ASSUME NEW i \in 1..Len(s) PROVE s[i] \in Elements(Tail(s)) \cup {Head(s)}
  <2>1. CASE i = 1
    BY <1>1, <2>1
  <2>2. CASE i # 1
    <3>1. i - 1 \in 1..(Len(s) - 1) /\ (i - 1) + 1 = i
      BY <1>1, <2>2
    <3> QED BY <1>1, <3>1 DEF Elements
  <2> QED BY <2>1, <2>2
<1>4. Elements(s) \subseteq Elements(Tail(s)) \cup {Head(s)}
  BY <1>1, <1>3 DEF Elements
<1> QED BY <1>1, <1>2, <1>4

LEMMA PendingIs ==
  ASSUME NEW l \in Listeners
  PROVE  Pending(l) = Elements(lst[l].ch) \cup Elements(lst[l].seed)
  BY DEF Pending, Elements

\* What a push does to one listener.
LEMMA PushOne ==
  ASSUME World, Handlers, Connections, NEW l \in Listeners, Served(l),
         NEW p \in Processes, Push(p)
  PROVE  /\ lst'[l] \in Connection /\ lost'[l] \in SUBSET Ids
         /\ lst'[l].sub = lst[l].sub /\ (lst'[l].stale <=> lst[l].stale)
         /\ Served(l)'
<1> DEFINE k == proc[p].k
           gets == Listening(l) /\ Matches(l, k)
           more == [lst[l] EXCEPT !.ch = Append(@, k)]
<1>1. /\ k \in Stored /\ k \in Ids /\ pushed' = pushed \cup {k}
      /\ lst'[l] = IF gets /\ ~ FullChannel(l) THEN more ELSE lst[l]
      /\ lost'[l] = IF gets /\ FullChannel(l) THEN lost[l] \cup {k} ELSE lost[l]
      /\ UNCHANGED <<readable, calls, heard, since>>
  <2>1. proc[p].pc = "push"
    BY DEF Push
  <2>2. k \in Stored
    BY <2>1 DEF Handlers
  <2>3. k \in Ids
    <3>1. DOMAIN calls = 1..Len(calls) /\ Len(calls) \in Nat
      BY DEF World
    <3> HIDE DEF k
    <3> QED BY <2>2, <3>1, ListenerStreamAssumption DEF World, Stored, Ids
  <2> QED BY <2>2, <2>3 DEF Push, row
<1> HIDE DEF k
<1>2. lst[l] \in Connection /\ lst[l].ch \in Seq(Ids) /\ lost[l] \subseteq Ids
  BY DEF Connections, Connection
<1>3. /\ Append(lst[l].ch, k) \in Seq(Ids) /\ Len(Append(lst[l].ch, k)) = Len(lst[l].ch) + 1
      /\ Elements(Append(lst[l].ch, k)) = Elements(lst[l].ch) \cup {k}
  BY <1>1, <1>2, MoreElements
<1>4. /\ more \in Connection /\ more.ch = Append(lst[l].ch, k)
      /\ more.pc = lst[l].pc /\ more.row = lst[l].row /\ more.sources = lst[l].sources
      /\ more.sub = lst[l].sub /\ more.seed = lst[l].seed /\ more.seeded = lst[l].seeded
      /\ more.before = lst[l].before
      /\ more.skipped = lst[l].skipped /\ more.stale = lst[l].stale
  <2> DEFINE ch == Append(lst[l].ch, k)
  <2> HIDE DEF ch
  <2>1. [lst[l] EXCEPT !.ch = ch] \in Connection
    BY <1>2, <1>3 DEF Connection, ch
  <2>2. more = [lst[l] EXCEPT !.ch = ch]
    BY DEF ch
  <2> QED BY <1>2, <2>1, <2>2 DEF Connection, ch
<1> HIDE DEF more
<1>5. /\ lst'[l] \in Connection /\ lost'[l] \in SUBSET Ids
      /\ lst'[l].pc = lst[l].pc /\ lst'[l].row = lst[l].row /\ lst'[l].sources = lst[l].sources
      /\ lst'[l].sub = lst[l].sub /\ lst'[l].seed = lst[l].seed /\ lst'[l].seeded = lst[l].seeded
      /\ lst'[l].before = lst[l].before
      /\ lst'[l].skipped = lst[l].skipped /\ lst'[l].stale = lst[l].stale
  BY <1>1, <1>2, <1>4
<1>6. /\ Pending(l) \subseteq Pending(l)' /\ Pending(l)' \subseteq Pending(l) \cup {k}
      /\ k \in Pending(l)' => k \in Pending(l) \/ gets
      /\ gets => k \in Pending(l)' \cup lost'[l]
      /\ lost[l] \subseteq lost'[l] /\ lost'[l] \subseteq lost[l] \cup {k}
      /\ ~ gets => lst'[l] = lst[l]
      /\ Len(lst'[l].ch) <= ChannelSize
  <2>1. Pending(l) = Elements(lst[l].ch) \cup Elements(lst[l].seed)
    BY PendingIs
  <2>2. Pending(l)' = Elements(lst'[l].ch) \cup Elements(lst'[l].seed)
    BY <2>1, PendingIs DEF Pending, Elements
  <2>3. Len(lst[l].ch) <= ChannelSize /\ Len(lst[l].ch) \in Nat /\ ChannelSize \in Nat
    BY <1>2, ListenerStreamAssumption DEF Served, Bounded
  <2>4. CASE gets /\ ~ FullChannel(l)
    <3>1. lst'[l].ch = Append(lst[l].ch, k) /\ lost'[l] = lost[l]
      BY <1>1, <1>4, <2>4
    <3>2. Len(lst'[l].ch) <= ChannelSize
      BY <1>3, <2>3, <2>4, <3>1 DEF FullChannel
    <3> HIDE DEF gets
    <3> QED BY <1>3, <1>5, <2>1, <2>2, <2>4, <3>1, <3>2
  <2>5. CASE ~ (gets /\ ~ FullChannel(l))
    <3>1. lst'[l] = lst[l]
      BY <1>1, <2>5
    <3> HIDE DEF gets
    <3> QED BY <1>1, <2>1, <2>2, <2>3, <2>5, <3>1
  <2> QED BY <2>4, <2>5
<1>7. /\ Listening(l)' <=> Listening(l)
      /\ \A j : AllShare(l, j)' <=> AllShare(l, j)
      /\ \A j : Allowed(l, j)' <=> Allowed(l, j)
      /\ \A j : Outdone(l, j)' <=> Outdone(l, j)
      /\ Stored' = Stored
  BY <1>1, <1>5 DEF Listening, AllShare, Shares, Allowed, Outdone, Ptt, GroupAt, Stored
<1>8. gets => Listening(l)
  OBVIOUS
<1>9. Listening(l) /\ AllShare(l, k) => gets
  <2>1. Subscribed(l)
    BY DEF Served
  <2> QED BY <1>1, <2>1, SharedMatches
<1>10. gets => Allowed(l, k)
  <2>1. Subscribed(l)
    BY DEF Served
  <2> QED BY <1>1, <2>1, MatchesAllowed
<1> HIDE DEF gets
<1>11. Bounded(l)'
  BY <1>1, <1>5, <1>6, <1>7 DEF Served, Bounded
<1>12. Viewed(l)'
  BY <1>1, <1>5 DEF Served, Viewed
<1>13. Quiet(l)'
  BY <1>1, <1>5, <1>6, <1>8 DEF Served, Quiet, Listening
<1>14. Subscribed(l)'
  <2>1. Listening(l) => (\E v \in since'[l] : v.readable = lst'[l].sources)
                        /\ \E v \in since'[l] : Told(v, lst'[l].sub)
    BY <1>1, <1>5 DEF Served, Subscribed
  <2>2. ASSUME Listening(l), NEW j \in pushed' \ lst'[l].before, AllShare(l, j) PROVE j \in Got(l)'
    BY <1>1, <1>5, <1>6, <1>9, <2>2 DEF Served, Subscribed, Got
  <2> QED BY <1>7, <2>1, <2>2 DEF Subscribed, Told, Full, Resolved
<1>15. Seeded(l)'
  BY <1>1, <1>5, <1>6, <1>7 DEF Served, Seeded, Got
<1>16. Shared(l)'
  BY <1>1, <1>6, <1>7, <1>10 DEF Served, Shared
<1> QED BY <1>5, <1>11, <1>12, <1>13, <1>14, <1>15, <1>16 DEF Served

LEMMA IdsOfCalls ==
  ASSUME World
  PROVE  Stored \subseteq Ids
<1>1. DOMAIN calls = 1..Len(calls) /\ Len(calls) \in Nat
  BY DEF World
<1> QED BY <1>1, ListenerStreamAssumption DEF World, Stored, Ids

LEMMA PushStep ==
  ASSUME StreamIInv, NEW p \in Processes, Push(p)
  PROVE  StreamIInv'
<1> DEFINE next == IF Ptt(proc[p].k) THEN Idle ELSE [proc[p] EXCEPT !.pc = "extend"]
<1>1. World /\ Handlers /\ Connections /\ Telling /\ FollowsRow /\ \A l \in Listeners : Served(l)
  BY DEF StreamIInv
<1>2. /\ proc[p].pc = "push" /\ pushed' = pushed \cup {proc[p].k} /\ Goes(p, next)
      /\ DOMAIN lst' = Listeners /\ DOMAIN lost' = Listeners
      /\ UNCHANGED <<set, link, readable, calls, heard, since, edits>>
  BY DEF Push, row
<1>3. proc[p].k \in Stored /\ proc[p] \in Handler
  BY <1>1, <1>2 DEF Handlers
<1>4. next \in Handler /\ next.pc \in {"idle", "extend"} /\ (next.pc = "extend" => next.k = proc[p].k)
  BY <1>3, NoneTyped DEF Handler, Idle
<1> HIDE DEF next
<1>5. World'
  BY <1>1, <1>2, <1>3 DEF World, Stored
<1>6. Handlers' /\ proc'[p] = next /\ \A q \in Processes : q # p => proc'[q] = proc[q]
  <2>1. DOMAIN calls \subseteq DOMAIN calls' /\ (next.pc \in {"push", "extend"} => next.k \in DOMAIN calls')
    BY <1>2, <1>3, <1>4 DEF Stored
  <2> QED BY <1>1, <1>2, <1>4, <2>1, HandlerGoes
<1>7. ASSUME NEW l \in Listeners
      PROVE  /\ lst'[l] \in Connection /\ lost'[l] \in SUBSET Ids
             /\ lst'[l].sub = lst[l].sub /\ (lst'[l].stale <=> lst[l].stale)
             /\ Listening(l)' => Listening(l)
             /\ Served(l)'
  <2>1. /\ lst'[l] \in Connection /\ lost'[l] \in SUBSET Ids
        /\ lst'[l].sub = lst[l].sub /\ (lst'[l].stale <=> lst[l].stale)
        /\ Served(l)'
    BY <1>1, PushOne
  <2>2. Listening(l)' => Listening(l)
    <3>1. lst'[l] = lst[l] \/ lst'[l] = [lst[l] EXCEPT !.ch = Append(@, proc[p].k)]
      BY DEF Push
    <3> QED BY <1>1, <3>1 DEF Listening, Connections, Connection
  <2> QED BY <2>1, <2>2
<1>8. Connections'
  <2>1. /\ lst' = [l \in Listeners |-> lst'[l]] /\ lost' = [l \in Listeners |-> lost'[l]]
    BY DEF Push
  <2> QED BY <1>1, <1>2, <1>7, <2>1 DEF Connections
<1>9. Telling'
  BY <1>1, <1>2, <1>4, <1>6, TellingSame
<1>10. FollowsRow'
  <2>1. Untold => Untold'
    BY <1>2, <1>6 DEF Untold
  <2> QED BY <1>1, <1>2, <1>7, <2>1, StillFollows
<1> QED BY <1>5, <1>6, <1>7, <1>8, <1>9, <1>10 DEF StreamIInv

\* A step of a handler that touches neither the row nor a listener.
LEMMA HandlerStep ==
  ASSUME StreamIInv, NEW p \in Processes, NEW state \in Handler, Goes(p, state),
         state.pc \notin {"push", "extend"},
         state.pc \in {"write", "hub"} =>
            \/ state.sub = Full(state.row)
            \/ state.sub = Resolved(state.row) /\ (state.row.mode = "groups" \/ link = "deleted"),
         state.pc = "query" => state.row.mode = "groups",
         proc[p].pc \in {"reread", "hub"} => state.pc \in {"reread", "hub"},
         UNCHANGED <<row, traffic, lst, heard, lost, since, edits>>
  PROVE  StreamIInv'
<1>1. World /\ Handlers /\ Connections /\ Telling /\ FollowsRow /\ \A l \in Listeners : Served(l)
  BY DEF StreamIInv
<1>2. UNCHANGED <<set, link, readable, calls, pushed, lst, heard, lost, since, edits>>
  BY DEF row, traffic
<1>3. Handlers' /\ proc'[p] = state /\ \A q \in Processes : q # p => proc'[q] = proc[q]
  BY <1>1, <1>2, HandlerGoes
<1>4. World' /\ Connections'
  BY <1>1, <1>2 DEF World, Connections, Stored
<1>5. Telling'
  BY <1>1, <1>2, <1>3, TellingSame
<1>6. FollowsRow'
  <2>1. Untold => Untold'
    BY <1>2, <1>3 DEF Untold
  <2>2. \A l \in Listeners : Listening(l)' => Listening(l)
    BY <1>2 DEF Listening
  <2> QED BY <1>1, <1>2, <2>1, <2>2, StillFollows
<1>7. \A l \in Listeners : Served(l)'
  BY <1>1, <1>2, ElsewhereServed
<1> QED BY <1>3, <1>4, <1>5, <1>6, <1>7 DEF StreamIInv

LEMMA ExtendStep ==
  ASSUME StreamIInv, NEW p \in Processes, Extend(p)
  PROVE  StreamIInv'
<1> DEFINE tg == calls[proc[p].k].tg
           new == [set EXCEPT !.tgs = @ \cup {tg}]
           adds == /\ link # "deleted" /\ set.mode = "groups"
                   /\ GroupAt(tg) \in set.groups /\ tg \notin set.tgs
           writes == [Idle EXCEPT !.pc = "write", !.row = new, !.sub = Resolved(new)]
<1>1. World /\ Handlers
  BY DEF StreamIInv
<1>2. /\ proc[p].pc = "extend" /\ Goes(p, IF adds THEN writes ELSE Idle)
      /\ UNCHANGED <<row, traffic, lst, heard, lost, since, edits>>
  BY DEF Extend
<1>3. CASE adds
  <2>1. tg \in Channels
    <3>1. set.groups \subseteq Groups
      BY <1>1 DEF World, Row
    <3> QED BY <1>3, <3>1, ListenerStreamAssumption DEF GroupAt
  <2>2. new \in Row /\ new.mode = "groups"
    <3> HIDE DEF tg
    <3> QED BY <1>1, <1>3, <2>1 DEF World, Row
  <2> HIDE DEF new
  <2>3. /\ writes \in Handler /\ writes.pc = "write" /\ writes.row = new
        /\ writes.sub = Resolved(new)
    <3>1. Resolved(new) \in Subscription
      BY <2>2, RowTyped
    <3> DEFINE s == Resolved(new)
    <3> HIDE DEF s
    <3>2. /\ [Idle EXCEPT !.pc = "write", !.row = new, !.sub = s] \in Handler
          /\ [Idle EXCEPT !.pc = "write", !.row = new, !.sub = s].pc = "write"
          /\ [Idle EXCEPT !.pc = "write", !.row = new, !.sub = s].row = new
          /\ [Idle EXCEPT !.pc = "write", !.row = new, !.sub = s].sub = s
      BY <2>2, <3>1, NoneTyped DEF Handler, Idle, s
    <3> QED BY <3>2 DEF s
  <2>4. Goes(p, writes)
    BY <1>2, <1>3 DEF Goes
  <2> HIDE DEF writes, adds
  <2> QED BY <1>2, <2>2, <2>3, <2>4, HandlerStep
<1>4. CASE ~ adds
  <2>1. Goes(p, Idle)
    BY <1>2, <1>4 DEF Goes
  <2>2. Idle \in Handler /\ Idle.pc = "idle"
    BY NoneTyped DEF Idle
  <2> QED BY <1>2, <2>1, <2>2, HandlerStep
<1> QED BY <1>3, <1>4

LEMMA WriteListStep ==
  ASSUME StreamIInv, NEW p \in Processes, WriteList(p)
  PROVE  StreamIInv'
<1> DEFINE next == [proc[p] EXCEPT !.pc = "hub"]
<1>1. World /\ Handlers /\ Connections /\ Telling /\ FollowsRow /\ \A l \in Listeners : Served(l)
  BY DEF StreamIInv
<1>2. /\ proc[p].pc = "write" /\ Goes(p, next)
      /\ set' = IF link = "deleted" THEN set ELSE [set EXCEPT !.tgs = proc[p].row.tgs]
      /\ Shown(ViewOf(set', readable, TRUE))
      /\ UNCHANGED <<link, readable, calls, pushed, lst, heard, lost, edits>>
  BY DEF WriteList, traffic
<1>3. proc[p] \in Handler /\ next \in Handler /\ next.pc = "hub" /\ next.row = proc[p].row /\ next.sub = proc[p].sub
  BY <1>1 DEF Handlers, Handler
<1> HIDE DEF next
<1>4. set' \in Row
  <2>1. proc[p].row.tgs \subseteq Channels
    BY <1>3 DEF Handler, Row
  <2> QED BY <1>1, <1>2, <2>1 DEF World, Row
<1>5. World'
  BY <1>1, <1>2, <1>4 DEF World, Stored
<1>6. Handlers' /\ proc'[p] = next /\ \A q \in Processes : q # p => proc'[q] = proc[q]
  BY <1>1, <1>2, <1>3, HandlerGoes
<1>7. Connections'
  <2>1. readable \in SUBSET Sources
    BY <1>1 DEF World
  <2>2. since' \in [Listeners -> SUBSET View]
    BY <1>1, <1>2, <1>4, <2>1, ShownTyped
  <2> QED BY <1>1, <1>2, <2>2 DEF Connections
<1>8. Telling'
  <2>1. Tells(proc[p].row, proc[p].sub)
    BY <1>1, <1>2 DEF Telling
  <2> QED BY <1>1, <1>2, <1>3, <1>6, <2>1, TellingSame DEF Tells
<1>9. FollowsRow'
  <2>1. Untold'
    BY <1>3, <1>6 DEF Untold
  <2> QED BY <2>1 DEF FollowsRow
<1>10. \A l \in Listeners : Served(l)'
  BY <1>1, <1>2, ShownUntouched, UntouchedServed
<1> QED BY <1>5, <1>6, <1>7, <1>8, <1>9, <1>10 DEF StreamIInv

\* What a new subscription changes for a listener that has one.
LEMMA RetoldServed ==
  ASSUME World, Connections, NEW l \in Listeners, Served(l), Listening(l),
         NEW s \in Subscription, NEW out \in BOOLEAN, NEW v \in View, Told(v, s),
         v.readable = readable,
         lst'[l] = [lst[l] EXCEPT !.sub = s, !.stale = out],
         since'[l] = since[l] \cup {v},
         UNCHANGED <<readable, calls, pushed, heard, lost>>
  PROVE  /\ lst'[l] \in Connection /\ lst'[l].sub = s /\ (lst'[l].stale <=> out)
         /\ Listening(l)' /\ Served(l)'
<1>1. lst[l] \in Connection
  BY DEF Connections
<1>2. /\ lst'[l] \in Connection /\ lst'[l].sub = s /\ lst'[l].stale = out
      /\ lst'[l].pc = lst[l].pc /\ lst'[l].row = lst[l].row /\ lst'[l].sources = lst[l].sources
      /\ lst'[l].ch = lst[l].ch /\ lst'[l].seed = lst[l].seed /\ lst'[l].seeded = lst[l].seeded
      /\ lst'[l].before = lst[l].before /\ lst'[l].skipped = lst[l].skipped
  BY <1>1 DEF Connection
<1>3. /\ Pending(l)' = Pending(l) /\ Got(l)' = Got(l) /\ Listening(l)' /\ Stored' = Stored
      /\ \A k : Ptt(k)' <=> Ptt(k)
  BY <1>2 DEF Pending, Got, Listening, Stored, Ptt
<1>4. \A k : AllShare(l, k)' => AllShare(l, k)
  BY DEF AllShare, Shares, Ptt, GroupAt
<1>5. \A k : Allowed(l, k) => Allowed(l, k)'
  BY DEF Allowed, GroupAt
<1>6. \A k : Outdone(l, k) => Outdone(l, k)'
  BY <1>2, <1>3 DEF Outdone
<1>7. Bounded(l)'
  BY <1>2, <1>3 DEF Served, Bounded
<1>8. Viewed(l)'
  BY <1>2 DEF Served, Viewed, Listening
<1>9. Quiet(l)'
  BY <1>2 DEF Served, Quiet
<1>10. Subscribed(l)'
  <2>1. \E w \in since'[l] : w.readable = lst'[l].sources
    BY <1>2 DEF Served, Subscribed
  <2>2. \E w \in since'[l] : Told(w, lst'[l].sub)
    BY <1>2
  <2>3. \A k \in pushed' \ lst'[l].before : AllShare(l, k)' => k \in Got(l)'
    BY <1>2, <1>3, <1>4 DEF Served, Subscribed
  <2> QED BY <2>1, <2>2, <2>3 DEF Subscribed, Told, Full, Resolved
<1>11. Seeded(l)'
  BY <1>2, <1>3, <1>4, <1>6 DEF Served, Seeded
<1>12. Shared(l)'
  BY <1>3, <1>5 DEF Served, Shared
<1> QED BY <1>2, <1>3, <1>7, <1>8, <1>9, <1>10, <1>11, <1>12 DEF Served

LEMMA UpdateStep ==
  ASSUME StreamIInv, NEW p \in Processes, Update(p)
  PROVE  StreamIInv'
<1> DEFINE told == (proc[p].sub = Full(proc[p].row))
           old == (proc[p].row # set)
           v == ViewOf(proc[p].row, readable, told)
<1>1. World /\ Handlers /\ Connections /\ Telling /\ FollowsRow /\ \A l \in Listeners : Served(l)
  BY DEF StreamIInv
<1>2. /\ proc[p].pc = "hub" /\ Shown(v) /\ Goes(p, Idle)
      /\ lst' = [l \in Listeners |-> IF Listening(l)
                    THEN [lst[l] EXCEPT !.sub = proc[p].sub, !.stale = old] ELSE lst[l]]
      /\ UNCHANGED <<set, link, readable, calls, pushed, heard, lost, edits>>
  BY DEF Update, row, traffic
<1>3. /\ proc[p] \in Handler /\ proc[p].row \in Row /\ proc[p].sub \in Subscription
      /\ readable \in SUBSET Sources /\ told \in BOOLEAN /\ old \in BOOLEAN
  BY <1>1 DEF Handlers, Handler, World
<1>4. Tells(proc[p].row, proc[p].sub)
  BY <1>1, <1>2 DEF Telling
<1>5. old <=> proc[p].row # set
  OBVIOUS
<1>6. v \in View /\ v.readable = readable /\ Told(v, proc[p].sub)
  <2>1. v.row = proc[p].row /\ v.readable = readable /\ v.ptt = told
    BY DEF ViewOf
  <2>2. v \in View
    <3> HIDE DEF told
    <3> QED BY <1>3, Zenon DEF ViewOf, View
  <2>3. v.ptt => proc[p].sub = Full(v.row)
    <3>1. told => proc[p].sub = Full(proc[p].row)
      OBVIOUS
    <3> HIDE DEF told, v
    <3> QED BY <2>1, <3>1
  <2>4. proc[p].sub \in {Full(v.row), Resolved(v.row)}
    <3> HIDE DEF told, v
    <3> QED BY <1>4, <2>1 DEF Tells
  <2> HIDE DEF v
  <2> QED BY <2>1, <2>2, <2>3, <2>4 DEF Told
<1>7. since' \in [Listeners -> SUBSET View]
  <2> HIDE DEF told
  <2> QED BY <1>1, <1>2, <1>3, ShownTyped
<1>8. ASSUME NEW l \in Listeners
      PROVE  /\ lst'[l] \in Connection /\ Served(l)'
             /\ Listening(l)' => lst'[l].sub = proc[p].sub /\ (lst'[l].stale <=> old)
  <2>1. since'[l] = IF since[l] = {} THEN {} ELSE since[l] \cup {v}
    BY <1>2 DEF Shown
  <2> HIDE DEF v, old
  <2>2. CASE Listening(l)
    <3>1. since[l] # {}
      BY <1>1, <2>2 DEF Served, Viewed, Listening
    <3>2. lst'[l] = [lst[l] EXCEPT !.sub = proc[p].sub, !.stale = old]
      BY <1>2, <2>2
    <3>3. since'[l] = since[l] \cup {v}
      BY <2>1, <3>1
    <3> QED BY <1>1, <1>2, <1>3, <1>6, <2>2, <3>2, <3>3, RetoldServed
  <2>3. CASE ~ Listening(l)
    <3>1. lst'[l] = lst[l]
      BY <1>2, <2>3
    <3>2. Untouched(l)
      BY <1>1, <1>2, <1>6, <2>1, <3>1 DEF Untouched, Stored
    <3> QED BY <1>1, <2>3, <3>1, <3>2, UntouchedServed DEF Connections, Listening
  <2> QED BY <2>2, <2>3
<1> HIDE DEF v, told
<1>9. World'
  BY <1>1, <1>2 DEF World, Stored
<1>10. Handlers' /\ proc'[p] = Idle /\ \A q \in Processes : q # p => proc'[q] = proc[q]
  <2>1. Idle \in Handler /\ Idle.pc = "idle"
    BY NoneTyped DEF Idle
  <2> QED BY <1>1, <1>2, <2>1, HandlerGoes
<1>11. Connections'
  <2>1. lst' = [l \in Listeners |-> lst'[l]]
    BY <1>2
  <2> HIDE DEF old
  <2>2. lst' \in [Listeners -> Connection]
    BY <1>8, <2>1
  <2> QED BY <1>1, <1>2, <1>7, <2>2 DEF Connections
<1>12. Telling'
  <2>1. Idle.pc = "idle"
    BY DEF Idle
  <2> QED BY <1>1, <1>2, <1>10, <2>1, TellingSame
<1>13. FollowsRow'
  <2> SUFFICES ASSUME NEW l \in Listeners, Listening(l)', link # "deleted", ~ lst'[l].stale
               PROVE  lst'[l].sub = Full(set) \/ (set.mode = "groups" /\ lst'[l].sub = Resolved(set))
    BY <1>2 DEF FollowsRow, Full, Resolved
  <2>1. lst'[l].sub = proc[p].sub /\ proc[p].row = set
    BY <1>5, <1>8
  <2> QED BY <1>4, <2>1 DEF Tells
<1> QED BY <1>8, <1>9, <1>10, <1>11, <1>12, <1>13 DEF StreamIInv

-----------------------------------------------------------------------------
(* The loop and the owner.                                                  *)

LEMMA ListStep ==
  ASSUME StreamIInv, List
  PROVE  StreamIInv'
<1>1. World
  BY DEF StreamIInv
<1>2. /\ Loop \in Processes /\ proc[Loop].pc = "idle" /\ set.mode = "groups"
      /\ Goes(Loop, [Idle EXCEPT !.pc = "query", !.row = set])
      /\ UNCHANGED <<row, traffic, lst, heard, lost, since, edits>>
  BY DEF List, Processes
<1> DEFINE state == [Idle EXCEPT !.pc = "query", !.row = set]
<1>3. state \in Handler /\ state.pc = "query" /\ state.row = set
  BY <1>1, NoneTyped DEF World, Idle, Handler
<1> HIDE DEF state
<1>4. Goes(Loop, state)
  BY <1>2 DEF state
<1> QED BY <1>2, <1>3, <1>4, HandlerStep

LEMMA QueryStep ==
  ASSUME StreamIInv, Query
  PROVE  StreamIInv'
<1> DEFINE found == InGroups(proc[Loop].row.groups)
           new == [proc[Loop].row EXCEPT !.tgs = found]
           writes == [proc[Loop] EXCEPT !.pc = "write", !.row = new, !.sub = Resolved(new)]
<1>1. Handlers /\ Telling /\ Loop \in Processes
  BY DEF StreamIInv, Processes
<1>2. /\ proc[Loop].pc = "query"
      /\ Goes(Loop, Idle) \/ Goes(Loop, writes)
      /\ UNCHANGED <<row, traffic, lst, heard, lost, since, edits>>
  BY DEF Query, Goes
<1>3. proc[Loop] \in Handler /\ proc[Loop].row \in Row /\ proc[Loop].row.mode = "groups"
  BY <1>1, <1>2 DEF Handlers, Handler, Telling
<1>4. found \subseteq Channels
  BY DEF InGroups
<1>5. new \in Row /\ new.mode = "groups"
  <2> HIDE DEF found
  <2> QED BY <1>3, <1>4 DEF Row
<1> HIDE DEF new
<1>6. writes \in Handler /\ writes.pc = "write" /\ writes.row = new /\ writes.sub = Resolved(new)
  <2>1. Resolved(new) \in Subscription
    BY <1>5, RowTyped
  <2> DEFINE s == Resolved(new)
  <2> HIDE DEF s
  <2>2. /\ [proc[Loop] EXCEPT !.pc = "write", !.row = new, !.sub = s] \in Handler
        /\ [proc[Loop] EXCEPT !.pc = "write", !.row = new, !.sub = s].pc = "write"
        /\ [proc[Loop] EXCEPT !.pc = "write", !.row = new, !.sub = s].row = new
        /\ [proc[Loop] EXCEPT !.pc = "write", !.row = new, !.sub = s].sub = s
    BY <1>3, <1>5, <2>1 DEF Handler, s
  <2> QED BY <2>2 DEF s
<1> HIDE DEF writes
<1>7. CASE Goes(Loop, writes)
  BY <1>1, <1>2, <1>5, <1>6, <1>7, HandlerStep
<1>8. CASE Goes(Loop, Idle)
  <2>1. Idle \in Handler /\ Idle.pc = "idle"
    BY NoneTyped DEF Idle
  <2> QED BY <1>1, <1>2, <1>8, <2>1, HandlerStep
<1> QED BY <1>2, <1>7, <1>8

LEMMA LookStep ==
  ASSUME StreamIInv, NEW p \in Processes, Look(p)
  PROVE  StreamIInv'
<1> DEFINE r == IF link = "deleted" THEN NoRow ELSE set
           state == [proc[p] EXCEPT !.pc = "hub", !.sub = Reread, !.row = r]
<1>1. World /\ Handlers
  BY DEF StreamIInv
<1>2. /\ proc[p].pc = "reread" /\ proc[p] \in Handler
      /\ Goes(p, state)
      /\ UNCHANGED <<row, traffic, lst, heard, lost, since, edits>>
  BY <1>1 DEF Look, Handlers
<1>3. r \in Row /\ Reread \in Subscription
  BY <1>1, NoneTyped, RowTyped DEF World, Reread
<1>4. Reread = Full(r) \/ (Reread = Resolved(r) /\ link = "deleted")
  BY DEF Reread, Resolved, NoSub, NoRow
<1> HIDE DEF r
<1>5. state \in Handler /\ state.pc = "hub" /\ state.sub = Reread /\ state.row = r
  <2> DEFINE s == Reread
  <2> HIDE DEF s
  <2>1. /\ [proc[p] EXCEPT !.pc = "hub", !.sub = s, !.row = r] \in Handler
        /\ [proc[p] EXCEPT !.pc = "hub", !.sub = s, !.row = r].pc = "hub"
        /\ [proc[p] EXCEPT !.pc = "hub", !.sub = s, !.row = r].sub = s
        /\ [proc[p] EXCEPT !.pc = "hub", !.sub = s, !.row = r].row = r
    BY <1>2, <1>3 DEF Handler, s
  <2> QED BY <2>1 DEF s
<1> HIDE DEF state
<1> QED BY <1>2, <1>4, <1>5, HandlerStep

LEMMA SaveStep ==
  ASSUME StreamIInv, NEW p \in Requests, NEW choice \in Choices, Save(p, choice)
  PROVE  StreamIInv'
<1> DEFINE next == [Idle EXCEPT !.pc = "reread"]
<1>1. World /\ Handlers /\ Connections /\ Telling /\ FollowsRow /\ \A l \in Listeners : Served(l)
  BY DEF StreamIInv
<1>2. /\ p \in Processes /\ proc[p].pc = "idle" /\ set' = choice /\ Goes(p, next)
      /\ edits < MaxEdits /\ edits' = edits + 1
      /\ Shown(ViewOf(choice, readable, TRUE))
      /\ UNCHANGED <<link, readable, calls, pushed, lst, heard, lost>>
  BY DEF Save, Processes, Edited, traffic
<1>3. choice \in Row /\ edits' \in 0..MaxEdits
  BY <1>1, <1>2, ListenerStreamAssumption DEF World
<1>4. next \in Handler /\ next.pc = "reread"
  BY NoneTyped DEF Idle, Handler
<1> HIDE DEF next
<1>5. World'
  BY <1>1, <1>2, <1>3 DEF World, Stored
<1>6. Handlers' /\ proc'[p] = next /\ \A q \in Processes : q # p => proc'[q] = proc[q]
  BY <1>1, <1>2, <1>4, HandlerGoes
<1>7. Connections'
  <2>1. readable \in SUBSET Sources
    BY <1>1 DEF World
  <2>2. since' \in [Listeners -> SUBSET View]
    BY <1>1, <1>2, <1>3, <2>1, ShownTyped
  <2> QED BY <1>1, <1>2, <2>2 DEF Connections
<1>8. Telling'
  BY <1>1, <1>2, <1>4, <1>6, TellingSame
<1>9. FollowsRow'
  <2>1. Untold'
    BY <1>2, <1>4, <1>6 DEF Untold
  <2> QED BY <2>1 DEF FollowsRow
<1>10. \A l \in Listeners : Served(l)'
  <2>1. Shown(ViewOf(choice, readable', TRUE))
    BY <1>2
  <2> QED BY <1>1, <1>2, <2>1, ShownUntouched, UntouchedServed
<1> QED BY <1>5, <1>6, <1>7, <1>8, <1>9, <1>10 DEF StreamIInv

LEMMA RelinkStep ==
  ASSUME StreamIInv, NEW new \in {"private", "shared", "deleted"}, Relink(new)
  PROVE  StreamIInv'
<1>1. World /\ Handlers /\ Connections /\ Telling /\ FollowsRow /\ \A l \in Listeners : Served(l)
  BY DEF StreamIInv
<1>2. /\ link # "deleted" /\ link' = new /\ edits < MaxEdits /\ edits' = edits + 1
      /\ UNCHANGED <<set, readable, calls, pushed, proc, lst, heard, lost, since>>
  BY DEF Relink, Edited, traffic
<1>3. edits' \in 0..MaxEdits
  BY <1>1, <1>2, ListenerStreamAssumption DEF World
<1>4. World' /\ Handlers' /\ Connections'
  BY <1>1, <1>2, <1>3 DEF World, Handlers, Connections, Stored
<1>5. Telling'
  BY <1>1, <1>2 DEF Telling, Tells, Full, Resolved
<1>6. FollowsRow'
  BY <1>1, <1>2 DEF FollowsRow, Untold, Listening, Full, Resolved
<1>7. \A l \in Listeners : Served(l)'
  BY <1>1, <1>2, ElsewhereServed
<1> QED BY <1>4, <1>5, <1>6, <1>7 DEF StreamIInv

LEMMA ReshareStep ==
  ASSUME StreamIInv, NEW s \in Sources, Reshare(s)
  PROVE  StreamIInv'
<1>1. World /\ Handlers /\ Connections /\ Telling /\ FollowsRow /\ \A l \in Listeners : Served(l)
  BY DEF StreamIInv
<1>2. /\ readable' \subseteq Sources /\ edits < MaxEdits /\ edits' = edits + 1
      /\ Shown(ViewOf(set, readable', TRUE))
      /\ UNCHANGED <<set, link, calls, pushed, proc, lst, heard, lost>>
  BY <1>1 DEF Reshare, Edited, traffic, World
<1>3. edits' \in 0..MaxEdits
  BY <1>1, <1>2, ListenerStreamAssumption DEF World
<1>4. World' /\ Handlers'
  BY <1>1, <1>2, <1>3 DEF World, Handlers, Stored
<1>5. Connections'
  <2>1. readable' \in SUBSET Sources /\ set \in Row
    BY <1>1, <1>2 DEF World
  <2>2. since' \in [Listeners -> SUBSET View]
    BY <1>1, <1>2, <2>1, ShownTyped
  <2> QED BY <1>1, <1>2, <2>2 DEF Connections
<1>6. Telling' /\ FollowsRow'
  BY <1>1, <1>2 DEF Telling, Tells, FollowsRow, Untold, Listening, Full, Resolved
<1>7. \A l \in Listeners : Served(l)'
  BY <1>1, <1>2, ShownUntouched, UntouchedServed
<1> QED BY <1>4, <1>5, <1>6, <1>7 DEF StreamIInv

-----------------------------------------------------------------------------
(* A listener.                                                              *)

LEMMA MoveStep ==
  ASSUME StreamIInv, NEW l \in Listeners, NEW state \in Connection, Moves(l, state),
         NEW H \in SUBSET Ids, heard' = [heard EXCEPT ![l] = H],
         NEW S \in SUBSET View, since' = [since EXCEPT ![l] = S],
         Served(l)',
         Listening(l)' =>
            \/ Listening(l) /\ state.sub = lst[l].sub /\ (state.stale <=> lst[l].stale)
            \/ state.stale \/ state.sub = Full(set)
  PROVE  StreamIInv'
<1>1. World /\ Handlers /\ Connections /\ Telling /\ FollowsRow /\ \A h \in Listeners : Served(h)
  BY DEF StreamIInv
<1>2. /\ lst' = [lst EXCEPT ![l] = state]
      /\ UNCHANGED <<set, link, readable, calls, pushed, proc, lost, edits>>
  BY DEF Moves, row, traffic
<1>3. /\ lst'[l] = state
      /\ \A h \in Listeners : h # l => /\ lst'[h] = lst[h] /\ heard'[h] = heard[h]
                                       /\ since'[h] = since[h]
  BY <1>1, <1>2 DEF Connections
<1>4. World' /\ Handlers' /\ Connections'
  BY <1>1, <1>2 DEF World, Handlers, Connections, Stored
<1>5. Telling'
  BY <1>1, <1>2 DEF Telling, Tells, Full, Resolved
<1>6. FollowsRow'
  <2>1. ASSUME NEW h \in Listeners, Listening(h)', link # "deleted", ~ Untold, ~ lst'[h].stale
        PROVE  lst'[h].sub = Full(set) \/ (set.mode = "groups" /\ lst'[h].sub = Resolved(set))
    <3>1. CASE h = l
      BY <1>1, <1>3, <2>1, <3>1 DEF FollowsRow
    <3>2. CASE h # l
      <4>1. lst'[h] = lst[h] /\ Listening(h)
        BY <1>3, <2>1, <3>2 DEF Listening
      <4> QED BY <1>1, <2>1, <4>1 DEF FollowsRow
    <3> QED BY <3>1, <3>2
  <2>2. Untold' <=> Untold
    BY <1>2 DEF Untold
  <2> QED BY <1>2, <2>1, <2>2 DEF FollowsRow, Full, Resolved
<1>7. ASSUME NEW h \in Listeners PROVE Served(h)'
  <2>1. CASE h = l
    BY <2>1
  <2>2. CASE h # l
    BY <1>1, <1>2, <1>3, <2>2, ElsewhereServed
  <2> QED BY <2>1, <2>2
<1> QED BY <1>4, <1>5, <1>6, <1>7 DEF StreamIInv

\* A move keeps what calls are, and a listener's own history as far as it keeps it.
LEMMA MoveSame ==
  ASSUME World, Connections, NEW l \in Listeners, NEW state, Moves(l, state)
  PROVE  /\ lst'[l] = state /\ Stored' = Stored /\ pushed' = pushed
         /\ calls' = calls /\ readable' = readable /\ set' = set /\ lost' = lost
         /\ \A k : Ptt(k)' <=> Ptt(k)
         /\ since'[l] = since[l] =>
               \A k : (AllShare(l, k)' <=> AllShare(l, k)) /\ (Allowed(l, k)' <=> Allowed(l, k))
<1>1. /\ lst'[l] = state /\ Stored' = Stored /\ pushed' = pushed
      /\ calls' = calls /\ readable' = readable /\ set' = set /\ lost' = lost
  BY DEF Moves, row, traffic, Connections, Stored
<1>2. \A k : Ptt(k)' <=> Ptt(k)
  BY <1>1 DEF Ptt
<1> QED BY <1>1, <1>2 DEF AllShare, Allowed, Shares, GroupAt, Ptt

LEMMA NoElements == Elements(<<>>) = {}
  BY DEF Elements

LEMMA FindStep ==
  ASSUME StreamIInv, NEW l \in Listeners, Find(l)
  PROVE  StreamIInv'
<1> DEFINE state == [Off EXCEPT !.pc = "found", !.row = set]
           v == ViewOf(set, readable, TRUE)
<1>1. World /\ Connections /\ Served(l)
  BY DEF StreamIInv
<1>2. /\ lst[l].pc = "off" /\ Moves(l, state)
      /\ since' = [since EXCEPT ![l] = {v}] /\ heard' = heard
  BY DEF Find
<1>3. v \in View /\ v.readable = readable /\ v.row = set
  BY <1>1 DEF World, ViewOf, View
<1>4. /\ state \in Connection /\ state.pc = "found" /\ state.row = set
      /\ state.ch = <<>> /\ state.seed = <<>> /\ state.seeded = {} /\ state.before = {}
  <2>1. Off \in Connection /\ set \in Row
    BY <1>1, NoneTyped DEF World
  <2>2. Off.ch = <<>> /\ Off.seed = <<>> /\ Off.seeded = {} /\ Off.before = {}
    BY DEF Off
  <2> QED BY <2>1, <2>2 DEF Connection
<1> HIDE DEF state, v
<1>5. /\ lst'[l] = state /\ since'[l] = {v} /\ heard'[l] = heard[l] /\ lost' = lost
      /\ readable' = readable /\ pushed' = pushed
  BY <1>1, <1>2, MoveSame DEF Connections
<1>6. heard[l] = {} /\ heard' = [heard EXCEPT ![l] = {}]
  BY <1>1, <1>2 DEF Served, Quiet, Connections
<1>7. Pending(l)' = {}
  BY <1>4, <1>5 DEF Pending
<1>8. Served(l)'
  <2>1. Bounded(l)'
    BY <1>1, <1>4, <1>5, <1>6, <1>7, ListenerStreamAssumption DEF Served, Bounded
  <2>2. Viewed(l)' /\ Quiet(l)'
    BY <1>3, <1>4, <1>5, <1>6 DEF Viewed, Quiet
  <2>3. Subscribed(l)' /\ Seeded(l)'
    BY <1>4, <1>5 DEF Subscribed, Seeded, Listening
  <2>4. Shared(l)'
    BY <1>5, <1>6, <1>7 DEF Shared
  <2> QED BY <2>1, <2>2, <2>3, <2>4 DEF Served
<1>9. ~ Listening(l)'
  BY <1>4, <1>5 DEF Listening
<1>10. {v} \in SUBSET View /\ {} \in SUBSET Ids
  BY <1>3
<1> QED BY <1>2, <1>4, <1>6, <1>8, <1>9, <1>10, MoveStep

LEMMA SubscribeStep ==
  ASSUME StreamIInv, NEW l \in Listeners, Subscribe(l)
  PROVE  StreamIInv'
<1> DEFINE old == (lst[l].row # set)
           state == [lst[l] EXCEPT !.pc = "subscribed", !.sources = readable,
                                   !.sub = Full(lst[l].row), !.stale = old, !.before = pushed]
<1>1. World /\ Connections /\ Served(l)
  BY DEF StreamIInv
<1>2. lst[l].pc = "found" /\ Moves(l, state) /\ since' = since /\ heard' = heard
  BY DEF Subscribe
<1>3. old \in BOOLEAN /\ (old \/ lst[l].row = set)
  OBVIOUS
<1>4. /\ lst[l] \in Connection /\ lst[l].row \in Row /\ Full(lst[l].row) \in Subscription
      /\ pushed \in SUBSET Ids /\ readable \in SUBSET Sources
  BY <1>1, RowTyped, IdsOfCalls DEF Connections, Connection, World
<1> HIDE DEF old
<1>5. /\ state \in Connection /\ state.pc = "subscribed" /\ state.sources = readable
      /\ state.row = lst[l].row /\ state.sub = Full(lst[l].row) /\ state.stale = old
      /\ state.before = pushed /\ state.ch = lst[l].ch /\ state.seed = lst[l].seed
      /\ state.seeded = lst[l].seeded
  <2> DEFINE s == Full(lst[l].row)
             c == [lst[l] EXCEPT !.pc = "subscribed", !.sources = readable,
                                 !.sub = s, !.stale = old, !.before = pushed]
  <2>1. s \in Subscription
    BY <1>4
  <2> HIDE DEF s
  <2>2. /\ c \in Connection /\ c.pc = "subscribed" /\ c.sources = readable
        /\ c.row = lst[l].row /\ c.sub = s /\ c.stale = old
        /\ c.before = pushed /\ c.ch = lst[l].ch /\ c.seed = lst[l].seed
        /\ c.seeded = lst[l].seeded
    BY <1>3, <1>4, <2>1 DEF Connection
  <2> QED BY <2>2 DEF s
<1> HIDE DEF state
<1>6. /\ lst'[l] = state /\ since'[l] = since[l] /\ heard'[l] = heard[l] /\ lost' = lost
      /\ readable' = readable /\ pushed' = pushed /\ set' = set /\ Stored' = Stored
      /\ \A k : Allowed(l, k)' <=> Allowed(l, k)
  BY <1>1, <1>2, MoveSame
<1>7. Pending(l)' = Pending(l)
  BY <1>5, <1>6 DEF Pending
<1>8. /\ since[l] # {} /\ (\E v \in since[l] : v.row = lst[l].row)
      /\ \E v \in since[l] : v.readable = readable
  BY <1>1, <1>2 DEF Served, Viewed
<1>9. Served(l)'
  <2>1. Bounded(l)'
    BY <1>1, <1>5, <1>6, <1>7 DEF Served, Bounded
  <2>2. Viewed(l)'
    BY <1>5, <1>6, <1>8 DEF Viewed
  <2>3. Quiet(l)'
    BY <1>1, <1>2, <1>5, <1>6 DEF Served, Quiet
  <2>4. Subscribed(l)'
    <3>1. PICK v \in since[l] : v.row = lst[l].row
      BY <1>8
    <3>2. Told(v, state.sub)
      BY <1>5, <3>1 DEF Told
    <3>3. \E w \in since'[l] : Told(w, lst'[l].sub)
      BY <1>6, <3>2
    <3> QED BY <1>5, <1>6, <1>8, <3>3 DEF Subscribed, Told, Full, Resolved
  <2>5. Seeded(l)'
    BY <1>5, <1>6 DEF Seeded
  <2>6. Shared(l)'
    BY <1>1, <1>6, <1>7 DEF Served, Shared
  <2> QED BY <2>1, <2>2, <2>3, <2>4, <2>5, <2>6 DEF Served
<1>10. state.stale \/ state.sub = Full(set)
  BY <1>3, <1>5
<1>11. /\ heard' = [heard EXCEPT ![l] = heard[l]] /\ since' = [since EXCEPT ![l] = since[l]]
       /\ heard[l] \in SUBSET Ids /\ since[l] \in SUBSET View
  BY <1>1, <1>2 DEF Connections
<1> QED BY <1>2, <1>5, <1>9, <1>10, <1>11, MoveStep

\* What a seed lists.
Injective(s) == \A i, j \in DOMAIN s : s[i] = s[j] => i = j

LEMMA InjectiveCount ==
  ASSUME NEW S, NEW s \in Seq(S), Injective(s)
  PROVE  IsFiniteSet(Elements(s)) /\ Cardinality(Elements(s)) = Len(s)
<1>1. Len(s) \in Nat /\ DOMAIN s = 1..Len(s)
  OBVIOUS
<1> DEFINE n == Len(s)
           T == Elements(s)
           f == [i \in 1..n |-> s[i]]
<1>2. f \in [1..n -> T] /\ \A i \in 1..n : f[i] = s[i]
  BY <1>1 DEF Elements
<1>3. \A t \in T : \E i \in 1..n : f[i] = t
  BY <1>1, <1>2 DEF Elements
<1>4. \A i, j \in 1..n : f[i] = f[j] => i = j
  BY <1>1, <1>2 DEF Injective
<1> HIDE DEF f, T, n
<1>5. f \in Bijection(1..n, T)
  BY <1>2, <1>3, <1>4 DEF Bijection, Injection, Surjection, IsInjective
<1>6. ExistsBijection(1..n, T) /\ n \in Nat
  BY <1>1, <1>5 DEF ExistsBijection, n
<1>7. Cardinality(T) = n
  BY <1>6, FS_CountingElements
<1>8. IsFiniteSet(T)
  BY <1>6, FS_NatBijection
<1> QED BY <1>7, <1>8 DEF T, n

\* The newest of a set of calls.
LEMMA NewestElements ==
  ASSUME NEW K, K \subseteq Ids, NEW s, s = Newest(K, SeedLimit)
  PROVE  /\ s \in Seq(K) /\ Len(s) \in Nat /\ Len(s) <= SeedLimit /\ Injective(s)
         /\ Elements(s) \subseteq K
         /\ \A k \in K \ Elements(s) : Len(s) = SeedLimit /\ \A j \in Elements(s) : j > k
<1> DEFINE T == Top(K, SeedLimit)
           m == Cardinality(T)
<1>1. SeedLimit \in Nat \ {0} /\ MaxCalls \in Nat /\ K \subseteq 1..MaxCalls
  BY ListenerStreamAssumption DEF Ids
<1>2. /\ T \subseteq K /\ m \in Nat /\ m <= SeedLimit
      /\ \A k \in K \ T : m = SeedLimit /\ \A j \in T : j > k
  BY <1>1, TopCount
<1>3. /\ s \in Seq(K) /\ Len(s) = m
      /\ \A i \in 1..m : s[i] \in T
      /\ \A k \in T : \E i \in 1..m : s[i] = k
      /\ \A i, j \in 1..m : s[i] = s[j] => i = j
  <2>1. LET c == Newest(K, SeedLimit)
            n == Cardinality(Top(K, SeedLimit))
        IN  /\ c \in Seq(K) /\ Len(c) = n
            /\ \A i \in 1..n : c[i] \in Top(K, SeedLimit)
            /\ \A k \in Top(K, SeedLimit) : \E i \in 1..n : c[i] = k
            /\ \A i, j \in 1..n : c[i] = c[j] => i = j
    BY <1>1, NewestLists, Zenon
  <2> QED BY <2>1
<1> HIDE DEF T, m
<1>4. DOMAIN s = 1..m
  BY <1>3
<1>5. Elements(s) = T
  BY <1>3, <1>4 DEF Elements
<1> QED BY <1>2, <1>3, <1>4, <1>5 DEF Injective

\* One list behind the other, cut.
LEMMA CutLists ==
  ASSUME NEW S, NEW a \in Seq(S), NEW b \in Seq(S), NEW n \in Nat, NEW c,
         c = SubSeq(a \o b, 1, IF Len(a \o b) < n THEN Len(a \o b) ELSE n)
  PROVE  /\ c \in Seq(S)
         /\ Len(c) = IF Len(a) + Len(b) < n THEN Len(a) + Len(b) ELSE n
         /\ \A i \in 1..Len(c) : c[i] = IF i <= Len(a) THEN a[i] ELSE b[i - Len(a)]
<1>1. Len(a) \in Nat /\ Len(b) \in Nat
  OBVIOUS
<1>2. /\ a \o b \in Seq(S) /\ Len(a \o b) = Len(a) + Len(b)
      /\ \A i \in 1..(Len(a) + Len(b)) : (a \o b)[i] = IF i <= Len(a) THEN a[i] ELSE b[i - Len(a)]
  BY <1>1
<1> DEFINE d == a \o b
           h == IF Len(d) < n THEN Len(d) ELSE n
<1>3. d \in Seq(S) /\ Len(d) = Len(a) + Len(b)
  BY <1>2
<1>4. c = SubSeq(d, 1, h)
  OBVIOUS
<1> HIDE DEF d
<1>5. h \in 0..Len(d)
  BY <1>1, <1>3
<1>6. h = IF Len(a) + Len(b) < n THEN Len(a) + Len(b) ELSE n
  BY <1>3
<1> HIDE DEF h
<1>7. c \in Seq(S) /\ Len(c) = h /\ \A i \in 1..h : c[i] = d[i]
  BY <1>3, <1>4, <1>5
<1>8. \A i \in 1..h : i \in 1..(Len(a) + Len(b))
  BY <1>1, <1>3, <1>5
<1> QED BY <1>2, <1>6, <1>7, <1>8 DEF d

\* GetRecentCallsForRadioSet lists what the row shares, once each, and leaves out a call
\* only when its list is full, of newer calls but where the call is a PTT call.
SharedNow(r, k) ==
    \/ calls[k].tg = "own"
    \/ /\ ~ Ptt(k) /\ calls[k].source \in readable
       /\ IF r.mode = "groups" THEN GroupAt(calls[k].tg) \in r.groups ELSE calls[k].tg \in r.tgs

LEMMA SeedsList ==
  ASSUME World, NEW r \in Row, NEW s, s = Seeds(r)
  PROVE  /\ s \in Seq(Ids) /\ Len(s) <= SeedLimit
         /\ Elements(s) \subseteq Stored
         /\ \A k \in Elements(s) : SharedNow(r, k)
         /\ \A k \in Stored \ Elements(s) : SharedNow(r, k) =>
               /\ Cardinality(Elements(s)) = SeedLimit
               /\ Ptt(k) \/ \A j \in Elements(s) : j > k
<1> DEFINE own == {k \in Stored : calls[k].tg = "own"}
           Radio(k) == ~ Ptt(k) /\ calls[k].source \in readable
           byGroup == {k \in Stored : Radio(k) /\ GroupAt(calls[k].tg) \in r.groups}
           byTalkgroup == {k \in Stored : Radio(k) /\ calls[k].tg \in r.tgs}
<1>1. Stored \subseteq Ids /\ SeedLimit \in Nat \ {0}
  BY IdsOfCalls, ListenerStreamAssumption
<1>2. r.mode \in {"talkgroups", "groups"}
  BY DEF Row
<1>3. CASE r.mode = "talkgroups"
  <2> DEFINE K == byTalkgroup \cup own
  <2>1. s = Newest(K, SeedLimit) /\ K \subseteq Ids
    BY <1>1, <1>3 DEF Seeds
  <2>2. \A k \in Stored : SharedNow(r, k) <=> k \in K
    BY <1>3 DEF SharedNow
  <2>3. K \subseteq Stored
    OBVIOUS
  <2> HIDE DEF K
  <2>4. /\ s \in Seq(K) /\ Len(s) \in Nat /\ Len(s) <= SeedLimit /\ Injective(s)
        /\ Elements(s) \subseteq K
        /\ \A k \in K \ Elements(s) : Len(s) = SeedLimit /\ \A j \in Elements(s) : j > k
    BY <2>1, NewestElements
  <2>5. s \in Seq(Ids)
    BY <2>1, <2>4
  <2>6. Cardinality(Elements(s)) = Len(s)
    BY <2>4, InjectiveCount
  <2> QED BY <2>2, <2>3, <2>4, <2>5, <2>6
<1>4. CASE r.mode = "groups"
  <2>1. PICK a, b : /\ a = Newest(byGroup, SeedLimit) /\ b = Newest(own, SeedLimit)
                    /\ s = SubSeq(a \o b, 1, IF Len(a \o b) < SeedLimit THEN Len(a \o b) ELSE SeedLimit)
    BY <1>3, <1>4 DEF Seeds
  <2>2. byGroup \subseteq Stored /\ own \subseteq Stored /\ byGroup \cap own = {} /\ \A k \in own : Ptt(k)
    BY ListenerStreamAssumption DEF Ptt
  <2>3. \A k \in Stored : SharedNow(r, k) <=> k \in byGroup \cup own
    BY <1>4 DEF SharedNow
  <2> HIDE DEF byGroup, own
  <2>4. /\ a \in Seq(byGroup) /\ Len(a) \in Nat /\ Len(a) <= SeedLimit /\ Injective(a)
        /\ Elements(a) \subseteq byGroup
        /\ \A k \in byGroup \ Elements(a) : Len(a) = SeedLimit /\ \A j \in Elements(a) : j > k
    BY <1>1, <2>1, <2>2, NewestElements
  <2>5. /\ b \in Seq(own) /\ Len(b) \in Nat /\ Len(b) <= SeedLimit /\ Injective(b)
        /\ Elements(b) \subseteq own
        /\ \A k \in own \ Elements(b) : Len(b) = SeedLimit /\ \A j \in Elements(b) : j > k
    BY <1>1, <2>1, <2>2, NewestElements
  <2>6. DOMAIN a = 1..Len(a) /\ DOMAIN b = 1..Len(b)
    BY <2>4, <2>5
  <2>7. a \in Seq(Ids) /\ b \in Seq(Ids)
    BY <1>1, <2>2, <2>4, <2>5
  <2>8. /\ s \in Seq(Ids)
        /\ Len(s) = IF Len(a) + Len(b) < SeedLimit THEN Len(a) + Len(b) ELSE SeedLimit
        /\ \A i \in 1..Len(s) : s[i] = IF i <= Len(a) THEN a[i] ELSE b[i - Len(a)]
    BY <1>1, <2>1, <2>7, CutLists
  <2>9. Len(s) \in Nat /\ DOMAIN s = 1..Len(s) /\ Len(s) <= SeedLimit /\ Len(s) >= Len(a)
    BY <1>1, <2>4, <2>5, <2>8
  <2>10. \A i \in 1..Len(s) : IF i <= Len(a) THEN i \in 1..Len(a) ELSE i - Len(a) \in 1..Len(b)
    BY <1>1, <2>4, <2>5, <2>8, <2>9
  <2>11. \A i \in 1..Len(s) : IF i <= Len(a) THEN s[i] \in Elements(a) ELSE s[i] \in Elements(b)
    BY <2>6, <2>8, <2>10 DEF Elements
  <2>12. Elements(s) \subseteq Elements(a) \cup Elements(b)
    BY <2>9, <2>11 DEF Elements
  <2>13. Injective(s)
    <3> SUFFICES ASSUME NEW i \in 1..Len(s), NEW j \in 1..Len(s), s[i] = s[j] PROVE i = j
      BY <2>9 DEF Injective
    <3>1. (i <= Len(a)) <=> (j <= Len(a))
      BY <2>2, <2>4, <2>5, <2>11
    <3>2. CASE i <= Len(a)
      BY <2>4, <2>6, <2>8, <2>10, <3>1, <3>2 DEF Injective
    <3>3. CASE ~ (i <= Len(a))
      <4>1. b[i - Len(a)] = b[j - Len(a)] /\ i - Len(a) \in DOMAIN b /\ j - Len(a) \in DOMAIN b
        BY <2>6, <2>8, <2>10, <3>1, <3>3
      <4>2. i - Len(a) = j - Len(a)
        BY <2>5, <4>1 DEF Injective
      <4> QED BY <2>4, <2>9, <4>2
    <3> QED BY <3>2, <3>3
  <2>14. Cardinality(Elements(s)) = Len(s)
    BY <2>8, <2>13, InjectiveCount
  <2>15. Elements(a) \subseteq Elements(s)
    <3> SUFFICES ASSUME NEW i \in 1..Len(a) PROVE a[i] \in Elements(s)
      BY <2>6 DEF Elements
    <3>1. i \in 1..Len(s) /\ s[i] = a[i]
      BY <2>4, <2>8, <2>9
    <3> QED BY <2>9, <3>1 DEF Elements
  <2>16. Len(a) + Len(b) <= SeedLimit => Elements(b) \subseteq Elements(s)
    <3> SUFFICES ASSUME Len(a) + Len(b) <= SeedLimit, NEW i \in 1..Len(b) PROVE b[i] \in Elements(s)
      BY <2>6 DEF Elements
    <3>1. i + Len(a) \in 1..Len(s) /\ ~ (i + Len(a) <= Len(a)) /\ (i + Len(a)) - Len(a) = i
      BY <1>1, <2>4, <2>5, <2>8
    <3>2. s[i + Len(a)] = b[i]
      BY <2>8, <3>1
    <3> QED BY <2>9, <3>1, <3>2 DEF Elements
  <2>17. ASSUME NEW k \in own \ Elements(s) PROVE Len(s) = SeedLimit
    <3>1. CASE Len(a) + Len(b) <= SeedLimit
      <4>1. k \in own \ Elements(b)
        BY <2>16, <2>17, <3>1
      <4>2. Len(b) = SeedLimit
        BY <2>5, <4>1
      <4> QED BY <1>1, <2>4, <2>5, <2>8, <3>1, <4>2
    <3>2. CASE ~ (Len(a) + Len(b) <= SeedLimit)
      BY <1>1, <2>4, <2>5, <2>8, <3>2
    <3> QED BY <3>1, <3>2
  <2>18. ASSUME NEW k \in byGroup \ Elements(s)
         PROVE  Len(s) = SeedLimit /\ \A j \in Elements(s) : j > k
    <3>1. Len(a) = SeedLimit /\ \A j \in Elements(a) : j > k
      BY <2>4, <2>15, <2>18
    <3>2. Len(s) = SeedLimit
      <4>1. Len(a) = SeedLimit
        BY <3>1
      <4>2. Len(s) \in Nat /\ Len(s) <= SeedLimit /\ Len(s) >= SeedLimit
        BY <2>9, <4>1
      <4>3. SeedLimit \in Nat
        BY <1>1
      <4> QED BY <4>2, <4>3
    <3>3. Elements(s) \subseteq Elements(a)
      BY <1>1, <2>9, <2>11, <3>1, <3>2 DEF Elements
    <3> QED BY <3>1, <3>2, <3>3
  <2> QED BY <2>2, <2>3, <2>4, <2>5, <2>8, <2>9, <2>12, <2>14, <2>17, <2>18
<1> QED BY <1>2, <1>3, <1>4

LEMMA SeedStep ==
  ASSUME StreamIInv, NEW l \in Listeners, Seed(l)
  PROVE  StreamIInv'
<1>1. World /\ Connections /\ Served(l)
  BY DEF StreamIInv
<1>2. PICK s : s = Seeds(lst[l].row)
  OBVIOUS
<1> DEFINE state == [lst[l] EXCEPT !.pc = "seeding", !.row = NoRow, !.seed = s,
                                   !.seeded = Elements(s)]
<1>3. lst[l].pc = "subscribed" /\ Moves(l, state) /\ since' = since /\ heard' = heard
  BY <1>2 DEF Seed, Elements
<1>4. lst[l] \in Connection /\ lst[l].row \in Row
  BY <1>1 DEF Connections, Connection
<1>5. /\ s \in Seq(Ids) /\ Len(s) <= SeedLimit /\ Elements(s) \subseteq Stored
      /\ \A k \in Elements(s) : SharedNow(lst[l].row, k)
      /\ \A k \in Stored \ Elements(s) : SharedNow(lst[l].row, k) =>
            /\ Cardinality(Elements(s)) = SeedLimit
            /\ Ptt(k) \/ \A j \in Elements(s) : j > k
  BY <1>1, <1>2, <1>4, SeedsList
<1>6. /\ state \in Connection /\ state.pc = "seeding" /\ state.seed = s
      /\ state.seeded = Elements(s) /\ state.sources = lst[l].sources /\ state.sub = lst[l].sub
      /\ state.ch = lst[l].ch /\ state.before = lst[l].before
      /\ state.skipped = lst[l].skipped /\ state.stale = lst[l].stale
  <2> DEFINE E == Elements(s)
             c == [lst[l] EXCEPT !.pc = "seeding", !.row = NoRow, !.seed = s, !.seeded = E]
  <2>1. E \in SUBSET Ids
    BY <1>1, <1>5, IdsOfCalls
  <2> HIDE DEF E
  <2>2. /\ c \in Connection /\ c.pc = "seeding" /\ c.seed = s
        /\ c.seeded = E /\ c.sources = lst[l].sources /\ c.sub = lst[l].sub
        /\ c.ch = lst[l].ch /\ c.before = lst[l].before
        /\ c.skipped = lst[l].skipped /\ c.stale = lst[l].stale
    BY <1>4, <1>5, <2>1, NoneTyped DEF Connection
  <2> QED BY <2>2 DEF E
<1> HIDE DEF state
<1>7. /\ lst'[l] = state /\ since'[l] = since[l] /\ heard'[l] = heard[l] /\ lost' = lost
      /\ calls' = calls /\ readable' = readable /\ pushed' = pushed /\ Stored' = Stored
      /\ \A k : Ptt(k)' <=> Ptt(k)
      /\ \A k : (AllShare(l, k)' <=> AllShare(l, k)) /\ (Allowed(l, k)' <=> Allowed(l, k))
  BY <1>1, <1>3, MoveSame
<1>8. /\ Pending(l) = Elements(lst[l].ch) /\ Pending(l)' = Elements(lst[l].ch) \cup Elements(s)
      /\ lst[l].seed = <<>> /\ heard[l] = {}
  <2>1. lst[l].seed = <<>> /\ heard[l] = {}
    BY <1>1, <1>3 DEF Served, Quiet
  <2>2. Pending(l)' = Elements(lst'[l].ch) \cup Elements(lst'[l].seed)
    BY DEF Pending, Elements
  <2> QED BY <1>6, <1>7, <2>1, <2>2, PendingIs, NoElements
<1>9. /\ \E v \in since[l] : v.row = lst[l].row
      /\ \E v \in since[l] : v.readable = readable
      /\ since[l] # {}
  BY <1>1, <1>3 DEF Served, Viewed
<1>10. ASSUME NEW k \in Elements(s) PROVE Allowed(l, k)
  <2>1. SharedNow(lst[l].row, k)
    BY <1>5
  <2> QED BY <1>9, <2>1, ListenerStreamAssumption DEF SharedNow, Allowed
<1>11. ASSUME NEW k \in Stored, AllShare(l, k) PROVE SharedNow(lst[l].row, k)
  <2>1. PICK v \in since[l] : v.row = lst[l].row
    BY <1>9
  <2>2. PICK w \in since[l] : w.readable = readable
    BY <1>9
  <2>3. Shares(v, k) /\ Shares(w, k)
    BY <1>11 DEF AllShare
  <2> QED BY <2>1, <2>2, <2>3 DEF Shares, SharedNow
<1>12. Served(l)'
  <2>1. Bounded(l)'
    BY <1>1, <1>5, <1>6, <1>7, <1>8 DEF Served, Bounded
  <2>2. Viewed(l)'
    BY <1>6, <1>7, <1>9 DEF Viewed
  <2>3. Quiet(l)'
    BY <1>6, <1>7 DEF Quiet
  <2>4. Subscribed(l)'
    <3>1. Listening(l)
      BY <1>3 DEF Listening
    <3>2. Got(l) \subseteq Got(l)'
      BY <1>7, <1>8 DEF Got
    <3>3. /\ \E v \in since'[l] : v.readable = lst'[l].sources
          /\ \E v \in since'[l] : Told(v, lst'[l].sub)
          /\ \A k \in pushed' \ lst'[l].before : AllShare(l, k)' => k \in Got(l)'
      BY <1>1, <1>6, <1>7, <3>1, <3>2 DEF Served, Subscribed
    <3> QED BY <3>3 DEF Subscribed, Told, Full, Resolved
  <2>5. Seeded(l)'
    <3>1. ASSUME NEW k \in lst'[l].before, AllShare(l, k)' PROVE k \in Got(l)' \/ Outdone(l, k)'
      <4>1. k \in Stored
        BY <1>1, <1>6, <1>7 DEF Served, Bounded, World
      <4>2. SharedNow(lst[l].row, k)
        BY <1>7, <1>11, <3>1, <4>1
      <4>3. CASE k \in Elements(s)
        BY <1>8, <4>3 DEF Got
      <4>4. CASE k \notin Elements(s)
        BY <1>5, <1>6, <1>7, <4>1, <4>2, <4>4 DEF Outdone
      <4> QED BY <4>3, <4>4
    <3> QED BY <3>1 DEF Seeded
  <2>6. Shared(l)'
    BY <1>1, <1>7, <1>8, <1>10 DEF Served, Shared
  <2> QED BY <2>1, <2>2, <2>3, <2>4, <2>5, <2>6 DEF Served
<1>13. Listening(l) /\ state.sub = lst[l].sub /\ (state.stale <=> lst[l].stale)
  BY <1>3, <1>6 DEF Listening
<1>14. /\ heard' = [heard EXCEPT ![l] = heard[l]] /\ since' = [since EXCEPT ![l] = since[l]]
       /\ heard[l] \in SUBSET Ids /\ since[l] \in SUBSET View
  BY <1>1, <1>3 DEF Connections
<1> QED BY <1>3, <1>6, <1>12, <1>13, <1>14, MoveStep

\* A listener goes on with what it was subscribed to and what it got, or more.
LEMMA GoesOnServed ==
  ASSUME StreamIInv, NEW l \in Listeners, NEW state \in Connection, Moves(l, state),
         Listening(l), state.pc \in {"seeding", "live"},
         state.sources = lst[l].sources, state.sub = lst[l].sub,
         state.stale <=> lst[l].stale,
         state.before = lst[l].before, state.seeded = lst[l].seeded,
         lst[l].skipped => state.skipped,
         lst[l].pc = "subscribed" => state.skipped,
         Len(state.ch) <= ChannelSize, Len(state.seed) <= SeedLimit,
         NEW H \in SUBSET Ids, heard' = [heard EXCEPT ![l] = H], since' = since,
         H \cup Elements(state.ch) \cup Elements(state.seed) = heard[l] \cup Pending(l)
  PROVE  StreamIInv'
<1>1. World /\ Connections /\ Served(l)
  BY DEF StreamIInv
<1>2. /\ lst'[l] = state /\ since'[l] = since[l] /\ heard'[l] = H /\ lost' = lost
      /\ calls' = calls /\ readable' = readable /\ pushed' = pushed /\ Stored' = Stored
      /\ \A k : Ptt(k)' <=> Ptt(k)
      /\ \A k : (AllShare(l, k)' <=> AllShare(l, k)) /\ (Allowed(l, k)' <=> Allowed(l, k))
  BY <1>1, MoveSame DEF Connections
<1>3. Pending(l)' = Elements(state.ch) \cup Elements(state.seed)
  <2>1. Pending(l)' = Elements(lst'[l].ch) \cup Elements(lst'[l].seed)
    BY DEF Pending, Elements
  <2> QED BY <1>2, <2>1
<1>4. heard'[l] \cup Pending(l)' = heard[l] \cup Pending(l) /\ Got(l)' = Got(l)
  BY <1>2, <1>3 DEF Got
<1>5. lst[l].pc \in {"subscribed", "seeding", "live"}
  BY DEF Listening
<1>6. Served(l)'
  <2>1. Bounded(l)'
    BY <1>1, <1>2, <1>4 DEF Served, Bounded
  <2>2. Viewed(l)'
    BY <1>1, <1>2, <1>5 DEF Served, Viewed
  <2>3. Quiet(l)'
    BY <1>2 DEF Quiet
  <2>4. Subscribed(l)'
    <3>1. /\ \E v \in since'[l] : v.readable = lst'[l].sources
          /\ \E v \in since'[l] : Told(v, lst'[l].sub)
          /\ \A k \in pushed' \ lst'[l].before : AllShare(l, k)' => k \in Got(l)'
      BY <1>1, <1>2, <1>4 DEF Served, Subscribed
    <3> QED BY <3>1 DEF Subscribed, Told, Full, Resolved
  <2>5. Seeded(l)'
    <3>1. ASSUME NEW k \in lst'[l].before, AllShare(l, k)' PROVE k \in Got(l)' \/ Outdone(l, k)'
      <4>1. CASE lst[l].pc = "subscribed"
        BY <1>2, <4>1 DEF Outdone
      <4>2. CASE lst[l].pc # "subscribed"
        <5>1. k \in Got(l) \/ Outdone(l, k)
          BY <1>1, <1>2, <1>5, <3>1, <4>2 DEF Served, Seeded
        <5> QED BY <1>2, <1>4, <5>1 DEF Outdone
      <4> QED BY <4>1, <4>2
    <3> QED BY <3>1 DEF Seeded
  <2>6. Shared(l)'
    BY <1>1, <1>2, <1>4 DEF Served, Shared
  <2> QED BY <2>1, <2>2, <2>3, <2>4, <2>5, <2>6 DEF Served
<1>7. since' = [since EXCEPT ![l] = since[l]] /\ since[l] \in SUBSET View
  BY <1>1 DEF Connections
<1> QED BY <1>6, <1>7, MoveStep

LEMMA SkipSeedStep ==
  ASSUME StreamIInv, NEW l \in Listeners, SkipSeed(l)
  PROVE  StreamIInv'
<1> DEFINE state == [lst[l] EXCEPT !.pc = "live", !.row = NoRow, !.skipped = TRUE]
<1>1. World /\ Connections /\ Served(l)
  BY DEF StreamIInv
<1>2. /\ lst[l].pc = "subscribed" /\ Listening(l) /\ Moves(l, state)
      /\ since' = since /\ heard' = heard
  BY DEF SkipSeed, Listening
<1>3. lst[l] \in Connection
  BY <1>1 DEF Connections
<1>4. /\ state \in Connection /\ state.pc = "live" /\ state.skipped
      /\ state.sources = lst[l].sources /\ state.sub = lst[l].sub
      /\ state.stale = lst[l].stale
      /\ state.before = lst[l].before /\ state.seeded = lst[l].seeded
      /\ state.ch = lst[l].ch /\ state.seed = lst[l].seed
  BY <1>3, NoneTyped DEF Connection
<1> HIDE DEF state
<1>5. /\ Len(state.ch) <= ChannelSize /\ Len(state.seed) <= SeedLimit
      /\ heard' = [heard EXCEPT ![l] = heard[l]] /\ heard[l] \in SUBSET Ids
      /\ heard[l] \cup Elements(state.ch) \cup Elements(state.seed) = heard[l] \cup Pending(l)
  BY <1>1, <1>2, <1>4, PendingIs DEF Served, Bounded, Connections
<1> QED BY <1>2, <1>4, <1>5, GoesOnServed

LEMMA SendSeedStep ==
  ASSUME StreamIInv, NEW l \in Listeners, SendSeed(l)
  PROVE  StreamIInv'
<1>1. World /\ Connections /\ Served(l)
  BY DEF StreamIInv
<1>2. lst[l].pc = "seeding" /\ Listening(l) /\ since' = since
  BY DEF SendSeed, Listening
<1>3. lst[l] \in Connection /\ lst[l].ch \in Seq(Ids) /\ lst[l].seed \in Seq(Ids) /\ heard[l] \in SUBSET Ids
  BY <1>1 DEF Connections, Connection
<1>4. /\ Len(lst[l].ch) <= ChannelSize /\ Len(lst[l].seed) <= SeedLimit
  BY <1>1 DEF Served, Bounded
<1>5. CASE lst[l].seed = <<>>
  <2> DEFINE state == [lst[l] EXCEPT !.pc = "live"]
  <2>1. Moves(l, state) /\ heard' = heard
    BY <1>5 DEF SendSeed
  <2>2. /\ state \in Connection /\ state.pc = "live" /\ state.skipped = lst[l].skipped
        /\ state.sources = lst[l].sources /\ state.sub = lst[l].sub
        /\ state.stale = lst[l].stale
        /\ state.before = lst[l].before /\ state.seeded = lst[l].seeded
        /\ state.ch = lst[l].ch /\ state.seed = lst[l].seed
    BY <1>3 DEF Connection
  <2> HIDE DEF state
  <2>3. /\ heard' = [heard EXCEPT ![l] = heard[l]]
        /\ heard[l] \cup Elements(state.ch) \cup Elements(state.seed) = heard[l] \cup Pending(l)
    BY <1>1, <2>1, <2>2, PendingIs DEF Connections
  <2> QED BY <1>2, <1>3, <1>4, <2>1, <2>2, <2>3, GoesOnServed
<1>6. CASE lst[l].seed # <<>>
  <2> DEFINE t == Tail(lst[l].seed)
             state == [lst[l] EXCEPT !.seed = t]
             H == heard[l] \cup {Head(lst[l].seed)}
  <2>1. Moves(l, state) /\ heard' = [heard EXCEPT ![l] = H]
    BY <1>6 DEF SendSeed
  <2>2. /\ t \in Seq(Ids) /\ Len(t) <= Len(lst[l].seed) /\ Head(lst[l].seed) \in Ids
        /\ Elements(lst[l].seed) = Elements(t) \cup {Head(lst[l].seed)}
    BY <1>3, <1>6, FewerElements
  <2>3. Len(t) <= SeedLimit
    <3>1. Len(t) \in Nat /\ Len(lst[l].seed) \in Nat /\ SeedLimit \in Nat
      BY <1>3, <2>2, ListenerStreamAssumption
    <3> HIDE DEF t
    <3> QED BY <1>4, <2>2, <3>1
  <2> HIDE DEF t
  <2>4. /\ state \in Connection /\ state.pc = "seeding" /\ state.skipped = lst[l].skipped
        /\ state.sources = lst[l].sources /\ state.sub = lst[l].sub
        /\ state.stale = lst[l].stale
        /\ state.before = lst[l].before /\ state.seeded = lst[l].seeded
        /\ state.ch = lst[l].ch /\ state.seed = t
    BY <1>2, <1>3, <2>2 DEF Connection
  <2> HIDE DEF state
  <2>5. H \in SUBSET Ids
    BY <1>3, <2>2
  <2>6. H \cup Elements(state.ch) \cup Elements(state.seed) = heard[l] \cup Pending(l)
    BY <2>2, <2>4, PendingIs
  <2> HIDE DEF H
  <2> QED BY <1>2, <1>4, <2>1, <2>3, <2>4, <2>5, <2>6, GoesOnServed
<1> QED BY <1>5, <1>6

LEMMA SendLiveStep ==
  ASSUME StreamIInv, NEW l \in Listeners, SendLive(l)
  PROVE  StreamIInv'
<1> DEFINE t == Tail(lst[l].ch)
           state == [lst[l] EXCEPT !.ch = t]
           H == heard[l] \cup {Head(lst[l].ch)}
<1>1. World /\ Connections /\ Served(l)
  BY DEF StreamIInv
<1>2. /\ lst[l].pc = "live" /\ lst[l].ch # <<>> /\ Listening(l) /\ since' = since
      /\ Moves(l, state) /\ heard' = [heard EXCEPT ![l] = H]
  BY DEF SendLive, Listening
<1>3. lst[l] \in Connection /\ lst[l].ch \in Seq(Ids) /\ heard[l] \in SUBSET Ids
  BY <1>1 DEF Connections, Connection
<1>4. /\ Len(lst[l].ch) <= ChannelSize /\ Len(lst[l].seed) <= SeedLimit
  BY <1>1 DEF Served, Bounded
<1>5. /\ t \in Seq(Ids) /\ Len(t) <= Len(lst[l].ch) /\ Head(lst[l].ch) \in Ids
      /\ Elements(lst[l].ch) = Elements(t) \cup {Head(lst[l].ch)}
  BY <1>2, <1>3, FewerElements
<1>6. Len(t) <= ChannelSize
  <2>1. Len(t) \in Nat /\ Len(lst[l].ch) \in Nat /\ ChannelSize \in Nat
    BY <1>3, <1>5, ListenerStreamAssumption
  <2> HIDE DEF t
  <2> QED BY <1>4, <1>5, <2>1
<1> HIDE DEF t
<1>7. /\ state \in Connection /\ state.pc = "live" /\ state.skipped = lst[l].skipped
      /\ state.sources = lst[l].sources /\ state.sub = lst[l].sub
      /\ state.stale = lst[l].stale
      /\ state.before = lst[l].before /\ state.seeded = lst[l].seeded
      /\ state.ch = t /\ state.seed = lst[l].seed
  BY <1>2, <1>3, <1>5 DEF Connection
<1> HIDE DEF state
<1>8. H \in SUBSET Ids
  BY <1>3, <1>5
<1>9. H \cup Elements(state.ch) \cup Elements(state.seed) = heard[l] \cup Pending(l)
  BY <1>5, <1>7, PendingIs
<1> HIDE DEF H
<1> QED BY <1>2, <1>4, <1>6, <1>7, <1>8, <1>9, GoesOnServed

LEMMA LeaveStep ==
  ASSUME StreamIInv, NEW l \in Listeners, Leave(l)
  PROVE  StreamIInv'
<1> DEFINE state == [Off EXCEPT !.pc = "gone"]
<1>1. World /\ Connections /\ Served(l)
  BY DEF StreamIInv
<1>2. /\ Moves(l, state) /\ heard' = [heard EXCEPT ![l] = {}]
      /\ since' = [since EXCEPT ![l] = {}]
  BY DEF Leave
<1>3. /\ state \in Connection /\ state.pc = "gone" /\ state.ch = <<>> /\ state.seed = <<>>
      /\ state.seeded = {} /\ state.before = {}
  <2>1. Off \in Connection
    BY NoneTyped
  <2>2. Off.ch = <<>> /\ Off.seed = <<>> /\ Off.seeded = {} /\ Off.before = {}
    BY DEF Off
  <2> QED BY <2>1, <2>2 DEF Connection
<1> HIDE DEF state
<1>4. lst'[l] = state /\ since'[l] = {} /\ heard'[l] = {} /\ lost' = lost /\ pushed' = pushed
  BY <1>1, <1>2, MoveSame DEF Connections
<1>5. Pending(l)' = {}
  BY <1>3, <1>4 DEF Pending
<1>6. Served(l)'
  <2>1. Bounded(l)'
    BY <1>1, <1>3, <1>4, <1>5, ListenerStreamAssumption DEF Served, Bounded
  <2>2. Viewed(l)' /\ Quiet(l)'
    BY <1>3, <1>4 DEF Viewed, Quiet
  <2>3. Subscribed(l)' /\ Seeded(l)'
    BY <1>3, <1>4 DEF Subscribed, Seeded, Listening
  <2>4. Shared(l)'
    BY <1>4, <1>5 DEF Shared
  <2> QED BY <2>1, <2>2, <2>3, <2>4 DEF Served
<1>7. ~ Listening(l)'
  BY <1>3, <1>4 DEF Listening
<1>8. {} \in SUBSET Ids /\ {} \in SUBSET View
  OBVIOUS
<1> QED BY <1>2, <1>3, <1>6, <1>7, <1>8, MoveStep

-----------------------------------------------------------------------------
(* Theorems.                                                                *)

LEMMA InitStreamIInv == StreamInit => StreamIInv
<1> SUFFICES ASSUME StreamInit PROVE StreamIInv
  OBVIOUS
<1> USE DEF StreamInit
<1>1. Off.pc = "off" /\ Off.ch = <<>> /\ Off.seed = <<>> /\ Off.seeded = {} /\ Off.before = {}
  BY DEF Off
<1>2. Idle.pc = "idle"
  BY DEF Idle
<1>3. World
  BY ListenerStreamAssumption DEF World, Stored
<1>4. Handlers /\ Connections
  BY <1>2, NoneTyped DEF Handlers, Connections
<1>5. Telling
  BY <1>2 DEF Telling, Processes
<1>6. FollowsRow
  BY <1>1 DEF FollowsRow, Listening
<1>7. ASSUME NEW l \in Listeners PROVE Served(l)
  <2>1. lst[l] = Off /\ heard[l] = {} /\ lost[l] = {} /\ since[l] = {}
    OBVIOUS
  <2>2. Pending(l) = {}
    BY <1>1, <2>1 DEF Pending
  <2>3. Bounded(l)
    BY <1>1, <2>1, <2>2, ListenerStreamAssumption DEF Bounded
  <2>4. Viewed(l) /\ Quiet(l) /\ Subscribed(l) /\ Seeded(l)
    BY <1>1, <2>1 DEF Viewed, Quiet, Subscribed, Seeded, Listening
  <2>5. Shared(l)
    BY <2>1, <2>2 DEF Shared
  <2> QED BY <2>3, <2>4, <2>5 DEF Served
<1> QED BY <1>3, <1>4, <1>5, <1>6, <1>7 DEF StreamIInv

LEMMA NextStreamIInv == StreamIInv /\ [StreamNext]_streamVars => StreamIInv'
<1> SUFFICES ASSUME StreamIInv, [StreamNext]_streamVars PROVE StreamIInv'
  OBVIOUS
<1>1. ASSUME NEW p \in Uploaders, NEW tg \in Channels, NEW s \in Sources, Store(p, tg, s)
      PROVE  StreamIInv'
  BY <1>1, StoreStep DEF Processes, StreamTalkgroups
<1>2. ASSUME NEW p \in Uploaders, NEW tg \in Virtual, Store(p, tg, AnySource)
      PROVE  StreamIInv'
  <2>1. AnySource \in Sources
    BY ListenerStreamAssumption DEF AnySource
  <2> QED BY <1>2, <2>1, StoreStep DEF Processes, StreamTalkgroups
<1>3. ASSUME NEW p \in Processes, Continue(p) PROVE StreamIInv'
  BY <1>3, PushStep, ExtendStep, WriteListStep, LookStep, UpdateStep DEF Continue, Upload
<1>4. ASSUME List \/ Query PROVE StreamIInv'
  BY <1>4, ListStep, QueryStep
<1>5. ASSUME NEW p \in Requests, NEW choice \in Choices, Save(p, choice) PROVE StreamIInv'
  BY <1>5, SaveStep
<1>6. ASSUME NEW new \in {"private", "shared", "deleted"}, Relink(new) PROVE StreamIInv'
  BY <1>6, RelinkStep
<1>7. ASSUME NEW s \in Sources, Reshare(s) PROVE StreamIInv'
  BY <1>7, ReshareStep
<1>8. ASSUME NEW l \in Listeners, Find(l) \/ Serve(l) \/ SkipSeed(l) \/ Leave(l) PROVE StreamIInv'
  BY <1>8, FindStep, SubscribeStep, SeedStep, SendSeedStep, SendLiveStep, SkipSeedStep, LeaveStep
  DEF Serve
<1>9. CASE UNCHANGED streamVars
  <2>1. UNCHANGED <<set, link, readable, calls, pushed, proc, lst, heard, lost, since, edits>>
    BY <1>9 DEF streamVars, row, traffic
  <2>2. World /\ Handlers /\ Connections /\ Telling /\ FollowsRow /\ \A l \in Listeners : Served(l)
    BY DEF StreamIInv
  <2>3. World' /\ Handlers' /\ Connections'
    BY <2>1, <2>2 DEF World, Handlers, Connections, Stored
  <2>4. Telling' /\ FollowsRow'
    BY <2>1, <2>2 DEF Telling, Tells, FollowsRow, Untold, Listening, Full, Resolved
  <2>5. \A l \in Listeners : Served(l)'
    BY <2>1, <2>2, ElsewhereServed
  <2> QED BY <2>3, <2>4, <2>5 DEF StreamIInv
<1> QED BY <1>1, <1>2, <1>3, <1>4, <1>5, <1>6, <1>7, <1>8, <1>9 DEF StreamNext

LEMMA StreamIInvHolds == StreamSpec => []StreamIInv
  BY InitStreamIInv, NextStreamIInv, PTL DEF StreamSpec

\* Types: no listener's channel or seed grows beyond its bound.
THEOREM StreamTypeCorrect == StreamSpec => []StreamTypeOK
  BY StreamIInvHolds, StreamTyped, PTL

\* stream.go updateRadioSetTalkgroups, subscribe: while no writer still has to tell the hub,
\* a listener is subscribed to the row, but for the PTT talkgroup that the updates of the
\* resolution leave out and for what it was told too late.
THEOREM RowIsFollowed == StreamSpec => []FollowsRow
<1>1. StreamIInv => FollowsRow
  BY DEF StreamIInv
<1> QED BY <1>1, StreamIInvHolds, PTL

\* stream.go matchesCall, handlePublicWS and calls.go GetRecentCallsForRadioSet: whatever is
\* stored, saved and resolved meanwhile, a listener is sent what its set shares and nothing else.
THEOREM ListenersHearTheirSet == StreamSpec => []HearsItsSet
<1>1. StreamIInv => HearsItsSet
  <2> SUFFICES ASSUME StreamIInv PROVE HearsItsSet
    OBVIOUS
  <2>1. NothingMissed
    <3> SUFFICES ASSUME NEW l \in Listeners, lst[l].pc \in {"seeding", "live"},
                        NEW k \in pushed, AllShare(l, k)
                 PROVE  \/ k \in heard[l] \cup Pending(l) \cup lost[l]
                        \/ k \in lst[l].before /\ Outdone(l, k)
      BY DEF NothingMissed, AllShare
    <3>1. Listening(l) /\ Subscribed(l) /\ Seeded(l)
      BY DEF StreamIInv, Served, Listening
    <3> QED BY <3>1 DEF Subscribed, Seeded, Got
  <2>2. HeardIsShared
    <3>1. \A l \in Listeners : Shared(l)
      BY DEF StreamIInv, Served
    <3> QED BY <3>1 DEF HeardIsShared, Shared, Allowed
  <2> QED BY <2>1, <2>2 DEF HearsItsSet
<1> QED BY <1>1, StreamIInvHolds, PTL
=============================================================================
