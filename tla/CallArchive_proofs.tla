--------------------------- MODULE CallArchive_proofs ---------------------------
(***************************************************************************)
(* Proofs about CallArchive: no overlap of sweeps, failure or restart loses *)
(* a call, for every set of calls, any dates and every bound.               *)
(***************************************************************************)
EXTENDS CallArchive, FiniteSetTheorems, WellFoundedInduction, TLAPS

\* Where a call must be before it may be deleted.
Kept == IF upload THEN s3 ELSE files
Safe == Kept \cup robbed

\* What a batch may count on while others work: what it has written is somewhere, what
\* it has uploaded is in the bucket, and what it is about to delete is kept.
Careful(b) ==
    /\ b.batch \subseteq stored
    /\ b.pc = "write" =>
          b.todo # {} /\ b.batch \ b.todo \subseteq files \cup s3 \cup robbed
    /\ b.pc = "sync" =>
          /\ upload /\ b.todo = {}
          /\ b.batch \subseteq files \cup s3 \cup robbed
          /\ {c \in b.batch : DayOf(c) \notin b.days} \subseteq s3 \cup robbed
    /\ b.pc = "delete" => b.batch \subseteq Safe
    /\ b.pc = "remove" => upload

Batches == \A s \in Sweepers : Careful(sweep[s])

\* Directories are removed, and the bucket is filled, only where it is configured.
Configured == (dropLocal => upload) /\ (~upload => s3 = {})

Archived == stored \ (db \cup robbed) \subseteq Kept

\* Who works has the lock.
Locking ==
    /\ sweep["loop"].pc # "off" => lock = "loop"
    /\ sweep["job"].pc \notin {"off", "lock"} => lock = "job"

\* The parts of the type invariant.
Rows ==
    /\ now \in 0..MaxTime
    /\ stored \subseteq Calls /\ db \subseteq stored
    /\ files \subseteq stored /\ s3 \subseteq stored /\ robbed \subseteq stored
    /\ upload \in BOOLEAN /\ dropLocal \in BOOLEAN
    /\ starts \in 0..MaxStarts /\ faults \in 0..MaxFaults
Shape == sweep \in [Sweepers -> Sweep] /\ \A s \in Sweepers : sweep[s].todo \subseteq sweep[s].batch
Phases ==
    /\ lock \in {"free", "loop", "job"}
    /\ (lock # "free") => sweep[lock].pc \notin {"off", "lock"}
    /\ job \in {"idle", "running", "paused", "done", "error"}
    /\ (job = "running") <=> (sweep["job"].pc # "off")

IInv == Rows /\ Shape /\ Phases /\ Locking /\ Batches /\ Configured /\ Archived

-----------------------------------------------------------------------------
(* Data.                                                                    *)

LEMMA Typed == TypeOK <=> Rows /\ Shape /\ Phases
  BY DEF TypeOK, Rows, Shape, Phases

\* A set of numbers has a least one.
LEMMA NatMin ==
  ASSUME NEW T, T \subseteq Nat, T # {}
  PROVE  \E x \in T : \A y \in T : x <= y
<1> DEFINE R == OpToRel(<, Nat)
<1>1. PICK x \in T : \A y \in T : ~ (<<y, x>> \in R)
  <2>1. IsWellFoundedOn(R, Nat)
    BY NatLessThanWellFounded
  <2> HIDE DEF R
  <2> QED BY <2>1, WFMin
<1>2. ASSUME NEW y \in T PROVE x <= y
  <2>1. y < x => <<y, x>> \in R
    BY DEF OpToRel
  <2> HIDE DEF R
  <2> QED BY <1>1, <2>1
<1> QED BY <1>2

\* Among calls that wait there is an oldest one, and it is taken.
LEMMA OldestIsThere ==
  ASSUME NEW S, S \subseteq Calls, S # {}
  PROVE  (CHOOSE d \in Oldest(S, 1) : TRUE) \in S
<1>1. PICK a \in S : \A d \in S : DateOf(a) <= DateOf(d)
  <2> DEFINE T == {DateOf(c) : c \in S}
  <2>1. T \subseteq Nat /\ T # {}
    BY ArchiveAssumption
  <2>2. PICK m \in T : \A y \in T : m <= y
    <3> HIDE DEF T
    <3> QED BY <2>1, NatMin
  <2> QED BY <2>2
<1>2. PICK c \in S : DateOf(c) = DateOf(a) /\ \A d \in S : DateOf(d) = DateOf(a) => c <= d
  <2> DEFINE T == {d \in S : DateOf(d) = DateOf(a)}
  <2>1. T \subseteq Nat /\ T # {}
    BY ArchiveAssumption
  <2>2. PICK m \in T : \A y \in T : m <= y
    <3> HIDE DEF T
    <3> QED BY <2>1, NatMin
  <2> QED BY <2>2
<1>3. {d \in S : Before(d, c)} = {}
  <2> SUFFICES ASSUME NEW d \in S, Before(d, c) PROVE FALSE
    OBVIOUS
  <2>1. DateOf(d) \in Nat /\ DateOf(c) \in Nat /\ d \in Nat /\ c \in Nat
    BY ArchiveAssumption
  <2>2. DateOf(c) <= DateOf(d)
    BY <1>1, <1>2
  <2> QED BY <1>2, <2>1, <2>2 DEF Before
<1>4. Cardinality({d \in S : Before(d, c)}) < 1
  <2>1. Cardinality({}) = 0
    BY FS_EmptySet
  <2> QED BY <1>3, <2>1
<1>5. c \in Oldest(S, 1)
  BY <1>4 DEF Oldest
<1>6. Oldest(S, 1) \subseteq S
  BY DEF Oldest
<1> QED BY <1>5, <1>6

LEMMA CountTyped ==
  ASSUME Rows, NEW S, S \subseteq db
  PROVE  Cardinality(S) \in Int
<1>1. IsFiniteSet(Calls) /\ S \subseteq Calls
  BY ArchiveAssumption DEF Rows
<1>2. IsFiniteSet(S)
  BY <1>1, FS_Subset
<1> QED BY <1>2, FS_CardinalityType

LEMMA CutoffTyped ==
  ASSUME Rows, NEW d \in Nat
  PROVE  Cutoff(d) \in 0..MaxTime
  BY ArchiveAssumption DEF Cutoff, Rows

LEMMA NoSweepTyped ==
  NoSweep \in Sweep /\ NoSweep.pc = "off" /\ NoSweep.todo = {} /\ NoSweep.batch = {}
  BY ArchiveAssumption DEF NoSweep, Sweep

LEMMA NewTyped ==
  ASSUME NEW p, p = "lock" \/ p = "count", NEW k \in 0..MaxTime, NEW b \in BOOLEAN
  PROVE  LET x == NewSweep(p, k, b)
         IN  x \in Sweep /\ x.pc = p /\ x.todo = {} /\ x.batch = {}
<1>1. NewSweep(p, k, b) = [NoSweep EXCEPT !.pc = p, !.cutoff = k, !.untilEmpty = b]
  BY DEF NewSweep
<1>2. NoSweep \in Sweep /\ NoSweep.todo = {} /\ NoSweep.batch = {}
  BY NoSweepTyped
<1> QED BY <1>1, <1>2 DEF Sweep

LEMMA Names == "loop" \in Sweepers /\ "job" \in Sweepers /\ Requests \subseteq Sweepers
               /\ "loop" \notin Requests /\ "job" \notin Requests /\ "free" # "loop"
  BY ArchiveAssumption DEF Sweepers

-----------------------------------------------------------------------------
(* What every step of a sweep has in common.                                *)

LEMMA Moves ==
  ASSUME IInv, NEW s \in Sweepers, NEW x \in Sweep, x.todo \subseteq x.batch, Becomes(s, x)
  PROVE  /\ Shape' /\ sweep'[s] = x
         /\ \A q \in Sweepers \ {s} : sweep'[q] = sweep[q]
  BY DEF IInv, Shape, Becomes

\* A sweep at work goes on working.
LEMMA GoesOn ==
  ASSUME IInv, NEW s \in Sweepers, NEW x \in Sweep, x.todo \subseteq x.batch, Becomes(s, x),
         sweep[s].pc \notin {"off", "lock"}, x.pc \notin {"off", "lock"},
         UNCHANGED <<lock, job>>
  PROVE  Phases' /\ Locking'
  BY Moves, Names DEF IInv, Phases, Locking

\* A sweep at work ends, and returns the lock.
LEMMA Stops ==
  ASSUME IInv, NEW s \in Sweepers, sweep[s].pc \notin {"off", "lock"},
         NEW phase, phase \in {"done", "error", "paused"}, Ends(s, phase)
  PROVE  /\ Shape' /\ Phases' /\ Locking' /\ sweep'[s] = NoSweep
         /\ \A q \in Sweepers \ {s} : sweep'[q] = sweep[q]
<1>1. /\ Shape' /\ sweep'[s] = NoSweep
      /\ \A q \in Sweepers \ {s} : sweep'[q] = sweep[q]
  BY NoSweepTyped, Moves DEF Ends
<1>2. lock' = (IF lock = s THEN "free" ELSE lock) /\ job' = (IF s = "job" THEN phase ELSE job)
  BY DEF Ends, Released
<1>3. Phases'
  <2>1. lock' \in {"free", "loop", "job"} /\ job' \in {"idle", "running", "paused", "done", "error"}
    BY <1>2 DEF IInv, Phases
  <2>2. (lock' # "free") => sweep'[lock'].pc \notin {"off", "lock"}
    BY <1>1, <1>2, Names DEF IInv, Phases
  <2>3. (job' = "running") <=> (sweep'["job"].pc # "off")
    BY <1>1, <1>2, Names, NoSweepTyped DEF IInv, Phases
  <2> QED BY <2>1, <2>2, <2>3 DEF Phases
<1>4. Locking'
  BY <1>1, <1>2, Names, NoSweepTyped DEF IInv, Locking
<1> QED BY <1>1, <1>3, <1>4

\* Files that are added lose nothing: calls stay archived, and sweeps stay careful.
LEMMA Adds ==
  ASSUME IInv, files \subseteq files', s3 \subseteq s3', UNCHANGED <<stored, db, robbed, upload>>
  PROVE  /\ Archived'
         /\ \A q \in Sweepers : sweep'[q] = sweep[q] => Careful(sweep[q])'
<1>1. Kept \subseteq Kept'
  BY DEF Kept
<1>2. Archived'
  BY <1>1 DEF IInv, Archived
<1>3. ASSUME NEW q \in Sweepers, sweep'[q] = sweep[q] PROVE Careful(sweep[q])'
  <2>1. Careful(sweep[q])
    BY DEF IInv, Batches
  <2> QED BY <1>1, <1>3, <2>1 DEF Careful, Safe
<1> QED BY <1>2, <1>3

\* A sweep that is off, waits or counts has nothing in hand.
LEMMA EmptyHanded ==
  ASSUME NEW s \in Sweepers, sweep'[s].batch = {},
         sweep'[s].pc \notin {"write", "sync", "remove"}
  PROVE  Careful(sweep[s])'
  BY DEF Careful

\* A step that leaves calls and files alone, and after which s has nothing in hand.
LEMMA NothingInHand ==
  ASSUME IInv, NEW s \in Sweepers, Shape', Phases', Locking',
         sweep'[s].batch = {}, sweep'[s].pc \notin {"write", "sync", "remove"},
         \A q \in Sweepers \ {s} : sweep'[q] = sweep[q],
         UNCHANGED <<now, archive, config>>, starts' \in 0..MaxStarts, faults' \in 0..MaxFaults
  PROVE  IInv'
<1>1. Archived' /\ \A q \in Sweepers \ {s} : Careful(sweep[q])'
  BY Adds DEF archive, config
<1>2. Batches'
  BY <1>1, EmptyHanded DEF Batches
<1>3. Rows' /\ Configured'
  BY DEF IInv, Rows, Configured, archive, config
<1> QED BY <1>1, <1>2, <1>3 DEF IInv

-----------------------------------------------------------------------------
LEMMA InitIInv == Init => IInv
<1> SUFFICES ASSUME Init PROVE IInv
  OBVIOUS
<1>1. Rows /\ Configured /\ Archived
  BY ArchiveAssumption DEF Init, Rows, Configured, Archived, Kept
<1>2. \A s \in Sweepers : sweep[s] = NoSweep
  BY DEF Init
<1>3. Shape
  BY NoSweepTyped DEF Init, Shape
<1>4. Phases /\ Locking
  BY <1>2, NoSweepTyped, Names DEF Init, Phases, Locking
<1>5. Batches
  BY <1>2, NoSweepTyped DEF Batches, Careful
<1> QED BY <1>1, <1>3, <1>4, <1>5 DEF IInv

LEMMA TickStep ==
  ASSUME IInv, Tick
  PROVE  IInv'
<1>1. Rows'
  BY ArchiveAssumption DEF Tick, IInv, Rows, archive, config
<1>2. UNCHANGED <<archive, config, sweep, lock, job>>
  BY DEF Tick
<1>3. /\ Shape' /\ Phases' /\ Locking' /\ Configured' /\ Archived'
  BY <1>2 DEF IInv, Shape, Phases, Locking, Configured, Archived, Kept, archive, config
<1>4. Batches'
  BY <1>2 DEF IInv, Batches, Careful, Safe, Kept, archive, config
<1> QED BY <1>1, <1>3, <1>4 DEF IInv

LEMMA StoreStep ==
  ASSUME IInv, NEW c \in Calls, Store(c)
  PROVE  IInv'
<1>1. /\ stored' = stored \cup {c} /\ db' = db \cup {c}
      /\ UNCHANGED <<now, files, s3, robbed, upload, dropLocal, sweep, lock, job, starts, faults>>
  BY DEF Store, config
<1>2. Rows' /\ Configured' /\ Archived'
  BY <1>1 DEF IInv, Rows, Configured, Archived, Kept
<1>3. Shape' /\ Phases' /\ Locking'
  BY <1>1 DEF IInv, Shape, Phases, Locking
<1>4. Batches'
  <2> SUFFICES ASSUME NEW s \in Sweepers PROVE Careful(sweep[s])'
    BY DEF Batches
  <2>1. Careful(sweep[s])
    BY DEF IInv, Batches
  <2> QED BY <1>1, <2>1 DEF Careful, Safe, Kept
<1> QED BY <1>2, <1>3, <1>4 DEF IInv

-----------------------------------------------------------------------------
(* Sweeps that start and end.                                               *)

LEMMA LoopStartStep ==
  ASSUME IInv, LoopStart
  PROVE  IInv'
<1> DEFINE x == NewSweep("count", Cutoff(Retention), TRUE)
<1>1. /\ Becomes("loop", x) /\ lock = "free" /\ lock' = "loop" /\ sweep["loop"].pc = "off"
      /\ UNCHANGED <<now, archive, config, job, starts, faults>>
  BY DEF LoopStart
<1>2. x \in Sweep /\ x.pc = "count" /\ x.todo = {} /\ x.batch = {}
  <2>1. Cutoff(Retention) \in 0..MaxTime
    BY CutoffTyped, ArchiveAssumption DEF IInv
  <2> QED BY <2>1, NewTyped
<1> HIDE DEF x
<1>3. /\ Shape' /\ sweep'["loop"] = x
      /\ \A q \in Sweepers \ {"loop"} : sweep'[q] = sweep[q]
  BY <1>1, <1>2, Moves, Names
<1>4. Phases' /\ Locking'
  BY <1>1, <1>2, <1>3, Names DEF IInv, Phases, Locking
<1> QED BY <1>1, <1>2, <1>3, <1>4, Names, NothingInHand DEF IInv, Rows

LEMMA JobStartStep ==
  ASSUME IInv, JobStart
  PROVE  IInv'
<1> DEFINE x == NewSweep("lock", 0, TRUE)
<1>1. /\ Becomes("job", x) /\ job' = "running" /\ job # "running"
      /\ UNCHANGED <<now, archive, config, lock, faults>> /\ starts' = starts + 1
      /\ starts < MaxStarts
  BY DEF JobStart
<1>2. x \in Sweep /\ x.pc = "lock" /\ x.todo = {} /\ x.batch = {}
  <2>1. 0 \in 0..MaxTime
    BY ArchiveAssumption
  <2> QED BY <2>1, NewTyped
<1> HIDE DEF x
<1>3. /\ Shape' /\ sweep'["job"] = x
      /\ \A q \in Sweepers \ {"job"} : sweep'[q] = sweep[q]
  BY <1>1, <1>2, Moves, Names
<1>4. Phases' /\ Locking'
  BY <1>1, <1>2, <1>3, Names DEF IInv, Phases, Locking
<1>5. starts' \in 0..MaxStarts /\ faults' \in 0..MaxFaults
  BY <1>1, ArchiveAssumption DEF IInv, Rows
<1> QED BY <1>1, <1>2, <1>3, <1>4, <1>5, Names, NothingInHand

LEMMA JobLockStep ==
  ASSUME IInv, JobLock
  PROVE  IInv'
<1>1. sweep["job"].pc = "lock" /\ UNCHANGED <<now, archive, config, starts, faults>>
  BY DEF JobLock
<1>2. CASE Unlocked
  <2>1. PICK days \in 1..MaxTime : Becomes("job", NewSweep("count", Cutoff(days), TRUE))
    BY <1>2 DEF JobLock
  <2> DEFINE x == NewSweep("count", Cutoff(days), TRUE)
  <2>2. lock = "free" /\ lock' = "job" /\ job' = job
    BY <1>2 DEF JobLock, Unlocked
  <2>3. x \in Sweep /\ x.pc = "count" /\ x.todo = {} /\ x.batch = {}
    <3>1. Cutoff(days) \in 0..MaxTime
      BY CutoffTyped, ArchiveAssumption DEF IInv
    <3> QED BY <3>1, NewTyped
  <2> HIDE DEF x
  <2>4. /\ Shape' /\ sweep'["job"] = x
        /\ \A q \in Sweepers \ {"job"} : sweep'[q] = sweep[q]
    BY <2>1, <2>3, Moves, Names DEF x
  <2>5. Phases' /\ Locking'
    BY <1>1, <2>2, <2>3, <2>4, Names DEF IInv, Phases, Locking
  <2> QED BY <1>1, <2>3, <2>4, <2>5, Names, NothingInHand DEF IInv, Rows
<1>3. CASE ~Unlocked
  <2>1. Becomes("job", NoSweep) /\ job' = "error" /\ lock' = lock
    BY <1>3 DEF JobLock, Refused
  <2>2. /\ Shape' /\ sweep'["job"] = NoSweep
        /\ \A q \in Sweepers \ {"job"} : sweep'[q] = sweep[q]
    BY <2>1, NoSweepTyped, Moves, Names
  <2>3. Phases' /\ Locking'
    BY <1>1, <2>1, <2>2, NoSweepTyped, Names DEF IInv, Phases, Locking
  <2> QED BY <1>1, <2>2, <2>3, NoSweepTyped, Names, NothingInHand DEF IInv, Rows
<1> QED BY <1>2, <1>3

LEMMA RequestStartStep ==
  ASSUME IInv, NEW s \in Sweepers, RequestStart(s)
  PROVE  IInv'
<1>1. /\ s \in Requests /\ sweep[s].pc = "off"
      /\ UNCHANGED <<now, archive, config, lock, job, faults>> /\ starts' \in 0..MaxStarts
  BY ArchiveAssumption DEF RequestStart, IInv, Rows
<1>2. PICK days \in 1..MaxTime, untilEmpty \in BOOLEAN :
        Becomes(s, NewSweep("count", Cutoff(days), untilEmpty))
  BY DEF RequestStart
<1> DEFINE x == NewSweep("count", Cutoff(days), untilEmpty)
<1>3. x \in Sweep /\ x.pc = "count" /\ x.todo = {} /\ x.batch = {}
  <2>1. Cutoff(days) \in 0..MaxTime
    BY CutoffTyped, ArchiveAssumption DEF IInv
  <2> QED BY <2>1, NewTyped
<1> HIDE DEF x
<1>4. /\ Shape' /\ sweep'[s] = x
      /\ \A q \in Sweepers \ {s} : sweep'[q] = sweep[q]
  BY <1>2, <1>3, Moves DEF x
<1>5. Phases' /\ Locking'
  BY <1>1, <1>3, <1>4, Names DEF IInv, Phases, Locking
<1> QED BY <1>1, <1>3, <1>4, <1>5, NothingInHand DEF IInv, Rows

\* A sweep ends with nothing else done: its last batch, or one that failed.
LEMMA EndStep ==
  ASSUME IInv, NEW s \in Sweepers, sweep[s].pc \notin {"off", "lock"},
         NEW phase, phase \in {"done", "error", "paused"}, Ends(s, phase),
         UNCHANGED <<now, archive, config>>, starts' \in 0..MaxStarts, faults' \in 0..MaxFaults
  PROVE  IInv'
<1>1. /\ Shape' /\ Phases' /\ Locking' /\ sweep'[s] = NoSweep
      /\ \A q \in Sweepers \ {s} : sweep'[q] = sweep[q]
  BY Stops
<1> QED BY <1>1, NoSweepTyped, NothingInHand

LEMMA FinishStep ==
  ASSUME IInv, NEW s \in Sweepers, Finish(s) \/ StopEarly(s) \/ StepFails(s)
  PROVE  IInv'
<1>1. /\ sweep[s].pc \notin {"off", "lock"} /\ UNCHANGED <<now, archive, config>>
      /\ starts' \in 0..MaxStarts /\ faults' \in 0..MaxFaults
  BY ArchiveAssumption DEF Finish, StopEarly, StepFails, IInv, Rows
<1>2. Ends(s, "done") \/ Ends(s, "error") \/ Ends(s, "paused")
  BY DEF Finish, StopEarly, StepFails
<1> QED BY <1>1, <1>2, EndStep

LEMMA RestartStep ==
  ASSUME IInv, Restart
  PROVE  IInv'
<1>1. /\ UNCHANGED <<now, archive, config, starts>> /\ faults' \in 0..MaxFaults
      /\ lock' = "free" /\ job' = "idle"
      /\ \A s \in Sweepers : sweep'[s] = NoSweep
  BY ArchiveAssumption DEF Restart, IInv, Rows
<1>2. Shape'
  BY NoSweepTyped DEF Restart, Shape
<1>3. Phases' /\ Locking'
  BY <1>1, NoSweepTyped, Names DEF Phases, Locking
<1>4. Batches'
  BY <1>1, NoSweepTyped, EmptyHanded DEF Batches
<1>5. Archived'
  BY <1>1, Adds DEF archive, config
<1>6. Rows' /\ Configured'
  BY <1>1 DEF IInv, Rows, Configured, archive, config
<1> QED BY <1>2, <1>3, <1>4, <1>5, <1>6 DEF IInv

LEMMA CountStep ==
  ASSUME IInv, NEW s \in Sweepers, Count(s)
  PROVE  IInv'
<1> DEFINE k == Cardinality(Old(sweep[s].cutoff))
           x == [sweep[s] EXCEPT !.pc = "list", !.remaining = k]
<1>1. sweep[s].pc = "count" /\ UNCHANGED <<now, archive, config, starts, faults>>
  BY DEF Count
<1>2. starts' \in 0..MaxStarts /\ faults' \in 0..MaxFaults
  BY <1>1 DEF IInv, Rows
<1>3. CASE k = 0
  <2>1. Ends(s, "done")
    BY <1>3 DEF Count
  <2> QED BY <1>1, <1>2, <2>1, EndStep
<1>4. CASE k # 0
  <2>1. Becomes(s, x) /\ UNCHANGED <<lock, job>>
    BY <1>4 DEF Count
  <2>2. k \in Int
    BY CountTyped DEF IInv, Old
  <2>3. sweep[s] \in Sweep /\ sweep[s].todo \subseteq sweep[s].batch /\ Careful(sweep[s])
    BY DEF IInv, Shape, Batches
  <2> HIDE DEF k
  <2>4. /\ x \in Sweep /\ x.pc = "list" /\ x.todo = sweep[s].todo /\ x.batch = sweep[s].batch
    BY <2>2, <2>3 DEF Sweep
  <2> HIDE DEF x
  <2>5. /\ Shape' /\ sweep'[s] = x
        /\ \A q \in Sweepers \ {s} : sweep'[q] = sweep[q]
    BY <2>1, <2>3, <2>4, Moves
  <2>6. Phases' /\ Locking'
    BY <1>1, <2>1, <2>3, <2>4, GoesOn
  <2>7. Archived' /\ \A q \in Sweepers \ {s} : Careful(sweep[q])'
    BY <1>1, <2>5, Adds DEF archive, config
  <2>8. Careful(sweep[s])'
    BY <1>1, <2>3, <2>4, <2>5 DEF Careful, archive
  <2>9. Rows' /\ Configured'
    BY <1>1 DEF IInv, Rows, Configured, archive, config
  <2> QED BY <2>5, <2>6, <2>7, <2>8, <2>9 DEF IInv, Batches
<1> QED BY <1>3, <1>4

-----------------------------------------------------------------------------
(* One batch.                                                               *)

\* What a sweep has in hand, and what a step of it leaves to prove.
LEMMA InHand ==
  ASSUME IInv, NEW s \in Sweepers
  PROVE  /\ sweep[s] \in Sweep /\ sweep[s].todo \subseteq sweep[s].batch /\ Careful(sweep[s])
         /\ sweep[s].batch \subseteq stored /\ stored \subseteq Calls
  BY DEF IInv, Rows, Shape, Batches, Careful

LEMMA Together ==
  ASSUME IInv, NEW s \in Sweepers, NEW x \in Sweep, x.todo \subseteq x.batch, Becomes(s, x),
         sweep[s].pc \notin {"off", "lock"}, x.pc \notin {"off", "lock"},
         UNCHANGED <<lock, job>>, Rows', Configured', Archived',
         \A q \in Sweepers : sweep'[q] = (IF q = s THEN x ELSE sweep[q]) => Careful(sweep[q])'
  PROVE  IInv'
<1>1. /\ Shape' /\ sweep'[s] = x
      /\ \A q \in Sweepers \ {s} : sweep'[q] = sweep[q]
  BY Moves
<1>2. Phases' /\ Locking'
  BY GoesOn
<1>3. Batches'
  BY <1>1 DEF Batches
<1> QED BY <1>1, <1>2, <1>3 DEF IInv

LEMMA ListStep ==
  ASSUME IInv, NEW s \in Sweepers, List(s)
  PROVE  IInv'
<1> DEFINE calls == Oldest(Old(sweep[s].cutoff), BatchLimit)
           x == [sweep[s] EXCEPT !.pc = "write", !.batch = calls, !.todo = calls]
<1>1. sweep[s].pc = "list" /\ UNCHANGED <<now, archive, config, starts, faults>>
  BY DEF List
<1>2. starts' \in 0..MaxStarts /\ faults' \in 0..MaxFaults
  BY <1>1 DEF IInv, Rows
<1>3. CASE calls = {}
  <2>1. Ends(s, "done")
    BY <1>3 DEF List
  <2> QED BY <1>1, <1>2, <2>1, EndStep
<1>4. CASE calls # {}
  <2>1. Becomes(s, x) /\ UNCHANGED <<lock, job>>
    BY <1>4 DEF List
  <2>2. calls \subseteq stored /\ calls \subseteq Calls
    BY DEF IInv, Rows, Oldest, Old
  <2>3. sweep[s] \in Sweep
    BY InHand
  <2> HIDE DEF calls
  <2>4. x \in Sweep /\ x.pc = "write" /\ x.todo = calls /\ x.batch = calls
    BY <2>2, <2>3 DEF Sweep
  <2> HIDE DEF x
  <2>5. ASSUME NEW q \in Sweepers, sweep'[q] = (IF q = s THEN x ELSE sweep[q])
        PROVE  Careful(sweep[q])'
    <3>1. CASE q = s
      BY <1>1, <1>4, <2>2, <2>4, <2>5, <3>1 DEF Careful, archive
    <3>2. CASE q # s
      BY <1>1, <2>5, <3>2, Adds DEF archive, config
    <3> QED BY <3>1, <3>2
  <2>6. Rows' /\ Configured' /\ Archived'
    BY <1>1, Adds DEF IInv, Rows, Configured, archive, config
  <2> QED BY <1>1, <2>1, <2>4, <2>5, <2>6, Together
<1> QED BY <1>3, <1>4

LEMMA WriteStep ==
  ASSUME IInv, NEW s \in Sweepers, Write(s)
  PROVE  IInv'
<1> DEFINE c == CHOOSE d \in Oldest(sweep[s].todo, 1) : TRUE
           left == sweep[s].todo \ {c}
           days == {DayOf(d) : d \in sweep[s].batch}
           pc == IF upload THEN "sync" ELSE "delete"
           x == IF left # {} THEN [sweep[s] EXCEPT !.todo = left]
                ELSE [sweep[s] EXCEPT !.pc = pc, !.todo = left, !.days = days]
<1>1. /\ sweep[s].pc = "write" /\ files' = files \cup {c} /\ Becomes(s, x)
      /\ UNCHANGED <<now, stored, db, s3, robbed, upload, dropLocal, lock, job, starts, faults>>
  BY DEF Write, config
<1>2. /\ sweep[s] \in Sweep /\ sweep[s].todo \subseteq sweep[s].batch
      /\ sweep[s].batch \subseteq stored /\ stored \subseteq Calls
      /\ sweep[s].todo # {} /\ sweep[s].batch \ sweep[s].todo \subseteq files \cup s3 \cup robbed
  BY <1>1, InHand DEF Careful
<1>3. c \in sweep[s].todo
  BY <1>2, OldestIsThere
<1>4. days \subseteq Days /\ \A d \in sweep[s].batch : DayOf(d) \in days
  BY <1>2 DEF Days
<1>5. pc = (IF upload THEN "sync" ELSE "delete") /\ pc \in {"sync", "delete"}
  BY DEF IInv, Rows
<1>6. /\ sweep[s].batch \ left \subseteq files' \cup s3 \cup robbed
      /\ left \subseteq sweep[s].batch
  BY <1>1, <1>2
<1> HIDE DEF c, left, days, pc
<1>7. /\ x \in Sweep /\ x.batch = sweep[s].batch /\ x.todo = left
      /\ left # {} => x.pc = "write"
      /\ left = {} => x.pc = pc /\ x.days = days
  <2>1. CASE left # {}
    BY <1>1, <1>2, <1>6, <2>1 DEF Sweep
  <2>2. CASE left = {}
    <3>1. x = [sweep[s] EXCEPT !.pc = pc, !.todo = left, !.days = days]
      BY <2>2
    <3>2. pc = "sync" \/ pc = "delete"
      BY <1>5
    <3> QED BY <1>2, <1>4, <1>6, <2>2, <3>1, <3>2 DEF Sweep
  <2> QED BY <2>1, <2>2
<1> HIDE DEF x
<1>8. ASSUME NEW q \in Sweepers, sweep'[q] = (IF q = s THEN x ELSE sweep[q])
      PROVE  Careful(sweep[q])'
  <2>1. CASE q = s /\ left # {}
    BY <1>1, <1>2, <1>6, <1>7, <1>8, <2>1 DEF Careful
  <2>2. CASE q = s /\ left = {} /\ upload
    BY <1>1, <1>2, <1>4, <1>5, <1>6, <1>7, <1>8, <2>2 DEF Careful
  <2>3. CASE q = s /\ left = {} /\ ~upload
    <3>1. s3 = {}
      BY <2>3 DEF IInv, Configured
    <3>2. sweep[s].batch \subseteq Safe'
      BY <1>1, <1>6, <2>3, <3>1 DEF Safe, Kept
    <3> QED BY <1>1, <1>2, <1>5, <1>7, <1>8, <2>3, <3>2 DEF Careful
  <2>4. CASE q # s
    BY <1>1, <1>8, <2>4, Adds
  <2> QED BY <2>1, <2>2, <2>3, <2>4
<1>9. Rows' /\ Configured' /\ Archived'
  <2>1. c \in stored
    BY <1>2, <1>3
  <2> QED BY <1>1, <2>1, Adds DEF IInv, Rows, Configured
<1>10. x.todo \subseteq x.batch /\ x.pc \notin {"off", "lock"}
  BY <1>5, <1>6, <1>7
<1> QED BY <1>1, <1>7, <1>8, <1>9, <1>10, Together

LEMMA SyncStep ==
  ASSUME IInv, NEW s \in Sweepers, Sync(s)
  PROVE  IInv'
<1> DEFINE d == FirstDay(sweep[s].days)
           left == sweep[s].days \ {d}
           days == {DayOf(c) : c \in sweep[s].batch}
           x == IF left # {} THEN [sweep[s] EXCEPT !.days = left]
                ELSE [sweep[s] EXCEPT !.pc = "delete", !.days = days]
<1>1. /\ sweep[s].pc = "sync" /\ s3' = s3 \cup InDay(files, d) /\ Becomes(s, x)
      /\ UNCHANGED <<now, stored, db, files, robbed, upload, dropLocal, lock, job, starts, faults>>
  BY DEF Sync, Uploaded, config
<1>2. /\ sweep[s] \in Sweep /\ sweep[s].todo \subseteq sweep[s].batch
      /\ sweep[s].batch \subseteq stored /\ stored \subseteq Calls
      /\ upload /\ sweep[s].todo = {} /\ sweep[s].batch \subseteq files \cup s3 \cup robbed
      /\ {c \in sweep[s].batch : DayOf(c) \notin sweep[s].days} \subseteq s3 \cup robbed
  BY <1>1, InHand DEF Careful
<1>3. {c \in sweep[s].batch : DayOf(c) \notin left} \subseteq s3' \cup robbed
  BY <1>1, <1>2 DEF InDay
<1>4. left \subseteq Days /\ days \subseteq Days
  BY <1>2 DEF Days, Sweep
<1> HIDE DEF left, days, d
<1>5. /\ x \in Sweep /\ x.batch = sweep[s].batch /\ x.todo = sweep[s].todo
      /\ left # {} => x.pc = "sync" /\ x.days = left
      /\ left = {} => x.pc = "delete"
  BY <1>1, <1>2, <1>4 DEF Sweep
<1> HIDE DEF x
<1>6. ASSUME NEW q \in Sweepers, sweep'[q] = (IF q = s THEN x ELSE sweep[q])
      PROVE  Careful(sweep[q])'
  <2>1. CASE q = s /\ left # {}
    BY <1>1, <1>2, <1>3, <1>5, <1>6, <2>1 DEF Careful
  <2>2. CASE q = s /\ left = {}
    <3>1. sweep[s].batch \subseteq Safe'
      BY <1>1, <1>2, <1>3, <2>2 DEF Safe, Kept
    <3> QED BY <1>1, <1>2, <1>5, <1>6, <2>2, <3>1 DEF Careful
  <2>3. CASE q # s
    BY <1>1, <1>6, <2>3, Adds
  <2> QED BY <2>1, <2>2, <2>3
<1>7. Rows' /\ Configured' /\ Archived'
  BY <1>1, <1>2, Adds DEF IInv, Rows, Configured, InDay
<1>8. x.todo \subseteq x.batch /\ x.pc \notin {"off", "lock"}
  BY <1>2, <1>5
<1> QED BY <1>1, <1>5, <1>6, <1>7, <1>8, Together

LEMMA SyncFailsStep ==
  ASSUME IInv, NEW s \in Sweepers, SyncFails(s)
  PROVE  IInv'
<1> DEFINE d == FirstDay(sweep[s].days)
<1>1. PICK some \in SUBSET InDay(files, d) : s3' = s3 \cup some
  BY DEF SyncFails
<1>2. /\ sweep[s].pc = "sync" /\ Ends(s, "error")
      /\ UNCHANGED <<now, stored, db, files, robbed, upload, dropLocal, starts>>
      /\ faults < MaxFaults /\ faults' = faults + 1
  BY DEF SyncFails, SyncAborts, config
<1>3. some \subseteq files
  BY DEF InDay
<1> HIDE DEF d
<1>4. upload
  BY <1>2, InHand DEF Careful
<1>5. /\ Shape' /\ Phases' /\ Locking' /\ sweep'[s] = NoSweep
      /\ \A q \in Sweepers \ {s} : sweep'[q] = sweep[q]
  BY <1>2, Stops
<1>6. Archived' /\ \A q \in Sweepers \ {s} : Careful(sweep[q])'
  BY <1>1, <1>2, <1>5, Adds
<1>7. Batches'
  BY <1>5, <1>6, NoSweepTyped, EmptyHanded DEF Batches
<1>8. Rows' /\ Configured'
  BY <1>1, <1>2, <1>3, <1>4, ArchiveAssumption DEF IInv, Rows, Configured
<1> QED BY <1>5, <1>6, <1>7, <1>8 DEF IInv

LEMMA DeleteStep ==
  ASSUME IInv, NEW s \in Sweepers, Delete(s)
  PROVE  IInv'
<1> DEFINE pc == IF dropLocal THEN "remove" ELSE "next"
           k == Cardinality(db \cap sweep[s].batch)
           r == sweep[s].remaining - k
           x == [sweep[s] EXCEPT !.pc = pc, !.remaining = r]
<1>1. /\ sweep[s].pc = "delete" /\ db' = db \ sweep[s].batch /\ Becomes(s, x)
      /\ UNCHANGED <<now, stored, files, s3, robbed, upload, dropLocal, lock, job, starts, faults>>
  BY DEF Delete, config
<1>2. /\ sweep[s] \in Sweep /\ sweep[s].todo \subseteq sweep[s].batch
      /\ sweep[s].batch \subseteq stored /\ sweep[s].batch \subseteq Safe
  BY <1>1, InHand DEF Careful
<1>3. k \in Int
  BY CountTyped DEF IInv
<1>4. (pc = "remove" /\ upload) \/ pc = "next"
  BY DEF IInv, Configured
<1> HIDE DEF k, pc
<1>5. r \in Int
  BY <1>2, <1>3 DEF Sweep
<1> HIDE DEF r
<1>6. x \in Sweep /\ x.pc = pc /\ x.batch = sweep[s].batch /\ x.todo = sweep[s].todo
  BY <1>2, <1>4, <1>5 DEF Sweep
<1> HIDE DEF x
<1>7. ASSUME NEW q \in Sweepers, sweep'[q] = (IF q = s THEN x ELSE sweep[q])
      PROVE  Careful(sweep[q])'
  <2>1. CASE q = s
    BY <1>1, <1>2, <1>4, <1>6, <1>7, <2>1 DEF Careful
  <2>2. CASE q # s
    <3>1. Careful(sweep[q])
      BY InHand
    <3> QED BY <1>1, <1>7, <2>2, <3>1 DEF Careful, Safe, Kept
  <2> QED BY <2>1, <2>2
<1>8. Archived'
  BY <1>1, <1>2 DEF IInv, Archived, Safe, Kept
<1>9. Rows' /\ Configured'
  BY <1>1 DEF IInv, Rows, Configured
<1> QED BY <1>1, <1>2, <1>4, <1>6, <1>7, <1>8, <1>9, Together

\* A directory goes: what another sweep had written and not uploaded is named.
LEMMA RemoveStep ==
  ASSUME IInv, NEW s \in Sweepers, Remove(s)
  PROVE  IInv'
<1> DEFINE d == FirstDay(sweep[s].days)
           left == sweep[s].days \ {d}
           pc == IF left = {} THEN "next" ELSE "remove"
           lost == Exposed(s, d) \cap files
           x == [sweep[s] EXCEPT !.days = left, !.pc = pc]
<1>1. /\ sweep[s].pc = "remove" /\ files' = {c \in files : DayOf(c) # d}
      /\ robbed' = robbed \cup lost /\ Becomes(s, x)
      /\ UNCHANGED <<now, stored, db, s3, upload, dropLocal, lock, job, starts, faults>>
  BY DEF Remove, config
<1>2. /\ sweep[s] \in Sweep /\ sweep[s].todo \subseteq sweep[s].batch
      /\ sweep[s].batch \subseteq stored /\ upload
  BY <1>1, InHand DEF Careful
<1>3. left \subseteq Days /\ (pc = "next" \/ pc = "remove")
  BY <1>2 DEF Sweep
<1>4. ASSUME NEW q \in Sweepers \ {s}, NEW c \in sweep[q].batch \ sweep[q].todo, c \in files,
             DayOf(c) = d, sweep[q].pc = "write" \/ (sweep[q].pc = "sync" /\ d \in sweep[q].days)
      PROVE  c \in lost
  BY <1>4 DEF Exposed, InDay
<1>5. lost \subseteq files
  OBVIOUS
<1> HIDE DEF left, pc, lost, d
<1>6. x \in Sweep /\ x.pc = pc /\ x.batch = sweep[s].batch /\ x.todo = sweep[s].todo
  BY <1>2, <1>3 DEF Sweep
<1> HIDE DEF x
<1>7. ASSUME NEW q \in Sweepers, sweep'[q] = (IF q = s THEN x ELSE sweep[q])
      PROVE  Careful(sweep[q])'
  <2>1. CASE q = s
    BY <1>1, <1>2, <1>3, <1>6, <1>7, <2>1 DEF Careful
  <2>2. CASE q # s
    <3>1. Careful(sweep[q]) /\ sweep'[q] = sweep[q]
      BY <1>7, <2>2, InHand
    <3>2. sweep[q].pc = "write" => sweep[q].batch \ sweep[q].todo \subseteq files' \cup s3 \cup robbed'
      BY <1>1, <1>4, <2>2, <3>1 DEF Careful
    <3>3. sweep[q].pc = "sync" =>
            /\ sweep[q].batch \subseteq files' \cup s3 \cup robbed'
            /\ {c \in sweep[q].batch : DayOf(c) \notin sweep[q].days} \subseteq s3 \cup robbed'
      BY <1>1, <1>4, <2>2, <3>1 DEF Careful
    <3>4. sweep[q].pc = "delete" => sweep[q].batch \subseteq Safe'
      BY <1>1, <1>2, <3>1 DEF Careful, Safe, Kept
    <3> QED BY <1>1, <3>1, <3>2, <3>3, <3>4 DEF Careful
  <2> QED BY <2>1, <2>2
<1>8. Archived'
  BY <1>1, <1>2 DEF IInv, Archived, Kept
<1>9. Rows' /\ Configured'
  BY <1>1, <1>5 DEF IInv, Rows, Configured
<1> QED BY <1>1, <1>2, <1>3, <1>6, <1>7, <1>8, <1>9, Together

LEMMA NextBatchStep ==
  ASSUME IInv, NEW s \in Sweepers, NextBatch(s)
  PROVE  IInv'
<1> DEFINE x == NewSweep("count", sweep[s].cutoff, TRUE)
<1>1. /\ sweep[s].pc = "next" /\ Becomes(s, x)
      /\ UNCHANGED <<now, archive, config, lock, job, starts, faults>>
  BY DEF NextBatch
<1>2. x \in Sweep /\ x.pc = "count" /\ x.todo = {} /\ x.batch = {}
  <2>1. sweep[s].cutoff \in 0..MaxTime
    BY InHand DEF Sweep
  <2> QED BY <2>1, NewTyped
<1> HIDE DEF x
<1>3. /\ Shape' /\ sweep'[s] = x
      /\ \A q \in Sweepers \ {s} : sweep'[q] = sweep[q]
  BY <1>1, <1>2, Moves
<1>4. Phases' /\ Locking'
  BY <1>1, <1>2, GoesOn
<1> QED BY <1>1, <1>2, <1>3, <1>4, NothingInHand DEF IInv, Rows

-----------------------------------------------------------------------------
LEMMA NextIInv == IInv /\ [Next]_vars => IInv'
<1> SUFFICES ASSUME IInv, [Next]_vars PROVE IInv'
  OBVIOUS
<1>1. CASE UNCHANGED vars
  <2>1. UNCHANGED <<now, stored, db, files, s3, robbed, upload, dropLocal, sweep, lock, job,
                    starts, faults>>
    BY <1>1 DEF vars, archive, config
  <2>2. Rows' /\ Shape' /\ Phases' /\ Locking' /\ Configured'
    BY <2>1 DEF IInv, Rows, Shape, Phases, Locking, Configured
  <2>3. Archived' /\ Batches'
    BY <2>1, Adds DEF Batches
  <2> QED BY <2>2, <2>3 DEF IInv
<1>2. CASE Tick \/ LoopStart \/ JobStart \/ JobLock \/ Restart
  BY <1>2, TickStep, LoopStartStep, JobStartStep, JobLockStep, RestartStep
<1>3. CASE \E c \in Calls : Store(c)
  BY <1>3, StoreStep
<1>4. CASE \E s \in Sweepers : RequestStart(s) \/ Count(s) \/ List(s) \/ Write(s)
  BY <1>4, RequestStartStep, CountStep, ListStep, WriteStep
<1>5. CASE \E s \in Sweepers : Sync(s) \/ SyncFails(s) \/ Delete(s) \/ Remove(s)
  BY <1>5, SyncStep, SyncFailsStep, DeleteStep, RemoveStep
<1>6. CASE \E s \in Sweepers : NextBatch(s) \/ Finish(s) \/ StopEarly(s) \/ StepFails(s)
  BY <1>6, NextBatchStep, FinishStep
<1> QED
  BY <1>1, <1>2, <1>3, <1>4, <1>5, <1>6 DEF Next

LEMMA IInvHolds == Spec => []IInv
  BY InitIInv, NextIInv, PTL DEF Spec

-----------------------------------------------------------------------------
(* Theorems.                                                                *)

\* Types: what the sweeps, the lock and the job say of each other is always consistent.
THEOREM TypeCorrect == Spec => []TypeOK
<1>1. IInv => TypeOK
  BY Typed DEF IInv
<1> QED BY <1>1, IInvHolds, PTL

\* call_archive.go archiveCallsBatch, call_archive_job.go archiveSweepMu: a call is deleted
\* only when its files are in the archive or the bucket, whatever overlaps, fails or stops,
\* but for a directory removed under another sweep; and the loop and the job never overlap.
THEOREM SweepsAreSafe == Spec => []SweepsSafe
<1>1. IInv => SweepsSafe
  <2> SUFFICES ASSUME IInv PROVE SweepsSafe
    OBVIOUS
  <2>1. DeletedIsArchived
    BY DEF IInv, Archived, Kept, DeletedIsArchived
  <2>2. OneLockedSweep
    BY Names DEF IInv, Locking, OneLockedSweep
  <2> QED BY <2>1, <2>2 DEF SweepsSafe
<1> QED BY <1>1, IInvHolds, PTL
=============================================================================
