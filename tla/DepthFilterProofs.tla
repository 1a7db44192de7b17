--------------------------- MODULE DepthFilterProofs ---------------------------
(***************************************************************************)
(* Theorems about the depth filter and its worker thread, for any number   *)
(* of keyframes, any length of the queue, any grid sizes and every         *)
(* interleaving of the two threads, spurious wakeups included.             *)
(***************************************************************************)
EXTENDS DepthFilter, FiniteSetTheorems, TLAPS

-----------------------------------------------------------------------------
(* The jobs updateSeeds() enqueues: one UPDATE job per keyframe. *)
LEMMA UpdateJobs ==
  ASSUME NEW refs \in SUBSET Keyframes
  PROVE  LET q == SetToSeq({Update(k) : k \in refs}) IN
         /\ q \in Seq(Jobs) /\ Len(q) <= Cardinality(refs)
         /\ \A i \in 1 .. Len(q) : q[i].type = "UPDATE"
<1>. DEFINE S == {Update(k) : k \in refs}
            q == SetToSeq(S)
<1>1. IsFiniteSet(refs)
  <2>1. IsFiniteSet(Keyframes)
    BY DepthFilterAssumption, FS_Interval DEF Keyframes
  <2>. QED  BY <2>1, FS_Subset
<1>2. IsFiniteSet(S) /\ Cardinality(S) <= Cardinality(refs) /\ Cardinality(S) \in Nat
  <2>. DEFINE f == [k \in refs |-> Update(k)]
  <2>1. f \in Surjection(refs, S)
    BY DEF Surjection
  <2>. HIDE DEF f, S
  <2>2. IsFiniteSet(S) /\ Cardinality(S) <= Cardinality(refs)
    BY <1>1, <2>1, FS_Surjection
  <2>. QED  BY <2>2, FS_CardinalityType
<1>3. q \in [1 .. Cardinality(S) -> S]
  <2>. HIDE DEF S
  <2>1. PICK g : g \in Bijection(1 .. Cardinality(S), S)
    BY <1>2, FS_CardinalityType DEF ExistsBijection
  <2>2. g \in [1 .. Cardinality(S) -> S] /\ IsInjective(g)
    BY <2>1 DEF Bijection, Injection, IsInjective
  <2>. QED  BY <2>2 DEF SetToSeq
<1>4. S \subseteq Jobs /\ \A j \in S : j.type = "UPDATE"
  BY DEF Jobs, Update
<1>. HIDE DEF S, q
<1>5. q \in Seq(Jobs) /\ Len(q) = Cardinality(S)
  BY <1>2, <1>3, <1>4
<1>6. \A i \in 1 .. Len(q) : q[i].type = "UPDATE"
  BY <1>2, <1>3, <1>4, <1>5
<1>. QED  BY <1>2, <1>5, <1>6 DEF q, S

-----------------------------------------------------------------------------
LEMMA InitEstablishesIInv == Init => IInv
<1>. SUFFICES ASSUME Init PROVE IInv
  OBVIOUS
<1>. USE DepthFilterAssumption DEF Init
<1>1. TypeOK
  <2>1. FlagsOK
    BY Zenon DEF FlagsOK
  <2>2. ThreadsOK /\ Len(jobs) <= MaxJobs
    BY DEF ThreadsOK
  <2>3. FramesOK
    BY DEF FramesOK, Keyframes
  <2>. QED  BY <2>1, <2>2, <2>3 DEF TypeOK
<1>2. SeedInitGoesFirst /\ AsleepOnlyWithoutWork
  BY DEF SeedInitGoesFirst, AsleepOnlyWithoutWork
<1>3. MutexInv /\ JobsInv
  BY DEF MutexInv, JobsInv, NoJob, Enqueued
<1>. QED  BY <1>1, <1>2, <1>3 DEF IInv

-----------------------------------------------------------------------------
(* A keyframe is queued only while it is the newest one enqueued, and not  *)
(* while it is served.                                                     *)
LEMMA JobsAreOrdered ==
  ASSUME IInv, NEW k
  PROVE  /\ Queued(k) => k = Enqueued /\ k \notin seeded
         /\ Served(k) => k \notin seeded /\ ~Queued(k)
<1>1. ASSUME Queued(k) PROVE k = Enqueued
  BY <1>1 DEF Queued, IInv, SeedInitGoesFirst, SeedInit
<1>2. ASSUME Served(k), Queued(k) PROVE FALSE
  <2>1. PICK i \in 1 .. Len(jobs) : jobs[i] = SeedInit(k)
    BY <1>2 DEF Queued
  <2>2. job = SeedInit(k) /\ job.frame < jobs[i].frame
    BY <1>2, <2>1 DEF Served, SeedInit, IInv, JobsInv
  <2>3. job.frame = k /\ jobs[i].frame = k /\ k \in Int
    BY <2>1, <2>2 DEF SeedInit, IInv, JobsInv
  <2>. QED  BY <2>2, <2>3
<1>. QED  BY <1>1, <1>2 DEF IInv, SeedInitGoesFirst

-----------------------------------------------------------------------------
(* A step that leaves jobs, seeds and the newest keyframe alone.           *)
LEMMA QuietStep ==
  ASSUME IInv, UNCHANGED <<jobs, job, seeded>>, Enqueued' = Enqueued,
         worker' \in {"run", "detect"} <=> worker \in {"run", "detect"},
         worker' = "detect" => job.type = "SEED_INIT",
         main' \in {"allocate", "enqueue"} => count' > 0
  PROVE  SeedInitGoesFirst' /\ JobsInv'
BY DEF IInv, SeedInitGoesFirst, JobsInv, Queued, Served

LEMMA TrackingThreadPreservesIInv ==
  ASSUME IInv, TrackingThread
  PROVE  IInv'
<1>. USE DepthFilterAssumption DEF mainVars, frameVars, gridVars, workerVars
<1>0. /\ FlagsOK /\ ThreadsOK /\ FramesOK /\ Len(jobs) <= MaxJobs
      /\ SeedInitGoesFirst /\ AsleepOnlyWithoutWork /\ MutexInv /\ JobsInv
  BY DEF IInv, TypeOK
<1>1. ASSUME NEW cells \in GridSizes, ChangeCellSize(cells) PROVE IInv'
  <2>. USE <1>1 DEF ChangeCellSize
  <2>1. FlagsOK'
    BY Zenon, <1>0 DEF FlagsOK
  <2>2. ThreadsOK' /\ FramesOK' /\ (Len(jobs) <= MaxJobs)'
    BY <1>0 DEF ThreadsOK, FramesOK
  <2>3. SeedInitGoesFirst' /\ JobsInv'
    BY QuietStep DEF Enqueued, IInv, JobsInv
  <2>4. AsleepOnlyWithoutWork' /\ MutexInv'
    BY <1>0 DEF AsleepOnlyWithoutWork, MutexInv
  <2>. QED  BY <2>1, <2>2, <2>3, <2>4 DEF IInv, TypeOK
<1>2. ASSUME NEW refs \in SUBSET (seeded \cap first .. count), UpdateSeeds(refs)
      PROVE  IInv'
  <2>. DEFINE q == SetToSeq({Update(k) : k \in refs})
  <2>0. /\ q \in Seq(Jobs) /\ Len(q) <= Cardinality(refs)
        /\ \A i \in 1 .. Len(q) : q[i].type = "UPDATE"
        /\ Cardinality(refs) \in Nat
    <3>1. refs \in SUBSET Keyframes
      BY <1>0, <1>2 DEF FramesOK, Keyframes
    <3>2. IsFiniteSet(refs)
      <4>1. IsFiniteSet(Keyframes)
        BY FS_Interval DEF Keyframes
      <4>. QED  BY <3>1, <4>1, FS_Subset
    <3>. QED  BY <3>1, <3>2, UpdateJobs, FS_CardinalityType
  <2>1. /\ jobs' = jobs \o q /\ Len(jobs) + Cardinality(refs) <= MaxJobs
        /\ main = "idle" /\ ~jobsLocked
        /\ UNCHANGED <<main, jobsLocked, job, corners, gridVars, mainVars, frameVars>>
        /\ worker' = IF worker = "asleep" THEN "lock" ELSE worker
    BY <1>2 DEF UpdateSeeds, NotifyAll
  <2>. HIDE DEF q
  <2>2. /\ Len(jobs') = Len(jobs) + Len(q) /\ jobs' \in Seq(Jobs)
        /\ \A i \in 1 .. Len(jobs') :
             jobs'[i] = IF i <= Len(jobs) THEN jobs[i] ELSE q[i - Len(jobs)]
    BY <1>0, <2>0, <2>1 DEF ThreadsOK
  <2>3. \A i \in 1 .. Len(jobs') :
          jobs'[i].type = "SEED_INIT" => i \in 1 .. Len(jobs) /\ jobs'[i] = jobs[i]
    BY SMTT(30), <1>0, <2>0, <2>2 DEF ThreadsOK
  <2>4. FlagsOK'
    BY Zenon, <1>0, <2>1 DEF FlagsOK
  <2>5. ThreadsOK' /\ (Len(jobs) <= MaxJobs)'
    BY <1>0, <2>0, <2>1, <2>2 DEF ThreadsOK
  <2>6. FramesOK'
    BY <1>0, <2>1 DEF FramesOK
  <2>7. \A k : Queued(k)' => Queued(k)
    BY <2>3 DEF Queued, SeedInit
  <2>8. SeedInitGoesFirst'
    BY <1>0, <2>1, <2>3, <2>7 DEF SeedInitGoesFirst, Served, Enqueued
  <2>9. JobsInv'
    BY <1>0, <2>1, <2>3 DEF JobsInv, Enqueued
  <2>10. MutexInv' /\ AsleepOnlyWithoutWork'
    BY <1>0, <2>1 DEF MutexInv, AsleepOnlyWithoutWork
  <2>. QED  BY <2>4, <2>5, <2>6, <2>8, <2>9, <2>10 DEF IInv, TypeOK
<1>3. ASSUME NEW tracked \in Tracked, FirstKeyframe(tracked) \/ MarkKeyframe(tracked)
      PROVE  IInv'
  <2>1. /\ main = "idle" /\ count < NKeyframes /\ main' = "allocate"
        /\ count' = count + 1
        /\ features' = [features EXCEPT ![count + 1] = tracked]
        /\ UNCHANGED <<workerVars, jobs, grid, first, quit, storage, seeded>>
        /\ \/ UNCHANGED <<occupant, marked>>
           \/ occupant' = count + 1 /\ marked' = marked \cup {count + 1}
    BY <1>3 DEF FirstKeyframe, MarkKeyframe, NewKeyframe
  <2>2. FlagsOK'
    BY Zenon, <1>0, <2>1 DEF FlagsOK
  <2>3. ThreadsOK' /\ (Len(jobs) <= MaxJobs)'
    BY <1>0, <2>1 DEF ThreadsOK
  <2>4. FramesOK'
    <3>1. count' \in 0 .. NKeyframes /\ first' \in 1 .. count' + 1
      BY <1>0, <2>1 DEF FramesOK
    <3>2. features' \in [Keyframes -> Nat]
      BY <1>0, <1>3, <2>1 DEF FramesOK
    <3>3. occupant' \in 0 .. NKeyframes /\ marked' \subseteq 1 .. count'
      <4>1. /\ occupant \in 0 .. NKeyframes /\ count + 1 \in 0 .. NKeyframes
            /\ marked \subseteq 1 .. count + 1 /\ count + 1 \in 1 .. count + 1
        BY <1>0, <2>1 DEF FramesOK
      <4>2. occupant' \in {occupant, count + 1}
        BY <2>1
      <4>3. marked' \subseteq marked \cup {count + 1}
        BY <2>1
      <4>. QED  BY ONLY <2>1, <4>1, <4>2, <4>3
    <3>. QED  BY <1>0, <2>1, <3>1, <3>2, <3>3 DEF FramesOK
  <2>5. SeedInitGoesFirst' /\ JobsInv'
    <3>1. Enqueued' = Enqueued /\ count' > 0
      BY <1>0, <2>1 DEF Enqueued, FramesOK
    <3>. QED  BY <2>1, <3>1, QuietStep DEF IInv, JobsInv
  <2>6. MutexInv' /\ AsleepOnlyWithoutWork'
    BY <1>0, <2>1 DEF MutexInv, AsleepOnlyWithoutWork
  <2>. QED  BY <2>2, <2>3, <2>4, <2>5, <2>6 DEF IInv, TypeOK
<1>4. CASE Allocate
  <2>. USE <1>4 DEF Allocate
  <2>1. FlagsOK'
    BY Zenon, <1>0 DEF FlagsOK
  <2>2. ThreadsOK' /\ (Len(jobs) <= MaxJobs)'
    BY <1>0 DEF ThreadsOK
  <2>3. FramesOK'
    <3>1. count \in Keyframes /\ features[count] + grid \in Nat
      BY <1>0 DEF FramesOK, JobsInv, Keyframes
    <3>. QED  BY <1>0, <3>1 DEF FramesOK
  <2>4. SeedInitGoesFirst' /\ JobsInv'
    BY QuietStep DEF Enqueued, IInv, JobsInv
  <2>5. MutexInv' /\ AsleepOnlyWithoutWork'
    BY <1>0 DEF MutexInv, AsleepOnlyWithoutWork
  <2>. QED  BY <2>1, <2>2, <2>3, <2>4, <2>5 DEF IInv, TypeOK
<1>5. CASE Enqueue
  <2>. USE <1>5 DEF Enqueue, NotifyAll
  <2>1. FlagsOK'
    BY Zenon, <1>0 DEF FlagsOK
  <2>2. /\ Len(jobs') = 1 /\ jobs'[1] = SeedInit(count) /\ count \in Keyframes
        /\ Enqueued = count - 1 /\ Enqueued' = count
    BY <1>0 DEF FramesOK, JobsInv, Keyframes, Enqueued
  <2>3. ThreadsOK' /\ (Len(jobs) <= MaxJobs)'
    BY <1>0, <2>2 DEF ThreadsOK, Jobs
  <2>4. FramesOK'
    BY <1>0 DEF FramesOK
  <2>5. \A k : Queued(k)' => k = count
    BY <2>2 DEF Queued, SeedInit
  <2>6. JobsInv'
    BY <1>0, <2>2 DEF JobsInv, SeedInit, FramesOK
  <2>7. SeedInitGoesFirst'
    <3>1. \A k \in seeded : k # count
      BY <1>0, <2>2 DEF JobsInv, FramesOK
    <3>2. \A k : Served(k)' => Served(k)
      BY DEF Served
    <3>. QED  BY <1>0, <2>2, <2>5, <3>1, <3>2 DEF SeedInitGoesFirst, SeedInit
  <2>8. MutexInv' /\ AsleepOnlyWithoutWork'
    BY <1>0 DEF MutexInv, AsleepOnlyWithoutWork
  <2>. QED  BY <2>1, <2>3, <2>4, <2>6, <2>7, <2>8 DEF IInv, TypeOK
<1>6. CASE Reset
  <2>. USE <1>6 DEF Reset
  <2>1. FlagsOK'
    BY Zenon, <1>0 DEF FlagsOK
  <2>2. ThreadsOK' /\ FramesOK' /\ (Len(jobs) <= MaxJobs)'
    BY <1>0 DEF ThreadsOK, FramesOK
  <2>3. SeedInitGoesFirst' /\ JobsInv'
    BY <1>0 DEF SeedInitGoesFirst, JobsInv, Enqueued, Queued, Served
  <2>4. MutexInv' /\ AsleepOnlyWithoutWork'
    BY <1>0 DEF MutexInv, AsleepOnlyWithoutWork
  <2>. QED  BY <2>1, <2>2, <2>3, <2>4 DEF IInv, TypeOK
<1>7. CASE RaiseQuit \/ NotifyQuit \/ Join
  <2>. USE <1>7 DEF RaiseQuit, NotifyQuit, Join, NotifyAll
  <2>1. FlagsOK'
    BY Zenon, <1>0 DEF FlagsOK
  <2>2. ThreadsOK' /\ FramesOK' /\ (Len(jobs) <= MaxJobs)'
    BY <1>0 DEF ThreadsOK, FramesOK
  <2>3. SeedInitGoesFirst' /\ JobsInv'
    BY QuietStep DEF Enqueued, IInv, JobsInv
  <2>4. MutexInv' /\ AsleepOnlyWithoutWork'
    BY <1>0 DEF MutexInv, AsleepOnlyWithoutWork
  <2>. QED  BY <2>1, <2>2, <2>3, <2>4 DEF IInv, TypeOK
<1>. QED
  BY <1>1, <1>2, <1>3, <1>4, <1>5, <1>6, <1>7 DEF TrackingThread

-----------------------------------------------------------------------------
LEMMA WorkerPreservesIInv ==
  ASSUME IInv, WorkerStep \/ SpuriousWakeup
  PROVE  IInv'
<1>. USE DepthFilterAssumption DEF mainVars, frameVars, gridVars, workerVars
<1>0. /\ FlagsOK /\ ThreadsOK /\ FramesOK /\ Len(jobs) <= MaxJobs
      /\ SeedInitGoesFirst /\ AsleepOnlyWithoutWork /\ MutexInv /\ JobsInv
  BY DEF IInv, TypeOK
<1>1. CASE Lock \/ DecideToWait \/ Block \/ Quit \/ SpuriousWakeup
  <2>. USE <1>1 DEF Lock, DecideToWait, Block, Quit, SpuriousWakeup
  <2>1. FlagsOK'
    BY Zenon, <1>0 DEF FlagsOK
  <2>2. ThreadsOK' /\ FramesOK' /\ (Len(jobs) <= MaxJobs)'
    BY <1>0 DEF ThreadsOK, FramesOK
  <2>3. SeedInitGoesFirst' /\ JobsInv'
    BY QuietStep DEF Enqueued, IInv, JobsInv
  <2>4. MutexInv' /\ AsleepOnlyWithoutWork'
    BY <1>0 DEF MutexInv, AsleepOnlyWithoutWork
  <2>. QED  BY <2>1, <2>2, <2>3, <2>4 DEF IInv, TypeOK
<1>2. CASE Pop
  <2>. USE <1>2 DEF Pop
  <2>1. FlagsOK'
    BY Zenon, <1>0 DEF FlagsOK
  <2>2. /\ job' = jobs[1] /\ jobs[1] \in Jobs /\ Len(jobs') = Len(jobs) - 1
        /\ jobs' \in Seq(Jobs)
        /\ \A i \in 1 .. Len(jobs') : i + 1 \in 1 .. Len(jobs) /\ jobs'[i] = jobs[i + 1]
    BY <1>0 DEF ThreadsOK
  <2>3. \A i \in 1 .. Len(jobs') : jobs'[i].type # "SEED_INIT"
    <3>1. \A i \in 1 .. Len(jobs') : i + 1 # 1
      OBVIOUS
    <3>. QED  BY <1>0, <2>2, <3>1 DEF SeedInitGoesFirst
  <2>4. ThreadsOK' /\ FramesOK' /\ (Len(jobs) <= MaxJobs)'
    BY <1>0, <2>2 DEF ThreadsOK, FramesOK
  <2>5. \A k : ~Queued(k)'
    BY <2>3 DEF Queued, SeedInit
  <2>6. 1 \in 1 .. Len(jobs)
    BY <1>0 DEF ThreadsOK
  <2>7. \A k : Served(k)' => Queued(k)
    BY <2>2, <2>6 DEF Queued, Served
  <2>8. SeedInitGoesFirst'
    BY <1>0, <2>3, <2>5, <2>7 DEF SeedInitGoesFirst
  <2>9. JobsInv'
    <3>1. job' # NoJob
      BY <2>2 DEF Jobs, NoJob, SeedInit, Update
    <3>2. job'.type = "SEED_INIT" => job'.frame \in 1 .. Enqueued'
      <4>1. SUFFICES ASSUME job'.type = "SEED_INIT" PROVE job'.frame \in 1 .. Enqueued'
        OBVIOUS
      <4>2. job'.frame = Enqueued /\ Enqueued' = Enqueued
        BY <1>0, <2>2, <2>6, <4>1 DEF SeedInitGoesFirst, Enqueued
      <4>3. job'.frame \in Keyframes
        BY <2>2, <4>1 DEF Jobs, SeedInit, Update
      <4>. QED  BY <4>2, <4>3 DEF Keyframes
    <3>. QED  BY <1>0, <2>3, <3>1, <3>2 DEF JobsInv, Enqueued
  <2>10. MutexInv' /\ AsleepOnlyWithoutWork'
    BY <1>0 DEF MutexInv, AsleepOnlyWithoutWork
  <2>. QED  BY <2>1, <2>4, <2>8, <2>9, <2>10 DEF IInv, TypeOK
<1>3. CASE RunUpdate
  <2>. USE <1>3 DEF RunUpdate
  <2>1. FlagsOK'
    BY Zenon, <1>0 DEF FlagsOK
  <2>2. ThreadsOK' /\ FramesOK' /\ (Len(jobs) <= MaxJobs)'
    BY <1>0 DEF ThreadsOK, FramesOK
  <2>3. SeedInitGoesFirst'
    BY <1>0 DEF SeedInitGoesFirst, Queued, Served, Enqueued
  <2>4. JobsInv'
    BY <1>0 DEF JobsInv, Enqueued, NoJob
  <2>5. MutexInv' /\ AsleepOnlyWithoutWork'
    BY <1>0 DEF MutexInv, AsleepOnlyWithoutWork
  <2>. QED  BY <2>1, <2>2, <2>3, <2>4, <2>5 DEF IInv, TypeOK
<1>4. CASE StartDetection
  <2>. USE <1>4 DEF StartDetection
  <2>1. FlagsOK'
    BY Zenon, <1>0 DEF FlagsOK
  <2>2. ThreadsOK' /\ FramesOK' /\ (Len(jobs) <= MaxJobs)'
    BY <1>0 DEF ThreadsOK, FramesOK
  <2>3. SeedInitGoesFirst' /\ JobsInv'
    BY QuietStep DEF Enqueued, IInv, JobsInv
  <2>4. MutexInv' /\ AsleepOnlyWithoutWork'
    BY <1>0 DEF MutexInv, AsleepOnlyWithoutWork
  <2>. QED  BY <2>1, <2>2, <2>3, <2>4 DEF IInv, TypeOK
<1>5. ASSUME NEW new \in 0 .. MaxSeeds, InitializeSeeds(new) PROVE IInv'
  <2>. DEFINE k == job.frame
  <2>1. /\ worker = "detect" /\ worker' = "lock" /\ job' = NoJob /\ corners' = 0
        /\ features' = [features EXCEPT ![k] = @ + new]
        /\ storage' \in {storage, [storage EXCEPT ![k] = new]}
        /\ seeded' = seeded \cup {k}
        /\ occupant' \in {occupant, 0}
        /\ UNCHANGED <<main, jobsLocked, jobs, grid, mainVars>>
    <3>1. storage' \in {storage, [storage EXCEPT ![k] = new]}
      <4>1. [storage EXCEPT ![k] = storage[k]] = storage
        BY <1>0 DEF FramesOK
      <4>. QED  BY <1>5, <4>1 DEF InitializeSeeds
    <3>. QED  BY <1>5, <3>1 DEF InitializeSeeds
  <2>2. k \in 1 .. Enqueued /\ k \in Keyframes /\ k \in 1 .. count
        /\ job = SeedInit(k)
    <3>1. job.type = "SEED_INIT" /\ job \in Jobs \cup {NoJob} /\ k \in 1 .. Enqueued
      BY <1>0, <2>1 DEF JobsInv, ThreadsOK
    <3>2. job = SeedInit(k) /\ k \in Keyframes
      BY <3>1 DEF Jobs, NoJob, SeedInit, Update
    <3>3. k \in 1 .. count
      BY <1>0, <3>1 DEF Enqueued, FramesOK
    <3>. QED  BY <3>1, <3>2, <3>3
  <2>. HIDE DEF k
  <2>3. FlagsOK'
    BY Zenon, <1>0, <2>1 DEF FlagsOK
  <2>4. ThreadsOK' /\ (Len(jobs) <= MaxJobs)'
    BY <1>0, <2>1 DEF ThreadsOK
  <2>5. FramesOK'
    <3>1. features' \in [Keyframes -> Nat] /\ storage' \in [Keyframes -> Nat]
      BY <1>0, <2>1, <2>2 DEF FramesOK
    <3>. QED  BY SMTT(30), <1>0, <2>1, <2>2, <3>1 DEF FramesOK
  <2>6. ~Queued(k)
    <3>1. Served(k)
      BY <2>1, <2>2 DEF Served
    <3>. QED  BY <3>1, JobsAreOrdered
  <2>7. SeedInitGoesFirst'
    <3>1. \A j : (Queued(j)' <=> Queued(j)) /\ ~Served(j)'
      BY <2>1 DEF Queued, Served
    <3>2. Enqueued' = Enqueued
      BY <2>1 DEF Enqueued
    <3>. QED  BY <1>0, <2>1, <2>6, <3>1, <3>2 DEF SeedInitGoesFirst
  <2>8. JobsInv'
    BY <1>0, <2>1, <2>2 DEF JobsInv, Enqueued, NoJob
  <2>9. MutexInv' /\ AsleepOnlyWithoutWork'
    BY <1>0, <2>1 DEF MutexInv, AsleepOnlyWithoutWork
  <2>. QED  BY <2>3, <2>4, <2>5, <2>7, <2>8, <2>9 DEF IInv, TypeOK
<1>. QED  BY <1>1, <1>2, <1>3, <1>4, <1>5 DEF WorkerStep

-----------------------------------------------------------------------------
(* IInv holds in every state: the base of the theorems below.              *)
THEOREM InductiveInvariant == Spec => []IInv
<1>1. Init => IInv
  BY InitEstablishesIInv
<1>2. IInv /\ [Next]_vars => IInv'
  <2>1. IInv /\ Next => IInv'
    BY TrackingThreadPreservesIInv, WorkerPreservesIInv DEF Next
  <2>2. IInv /\ UNCHANGED vars => IInv'
    <3>. SUFFICES ASSUME IInv, UNCHANGED vars PROVE IInv'
      OBVIOUS
    <3>. USE DEF vars, workerVars, gridVars, mainVars, frameVars
    <3>1. FlagsOK'
      BY Zenon DEF IInv, TypeOK, FlagsOK
    <3>2. ThreadsOK' /\ FramesOK' /\ (Len(jobs) <= MaxJobs)'
      BY DEF IInv, TypeOK, ThreadsOK, FramesOK
    <3>3. SeedInitGoesFirst' /\ JobsInv'
      BY QuietStep DEF IInv, JobsInv, Enqueued
    <3>4. MutexInv' /\ AsleepOnlyWithoutWork'
      BY DEF IInv, MutexInv, AsleepOnlyWithoutWork
    <3>. QED  BY <3>1, <3>2, <3>3, <3>4 DEF IInv, TypeOK
  <2>. QED  BY <2>1, <2>2
<1>. QED  BY <1>1, <1>2, PTL DEF Spec

(* Every variable of the two threads keeps its type; no job names a        *)
(* keyframe there is not.                                                  *)
THEOREM TypeCorrect == Spec => []TypeOK
<1>1. IInv => TypeOK
  BY DEF IInv
<1>. QED  BY <1>1, InductiveInvariant, PTL

(* The newest keyframe is always served first and none is seeded twice,    *)
(* however the two threads interleave.                                     *)
THEOREM SeedInitAlwaysGoesFirst == Spec => []SeedInitGoesFirst
<1>1. IInv => SeedInitGoesFirst
  BY DEF IInv
<1>. QED  BY <1>1, InductiveInvariant, PTL

(* No wakeup is lost: the worker never sleeps on a queue with work in it.  *)
THEOREM NeverAsleepWithWork == Spec => []AsleepOnlyWithoutWork
<1>1. IInv => AsleepOnlyWithoutWork
  BY DEF IInv
<1>. QED  BY <1>1, InductiveInvariant, PTL

-----------------------------------------------------------------------------
(* A step that leaves features, storage and seeds alone, takes up no       *)
(* keyframe and does not refine the grid leaves room for the seeds.        *)
LEMMA NoNewFeatures ==
  ASSUME IInv, RoomInv, StorageHoldsNewSeeds, OnlyCoarsens, grid' \in Nat,
         UNCHANGED <<features, storage, seeded>>, Allocated' = Allocated,
         worker' = "detect" => UNCHANGED <<worker, job, corners>>
  PROVE  RoomInv' /\ StorageHoldsNewSeeds'
<1>1. /\ grid \in Nat /\ grid' <= grid
      /\ features \in [Keyframes -> Nat] /\ storage \in [Keyframes -> Nat]
      /\ Allocated \in Int /\ 1 .. Allocated \subseteq Keyframes
  BY DepthFilterAssumption DEF IInv, TypeOK, FramesOK, OnlyCoarsens, Allocated, Keyframes
<1>2. \A k \in 1 .. Allocated : k \notin seeded => features[k] + grid' <= storage[k]
  BY <1>1 DEF RoomInv
<1>. QED  BY <1>2 DEF RoomInv, StorageHoldsNewSeeds

LEMMA RoomIsPreserved ==
  ASSUME IInv, RoomInv, StorageHoldsNewSeeds, [Next]_vars, [OnlyCoarsens]_vars
  PROVE  RoomInv' /\ StorageHoldsNewSeeds'
<1>. USE DepthFilterAssumption DEF mainVars, frameVars, gridVars, workerVars
<1>0. /\ FlagsOK /\ ThreadsOK /\ FramesOK /\ SeedInitGoesFirst /\ JobsInv
  BY DEF IInv, TypeOK
<1>1. /\ grid \in Nat /\ corners \in Nat /\ count \in Nat /\ count <= NKeyframes
      /\ features \in [Keyframes -> Nat] /\ storage \in [Keyframes -> Nat]
      /\ seeded \subseteq Keyframes
  BY <1>0 DEF FramesOK, Keyframes
<1>2. OnlyCoarsens
  BY <1>1 DEF OnlyCoarsens, vars
<1>3. CASE \/ \E cells \in GridSizes : ChangeCellSize(cells)
           \/ \E refs \in SUBSET (seeded \cap first .. count) : UpdateSeeds(refs)
           \/ Enqueue \/ Reset \/ RaiseQuit \/ NotifyQuit \/ Join
           \/ Lock \/ DecideToWait \/ Block \/ Quit \/ Pop \/ RunUpdate
           \/ SpuriousWakeup \/ UNCHANGED vars
  <2>. USE <1>3 DEF ChangeCellSize, UpdateSeeds, Enqueue, Reset, RaiseQuit, NotifyQuit,
                    Join, Lock, DecideToWait, Block, Quit, Pop, RunUpdate,
                    SpuriousWakeup, NotifyAll, vars
  <2>1. UNCHANGED <<features, storage, seeded>> /\ grid' \in Nat
    BY <1>1
  <2>2. Allocated' = Allocated
    BY DEF Allocated
  <2>3. worker' = "detect" => UNCHANGED <<worker, job, corners>>
    OBVIOUS
  <2>. QED  BY <1>2, <2>1, <2>2, <2>3, NoNewFeatures
<1>4. ASSUME NEW tracked \in Tracked, FirstKeyframe(tracked) \/ MarkKeyframe(tracked)
      PROVE  RoomInv' /\ StorageHoldsNewSeeds'
  <2>1. /\ main = "idle" /\ main' = "allocate" /\ count' = count + 1
        /\ features' = [features EXCEPT ![count + 1] = tracked]
        /\ UNCHANGED <<workerVars, grid, storage, seeded>>
    BY <1>4 DEF FirstKeyframe, MarkKeyframe, NewKeyframe
  <2>2. Allocated' = count /\ Allocated = count /\ Enqueued = count
    BY <1>1, <2>1 DEF Allocated, Enqueued
  <2>3. \A k \in 1 .. count : features'[k] = features[k]
    BY <1>1, <2>1 DEF Keyframes
  <2>4. seeded \subseteq 1 .. count /\ (worker = "detect" => job.frame \in 1 .. count)
    BY <1>0, <2>2 DEF JobsInv
  <2>. QED  BY <2>1, <2>2, <2>3, <2>4 DEF RoomInv, StorageHoldsNewSeeds
<1>5. CASE Allocate
  <2>1. /\ main = "allocate" /\ main' = "enqueue" /\ count \in Keyframes
        /\ storage' = [storage EXCEPT ![count] = features[count] + grid]
        /\ UNCHANGED <<workerVars, gridVars, count, features, seeded>>
    BY <1>0, <1>1, <1>5 DEF Allocate, JobsInv, Keyframes
  <2>2. Allocated' = count /\ Allocated = count - 1 /\ Enqueued = count - 1
    BY <2>1 DEF Allocated, Enqueued
  <2>3. /\ storage'[count] = features[count] + grid
        /\ \A k \in 1 .. count - 1 : storage'[k] = storage[k]
    BY <1>1, <2>1 DEF Keyframes
  <2>4. /\ seeded \subseteq 1 .. count - 1
        /\ worker = "detect" => job.frame \in 1 .. count - 1
    BY <1>0, <2>2 DEF JobsInv
  <2>5. RoomInv'
    BY <1>1, <2>1, <2>2, <2>3, <2>4 DEF RoomInv
  <2>. QED  BY <2>1, <2>3, <2>4, <2>5 DEF StorageHoldsNewSeeds
<1>6. ASSUME worker \in {"run", "detect"}, job.type = "SEED_INIT"
      PROVE  job.frame \in 1 .. Allocated /\ job.frame \in Keyframes /\ job.frame \notin seeded
  <2>1. job = SeedInit(job.frame)
    BY <1>0, <1>6 DEF ThreadsOK, Jobs, NoJob, SeedInit, Update
  <2>2. Served(job.frame)
    BY <1>6, <2>1 DEF Served
  <2>3. job.frame \in 1 .. Enqueued
    BY <1>0, <1>6 DEF JobsInv
  <2>4. 1 .. Enqueued \subseteq 1 .. Allocated /\ 1 .. Allocated \subseteq Keyframes
    BY <1>1 DEF Enqueued, Allocated, Keyframes
  <2>. QED  BY <1>0, <2>2, <2>3, <2>4 DEF SeedInitGoesFirst
<1>7. CASE StartDetection
  <2>1. /\ worker = "run" /\ job.type = "SEED_INIT" /\ corners' = grid
        /\ UNCHANGED <<main, job, count, grid, features, storage, seeded>>
    BY <1>7 DEF StartDetection
  <2>2. features[job.frame] + grid <= storage[job.frame]
    BY <1>6, <2>1 DEF RoomInv
  <2>. QED  BY <2>1, <2>2 DEF RoomInv, StorageHoldsNewSeeds, Allocated
<1>8. ASSUME NEW new \in 0 .. MaxSeeds, InitializeSeeds(new)
      PROVE  RoomInv' /\ StorageHoldsNewSeeds'
  <2>. DEFINE k == job.frame
              full == features[k] >= MaxSeeds
  <2>1. /\ worker = "detect" /\ worker' = "lock"
        /\ IF full THEN new = 0 ELSE new <= grid \/ new <= corners
        /\ features' = [features EXCEPT ![k] = @ + new]
        /\ storage' = [storage EXCEPT ![k] = IF features[k] = 0 /\ ~full THEN new ELSE @]
        /\ seeded' = seeded \cup {k}
        /\ UNCHANGED <<main, count, grid>>
    BY <1>8 DEF InitializeSeeds
  <2>2. k \in 1 .. Allocated /\ k \in Keyframes /\ k \notin seeded
    BY <1>0, <1>6, <2>1 DEF JobsInv
  <2>3. features[k] + grid <= storage[k] /\ features[k] + corners <= storage[k]
    BY <2>1, <2>2 DEF RoomInv
  <2>4. /\ features'[k] = features[k] + new
        /\ storage'[k] = IF features[k] = 0 /\ ~full THEN new ELSE storage[k]
    BY <1>1, <2>1, <2>2
  <2>5. features'[k] <= storage'[k]
    BY <1>1, <2>1, <2>2, <2>3, <2>4
  <2>6. \A j \in Keyframes : j # k => features'[j] = features[j] /\ storage'[j] = storage[j]
    BY <1>1, <2>1
  <2>7. Allocated' = Allocated /\ 1 .. Allocated \subseteq Keyframes
    BY <1>1, <2>1 DEF Allocated, Keyframes
  <2>. HIDE DEF k
  <2>8. RoomInv'
    BY <2>1, <2>6, <2>7 DEF RoomInv
  <2>9. StorageHoldsNewSeeds'
    BY <1>1, <2>1, <2>5, <2>6 DEF StorageHoldsNewSeeds
  <2>. QED  BY <2>8, <2>9
<1>. QED
  BY <1>3, <1>4, <1>5, <1>7, <1>8 DEF Next, TrackingThread, WorkerStep

(* The storage allocated when a keyframe is enqueued holds the seeds found *)
(* when its job runs, whatever the two threads do in between, as long as   *)
(* the agent does not refine the grid: that is the one cause of the        *)
(* violation in initializeSeeds().                                         *)
THEOREM StorageHoldsUnlessRefined ==
  Spec /\ [][OnlyCoarsens]_vars => []StorageHoldsNewSeeds
<1>1. Init => RoomInv /\ StorageHoldsNewSeeds
  BY DEF Init, RoomInv, StorageHoldsNewSeeds, Allocated
<1>2. IInv /\ RoomInv /\ StorageHoldsNewSeeds /\ [Next]_vars /\ [OnlyCoarsens]_vars
        => RoomInv' /\ StorageHoldsNewSeeds'
  BY RoomIsPreserved
<1>. QED  BY <1>1, <1>2, InductiveInvariant, PTL DEF Spec

-----------------------------------------------------------------------------
(* A step after which no SEED_INIT job is pending that was not before, and *)
(* which marks nothing, leaves each pending keyframe its marks.            *)
LEMMA NothingNewPending ==
  ASSUME OccupantInv, UNCHANGED <<marked, occupant>>, \A k : Pending(k)' => Pending(k)
  PROVE  OccupantInv'
BY DEF OccupantInv

LEMMA OccupantIsPreserved ==
  ASSUME IInv, OccupantInv, [Next]_vars, [TakesTurns]_vars
  PROVE  OccupantInv'
<1>. USE DepthFilterAssumption DEF mainVars, frameVars, gridVars, workerVars
<1>0. /\ ThreadsOK /\ FramesOK /\ SeedInitGoesFirst /\ JobsInv
      /\ marked \cup seeded \subseteq 1 .. count /\ count \in 0 .. NKeyframes
      /\ 1 .. count \subseteq Keyframes
  BY DEF IInv, TypeOK, FramesOK, Keyframes
<1>1. CASE UNCHANGED vars
  BY <1>1, NothingNewPending DEF vars, Pending, Queued, Served
<1>2. ASSUME NEW cells \in GridSizes, ChangeCellSize(cells), ~UNCHANGED vars
      PROVE  OccupantInv'
  <2>1. main = "idle" /\ UNCHANGED <<main, worker, job, jobs, count, marked>>
    BY <1>2 DEF ChangeCellSize
  <2>2. \A k \in Keyframes : ~Queued(k) /\ ~Served(k)
    BY <1>2 DEF TakesTurns, Regrids
  <2>3. \A k \in Keyframes : ~Pending(k)'
    BY <2>1, <2>2 DEF Pending, Queued, Served
  <2>. QED  BY <1>0, <2>1, <2>3 DEF OccupantInv
<1>3. ASSUME NEW tracked \in Tracked, MarkKeyframe(tracked) PROVE OccupantInv'
  <2>1. /\ main = "idle" /\ main' = "allocate" /\ count' = count + 1
        /\ occupant' = count + 1 /\ marked' = marked \cup {count + 1}
        /\ UNCHANGED <<worker, job, jobs>>
    BY <1>3 DEF MarkKeyframe, NewKeyframe
  <2>2. \A k \in Keyframes : ~Queued(k) /\ ~Served(k)
    BY <1>0, <1>3, <2>1 DEF TakesTurns, Marks, vars
  <2>3. \A k \in Keyframes : Pending(k)' => k = count + 1
    BY <2>1, <2>2 DEF Pending, Queued, Served
  <2>4. \A k \in 1 .. count : k \in Keyframes /\ k # count + 1
    BY <1>0
  <2>. QED  BY <1>0, <2>1, <2>3, <2>4 DEF OccupantInv
<1>4. ASSUME NEW tracked \in Tracked, FirstKeyframe(tracked) PROVE OccupantInv'
  <2>1. /\ main = "idle" /\ main' = "allocate" /\ count' = count + 1
        /\ UNCHANGED <<worker, job, jobs, marked, occupant>>
    BY <1>4 DEF FirstKeyframe, NewKeyframe
  <2>2. \A k \in 1 .. count : Pending(k)' => Pending(k)
    BY <1>0, <2>1 DEF Pending, Queued, Served
  <2>. QED  BY <1>0, <2>1, <2>2 DEF OccupantInv
<1>5. ASSUME NEW refs \in SUBSET (seeded \cap first .. count), UpdateSeeds(refs)
      PROVE  OccupantInv'
  <2>. DEFINE q == SetToSeq({Update(k) : k \in refs})
  <2>1. q \in Seq(Jobs) /\ \A i \in 1 .. Len(q) : q[i].type = "UPDATE"
    <3>1. refs \in SUBSET Keyframes
      BY <1>0
    <3>. QED  BY <3>1, UpdateJobs
  <2>2. /\ jobs' = jobs \o q /\ main = "idle"
        /\ UNCHANGED <<main, job, count, marked, occupant>>
        /\ worker' = IF worker = "asleep" THEN "lock" ELSE worker
    BY <1>5 DEF UpdateSeeds, NotifyAll
  <2>. HIDE DEF q
  <2>3. \A i \in 1 .. Len(jobs') :
          jobs'[i].type = "SEED_INIT" => i \in 1 .. Len(jobs) /\ jobs'[i] = jobs[i]
    <3>1. /\ Len(jobs') = Len(jobs) + Len(q)
          /\ \A i \in 1 .. Len(jobs') :
               jobs'[i] = IF i <= Len(jobs) THEN jobs[i] ELSE q[i - Len(jobs)]
      BY <1>0, <2>1, <2>2 DEF ThreadsOK
    <3>. QED  BY SMTT(30), <1>0, <2>1, <3>1 DEF ThreadsOK
  <2>4. \A k : Queued(k)' => Queued(k)
    BY <2>3 DEF Queued, SeedInit
  <2>5. \A k : Served(k)' => Served(k)
    BY <2>2 DEF Served
  <2>. QED  BY <2>2, <2>4, <2>5, NothingNewPending DEF Pending
<1>6. CASE Enqueue
  <2>1. /\ main = "enqueue" /\ main' = "idle" /\ jobs' = <<SeedInit(count)>>
        /\ UNCHANGED <<job, count, marked, occupant>>
        /\ worker' = IF worker = "asleep" THEN "lock" ELSE worker
    BY <1>6 DEF Enqueue, NotifyAll
  <2>2. \A k : Queued(k)' => k = count
    BY <2>1 DEF Queued, SeedInit
  <2>3. \A k : Pending(k)' => Pending(k)
    BY <2>1, <2>2 DEF Pending, Served
  <2>. QED  BY <2>1, <2>3, NothingNewPending
<1>7. CASE \/ Allocate \/ Reset \/ RaiseQuit \/ NotifyQuit \/ Join
           \/ Lock \/ DecideToWait \/ Block \/ Quit \/ RunUpdate \/ StartDetection
           \/ SpuriousWakeup
  <2>. USE <1>7 DEF Allocate, Reset, RaiseQuit, NotifyQuit, Join, Lock, DecideToWait,
                    Block, Quit, RunUpdate, StartDetection, SpuriousWakeup, NotifyAll
  <2>1. UNCHANGED <<marked, occupant, count>> /\ jobs' \in {jobs, <<>>}
    OBVIOUS
  <2>2. \A k : Queued(k)' => Queued(k)
    BY <2>1 DEF Queued
  <2>3. \A k : Served(k)' => Served(k)
    BY DEF Served, SeedInit, NoJob
  <2>4. main' \in {"allocate", "enqueue"} => main \in {"allocate", "enqueue"}
    OBVIOUS
  <2>. QED  BY <2>1, <2>2, <2>3, <2>4, NothingNewPending DEF Pending
<1>8. CASE Pop
  <2>1. /\ job' = Head(jobs) /\ jobs' = Tail(jobs) /\ jobs # <<>>
        /\ UNCHANGED <<main, count, marked, occupant>>
    BY <1>8 DEF Pop
  <2>2. /\ job' = jobs[1] /\ 1 \in 1 .. Len(jobs)
        /\ \A i \in 1 .. Len(jobs') : i + 1 \in 1 .. Len(jobs) /\ jobs'[i] = jobs[i + 1]
    BY <1>0, <2>1 DEF ThreadsOK
  <2>3. \A k : Queued(k)' \/ Served(k)' => Queued(k)
    BY <2>2 DEF Queued, Served
  <2>. QED  BY <2>1, <2>3, NothingNewPending DEF Pending
<1>9. ASSUME NEW new \in 0 .. MaxSeeds, InitializeSeeds(new) PROVE OccupantInv'
  <2>. DEFINE f == job.frame
  <2>1. /\ worker = "detect" /\ worker' = "lock" /\ occupant' \in {occupant, 0}
        /\ UNCHANGED <<main, jobs, count, marked>>
    BY <1>9 DEF InitializeSeeds
  <2>2. job = SeedInit(f) /\ Served(f) /\ f \in 1 .. Enqueued
    <3>1. job.type = "SEED_INIT" /\ f \in 1 .. Enqueued
      BY <1>0, <2>1 DEF JobsInv
    <3>2. job = SeedInit(f)
      BY <1>0, <3>1 DEF ThreadsOK, Jobs, NoJob, SeedInit, Update
    <3>. QED  BY <2>1, <3>1, <3>2 DEF Served
  <2>. HIDE DEF f
  <2>3. \A k : Pending(k)' =>
          Pending(k) /\ (Queued(k) \/ (main \in {"allocate", "enqueue"} /\ k = count))
    BY <2>1 DEF Pending, Queued, Served
  <2>4. ASSUME NEW k \in 1 .. count, Pending(k)' PROVE f < k
    <3>1. CASE Queued(k)
      <4>1. PICK i \in 1 .. Len(jobs) : jobs[i] = SeedInit(k)
        BY <3>1 DEF Queued
      <4>. QED  BY <1>0, <2>2, <4>1 DEF JobsInv, SeedInit
    <3>2. CASE main \in {"allocate", "enqueue"} /\ k = count
      BY <1>0, <2>2, <3>2 DEF Enqueued
    <3>. QED  BY <2>3, <2>4, <3>1, <3>2
  <2>5. \A k \in marked : ~Pending(k)'
    <3>1. SUFFICES ASSUME NEW k \in marked, Pending(k)' PROVE FALSE
      OBVIOUS
    <3>2. f < k /\ f \in 1 .. k - 1
      BY <1>0, <2>2, <2>4, <3>1
    <3>3. ~Pending(f)
      BY <2>3, <3>1, <3>2 DEF OccupantInv
    <3>. QED  BY <2>2, <3>3 DEF Pending
  <2>. QED  BY <2>1, <2>5 DEF OccupantInv
<1>. QED
  BY <1>1, <1>2, <1>3, <1>4, <1>5, <1>6, <1>7, <1>8, <1>9 DEF Next, TrackingThread, WorkerStep

(* Without the thread, or with a tracking thread that marks and changes    *)
(* the grid only when no keyframe waits for its seeds, each keyframe is    *)
(* detected around its own features.                                       *)
THEOREM DetectsAroundOwnWhenTakingTurns ==
  Spec /\ [][TakesTurns]_vars => []DetectsAroundOwnFeatures
<1>1. Init => OccupantInv
  BY DEF Init, OccupantInv
<1>2. IInv /\ OccupantInv /\ [Next]_vars /\ [TakesTurns]_vars => OccupantInv'
  BY OccupantIsPreserved
<1>3. IInv /\ OccupantInv => DetectsAroundOwnFeatures
  <2>. SUFFICES ASSUME IInv, OccupantInv, worker = "detect", job.frame \in marked
                PROVE  occupant = job.frame
    BY DEF DetectsAroundOwnFeatures
  <2>1. job = SeedInit(job.frame)
    BY DEF IInv, TypeOK, ThreadsOK, JobsInv, Jobs, NoJob, SeedInit, Update
  <2>. QED  BY <2>1 DEF OccupantInv, Pending, Served
<1>. QED  BY <1>1, <1>2, <1>3, InductiveInvariant, PTL DEF Spec
=============================================================================
