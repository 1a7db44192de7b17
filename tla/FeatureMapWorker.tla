-------------------------- MODULE FeatureMapWorker --------------------------
(***************************************************************************)
(* FeatureMap with the depth filter in a thread of its own, the default of *)
(* the factory: the seed updates a frame begins with and the seeds of a    *)
(* new keyframe become jobs, which the worker serves while the tracking    *)
(* thread matches the same seeds and upgrades them to points. No lock is   *)
(* held over the features of a keyframe, by neither of them.               *)
(*                                                                         *)
(* The worker reads the type of the seed first and writes it last, with    *)
(* the search for a match in between. A job on a keyframe that has left    *)
(* the map writes to features nobody reads; it is dropped here. The queue  *)
(* itself, its mutex and wakeups are in DepthFilter.                       *)
(***************************************************************************)
EXTENDS FeatureMap

CONSTANT MaxJobs   (* bound: length of the queue *)

VARIABLES
  jobs,   (* jobs_: a slot for UPDATE, a keyframe and index 0 for SEED_INIT *)
  job     (* the slot the worker updates, NoRef when it serves none         *)

workerVars == <<vars, jobs, job>>

SeedInit(k) == <<k, 0>>

WorkerInit == Init /\ jobs = <<>> /\ job = NoRef

(* A running update is of interest only while its keyframe is in the map. *)
JobSurvives ==
  job' = IF job # NoRef /\ job[1] \notin keyframes' THEN NoRef ELSE job

-----------------------------------------------------------------------------
(* The tracking thread. *)

(* reset() of the depth filter empties the queue. *)
ResetMapAndJobs == ResetMap /\ jobs' = <<>> /\ JobSurvives

(* addKeyframe(): "clear all other jobs, this one has priority" *)
InitializeMapThenSeeds(points, tracked) ==
  /\ InitializeMap(points, tracked, 0)
  /\ \E new \in keyframes' : jobs' = <<SeedInit(new)>>
  /\ JobSurvives

(* updateSeeds(): one job per seed. *)
BeginFrameWithJobs(overlap) ==
  /\ Len(jobs) + Cardinality(SeedsOf(overlap)) <= MaxJobs
  /\ jobs' = jobs \o SetToSeq(SeedsOf(overlap))
  /\ BeginFrame({}, {})
  /\ UNCHANGED job

SelectFrameThenSeeds(outliers) ==
  LET fs == WithoutOutliers(outliers) IN
  /\ \E gone \in SUBSET keyframes, f \in Frames \ keyframes,
        name \in Injection(Upgraded(fs), Unused) :
       /\ NewKeyframe(fs, f, name, <<>>, gone)
       /\ jobs' = <<SeedInit(f)>>
  /\ JobSurvives

-----------------------------------------------------------------------------
(* The worker. *)

(* initializeSeeds(), one step: its race for storage is in DepthFilter.    *)
ServeSeedInit(n) ==
  /\ job = NoRef /\ jobs # <<>> /\ Head(jobs)[2] = 0
  /\ jobs' = Tail(jobs)
  /\ LET k == Head(jobs)[1]
         used == {i \in Slots : features[k][i].type # "None"}
         new == {i \in Slots : Cardinality(used) < i /\ i <= Cardinality(used) + n} IN
     features' = [features EXCEPT ![k] = [i \in Slots |-> IF i \in new THEN NewSeed ELSE @[i]]]
  /\ UNCHANGED <<pc, keyframes, obs, nFailed, cur, job>>

(* updateSeed() of an outlier returns at once. *)
PopUpdate ==
  /\ job = NoRef /\ jobs # <<>> /\ Head(jobs)[2] \in Slots
  /\ jobs' = Tail(jobs)
  /\ job' = IF CanDiverge(Head(jobs)) THEN Head(jobs) ELSE NoRef
  /\ UNCHANGED vars

FinishUpdate ==
  /\ job # NoRef
  /\ job' = NoRef
  /\ \/ UNCHANGED features
     \/ features' = Retyped({}, {job})
     \/ CanConverge(job) /\ features' = Retyped({job}, {})
  /\ UNCHANGED <<pc, keyframes, obs, nFailed, cur, jobs>>

-----------------------------------------------------------------------------
TrackingThread ==
  \/ ResetMapAndJobs
  \/ \E points \in SUBSET Points, tracked \in 0 .. NSlots :
       InitializeMapThenSeeds(points, tracked)
  \/ \E overlap \in Overlaps : BeginFrameWithJobs(overlap)
  \/ /\ \E overlap \in Overlaps :
          \E matched \in SUBSET Candidates(overlap),
             changed \in SUBSET SeedCandidates(overlap, "Seed") :
            \E failed \in SUBSET (PointCandidates(overlap) \ matched) :
              ProjectMapInFrame(overlap, matched, failed, changed)
     /\ UNCHANGED <<jobs, job>>
  \/ LeaveFrame /\ UNCHANGED <<jobs, job>>
  \/ \E outliers \in SUBSET Removable : SelectFrameThenSeeds(outliers)

WorkerNext ==
  \/ TrackingThread
  \/ \E n \in 0 .. NSlots : ServeSeedInit(n)
  \/ PopUpdate
  \/ FinishUpdate

WorkerSpec == WorkerInit /\ [][WorkerNext]_workerVars
=============================================================================
