----------------------------- MODULE DepthFilter -----------------------------
(***************************************************************************)
(* The depth filter with its parallel thread (use_threaded_depthfilter,    *)
(* the factory's default): the tracking thread enqueues one SEED_INIT job  *)
(* per keyframe and UPDATE jobs for the seeds of older keyframes, the      *)
(* worker waits on a condition variable and serves them. Shared besides    *)
(* the queue: the occupancy grid of the feature detector, whose cells a    *)
(* keyframe marks before its SEED_INIT job runs, the features of a         *)
(* keyframe, and the flag that ends the thread.                            *)
(*                                                                         *)
(* A critical section is one step when nothing it depends on is written    *)
(* outside its mutex. The worker's section around the queue is several:    *)
(* quit_thread_ is written without jobs_mut_.                              *)
(*                                                                         *)
(* Abstracted: a keyframe is a number, the grid is its number of cells and *)
(* the keyframe whose features it marks, an UPDATE job stands for those of *)
(* all seeds of one keyframe and changes only depths, which are left out.  *)
(***************************************************************************)
EXTENDS Naturals, SequencesExt

CONSTANTS
  NKeyframes,  (* bound: keyframes selected in a behaviour                 *)
  MaxJobs,     (* bound: length of the queue                               *)
  GridSizes,   (* numbers of cells the detector's grid can have            *)
  Tracked,     (* numbers of features a new keyframe was tracked with      *)
  MaxSeeds     (* options_.max_n_seeds_per_frame                           *)

ASSUME DepthFilterAssumption ==
  /\ NKeyframes \in Nat /\ MaxJobs \in Nat \ {0} /\ MaxSeeds \in Nat
  /\ GridSizes \subseteq Nat /\ GridSizes # {}
  /\ Tracked \subseteq Nat /\ Tracked # {}

VARIABLES
  main,        (* the tracking thread: "idle", "allocate" and "enqueue" in
                  addKeyframe(), "notify", "join", "joined" in stopThread() *)
  worker,      (* updateSeedsLoop(): "lock", "check", "block", "asleep",
                  "run", "detect", "returned"                              *)
  jobsLocked,  (* the worker holds jobs_mut_                               *)
  jobs,        (* jobs_                                                    *)
  job,         (* the worker's local job                                   *)
  quit,        (* quit_thread_                                             *)
  grid,        (* cells of feature_detector_->grid_                        *)
  corners,     (* cells the running detection has allocated corners for    *)
  occupant,    (* keyframe whose features the grid marks, 0 when unmarked  *)
  count,       (* keyframes selected so far; count is the newest           *)
  first,       (* the first keyframe since the last reset, past or to come *)
  marked,      (* history: keyframes that marked the grid                  *)
  features,    (* num_features_ of each keyframe                           *)
  storage,     (* px_vec_.cols() of each keyframe                          *)
  seeded       (* keyframes whose SEED_INIT job was completed              *)

mainVars   == <<count, first, marked, quit>>
frameVars  == <<features, storage, seeded>>
gridVars   == <<grid, occupant>>
workerVars == <<worker, jobsLocked, job, corners>>
vars == <<main, workerVars, jobs, gridVars, mainVars, frameVars>>

Keyframes == 1 .. NKeyframes
SeedInit(k) == [type |-> "SEED_INIT", frame |-> k]
Update(k)   == [type |-> "UPDATE", frame |-> k]
NoJob       == [type |-> "NONE", frame |-> 0]
Jobs == {SeedInit(k) : k \in Keyframes} \cup {Update(k) : k \in Keyframes}

Init ==
  /\ main = "idle" /\ worker = "lock"
  /\ jobsLocked = FALSE /\ jobs = <<>> /\ job = NoJob /\ quit = FALSE
  /\ grid \in GridSizes /\ occupant = 0 /\ corners = 0
  /\ count = 0 /\ first = 1 /\ marked = {} /\ seeded = {}
  /\ features = [k \in Keyframes |-> 0]
  /\ storage = [k \in Keyframes |-> 0]

-----------------------------------------------------------------------------
(* The tracking thread. *)

MutNotifiesNobody == UNCHANGED worker

(* notify_all(): whoever sleeps contends for the mutex again. *)
NotifyAll == worker' = IF worker = "asleep" THEN "lock" ELSE worker

(* addImageBundle(): the agent's grid size, or the same again; no lock is  *)
(* taken. change_cell_size() moves each mark to where the keypoint of its  *)
(* cell is now, but processFrame() copies the marks of its features into   *)
(* the grid without their keypoints: the marks need not survive.           *)
ChangeCellSize(cells) ==
  /\ main = "idle"
  /\ grid' = cells /\ occupant' \in {occupant, 0}
  /\ UNCHANGED <<main, workerVars, jobs, mainVars, frameVars>>

(* updateSeeds() of keyframes in the map: one section under jobs_mut_. *)
UpdateSeeds(refs) ==
  /\ main = "idle" /\ ~jobsLocked
  /\ refs # {} /\ Len(jobs) + Cardinality(refs) <= MaxJobs
  /\ jobs' = jobs \o SetToSeq({Update(k) : k \in refs})
  /\ NotifyAll
  /\ UNCHANGED <<main, jobsLocked, job, corners, gridVars, mainVars, frameVars>>

NewKeyframe(tracked) ==
  /\ main = "idle" /\ count < NKeyframes
  /\ main' = "allocate"
  /\ count' = count + 1
  /\ features' = [features EXCEPT ![count + 1] = tracked]
  /\ UNCHANGED <<workerVars, jobs, grid, first, quit, storage, seeded>>

(* processFirstFrame() goes straight to addKeyframe(). *)
FirstKeyframe(tracked) ==
  /\ count < first
  /\ NewKeyframe(tracked)
  /\ UNCHANGED <<occupant, marked>>

(* processFrame(): setDetectorOccupiedCells() under feature_detector_mut_. *)
MarkKeyframe(tracked) ==
  /\ count >= first
  /\ worker # "detect"
  /\ NewKeyframe(tracked)
  /\ occupant' = count + 1
  /\ marked' = marked \cup {count + 1}

(* addKeyframe() reads the size of the grid without its mutex. *)
Allocate ==
  /\ main = "allocate"
  /\ main' = "enqueue"
  /\ storage' = [storage EXCEPT ![count] = features[count] + grid]
  /\ UNCHANGED <<workerVars, jobs, gridVars, mainVars, features, seeded>>

MutEnqueueKeepsJobs ==
  /\ main = "enqueue" /\ ~jobsLocked
  /\ main' = "idle"
  /\ jobs' = Append(jobs, SeedInit(count))
  /\ NotifyAll
  /\ UNCHANGED <<jobsLocked, job, corners, gridVars, mainVars, frameVars>>

(* "clear all other jobs, this one has priority" *)
Enqueue ==
  /\ main = "enqueue" /\ ~jobsLocked
  /\ main' = "idle"
  /\ jobs' = <<SeedInit(count)>>
  /\ NotifyAll
  /\ UNCHANGED <<jobsLocked, job, corners, gridVars, mainVars, frameVars>>

(* resetVisionFrontendCommon(): the map is emptied with the queue. *)
Reset ==
  /\ main = "idle" /\ ~jobsLocked
  /\ jobs' = <<>>
  /\ first' = count + 1
  /\ UNCHANGED <<main, workerVars, gridVars, count, marked, quit, frameVars>>

(* stopThread(): raise the flag, notify, join; no lock is taken. *)
RaiseQuit ==
  /\ main = "idle"
  /\ main' = "notify"
  /\ quit' = TRUE
  /\ UNCHANGED <<workerVars, jobs, gridVars, count, first, marked, frameVars>>

NotifyQuit ==
  /\ main = "notify"
  /\ main' = "join"
  /\ NotifyAll
  /\ UNCHANGED <<jobsLocked, job, corners, jobs, gridVars, mainVars, frameVars>>

Join ==
  /\ main = "join" /\ worker = "returned"
  /\ main' = "joined"
  /\ UNCHANGED <<workerVars, jobs, gridVars, mainVars, frameVars>>

-----------------------------------------------------------------------------
(* The worker. *)

Lock ==
  /\ worker = "lock" /\ ~jobsLocked
  /\ worker' = "check" /\ jobsLocked' = TRUE
  /\ UNCHANGED <<main, job, corners, jobs, gridVars, mainVars, frameVars>>

(* while(jobs_.empty() && !quit_thread_): the condition, under the mutex.  *)
DecideToWait ==
  /\ worker = "check" /\ jobs = <<>> /\ ~quit
  /\ worker' = "block"
  /\ UNCHANGED <<main, jobsLocked, job, corners, jobs, gridVars, mainVars, frameVars>>

(* wait(): releases the mutex and starts to wait in one step. *)
Block ==
  /\ worker = "block"
  /\ worker' = "asleep" /\ jobsLocked' = FALSE
  /\ UNCHANGED <<main, job, corners, jobs, gridVars, mainVars, frameVars>>

SpuriousWakeup ==
  /\ worker = "asleep"
  /\ worker' = "lock"
  /\ UNCHANGED <<main, jobsLocked, job, corners, jobs, gridVars, mainVars, frameVars>>

Quit ==
  /\ worker = "check" /\ quit
  /\ worker' = "returned" /\ jobsLocked' = FALSE
  /\ UNCHANGED <<main, job, corners, jobs, gridVars, mainVars, frameVars>>

MutPopsBeforeFront ==
  /\ worker = "check" /\ jobs # <<>> /\ ~quit
  /\ jobsLocked' = FALSE /\ jobs' = Tail(jobs)
  /\ IF jobs' = <<>> THEN worker' = "lock" /\ job' = NoJob
                     ELSE worker' = "run" /\ job' = Head(jobs')
  /\ UNCHANGED <<main, corners, gridVars, mainVars, frameVars>>

Pop ==
  /\ worker = "check" /\ jobs # <<>> /\ ~quit
  /\ worker' = "run" /\ jobsLocked' = FALSE
  /\ job' = Head(jobs) /\ jobs' = Tail(jobs)
  /\ UNCHANGED <<main, corners, gridVars, mainVars, frameVars>>

RunUpdate ==
  /\ worker = "run" /\ job.type = "UPDATE"
  /\ worker' = "lock" /\ job' = NoJob
  /\ UNCHANGED <<main, jobsLocked, corners, jobs, gridVars, mainVars, frameVars>>

(* SEED_INIT: feature_detector_mut_ is held from here to InitializeSeeds.  *)
StartDetection ==
  /\ worker = "run" /\ job.type = "SEED_INIT"
  /\ worker' = "detect"
  /\ corners' = grid
  /\ UNCHANGED <<main, jobsLocked, job, jobs, gridVars, mainVars, frameVars>>

(* initializeSeeds(): at most one new feature per cell, of the grid the    *)
(* detection began with or, the agent's change being a data race with it,  *)
(* of the grid as it is now. The detector clears its grid when it is done; *)
(* a frame without features gets storage that fits, and one with enough of *)
(* them is left alone.                                                     *)
InitializeSeeds(new) ==
  LET k == job.frame
      full == features[k] >= MaxSeeds IN
  /\ worker = "detect"
  /\ IF full THEN new = 0
     ELSE (new <= grid \/ new <= corners) /\ features[k] + new <= MaxSeeds
  /\ worker' = "lock" /\ job' = NoJob /\ corners' = 0
  /\ features' = [features EXCEPT ![k] = @ + new]
  /\ storage' = [storage EXCEPT ![k] = IF features[k] = 0 /\ ~full THEN new ELSE @]
  /\ seeded' = seeded \cup {k}
  /\ occupant' = IF full THEN occupant ELSE 0
  /\ UNCHANGED <<main, jobsLocked, jobs, grid, mainVars>>

-----------------------------------------------------------------------------
TrackingThread ==
  \/ \E cells \in GridSizes : ChangeCellSize(cells)
  \/ \E refs \in SUBSET (seeded \cap first .. count) : UpdateSeeds(refs)
  \/ \E tracked \in Tracked : FirstKeyframe(tracked) \/ MarkKeyframe(tracked)
  \/ Allocate \/ Enqueue
  \/ Reset
  \/ RaiseQuit \/ NotifyQuit \/ Join

WorkerStep ==
  \/ Lock \/ DecideToWait \/ Block \/ Quit \/ Pop
  \/ RunUpdate \/ StartDetection
  \/ \E new \in 0 .. MaxSeeds : InitializeSeeds(new)

Next == TrackingThread \/ WorkerStep \/ SpuriousWakeup

(* The operating system runs both threads; the tracking thread finishes    *)
(* the calls it began; nobody owes the worker a spurious wakeup.           *)
Fairness ==
  /\ WF_vars(WorkerStep)
  /\ WF_vars(Allocate \/ Enqueue \/ NotifyQuit \/ Join)

Spec == Init /\ [][Next]_vars /\ Fairness

-----------------------------------------------------------------------------
FlagsOK == jobsLocked \in BOOLEAN /\ quit \in BOOLEAN

ThreadsOK ==
  /\ main \in {"idle", "allocate", "enqueue", "notify", "join", "joined"}
  /\ worker \in {"lock", "check", "block", "asleep", "run", "detect", "returned"}
  /\ jobs \in Seq(Jobs)
  /\ job \in Jobs \cup {NoJob}

FramesOK ==
  /\ grid \in GridSizes /\ occupant \in 0 .. NKeyframes
  /\ corners \in GridSizes \cup {0}
  /\ count \in 0 .. NKeyframes /\ first \in 1 .. count + 1
  /\ marked \subseteq 1 .. count
  /\ features \in [Keyframes -> Nat] /\ storage \in [Keyframes -> Nat]
  /\ seeded \subseteq 1 .. count

TypeOK == FlagsOK /\ ThreadsOK /\ FramesOK /\ Len(jobs) <= MaxJobs

Queued(k) == \E i \in 1 .. Len(jobs) : jobs[i] = SeedInit(k)
Served(k) == worker \in {"run", "detect"} /\ job = SeedInit(k)

(* The newest keyframe goes first: a SEED_INIT job is only ever at the     *)
(* head of the queue, it is that of the keyframe enqueued last, and no     *)
(* keyframe is queued or served when its seeds are there already.          *)
Enqueued == IF main \in {"allocate", "enqueue"} THEN count - 1 ELSE count
SeedInitGoesFirst ==
  /\ \A i \in 1 .. Len(jobs) :
       jobs[i].type = "SEED_INIT" => i = 1 /\ jobs[i].frame = Enqueued
  /\ \A k \in seeded : ~Queued(k) /\ ~Served(k)

(* No wakeup for a job is lost: the worker never sleeps while there is     *)
(* work, nor is it about to.                                               *)
AsleepOnlyWithoutWork == worker \in {"block", "asleep"} => jobs = <<>>

(* What makes the invariants above inductive: who holds the mutex, and     *)
(* that the job the worker serves is of an older keyframe than the one in  *)
(* the queue.                                                              *)
JobsInv ==
  /\ main \in {"allocate", "enqueue"} => count > 0
  /\ seeded \subseteq 1 .. Enqueued
  /\ worker \in {"run", "detect"} <=> job # NoJob
  /\ worker = "detect" => job.type = "SEED_INIT"
  /\ job.type = "SEED_INIT" =>
       /\ job.frame \in 1 .. Enqueued
       /\ \A i \in 1 .. Len(jobs) :
            jobs[i].type = "SEED_INIT" => job.frame < jobs[i].frame
MutexInv == jobsLocked <=> worker \in {"check", "block"}
IInv == TypeOK /\ SeedInitGoesFirst /\ AsleepOnlyWithoutWork /\ MutexInv /\ JobsInv

(* initializeSeeds() asserts it: the storage allocated when the keyframe   *)
(* was enqueued holds the features found when the job runs.                *)
StorageHoldsNewSeeds == \A k \in seeded : features[k] <= storage[k]

(* What that takes is a grid that is not refined. Until its job has run, a *)
(* keyframe has room for as many seeds as the grid has cells, or had when  *)
(* the detection began.                                                    *)
OnlyCoarsens == grid' <= grid
Allocated == IF main = "allocate" THEN count - 1 ELSE count
RoomInv ==
  /\ \A k \in 1 .. Allocated : k \notin seeded => features[k] + grid <= storage[k]
  /\ worker = "detect" => features[job.frame] + corners <= storage[job.frame]

(* A SEED_INIT job that is not cleared by a later keyframe or a reset is   *)
(* taken by the worker unless the thread ends; and once it is taken, it is *)
(* completed whatever happens.                                             *)
EveryKeyframeIsServed ==
  \A k \in Keyframes :
    /\ Queued(k) ~> (Served(k) \/ Enqueued > k \/ first > k \/ quit)
    /\ Served(k) ~> k \in seeded

(* processFrame(): "set feature-detection grid-cells occupied that already *)
(* have a feature" - the features of the keyframe that is detected on.     *)
DetectsAroundOwnFeatures ==
  (worker = "detect" /\ job.frame \in marked) => occupant = job.frame

(* What that takes: the grid is marked and changed only when no SEED_INIT  *)
(* job is left, as it is without the thread. A marked keyframe then keeps  *)
(* the grid to itself from its marks to its detection.                     *)
Regrids == \E cells \in GridSizes : ChangeCellSize(cells)
Marks   == \E tracked \in Tracked : MarkKeyframe(tracked)
TakesTurns == Regrids \/ Marks => \A k \in Keyframes : ~Queued(k) /\ ~Served(k)

Pending(k) ==
  Queued(k) \/ Served(k) \/ (main \in {"allocate", "enqueue"} /\ k = count)
OccupantInv ==
  \A k \in marked : Pending(k) =>
    occupant = k /\ \A j \in 1 .. k - 1 : ~Pending(j)

(* header: "Destructor stops thread if necessary." *)
StopJoins == main = "notify" ~> main = "joined"
=============================================================================
