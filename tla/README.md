# RL-driven visual odometry: specifications, model checking and proofs

This directory holds TLA+ specifications of the program in `src/`: a monocular
visual odometry (SVO, in C++) whose keyframe decision and grid size are taken by
a reinforcement-learning agent (in Python). Paths below are relative to the
repository; `svo/…`, `svo_env/…`, `svo_direct/…` are under `src/svo-lib/`.

## 1. The system

| Component | State it keeps | Operations | Specified in |
|---|---|---|---|
| Monocular frontend (`svo/src/frame_handler_base.cpp`, `frame_handler_mono.cpp`, `map.cpp`) | stage, tracking quality, start/reset flags, new and last frames, keyframe map, relocalization keyframe and trials, RL action, grid cell size | `start`, `reset`, `reset_svo`, `addImageBundle` (→ `addFrameBundle` → `processFrameBundle`) | `FrameHandler` |
| Initializer (`svo/src/initialization.cpp`) | reference frame, tracks | `addFrameBundle`, `reset` | reference and result in `FrameHandler` |
| Depth filter (`svo_direct/src/depth_filter.cpp`) | job queue, worker thread, quit flag, two mutexes; shares the detector and the seeds of keyframes | `addKeyframe`, `updateSeeds`, `reset`, `startThread`, `stopThread`, worker loop | `DepthFilter` |
| Environment (`svo_env/src/svo_env.cpp`) | one frontend | `step`, `reset` | `SvoEnv`, `LoopEnv` |
| Wrapper (`src/env/svo_wrapper.py`) | `svo_stages`, `prev_svo_valid_stage`, `timestamps`, statistics, alignment buffers | `step`, `reset`, `reset_new_seq`, `reset_dones` | `SvoEnv` (one environment) |
| Landmarks of the map (`svo_common/point`, `map.cpp`), reprojector (`svo/src/reprojector.cpp`), outlier removal (`pose_optimizer.cpp`), seed upgrades | features of keyframes, points and their observations, features of the new frame | initialize, update seeds, project, delete points, remove outliers, upgrade, evict | `FeatureMap`, `FeatureMapWorker`, `ObservationGraph` |
| Vectorised environment (`svo_env/src/svo_vec_env.cpp`), TartanAir loader (`src/dataloader/tartan_loader.py`) | environments, OpenMP threads; indices of the dataset | `step`, `env_step`, `reset` by index; `__getitem__` | `TrainingLoop` |
| Training loop and rollout buffer (`src/rl_algorithms`), alignment window of the wrapper | episode starts, mask, buffer; positions of the last poses | collect, add, returns, `update_alignment_buffer` | `TrainingLoop` |
| Feature tracker (`svo_tracker`), running statistics, other data loaders | tracks; sums; indices | – | not modelled (section 6) |
| Image alignment, pose optimisation, matcher, detector scores, policies | – | numeric | not modelled |

**How they interact.** The training loop calls `VecSVOEnv.step`, which fetches
images, resets environments whose sequence is new, and calls one `SvoEnv::step`
per environment. That feeds the frontend, which calls initializer, depth filter
and map synchronously; only the depth filter may have a thread of its own
(`use_threaded_depthfilter`, the factory's default; the training configuration
turns it off). Results return through arrays that the wrapper passes zeroed, and
the end of an episode is signalled by a null last frame.

**What is hard about it.** Two levels keep copies of the same state and reset
them at different times; flags take effect around a frame, not when raised;
frame ids and clocks restart with a session while references to frames may
outlive it; eviction, relocalization and observations all need particular
keyframes; the worker of the depth filter shares a queue, a detector grid and
the storage of keyframes with the tracking thread. The complete list is under
`hazards` in `PROJECT.json`, each with its line and the properties about it.

**What makes each component correct.**
*Frontend*: relocalization always has a keyframe; nothing survives a reset; no
pointer it follows unchecked is null; the map keeps its limit; ages it reports
are consistent. *Environment*: every image is used; the agent acts exactly on
tracked frames and valid steps do what it asked; its view of the stage is the
frontend's; an episode without tracking ends. *Depth filter*: no job and no
wakeup is lost except by design, each keyframe's seeds fit and are found around
its own features, and the thread stops when asked. *Landmarks*: points
and keyframes refer to each other, a frame in process only to what is still in
the map, and a slot never goes back from point to seed. *Training*: loader,
frontend, alignment window and buffer agree on where a session ends, so that no
alignment and no return mixes two of them.

## 2. The modules

### `FrameHandler`
One variable per field named in its comment, plus `out` (what the last call
wrote for the caller) and the history variable `sessionStart`. `addImageBundle`
is three steps, because `start()` and `reset()` may be called while a frame is
processed and are documented to act around it: `AddImageBundle` (action, grid,
timestamp check, start flag), one of `InitFrame`, `TrackFrame`, `RelocFrame`
(`processFrameBundle`), and `FinishFrame` (failure, give-up, last frame, reset,
observations). `ResetSvo` is `reset_svo()`, only possible between frames.

A frame is its id. What is numeric is a choice among the outcomes the code
tells apart: too few features, a drop of features, tracked; the geometric
keyframe heuristic says yes or no; the initializer returns any of its results;
the furthest keyframe is any except the new frame (its distance to itself is
exactly zero and `getFurthestKeyframe` wants more than zero). Relocalization
tracks against a bundle built without the keyframe flag, so `FeatureDrop` is
always possible there.

### `VoLifecycle`
The abstract contract of the frontend towards its driver: when a session may
begin, be bootstrapped, lose track, retry, recover and give up, with the number
of images it may spend on relocalization.

### `SvoEnv`
Extends `FrameHandler` with one environment of the wrapper. `Step` and
`ResetEnv` are the Python code before the call, `Feed` and `Process` the call,
`Redo` is `reset_dones()`, `Return` the Python code after it. The timestamp
comparison is abstracted to `newer`: the wrapper's clock starts at 0 with a
reset and advances after each call, and the frontend compares with the stamp of
its last frame. The array of stages is zero (`kPaused`) where nothing is
written: `SeenStage`.

### `LoopEnv`
One environment as the training loop sees it: calls, the images of a call, the
stage of the frontend with `Started` and `GaveUp`, the end of an episode, and
whether the last observation was tracked. It is the interface between `SvoEnv`,
one environment with all of its frontend, and `TrainingLoop`, many environments
of which only the stage is left; both are shown to implement it (section 4).

### `DepthFilter`
The thread, its queue and what it shares. A critical section is one step when
nothing it depends on is written outside its mutex; the worker's section around
the queue is `Lock`, the test (`DecideToWait`, `Quit`, `Pop`) and `Block`,
because `quit_thread_` is written without the mutex. Waiting releases the mutex
in the same step, wakeups may be spurious. The unlocked read of the grid's size
in `addKeyframe` (`Allocate`) and the unlocked change of it by the agent
(`ChangeCellSize`) are steps of their own; a detection that overlaps the change
may find as many features as either grid has cells. `change_cell_size()`, called
with every image the agent acts on, moves the marks of the grid by keypoints
that were not copied with them, so it may lose them, even at the same size. `features`, `storage` and
`occupant` stand for the features of each keyframe, the columns allocated for
them, and the keyframe whose features mark the detector's cells.

### `ObservationGraph`
The abstract map: keyframes, points, and which observes which. An edge appears
only with a new keyframe; a new point is born with the keyframe that was matched
and the new one; an edge disappears only with its keyframe, or with all the
other edges of its point.

### `FeatureMap`
What one frame after the other does to the landmarks. A keyframe is a row of
slots (`type_vec_`, `landmark_vec_`, `seed_ref_vec_`), a point the set of slots
that observe it (`obs_`) and its failed reprojections; `cur` is the new frame.
A frame is `BeginFrame` (seed update), `ProjectMapInFrame` (candidates, each
point once, then points before converged before unconverged seeds, up to the
limit; failures counted, bad points deleted), and `LeaveFrame` or `SelectFrame`
(outliers removed, matched seeds upgraded to points, observations added, new
seeds, eviction). `InitializeMap` is what the initializer and
`processFirstFrame()` put into an empty map, `ResetMap` the reset. What is
visible, matches, converges, diverges or is an outlier is a free choice.

### `FeatureMapWorker`
`FeatureMap` composed with the worker of the depth filter: the seed updates of
`BeginFrame` and the seeds of a new keyframe become jobs, done in between.

### `TrainingLoop`
Several environments: the loader (`NextBatch`), the wrapper's `step()` and
`reset()`, one `PerAgentStep` for each environment in any order (the OpenMP
loop), `ResetDones`, the alignment window, and `add()` to the rollout buffer;
`NewRollout` goes on where the last rollout ended. A frontend is only its stage
here (`FrameHandler` has the rest, `LoopEnv` says what is assumed of it); `since` and `broke` are history. `Flows` is
the recursion of `compute_returns_and_advantage()` read as a set: the steps whose
rewards enter a return.

### `FeatureMapMC`, `TrainingLoopMC`
The constants that a configuration cannot state, and the symmetry sets.

### `…Proofs`
`FrameHandlerProofs`, `FrameHandlerMapProofs`, `SvoEnvProofs`,
`DepthFilterProofs`, `FeatureMapProofs`, `FeatureMapGraphProofs`,
`TrainingLoopProofs`: section 5.

## 3. The runs

| Run | Question | Result |
|---|---|---|
| `FrameHandler` | Any order of start, reset, reset_svo, images with or without RL action: are references, map, last frame and ages right? | holds |
| `FrameHandlerInit` | Does tracking begin only after the initializer's `kSuccess`? | violated: `processFirstFrame()` only holds back `kTracking` |
| `FrameHandlerMapLimit` | Is the documented limit kept whatever it is? | violated for 1 and 2 |
| `SvoEnv` | Are the wrapper's copies right when used; does the driven frontend implement `VoLifecycle`, and both together `LoopEnv`? | holds |
| `SvoEnvReinit` | Does `automatic_reinitialization` restart a paused frontend? | violated: unreachable statement |
| `DepthFilter` | Queue discipline, wakeups, every keyframe served | holds |
| `DepthFilterStorage` | Do seeds fit the storage allocated at enqueue time? | violated when the agent refines the grid in between |
| `DepthFilterOccupancy` | Is a keyframe detected around its own features? | violated when the grid is changed, or an earlier job served, after the cells were marked |
| `DepthFilterStop` | Does `stopThread()` return? | violated: lost wakeup |
| `FeatureMap` | Do points and keyframes keep referring to each other, and a new frame only to what is in the map? Is the result an `ObservationGraph`? | holds |
| `FeatureMapWorker` | Does a matched seed keep a type that `upgradeSeedsToFeatures()` knows while the worker updates it? | violated: it may diverge first |
| `TrainingLoop` | Do loader, frontends, window and buffer agree where an episode ends, over the border of rollouts too? Is each environment a `LoopEnv`? | holds |

Each property is stated in words where it is defined. Those worth a remark:

* `KeyframeToRelocalizeTo` is why `CHECK_NOTNULL(reloc_keyframe_)` cannot fire:
  eviction goes by distance from the new frame, so it never takes the keyframe
  just added.
* `AgentActsWhileTracking` relates a decision made from the *previous* stage to
  the stage the frontend is in *now*; `InitializesOnConfiguredGrid` shows that
  the one case where the decision is stale, the first frame of a new sequence,
  is made harmless by `prev_state_reset_`.
* `ValidStepsObeyTheAction` is what the policy gradient relies on: a step it
  counts inserted a keyframe exactly when the action said so.
* `EnvInv` is the inductive invariant of section 5; the run checks it where the
  proof states it for all constants, its type part included.
* `KeyframeDistanceCountsFrames` is the assertion of `play.py:85`.
* `EveryKeyframeIsServed` says two things of a `SEED_INIT` job: one that no newer
  keyframe or reset clears is taken by the worker, unless the thread ends; and
  one that is taken is completed whatever happens in the meantime.
* `ObservationsAreMutual` is `Map::checkDataConsistency()`, which the program
  itself never calls, together with the `CHECK_NOTNULL` of `matchCandidate()`.
* `NewFrameSeesLivePoints` is why the frame in process may hold points across
  the deletion of the trash: what is deleted was no candidate.
* `SlotsOnlyMoveForward` says which way a slot of a keyframe may change: a seed
  becomes a corner exactly when it gets a point, and a feature that is no seed
  keeps its type.
* `DealsWholeTrajectories` is about every call of `reset()` and `step()`: each
  takes one image, and the frontends stepped again get the same one.
* `UpgradeKnowsType` holds where the depth filter runs in the tracking thread
  (`FeatureMap`) and fails where it does not (`FeatureMapWorker`).
* `ReturnsStayInSession` is the question whether a flag recorded a step late and
  carried from one rollout to the next cuts the returns where it should, in the
  middle of masked steps too.

The violations are explained, with the text each contradicts, under `findings`
in `PROJECT.json`. The three about the depth filter and the one of `FeatureMapWorker` need its
thread; the synchronous mode has neither queue nor second writer.

### Bounds
* `MaxFrame` is 6 to 8 frames per count of ids: initialization takes two, the
  fourth keyframe forces an eviction from a map limited to three (the smallest
  limit that evicts), and two or three frames are left for loss, relocalization
  and give-up with two trials. A reset restarts the count, so the number of
  sessions in a behaviour is not bounded. In `FrameHandler`, whose ids go on
  after `start()`, a second session can follow within the six frames.
* `MaxKfs = 3`, `MaxTrials = 2`: smallest values with eviction and with a trial
  that is neither first nor last. The violation runs use the value they are
  about (`MaxKfs = 2`) or none (`0`).
* `Cells = {20, 25}`: the configured size and one other.
* `NKeyframes = 3`: one served, one queued and one that clears it. `MaxJobs = 2`
  leaves updates of two keyframes in the queue; the bound concerns the model
  only, the queue of the code has none. `MaxSeeds = 2` with one tracked feature
  allows a full keyframe; the violation runs use two keyframes and more seeds.
* `FeatureMap`: four ids of keyframes with a limit of three (the smallest limit
  that evicts, `FeatureMapAssumption`), two slots and two points: a frame can
  hold a point and a seed, two points, or two seeds, and a point can be deleted
  while another is matched. `MaxFailed = 0` instead of 10 makes one failure
  enough. Ids that nothing refers to are used again, so that behaviours are not
  bounded.
* `TrainingLoop`: two environments, as a third would only repeat what the second
  does to the first; trajectories of one, four and seven images: a sequence that
  ends at once, one that ends before the window is full, and one in which it
  moves. `BufferSize = 3` is less than a session, so sessions cross rollouts.
* Symmetry: the names of frames, points and environments are compared only for
  equality. `CHOOSE` on them is in `OncePerPoint`, where the slot it takes and
  the one it leaves have the same point, and in `SetToSeq`, where every order is
  a step of its own or the order tells only which slot comes first.
* Deadlock is checked everywhere but for `DepthFilter`, whose behaviours end
  with the thread.

### Fairness
Only `DepthFilter` states it: `WF(WorkerStep)`, since the operating system runs
a runnable thread and the mutex is never held across a wait, and weak fairness
of the second halves of calls the tracking thread began (`Allocate`, `Enqueue`,
`NotifyQuit`, `Join`). Calls are not assumed to begin, and spurious wakeups are
not assumed to happen: with them `StopJoins` would hold by luck. The other
modules check safety and refinement only; the caller may stop calling.

## 4. Refinement
`FeatureMap` checks `KeepsGraph`, the specification of `ObservationGraph` with
`observes` the pairs of a keyframe and a point one of whose observations is in
it; `MapKeepsGraph` proves it. `InitializeMap` is `Bootstrap`, `SelectFrame` is
`Extend`, the deletion of trash `Forget`, `ResetMap` is `Clear`, and the rest
changes no edge.

`SvoEnv` checks `KeepsLifecycle`, the specification of `VoLifecycle` with
`trials <- nTrials` and `armed <- setStart`. The frontend alone does not refine
it: called with an RL action while relocalizing it can insert a keyframe and
stay in relocalization without a failure, beyond the trials allowed. The
wrapper never does that (`AgentActsWhileTracking`), so the composition does.
`WrapperKeepsLifecycle` proves it.

`SvoEnv` and `TrainingLoop` are models of the same code at two levels of detail,
and each could be right about a different program. `LoopEnv` ties them together.
`SvoEnv` checks `KeepsLoopEnv` with the stage mapped by `SeenByLoop`: `Started`
until the first image of a session is done with, `GaveUp` when the frontend
paused itself; up to the end of an image the stage is the one observed before,
since the frontend moves to the next in the middle of processing it.
`TrainingLoop` checks `KeepsLoopEnv` for each environment, where `turn` tells
whether the environment is among `todo`. `EnvKeepsLoopEnv` and
`EveryEnvIsLoopEnv` prove both, and `FrontendsDoAllOfLoopEnv` that the stages of
`TrainingLoop` may move exactly as those of `LoopEnv`.

## 5. Proofs
`FrameHandlerProofs` proves for every `MaxKfs`, `MaxTrials`, `MaxFrame`, set of
`Cells` and any number of steps, from `FrameHandlerAssumption` alone (limits are
naturals, the configured cell size is one of the sizes):

| Theorem | States |
|---|---|
| `InductiveInvariant` | `Spec => []IInv` |
| `TypeCorrect` | `Spec => []TypeOK` |
| `AlwaysKeyframeToRelocalizeTo` | `Spec => []KeyframeToRelocalizeTo` |
| `NothingEverSurvivesReset` | `Spec => []NothingSurvivesReset` |
| `AlwaysPausedIffNoLastFrame` | `Spec => []PausedIffNoLastFrame` |
| `AlwaysInitializerHasPredecessor` | `Spec => []InitializerHasPredecessor` |
| `LastFrameInvHolds` | `Spec => []LastFrameInv` |

None of the three invariants in `IInv` is inductive alone. `TypeOK` needs that a
frame being processed is held (`pc # "idle" => newFrame # NoId`), or a keyframe
could be no frame at all; `KeyframeToRelocalizeTo` needs that a failed frame was
not paused, which `NothingSurvivesReset` gives; and that one needs
`sessionStart <= addedFrames` for the first frame of a session. `IInv` is their
conjunction, and `IInvIsPreserved` takes it through each action, with one step
per conjunct. The type of `out` needs that `Min` of a set of ids is one of them
(`MinIsMember`, from the well-foundedness of `<` on the naturals).

`LastFrameInv` is a second invariant relative to the first. That the last frame
exists and lies between reference and new frame when the initializer completes
is only true in one of the three phases of a call; `ReferenceIsBehind` says what
is true of the reference in each of the others, and that outside of
`kInitializing` there is none. That a failed frame is never an initializing one
comes from `KeyframeToRelocalizeTo`.

`FrameHandlerMapProofs` proves `MapSizeStaysInBounds`, `AlwaysOlderKeyframe`
and `ObservedAgesStayOrdered` from a third invariant, `MapInv`: the map is empty
or has two keyframes at least, and the one added last is the youngest. Eviction
takes exactly the surplus and never the new frame (`EvictionKeepsBounds`), hence
both bounds.

`SvoEnvProofs` (`FrameHandlerAssumption` and `SvoEnvAssumption`: the two options
are Booleans, a sequence has more than one image; any limits on keyframes and
trials, any cell sizes) proves every property of the run:

| Theorem | States |
|---|---|
| `FrontendInvUnderWrapper`, `FrontendPropertiesUnderWrapper` | `EnvSpec` implies the invariants of `FrameHandler` |
| `EnvInductiveInvariant`, `EnvTypeCorrect` | `EnvSpec => []EnvInv`, `[]EnvTypeOK` |
| `ImagesAlwaysReachPipeline` | `EnvSpec => []EveryImageReachesThePipeline` |
| `AgentAlwaysActsWhileTracking` | `EnvSpec => []AgentActsWhileTracking` |
| `CountedStepsObey` | `EnvSpec => []ValidStepsObeyTheAction` |
| `AlwaysReturnsRunning` | `EnvSpec => []ReturnsRunning` |
| `GroundTruthAlwaysReachesInitializer` | `EnvSpec => []GroundTruthReachesTheInitializer` |
| `AlwaysInitializesOnConfiguredGrid` | `EnvSpec => []InitializesOnConfiguredGrid` |
| `LostStaysBounded` | `EnvSpec => []LostIsBounded` |
| `KeyframeDistanceAlwaysCounts` | `EnvSpec => KeyframeDistanceCountsFrames` |
| `WrapperKeepsLifecycle` | `EnvSpec => KeepsLifecycle` |
| `EnvKeepsLoopEnv` | `EnvSpec => KeepsLoopEnv` |

A step of the environment is a step of the frontend, `ResetSvo(TRUE)` included,
or leaves it alone, so that the invariants of the frontend carry over; `EnvInv`
is proved relative to them. None of the eight properties follows by induction from itself, because
the wrapper reads a copy in one step that the frontend made true several steps
before. Its parts are:
* `TurnsInv`: a start is pending exactly when a session is to begin, the
  frontend is paused then, and its first frame leaves it initializing. It is why
  no image is lost and why a session begins on the configured cell.
* `CopiesInv`: between calls the wrapper's stage, validity, clock and age are
  the frontend's. `NewSequence` leaves `prevValid` behind; that this does no harm
  is in `TurnsInv` (the frontend does not track then) and `CellInv`.
* `ActionInv`: what the age was before the step and what the action asked for,
  carried through the three phases of a frame to the observation; from it follow
  `ValidStepsObeyTheAction` and `KeyframeDistanceCountsFrames`. It needs that the
  frame in process is the newest and younger than the keyframe added last, or
  an age of zero would not tell that a keyframe was inserted.
* `TrialsInv`, `LostInv`: a frontend that tracks or initializes has no trials on
  its count, and observations without tracking are counted as trials are, off by
  one until the frame in process has failed. The refinement of `VoLifecycle`
  needs the former.
`StageInv`, a corollary for the middle of a frame, is what `SeenByLoop` needs.

`DepthFilterProofs` (`DepthFilterAssumption`; any number of keyframes, jobs and
cells): types, `SeedInitGoesFirst` and `AsleepOnlyWithoutWork`. The first needs
`JobsInv` (the job being served is of an older keyframe than the one in the
queue), the second `MutexInv` (who holds the queue's mutex where): the worker
decides to wait while it holds it, so no job can be added before it sleeps.

Two theorems say what the violations of the depth filter take. Their hypotheses
are properties of a behaviour, not of the constants, and hold of many of them:
`StorageHoldsUnlessRefined` proves `StorageHoldsNewSeeds` of every behaviour in
which the grid never gets more cells (`OnlyCoarsens`), by `RoomInv`: until its
job has run, a keyframe has room for a seed in each cell.
`DetectsAroundOwnWhenTakingTurns` proves `DetectsAroundOwnFeatures` of every
behaviour in which the grid is marked and changed only while no `SEED_INIT` job
is queued or served (`TakesTurns`), by `OccupantInv`: the marks are those of the
only keyframe between its marks and its detection. Without the thread a job is
done in the call that makes it, and the hypothesis holds.

`TrainingLoopProofs` (`TrainingAssumption`; any number of environments, lengths
and buffer sizes): every property of the run, the refinement of `LoopEnv`
included. `SessionInv` says in which phase
which component already knows that a session ended, `BufferInv` that a session
that ended at step *p* is flagged at *p + 1* or in `_last_episode_starts`,
`WindowInv` is `WindowOfOneSession` made to hold during a step as well. The
refinement rests on `TurnsInv`: a frontend that gave up is seen to have done so
before the call returns, and one that was restarted gets an image.

`FeatureMapProofs` (`FeatureMapAssumption`; any finite sets of frames and points,
any number of slots, any limits): every invariant of the run and
`SlotsOnlyMoveForward`. The inductive invariant adds `DroppedInv` (a frame out of
the map has no features) and `MatchesInv` (the new frame's features take its
first slots, and the seeds they refer to are still seeds).
`FeatureMapGraphProofs` takes each step to one of `ObservationGraph`.

**Only model-checked**: `EveryKeyframeIsServed`, the one liveness property that
holds. Liveness under fairness and `ENABLED` are out of the prover's reach, as is
what a recursive definition computes on all inputs (induction over data); the
modules have no such definition. That a property fails is TLC's to show.

## 6. Not modelled, and why
* Numeric kernels (alignment, matching, optimisation, triangulation, the seed
  update, the policy) are floating point on images; their outcomes are choices.
* Vendored libraries (fast_neon, gflags, glog, minkindr, opengv, vikit) are
  third-party code, most of it generated or numeric; they make up most of the
  lines of the repository.
* `FrameHandler` leaves out motion and rotation priors and the relative poses in
  the observations: they influence no stage. The initializer of `RelatesFrames`
  is the five-point one, the factory's default; homography and one-shot return
  from the same choices.
* The feature tracker's only user is the initializer; its lists live for a call.
* Positions of points and their optimisation; the points trash behind
  `points_to_delete_mutex_` and `removeOldestKeyframe()`, which nothing calls
  without the backend; fixed landmarks of a global map; the second detector
  (`extra_map_points`, off by default).
* The ground-truth rows of `env_step()`, the arithmetic of rewards and running
  statistics; each is under `hazards` where it is one.
* The EuRoC and TUM loaders compute the indices of the TartanAir one. File
  reading, configuration, bindings and drawing have no state of their own.
* Callbacks: nothing registers one. The queues and workers of `rpg_common`:
  nothing instantiates them. Stereo and IMU handlers: the environment creates
  neither.

## 7. Plan
Done, in the order of what depends on what: `FrameHandler`, `VoLifecycle`,
`SvoEnv`, `DepthFilter`; `ObservationGraph`, `FeatureMap`, `FeatureMapWorker`,
`TrainingLoop`, `LoopEnv`; the proofs of every safety property and refinement
that a run shows to hold.

Left: for `FeatureMapWorker` the counterpart of the two theorems about what a
violation takes (its `UpgradeKnowsType` holds of behaviours in which no update
runs between the match of a seed and its upgrade), with the invariants of
`FeatureMap` carried over to the composition with the worker.

## 8. Running
    tlc -workers 2 -config SvoEnv.cfg SvoEnv
    tlc -workers 2 -config FeatureMap.cfg FeatureMapMC
    tlc -workers 2 -config TrainingLoop.cfg TrainingLoopMC
    tlapm FrameHandlerProofs.tla    (and the other modules of proofs)
