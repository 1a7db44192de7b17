------------------------------- MODULE SvoEnv -------------------------------
(***************************************************************************)
(* One environment of the training loop: the Python wrapper VecSVOEnv,     *)
(* SvoEnv::step() and reset() behind it, and the frontend of FrameHandler  *)
(* below. The wrapper keeps its own copies of what the frontend is doing   *)
(* (svo_stages, prev_svo_valid_stage, timestamps) and decides from them    *)
(* whether the agent's action is applied, whether an episode ended, and    *)
(* whether the step counts. The properties say that the copies are never   *)
(* stale when they are used, over new sequences, give-ups and resets.      *)
(*                                                                         *)
(* A call takes several steps: Step or ResetEnv prepares it, Feed hands    *)
(* the image to the frontend, Process is the frontend at work, and Return  *)
(* delivers, unless the frontend gave up: then Redo resets it and feeds it *)
(* the same image again.                                                   *)
(*                                                                         *)
(* Abstracted: of timestamps, whether the environment's is newer than the  *)
(* one of the last frame; of observations, the stage and the number of     *)
(* frames since the last keyframe. A sequence of the dataset holds at most *)
(* MaxFrame images.                                                        *)
(***************************************************************************)
EXTENDS FrameHandler

CONSTANTS
  UseRLActions,  (* use_RL_actions_bool: the agent or the heuristic decides *)
  AutomaticReinitialization   (* automatic_reinitialization_                *)

ASSUME SvoEnvAssumption ==
  /\ UseRLActions \in BOOLEAN
  /\ AutomaticReinitialization \in BOOLEAN
  /\ MaxFrame > 0

VARIABLES
  phase,      (* where the wrapper is: "construct", "new", "ready", "feed",
                 "svo", "deliver"                                          *)
  call,       (* the call being served: "reset", "step" or "redo"          *)
  wantKf,     (* action[0] == 1                                            *)
  wantCell,   (* action[1], scaled to pixels                               *)
  newer,      (* timestamps[i] is newer than the stamp of last_frames_     *)
  svoStage,   (* svo_stages[i]                                             *)
  prevValid,  (* prev_svo_valid_stage[i]                                   *)
  ended,      (* dones[i] of the last step: svo_dones[i] or new_seq[i]     *)
  valid,      (* valid_stages[i] of the last step                          *)
  age,        (* observations[i, 1]: frames since the last keyframe        *)
  lost        (* history: delivered observations since tracking was lost   *)

agent    == <<wantKf, wantCell>>
returned == <<ended, valid, age, lost>>
envVars  == <<phase, call, agent, newer, svoStage, prevValid, returned>>

(* SvoEnv::SvoEnv() ends with start(). *)
EnvInit ==
  /\ Init
  /\ phase = "construct" /\ call = "reset"
  /\ wantKf = FALSE /\ wantCell = InitialCell
  /\ newer = TRUE
  /\ svoStage = "Paused" /\ prevValid = FALSE
  /\ ended = TRUE /\ valid = FALSE /\ age = 0 /\ lost = 0

Construct ==
  /\ phase = "construct"
  /\ Start
  /\ phase' = "new"
  /\ UNCHANGED <<call, agent, newer, svoStage, prevValid, returned>>

MutForgetsStart == ResetSvo(FALSE)

(* SvoEnv::reset(): reset_svo(), then start(). *)
RestartSvo == ResetSvo(TRUE)

-----------------------------------------------------------------------------
(* VecSVOEnv.reset() up to svo_step(): zero actions; the timestamps run on. *)
ResetEnv ==
  /\ phase \in {"new", "ready"}
  /\ RestartSvo
  /\ phase' = "feed" /\ call' = "reset"
  /\ wantKf' = FALSE
  /\ ended' = TRUE
  /\ UNCHANGED <<wantCell, newer, svoStage, prevValid, valid, age, lost>>

MutNewSequenceKeepsStage == RestartSvo /\ newer' = FALSE /\ svoStage' = svoStage

(* reset_new_seq() resets the frontend, the timestamp and svo_stages, but  *)
(* leaves prev_svo_valid_stage as it was.                                  *)
NewSequence == RestartSvo /\ newer' = FALSE /\ svoStage' = "Initializing"

(* VecSVOEnv.step() up to svo_step(). newSeq: the loader starts another    *)
(* sequence.                                                               *)
Step(newSeq, kf, wanted) ==
  /\ phase = "ready"
  /\ newSeq \/ addedFrames <= MaxFrame
  /\ phase' = "feed" /\ call' = "step"
  /\ wantKf' = kf /\ wantCell' = wanted
  /\ ended' = newSeq
  /\ IF newSeq
       THEN NewSequence
       ELSE UNCHANGED <<vars, newer, svoStage>>
  /\ UNCHANGED <<prevValid, valid, age, lost>>

MutAlwaysApplies == UseRLActions /\ call = "step"

(* create_options(): the agent's action is applied only after a frame that *)
(* was tracked; reset() and reset_dones() never apply it.                  *)
AppliesAction == UseRLActions /\ call = "step" /\ prevValid

(* The call into SvoEnv::step(), up to processFrameBundle(). *)
Feed ==
  /\ phase = "feed"
  /\ AddImageBundle(newer, AppliesAction, wantKf, wantCell)
  /\ phase' = IF pc' = "idle" THEN "deliver" ELSE "svo"
  /\ newer' = FALSE
  /\ UNCHANGED <<call, agent, svoStage, prevValid, returned>>

Process ==
  /\ phase = "svo"
  /\ ProcessFrameBundle \/ FinishFrame
  /\ phase' = IF pc' = "idle" THEN "deliver" ELSE "svo"
  /\ UNCHANGED <<call, agent, newer, svoStage, prevValid, returned>>

MutDoneFromStage == call = "step" /\ out.stage = "Paused"

(* SvoEnv::step() sets done when the frontend has no last frame; only      *)
(* step() looks at it.                                                     *)
Done == call = "step" /\ lastFrame = NoId

(* reset_dones(): reset the frontend and give it the image once more.      *)
Redo ==
  /\ phase = "deliver" /\ Done
  /\ RestartSvo
  /\ phase' = "feed" /\ call' = "redo"
  /\ newer' = FALSE
  /\ ended' = TRUE
  /\ UNCHANGED <<agent, svoStage, prevValid, valid, age, lost>>

(* The last lines of SvoEnv::step(), reached only past the early return    *)
(* for a frontend without a last frame.                                    *)
Reinitializes ==
  AutomaticReinitialization /\ lastFrame # NoId /\ stage = "Paused"

(* The stages array is zero, which is kPaused, where nothing was written.  *)
SeenStage == IF out.stage = "Unwritten" THEN "Paused" ELSE out.stage

Return ==
  /\ phase = "deliver" /\ ~Done
  /\ IF Reinitializes THEN Start ELSE UNCHANGED vars
  /\ phase' = "ready"
  /\ newer' = TRUE
  /\ svoStage' = SeenStage
  /\ prevValid' = (SeenStage = "Tracking")
  /\ valid' = (call # "reset" /\ SeenStage = "Tracking" /\ prevValid)
  /\ age' = out.sinceKf
  /\ lost' = IF SeenStage = "Relocalization" THEN lost + 1 ELSE 0
  /\ UNCHANGED <<call, agent, ended>>

-----------------------------------------------------------------------------
EnvNext ==
  \/ Construct
  \/ ResetEnv
  \/ \E newSeq, kf \in BOOLEAN, wanted \in Cells : Step(newSeq, kf, wanted)
  \/ Feed
  \/ Process
  \/ Redo
  \/ Return

EnvSpec == EnvInit /\ [][EnvNext]_<<vars, envVars>>

-----------------------------------------------------------------------------
EnvTypeOK ==
  /\ TypeOK
  /\ phase \in {"construct", "new", "ready", "feed", "svo", "deliver"}
  /\ call \in {"reset", "step", "redo"}
  /\ wantKf \in BOOLEAN /\ wantCell \in Cells
  /\ newer \in BOOLEAN
  /\ svoStage \in Stages /\ prevValid \in BOOLEAN
  /\ ended \in BOOLEAN /\ valid \in BOOLEAN
  /\ age \in Int /\ lost \in Nat

(* No image is dropped for its timestamp and none is fed to a paused       *)
(* frontend, over any mix of new sequences, give-ups and resets, although  *)
(* wrapper and frontend each keep a clock of their own.                    *)
EveryImageReachesThePipeline ==
  phase = "feed" =>
    /\ lastFrame = NoId \/ newer
    /\ setStart \/ stage # "Paused"

(* The wrapper decides from the stage of the PREVIOUS frame whether the    *)
(* agent acts, but the frontend applies the action in its CURRENT stage:   *)
(* every frame that is tracked is the agent's, none that relocalizes is.   *)
AgentActsWhileTracking ==
  pc = "process" =>
    /\ stage = "Tracking" => useRL = UseRLActions
    /\ stage = "Relocalization" => ~useRL

(* A step that counts for the policy gradient did what the agent asked: it *)
(* inserted a keyframe exactly when the action said so.                    *)
ValidStepsObeyTheAction ==
  phase = "ready" /\ valid /\ UseRLActions => (age = 0 <=> wantKf)

(* What the trainer is told of the stage is where the frontend is, and a   *)
(* call never returns with the frontend stopped.                           *)
ReturnsRunning ==
  phase = "ready" => svoStage = stage /\ stage # "Paused"

(* create_options() sends the ground-truth pose when svo_stages says the   *)
(* frontend initializes: whenever it does, and only then.                  *)
GroundTruthReachesTheInitializer ==
  (phase = "feed" /\ call = "step")
    => (svoStage = "Initializing" <=> setStart \/ stage = "Initializing")

(* No cell size of an earlier session leaks into the initialization of the *)
(* next, although reset_new_seq() leaves prev_svo_valid_stage raised.      *)
InitializesOnConfiguredGrid ==
  (pc = "process" /\ stage = "Initializing") => cell = InitialCell

(* The agent never sees more observations in a row without tracking than   *)
(* the frontend is allowed trials: by then the episode is over.            *)
Allowed == IF MaxTrials = 0 THEN 1 ELSE MaxTrials
LostIsBounded == lost <= Allowed

(* vio_stereo.yaml sets automatic_reinitialization under the heading       *)
(* "Automatic initialisation": with it, a step that leaves the frontend    *)
(* paused starts it again.                                                 *)
ReinitializesWhenPaused ==
  (AutomaticReinitialization /\ phase = "deliver" /\ stage = "Paused")
    => Reinitializes

(* play.py asserts on it: unless the episode ended, the number of frames   *)
(* since the last keyframe grows by one or is zero.                        *)
KeyframeDistanceCountsFrames ==
  [][Return /\ ~ended => age' \in {0, age + 1}]_<<vars, envVars>>

-----------------------------------------------------------------------------
(* What makes the invariants inductive. Whose turn it is, and that a start *)
(* is pending exactly when a session is to begin: the frontend is paused   *)
(* then, and its first frame does not initialize.                          *)
Beginning == phase = "feed" /\ ended
Running   == phase = "ready" \/ (phase = "feed" /\ ~ended)

TurnsInv ==
  /\ phase = "svo" <=> pc # "idle"
  /\ ~setReset
  /\ setStart <=> phase = "new" \/ Beginning
  /\ phase \in {"construct", "new"} \/ Beginning => stage = "Paused" /\ prevStateReset
  /\ phase \in {"feed", "svo", "deliver"} /\ call # "step" => ended
  /\ Beginning /\ call = "step" => svoStage = "Initializing"
  /\ phase \in {"svo", "deliver"} /\ ended => stage = "Initializing"
  /\ pc = "process" /\ ended => initRef = NoId

(* The wrapper's copies are those of the frontend between calls. *)
SinceKf == IF lastKf \in keyframes THEN addedFrames - 1 - lastKf ELSE 0
CopiesInv ==
  Running =>
    /\ stage # "Paused" /\ svoStage = stage
    /\ prevValid = (stage = "Tracking")
    /\ newer /\ lastFrame # NoId
    /\ age = SinceKf

(* What a step knows of the observation before it and of the action it     *)
(* applies, until its own observation is delivered.                        *)
Obeyed(inserted) ==
  UseRLActions /\ prevValid /\ stage = "Tracking" => (inserted <=> wantKf)

ActionInv ==
  /\ pc # "idle" => newFrame = addedFrames - 1
  /\ pc = "process" => lastKf < newFrame
  /\ pc = "process" /\ ~ended =>
       /\ prevValid = (stage = "Tracking")
       /\ useRL = (UseRLActions /\ prevValid) /\ actKf = wantKf
       /\ age = IF lastKf \in keyframes THEN newFrame - 1 - lastKf ELSE 0
  /\ pc = "finish" /\ ~ended =>
       /\ lastKf \in keyframes => newFrame - lastKf \in {0, age + 1}
       /\ ~Failed => Obeyed(lastKf = newFrame)
  /\ phase = "deliver" =>
       /\ stage # "Paused" => out.stage = stage /\ out.sinceKf = SinceKf
       /\ ~ended =>
            /\ out.sinceKf \in {0, age + 1}
            /\ Obeyed(out.sinceKf = 0)

CellInv == stage = "Initializing" => cell = InitialCell

(* The trials of the frontend, and how the observations count them. *)
TrialsInv ==
  /\ stage # "Relocalization" => nTrials = 0
  /\ stage = "Relocalization" =>
       IF pc = "finish" THEN Failed /\ nTrials \in 1 .. Allowed
                        ELSE nTrials < Allowed
LostInv ==
  /\ lost <= Allowed
  /\ stage = "Relocalization" =>
       lost = IF pc = "finish" \/ phase = "deliver" THEN nTrials ELSE nTrials + 1
  /\ stage = "Tracking" /\ (Running \/ pc = "process") => lost = 0
  /\ stage = "Tracking" /\ pc = "finish" /\ Failed => lost = 0

EnvInv ==
  /\ EnvTypeOK /\ TurnsInv /\ CopiesInv /\ ActionInv /\ CellInv
  /\ TrialsInv /\ LostInv /\ ValidStepsObeyTheAction

(* Driven by the wrapper, the frontend keeps the promise of its header.    *)
Lifecycle == INSTANCE VoLifecycle WITH trials <- nTrials, armed <- setStart
KeepsLifecycle == Lifecycle!Spec

(* And frontend and wrapper together are what TrainingLoop takes an        *)
(* environment to be. Until the frontend has finished with an image, its   *)
(* stage is that of the observation before it.                             *)
SeenByLoop ==
  CASE phase \in {"construct", "new"}          -> "Started"
    [] phase \in {"feed", "svo"} /\ ended      -> "Started"
    [] phase \in {"feed", "svo"} /\ ~ended     -> svoStage
    [] phase = "deliver" /\ stage = "Paused"   -> "GaveUp"
    [] phase = "deliver" /\ stage # "Paused"   -> stage
    [] phase = "ready"                         -> stage

Turn ==
  CASE phase \in {"construct", "new", "ready"} -> "ready"
    [] phase \in {"feed", "svo"}               -> "image"
    [] phase = "deliver"                       -> "served"

EndsEpisode == ended \/ (phase = "deliver" /\ Done)

ForLoop == INSTANCE LoopEnv
  WITH turn <- Turn, stage <- SeenByLoop, ended <- EndsEpisode, tracked <- prevValid
KeepsLoopEnv == ForLoop!Spec

(* What that takes: while an image is processed, the stage is that of the  *)
(* last observation, or tracking has just been reached.                    *)
StageInv ==
  phase = "svo" /\ ~ended =>
    /\ svoStage # "Paused"
    /\ stage = svoStage \/ (pc = "finish" /\ stage = "Tracking" /\ ~Failed)
=============================================================================
