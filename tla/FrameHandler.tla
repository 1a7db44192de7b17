----------------------------- MODULE FrameHandler -----------------------------
(***************************************************************************)
(* The monocular visual-odometry frontend (FrameHandlerBase +              *)
(* FrameHandlerMono): the stage machine, the two user flags start()/reset(), *)
(* the keyframe map with its bounded size, relocalization with a bounded   *)
(* number of trials, the RL action that overrides the keyframe heuristic   *)
(* and the grid size, and the observation vector handed to the agent.      *)
(*                                                                         *)
(* addImageBundle() is three steps here, because start() and reset() only  *)
(* raise flags and are documented to take effect around a frame that is    *)
(* being processed: AddImageBundle reads set_start_, InitFrame/TrackFrame/ *)
(* RelocFrame is processFrameBundle(), FinishFrame reads set_reset_.       *)
(*                                                                         *)
(* Abstracted: images, poses, feature counts. A frame is its id            *)
(* (added_frames_); how well a frame tracks is a free choice among the     *)
(* outcomes the code distinguishes; which keyframe is furthest away is any *)
(* keyframe but the new frame, whose distance to itself is zero.           *)
(***************************************************************************)
EXTENDS FiniteSetsExt

CONSTANTS
  MaxKfs,       (* options_.max_n_kfs                                       *)
  MaxTrials,    (* options_.relocalization_max_trials                       *)
  Cells,        (* grid cell sizes an RL action can ask for, in pixels      *)
  InitialCell,  (* initial_cell_size_, the configured cell size             *)
  MaxFrame      (* bound: frames created per count of added_frames_         *)

ASSUME FrameHandlerAssumption ==
  /\ MaxKfs \in Nat
  /\ MaxTrials \in Nat
  /\ MaxFrame \in Nat
  /\ InitialCell \in Cells

VARIABLES
  pc,             (* "idle" between frames, "process" and "finish" inside one *)
  stage,          (* stage_                                                  *)
  quality,        (* tracking_quality_                                       *)
  setStart,       (* set_start_                                              *)
  setReset,       (* set_reset_                                              *)
  newFrame,       (* id of new_frames_, NoId when null                       *)
  lastFrame,      (* id of last_frames_, NoId when null                      *)
  lastIsKf,       (* last_frames_->isKeyframe(): the flag of the BUNDLE      *)
  updateRes,      (* update_res_                                             *)
  keyframes,      (* ids in map_->keyframes_                                 *)
  lastKf,         (* map_->last_added_kf_id_                                 *)
  relocKf,        (* id of reloc_keyframe_                                   *)
  nTrials,        (* relocalization_n_trials_                                *)
  initRef,        (* id of initializer_->frames_ref_                         *)
  initRes,        (* the InitResult of the last initializer call             *)
  addedFrames,    (* added_frames_, the id of the next frame                 *)
  useRL,          (* use_RL_actions_                                         *)
  actKf,          (* action_newkeyframe_                                     *)
  cell,           (* cell size of detector grids and of reprojector 0        *)
  prevStateReset, (* prev_state_reset_                                       *)
  out,            (* what the last call wrote to the caller's arrays         *)
  sessionStart    (* history: id of the first frame since the last reset     *)

request  == <<setStart, setReset>>
frames   == <<newFrame, lastFrame, lastIsKf, addedFrames>>
map      == <<keyframes, lastKf>>
reloc    == <<relocKf, nTrials>>
init     == <<initRef, initRes>>
action   == <<useRL, actKf, cell, prevStateReset>>
vars     == <<pc, stage, quality, request, frames, updateRes, map, reloc, init,
              action, out, sessionStart>>

NoId == -1
Stages == {"Paused", "Initializing", "Tracking", "Relocalization"}
InitResults == {"Failure", "NoKeyframe", "Tracking", "Success"}

(* The caller passes zeroed arrays; a call that returns early leaves them. *)
NoOutput == [stage |-> "Unwritten", sinceKf |-> 0, sinceFirst |-> 0]

-----------------------------------------------------------------------------
Init ==
  /\ pc = "idle" /\ stage = "Paused" /\ quality = "Insufficient"
  /\ setStart = FALSE /\ setReset = FALSE
  /\ newFrame = NoId /\ lastFrame = NoId /\ lastIsKf = FALSE
  /\ updateRes = "Default"
  /\ keyframes = {} /\ lastKf = NoId
  /\ relocKf = NoId /\ nTrials = 0
  /\ initRef = NoId /\ initRes = "Tracking"
  /\ addedFrames = 1
  /\ useRL = FALSE /\ actKf = FALSE
  /\ cell = InitialCell /\ prevStateReset = TRUE
  /\ out = NoOutput
  /\ sessionStart = 1

(* Map::reset() *)
MutMapResetKeepsKeyframes == keyframes' = keyframes /\ lastKf' = NoId
MutMapResetKeepsLastId    == keyframes' = {} /\ lastKf' = lastKf
MapReset == keyframes' = {} /\ lastKf' = NoId

(* AbstractInitialization::reset() *)
MutInitializerKeepsReference == initRef' = initRef
InitializerReset == initRef' = NoId

MutKeepsRelocKeyframe == relocKf' = relocKf /\ nTrials' = 0
RelocReset == relocKf' = NoId /\ nTrials' = 0

MutKeepsLastFrame == lastFrame' = lastFrame /\ lastIsKf' = lastIsKf
LastFrameReset == lastFrame' = NoId /\ lastIsKf' = FALSE

(* resetVisionFrontendCommon(), which is all of resetAll(), followed by    *)
(* what its callers set next: the stage, the new frame, a raised start     *)
(* flag.                                                                   *)
ResetVisionFrontend(nextStage, nextFrame, started) ==
  /\ stage' = nextStage
  /\ newFrame' = nextFrame
  /\ setStart' = started
  /\ quality' = "Insufficient"
  /\ setReset' = FALSE
  /\ RelocReset
  /\ LastFrameReset
  /\ MapReset
  /\ InitializerReset

-----------------------------------------------------------------------------
(* The user's calls. *)

Start ==
  /\ setStart' = TRUE
  /\ UNCHANGED <<pc, stage, quality, setReset, frames, updateRes, map, reloc,
                 init, action, out, sessionStart>>

Reset ==
  /\ setReset' = TRUE
  /\ UNCHANGED <<pc, stage, quality, setStart, frames, updateRes, map, reloc,
                 init, action, out, sessionStart>>

(* reset_svo(): immediate, and it restarts the frame ids. restart is TRUE  *)
(* when the caller goes on to call start(), as SvoEnv::reset() does.       *)
ResetSvo(restart) ==
  /\ pc = "idle"
  /\ ResetVisionFrontend("Paused", NoId, restart)
  /\ addedFrames' = 1
  /\ prevStateReset' = TRUE
  /\ sessionStart' = 1
  /\ UNCHANGED <<pc, updateRes, initRes, useRL, actKf, cell, out>>

-----------------------------------------------------------------------------
(* addImageBundle() up to processFrameBundle().                            *)

MutNextCellFollowsAction(rl, wanted) ==
  CASE rl -> wanted
    [] ~rl /\ prevStateReset -> InitialCell
    [] OTHER -> cell

(* The grids follow the action only when RL drives the frame; the first    *)
(* frame after reset_svo() always gets the configured size.                *)
NextCell(rl, wanted) ==
  CASE prevStateReset -> InitialCell
    [] ~prevStateReset /\ rl -> wanted
    [] OTHER -> cell

DropFrame ==
  UNCHANGED <<pc, stage, quality, request, frames, map, reloc, initRef,
              sessionStart>>

(* set_start_: resetAll(), then the frame is the first one to initialize.  *)
BeginSession ==
  /\ setStart
  /\ ResetVisionFrontend("Initializing", addedFrames, FALSE)
  /\ sessionStart' = addedFrames
  /\ pc' = "process"

(* A paused handler ignores the frame, but its id is spent. *)
IgnoreFrame ==
  /\ ~setStart /\ stage = "Paused"
  /\ UNCHANGED <<pc, stage, quality, request, newFrame, lastFrame, lastIsKf,
                 map, reloc, initRef, sessionStart>>

TakeFrame ==
  /\ ~setStart /\ stage # "Paused"
  /\ newFrame' = addedFrames
  /\ pc' = "process"
  /\ UNCHANGED <<stage, quality, request, lastFrame, lastIsKf, map, reloc,
                 initRef, sessionStart>>

(* fresh: the timestamp is newer than that of last_frames_. *)
AddImageBundle(fresh, rl, newKf, wanted) ==
  /\ pc = "idle"
  /\ addedFrames <= MaxFrame
  /\ useRL' = rl
  /\ actKf' = newKf
  /\ cell' = NextCell(rl, wanted)
  /\ prevStateReset' = FALSE
  /\ out' = NoOutput
  /\ \/ lastFrame # NoId /\ ~fresh /\ DropFrame
     \/ /\ lastFrame = NoId \/ fresh
        /\ addedFrames' = addedFrames + 1
        /\ BeginSession \/ IgnoreFrame \/ TakeFrame
  /\ UNCHANGED <<updateRes, initRes>>

-----------------------------------------------------------------------------
(* processFrameBundle(), one action per stage.                             *)

(* The initializer keeps tracking, with the new frame as its reference when *)
(* too few features survived (always so on its first frame).               *)
InitTracks ==
  /\ initRes' = "Tracking"
  /\ initRef' \in {newFrame} \cup ({initRef} \ {NoId})
  /\ updateRes' = "Default"
  /\ UNCHANGED <<stage, quality, map>>

(* The initializer relates the new frame to an earlier reference: too few  *)
(* RANSAC inliers are NoKeyframe, too few triangulated points Failure.     *)
RelatesFrames ==
  /\ initRef \notin {NoId, newFrame}
  /\ initRes' \in InitResults \ {"Tracking"}

(* Whatever comes of it, Failure and NoKeyframe included, both frames      *)
(* become keyframes and tracking starts.                                   *)
InitCompletes ==
  /\ RelatesFrames
  /\ keyframes' = keyframes \cup {initRef, newFrame}
  /\ lastKf' = newFrame
  /\ stage' = "Tracking"
  /\ quality' = "Good"
  /\ initRef' = NoId
  /\ updateRes' = "Keyframe"

InitFrame ==
  /\ pc = "process" /\ stage = "Initializing"
  /\ InitTracks \/ InitCompletes
  /\ pc' = "finish"
  /\ UNCHANGED <<request, frames, reloc, action, out, sessionStart>>

MutSurplusOffByOne(kfs) ==
  IF MaxKfs > 2 /\ Cardinality(kfs) > MaxKfs THEN Cardinality(kfs) - MaxKfs - 1 ELSE 0

(* How many keyframes the limit makes too many; a limit below three is none. *)
Surplus(kfs) ==
  IF MaxKfs > 2 /\ Cardinality(kfs) > MaxKfs THEN Cardinality(kfs) - MaxKfs ELSE 0

MutNewKeyframeAddsToHeuristic(need) ==
  (useRL /\ actKf) \/ (need /\ stage # "Relocalization")

(* The keyframe decision of a frame that tracked well enough, in stage_;   *)
(* need is need_new_kf_(), the geometric heuristic.                        *)
NewKeyframe(need) ==
  IF useRL THEN actKf ELSE need /\ stage # "Relocalization"

(* Too few features after reprojection or after pose optimization. *)
TooFewFeatures ==
  /\ updateRes' = "Failure"
  /\ UNCHANGED <<quality, map>>

(* Too many features lost since the last frame; not held against a frame   *)
(* that follows a keyframe bundle.                                         *)
FeatureDrop(followsKf) ==
  /\ ~followsKf
  /\ updateRes' = "Failure"
  /\ quality' = "Insufficient"
  /\ UNCHANGED map

TracksWithoutKeyframe ==
  /\ \E need \in BOOLEAN : ~NewKeyframe(need)
  /\ updateRes' = "Default"
  /\ quality' = "Good"
  /\ UNCHANGED map

MutEvictsNewFrame ==
  /\ \E need \in BOOLEAN : NewKeyframe(need)
  /\ updateRes' = "Keyframe"
  /\ quality' = "Good"
  /\ \E furthest \in SUBSET (keyframes \cup {newFrame}) :
       /\ Cardinality(furthest) = Surplus(keyframes \cup {newFrame})
       /\ keyframes' = (keyframes \cup {newFrame}) \ furthest
  /\ lastKf' = newFrame

(* The keyframe furthest from the new frame goes first: any but that frame. *)
TracksAsKeyframe ==
  /\ \E need \in BOOLEAN : NewKeyframe(need)
  /\ updateRes' = "Keyframe"
  /\ quality' = "Good"
  /\ \E furthest \in SUBSET (keyframes \ {newFrame}) :
       /\ Cardinality(furthest) = Surplus(keyframes \cup {newFrame})
       /\ keyframes' = (keyframes \cup {newFrame}) \ furthest
  /\ lastKf' = newFrame

(* processFrame() *)
ProcessFrame(followsKf) ==
  \/ TooFewFeatures
  \/ FeatureDrop(followsKf)
  \/ TracksWithoutKeyframe
  \/ TracksAsKeyframe

TrackFrame ==
  /\ pc = "process" /\ stage = "Tracking"
  /\ ProcessFrame(lastIsKf)
  /\ pc' = "finish"
  /\ UNCHANGED <<stage, request, frames, reloc, init, action, out, sessionStart>>

(* relocalizeFrame(): track against the last keyframe, put into a bundle   *)
(* that does not carry the keyframe flag. Only a plain success returns to  *)
(* tracking.                                                               *)
RelocFrame ==
  /\ pc = "process" /\ stage = "Relocalization"
  /\ IF relocKf = NoId
       THEN TooFewFeatures /\ UNCHANGED <<lastFrame, lastIsKf>>
       ELSE ProcessFrame(FALSE) /\ lastFrame' = relocKf /\ lastIsKf' = FALSE
  /\ stage' = IF updateRes' = "Default" THEN "Tracking" ELSE stage
  /\ nTrials' = IF updateRes' = "Default" THEN 0 ELSE nTrials + 1
  /\ pc' = "finish"
  /\ UNCHANGED <<request, newFrame, addedFrames, relocKf, init, action, out,
                 sessionStart>>

-----------------------------------------------------------------------------
(* addFrameBundle() from the result of processFrameBundle() on, and the    *)
(* observations addImageBundle() writes afterwards.                        *)

Failed == updateRes = "Failure"

MutGivesUpLate  == Failed /\ stage = "Relocalization" /\ nTrials > MaxTrials
MutGivesUpEarly == Failed /\ stage = "Relocalization" /\ nTrials + 1 >= MaxTrials
GivesUp == Failed /\ stage = "Relocalization" /\ nTrials >= MaxTrials

MutOldestKeyframe == IF keyframes = {} THEN NoId ELSE Min(keyframes)

(* map_->getLastKeyframe(): null when the id is not in the map. *)
LastKeyframe == IF lastKf \in keyframes THEN lastKf ELSE NoId

Observation(nextStage) ==
  [stage      |-> nextStage,
   sinceKf    |-> IF LastKeyframe = NoId THEN 0 ELSE newFrame - LastKeyframe,
   sinceFirst |-> IF Cardinality(keyframes) < 2 THEN 0
                  ELSE newFrame - Min(keyframes)]

FinishFrame ==
  /\ pc = "finish"
  /\ pc' = "idle"
  /\ \/ /\ setReset \/ GivesUp
        /\ ResetVisionFrontend("Paused", NoId, FALSE)
        /\ out' = NoOutput
     \/ /\ ~(setReset \/ GivesUp)
        /\ stage' = IF Failed THEN "Relocalization" ELSE stage
        /\ quality' = IF Failed THEN "Insufficient" ELSE quality
        /\ relocKf' = IF Failed THEN LastKeyframe ELSE relocKf
        /\ lastFrame' = newFrame
        /\ lastIsKf' = (updateRes = "Keyframe")
        /\ newFrame' = NoId
        /\ out' = Observation(stage')
        /\ UNCHANGED <<request, map, nTrials, initRef>>
  /\ UNCHANGED <<updateRes, initRes, addedFrames, action, sessionStart>>

-----------------------------------------------------------------------------
ProcessFrameBundle == InitFrame \/ TrackFrame \/ RelocFrame

Next ==
  \/ Start
  \/ Reset
  \/ ResetSvo(FALSE)
  \/ \E fresh, rl, newKf \in BOOLEAN, wanted \in Cells :
       AddImageBundle(fresh, rl, newKf, wanted)
  \/ ProcessFrameBundle
  \/ FinishFrame

Spec == Init /\ [][Next]_vars

-----------------------------------------------------------------------------
FrameIds == 1 .. addedFrames - 1

FlagsOK ==
  /\ setStart \in BOOLEAN /\ setReset \in BOOLEAN
  /\ lastIsKf \in BOOLEAN
  /\ useRL \in BOOLEAN /\ actKf \in BOOLEAN
  /\ prevStateReset \in BOOLEAN

StagesOK ==
  /\ pc \in {"idle", "process", "finish"}
  /\ stage \in Stages
  /\ quality \in {"Insufficient", "Good"}
  /\ updateRes \in {"Default", "Keyframe", "Failure"}
  /\ initRes \in InitResults
  /\ cell \in Cells

FramesOK ==
  /\ addedFrames \in Nat \ {0} /\ sessionStart \in Nat \ {0}
  /\ newFrame \in FrameIds \cup {NoId}
  /\ lastFrame \in FrameIds \cup {NoId}
  /\ keyframes \in SUBSET FrameIds
  /\ lastKf \in FrameIds \cup {NoId}
  /\ relocKf \in FrameIds \cup {NoId}
  /\ initRef \in FrameIds \cup {NoId}
  /\ nTrials \in Nat

Outputs == [stage : Stages \cup {"Unwritten"}, sinceKf : Int, sinceFirst : Int]

TypeOK == FlagsOK /\ StagesOK /\ FramesOK /\ out \in Outputs

(* When a frame fails, the map still holds the keyframe added last:        *)
(* CHECK_NOTNULL(reloc_keyframe_) in addFrameBundle() cannot fire, however *)
(* keyframes were inserted and evicted before.                             *)
KeyframeToRelocalizeTo ==
  /\ stage \in {"Tracking", "Relocalization"} => lastKf \in keyframes
  /\ pc = "finish" /\ Failed => stage \in {"Tracking", "Relocalization"}

(* Nothing survives a reset: every frame the handler still refers to, in   *)
(* the map, as reference of the initializer or of relocalization, or as    *)
(* last frame, was taken since the session began; a paused handler refers  *)
(* to none at all.                                                         *)
Held == ({newFrame, lastFrame, lastKf, relocKf, initRef} \cup keyframes) \ {NoId}
NothingSurvivesReset ==
  /\ Held \subseteq sessionStart .. addedFrames - 1
  /\ stage = "Paused" => Held = {}

(* The three invariants above and what makes them inductive: a frame is    *)
(* processed only while the handler holds it, and no session begins with a *)
(* frame still to come.                                                    *)
IInv ==
  /\ TypeOK
  /\ KeyframeToRelocalizeTo
  /\ NothingSurvivesReset
  /\ pc # "idle" => newFrame # NoId
  /\ sessionStart <= addedFrames

(* With two keyframes or more one of them is older than the last frame, so *)
(* the search for the first keyframe in addImageBundle() never ends with a *)
(* null pointer.                                                           *)
OlderKeyframeExists ==
  (lastFrame # NoId /\ pc = "idle" /\ Cardinality(keyframes) >= 2)
    => \E k \in keyframes : k < lastFrame

(* SvoEnv::step() takes a null last frame as the end of the episode, and   *)
(* only then: between calls it is null exactly when the handler is paused. *)
PausedIffNoLastFrame ==
  pc = "idle" => (stage = "Paused" <=> lastFrame = NoId)

(* The initializer can only complete against a frame taken earlier, so     *)
(* last_frames_ is set when processFirstFrame() dereferences it to update  *)
(* the seeds of the second frame.                                          *)
InitializerHasPredecessor ==
  (pc = "process" /\ stage = "Initializing" /\ initRef # NoId)
    => /\ lastFrame # NoId
       /\ initRef <= lastFrame /\ lastFrame < newFrame

(* What makes the last two inductive together with IInv: outside of        *)
(* kInitializing the initializer has no reference, and its reference is    *)
(* never ahead of the frame the handler keeps.                             *)
ReferenceIsBehind ==
  initRef # NoId =>
    /\ stage = "Initializing"
    /\ pc \in {"idle", "process"} => lastFrame # NoId /\ initRef <= lastFrame
    /\ pc = "process" => lastFrame < newFrame
    /\ pc = "finish" => initRef <= newFrame
LastFrameInv == PausedIffNoLastFrame /\ ReferenceIsBehind

(* With a limit above two the map never holds more than the limit, and     *)
(* while tracking or relocalizing it never shrinks below two keyframes.    *)
MapSizeInBounds ==
  MaxKfs > 2 =>
    /\ Cardinality(keyframes) <= MaxKfs
    /\ stage \in {"Tracking", "Relocalization"} => Cardinality(keyframes) >= 2

(* The two counters in the observation vector agree: once there is a map,  *)
(* the keyframe added last is strictly younger than the oldest one, and    *)
(* neither lies in the future of the frame just processed.                 *)
ObservedAgesAreOrdered ==
  out.stage \in {"Tracking", "Relocalization"}
    => 0 <= out.sinceKf /\ out.sinceKf < out.sinceFirst

(* What makes the map invariants inductive together with the others: the   *)
(* map is empty until there are two keyframes, ids grow with time, and the *)
(* keyframe added last is the youngest.                                    *)
MapInv ==
  /\ IsFiniteSet(keyframes)
  /\ stage \in {"Paused", "Initializing"} => keyframes = {}
  /\ stage \in {"Tracking", "Relocalization"} => Cardinality(keyframes) >= 2
  /\ MapSizeInBounds
  /\ \A k \in keyframes :
       k <= lastKf /\ k <= (IF pc = "idle" THEN lastFrame ELSE newFrame)

(* header, BaseOptions: "The VO only keeps a list of N keyframes ... Set   *)
(* to 0 if all keyframes should remain in the map."                        *)
MapKeepsAtMostN == MaxKfs # 0 => Cardinality(keyframes) <= MaxKfs

(* header, InitializationOptions: only SUCCESS means enough inliers, and   *)
(* the handler stays in kInitializing until then.                          *)
TrackingOnlyAfterSuccess ==
  [][(stage = "Initializing" /\ stage' = "Tracking") => initRes' = "Success"]_vars
=============================================================================
