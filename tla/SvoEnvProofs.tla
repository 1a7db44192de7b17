----------------------------- MODULE SvoEnvProofs -----------------------------
(***************************************************************************)
(* Theorems about the environment of SvoEnv: the frontend keeps its        *)
(* invariants when the wrapper drives it, the wrapper's copies of its      *)
(* state are right whenever they are used, and frontend and wrapper        *)
(* together implement the lifecycle of VoLifecycle.                        *)
(***************************************************************************)
EXTENDS SvoEnv, FrameHandlerMapProofs

FrontendInv == IInv /\ LastFrameInv /\ MapInv

-----------------------------------------------------------------------------
(* reset_svo() establishes the invariants of the frontend, whether start() *)
(* follows or not.                                                         *)
LEMMA ResetEstablishesInv ==
  ASSUME IInv, NEW restart \in BOOLEAN, ResetSvo(restart)
  PROVE  FrontendInv'
<1>. USE FrameHandlerAssumption DEF ResetSvo, ResetVisionFrontend, NoId
<1>0. /\ FlagsOK /\ StagesOK /\ FramesOK /\ out \in Outputs
  BY DEF IInv, TypeOK
<1>1. FlagsOK'
  BY Zenon, <1>0 DEF FlagsOK, LastFrameReset
<1>2. StagesOK'
  BY <1>0 DEF StagesOK, Stages
<1>3. FramesOK' /\ NothingSurvivesReset'
  BY <1>0 DEF FramesOK, FrameIds, NothingSurvivesReset, Held,
     MapReset, InitializerReset, RelocReset, LastFrameReset
<1>4. KeyframeToRelocalizeTo'
  BY DEF KeyframeToRelocalizeTo
<1>5. IInv'
  BY <1>0, <1>1, <1>2, <1>3, <1>4 DEF IInv, TypeOK
<1>6. LastFrameInv'
  BY DEF LastFrameInv, PausedIffNoLastFrame, ReferenceIsBehind, LastFrameReset,
     InitializerReset
<1>7. MapInv'
  <2>1. /\ IsFiniteSet({}) /\ Cardinality({}) = 0
    BY FS_EmptySet
  <2>2. keyframes' = {} /\ stage' = "Paused"
    BY DEF MapReset
  <2>. QED  BY <2>1, <2>2 DEF MapInv, MapSizeInBounds
<1>. QED  BY <1>5, <1>6, <1>7 DEF FrontendInv

(* All the wrapper does to the frontend is to call it.                     *)
LEMMA WrapperCallsFrontend ==
  ASSUME EnvTypeOK, [EnvNext]_<<vars, envVars>>
  PROVE  [Next]_vars \/ ResetSvo(TRUE)
<1>1. CASE Construct
  BY <1>1 DEF Construct, Next
<1>2. CASE ResetEnv
  BY <1>2 DEF ResetEnv, RestartSvo
<1>3. ASSUME NEW newSeq \in BOOLEAN, NEW kf \in BOOLEAN, NEW wanted \in Cells,
             Step(newSeq, kf, wanted)
      PROVE  [Next]_vars \/ ResetSvo(TRUE)
  BY <1>3 DEF Step, NewSequence, RestartSvo
<1>4. CASE Feed
  <2>1. newer \in BOOLEAN /\ wantKf \in BOOLEAN /\ wantCell \in Cells
    BY DEF EnvTypeOK
  <2>2. AppliesAction \in BOOLEAN
    BY DEF AppliesAction
  <2>3. AddImageBundle(newer, AppliesAction, wantKf, wantCell)
    BY <1>4 DEF Feed
  <2>. HIDE DEF AppliesAction
  <2>. QED  BY <2>1, <2>2, <2>3 DEF Next
<1>5. CASE Process
  BY <1>5 DEF Process, Next
<1>6. CASE Redo
  BY <1>6 DEF Redo, RestartSvo
<1>7. CASE Return
  BY <1>7 DEF Return, Next
<1>8. CASE UNCHANGED <<vars, envVars>>
  BY <1>8
<1>. QED  BY <1>1, <1>2, <1>3, <1>4, <1>5, <1>6, <1>7, <1>8 DEF EnvNext

LEMMA FrontendInvIsPreserved ==
  ASSUME FrontendInv, EnvTypeOK, [EnvNext]_<<vars, envVars>>
  PROVE  FrontendInv'
<1>1. CASE [Next]_vars
  BY <1>1, IInvIsPreserved, LastFrameInvIsPreserved, MapInvIsPreserved DEF FrontendInv
<1>2. CASE ResetSvo(TRUE)
  BY <1>2, ResetEstablishesInv DEF FrontendInv
<1>. QED  BY <1>1, <1>2, WrapperCallsFrontend

-----------------------------------------------------------------------------
FullInv == FrontendInv /\ EnvInv

LEMMA FullInvType ==
  ASSUME FullInv
  PROVE  /\ pc \in {"idle", "process", "finish"} /\ stage \in Stages
         /\ updateRes \in {"Default", "Keyframe", "Failure"}
         /\ addedFrames \in Nat \ {0} /\ newFrame \in Int /\ lastKf \in Int
         /\ keyframes \in SUBSET Nat /\ lastKf < addedFrames /\ NoId \notin keyframes
         /\ \A k \in keyframes : k < addedFrames
         /\ nTrials \in Nat /\ Allowed \in Nat \ {0} /\ MaxTrials \in Nat
         /\ MaxTrials <= Allowed
         /\ phase \in {"construct", "new", "ready", "feed", "svo", "deliver"}
         /\ age \in Int /\ lost \in Nat /\ out \in Outputs
         /\ cell \in Cells /\ wantCell \in Cells
         /\ stage \in {"Tracking", "Relocalization"} => lastKf \in keyframes
         /\ pc = "finish" /\ Failed => stage \in {"Tracking", "Relocalization"}
         /\ stage \in {"Paused", "Initializing"} => keyframes = {}
         /\ pc # "idle" => stage # "Paused"
         /\ pc = "idle" => (stage = "Paused" <=> lastFrame = NoId)
BY FrameHandlerAssumption DEF FullInv, FrontendInv, IInv, TypeOK, StagesOK, FramesOK, FrameIds,
   KeyframeToRelocalizeTo, NothingSurvivesReset, Held, LastFrameInv, PausedIffNoLastFrame,
   MapInv, EnvInv, EnvTypeOK, Allowed, NoId

(* What Feed does: with an episode that begins, the frontend begins a      *)
(* session; otherwise it takes one more image. No image is dropped.        *)
LEMMA FeedBeginsOrTakes ==
  ASSUME FullInv, Feed
  PROVE  /\ pc = "idle" /\ phase = "feed" /\ pc' = "process" /\ phase' = "svo"
         /\ setStart' = FALSE /\ setReset' = FALSE
         /\ newFrame' = addedFrames /\ addedFrames' = addedFrames + 1
         /\ useRL' = AppliesAction /\ actKf' = wantKf
         /\ cell' = NextCell(AppliesAction, wantCell)
         /\ UNCHANGED <<call, agent, svoStage, prevValid, returned>>
         /\ \/ /\ ended /\ stage = "Paused" /\ stage' = "Initializing"
               /\ prevStateReset /\ setStart
               /\ nTrials' = 0 /\ initRef' = NoId /\ lastKf' = NoId /\ keyframes' = {}
            \/ /\ ~ended /\ call = "step" /\ stage # "Paused"
               /\ UNCHANGED <<stage, nTrials, initRef, lastKf, keyframes, setStart>>
<1>0. phase = "feed" /\ AddImageBundle(newer, AppliesAction, wantKf, wantCell)
      /\ phase' = (IF pc' = "idle" THEN "deliver" ELSE "svo")
      /\ UNCHANGED <<call, agent, svoStage, prevValid, returned>>
  BY Zenon DEF Feed
<1>. USE DEF FullInv, EnvInv
<1>4. /\ useRL' = AppliesAction /\ actKf' = wantKf
      /\ cell' = NextCell(AppliesAction, wantCell)
  BY Zenon, <1>0 DEF AddImageBundle
<1>1. /\ pc = "idle" /\ ended \in BOOLEAN /\ ~setReset /\ setReset \in BOOLEAN
      /\ setStart \in BOOLEAN
      /\ stage = "Paused" <=> lastFrame = NoId
  BY <1>0, FullInvType DEF TurnsInv, EnvTypeOK, FrontendInv, IInv, TypeOK, FlagsOK
<1>2. CASE ended
  <2>1. setStart /\ stage = "Paused" /\ prevStateReset
    BY <1>0, <1>2 DEF TurnsInv, Beginning
  <2>2. BeginSession /\ addedFrames' = addedFrames + 1
    BY <1>0, <1>1, <2>1 DEF AddImageBundle, IgnoreFrame, TakeFrame, DropFrame
  <2>3. setStart' = FALSE /\ setReset' = FALSE
    BY Zenon, <2>2 DEF BeginSession, ResetVisionFrontend
  <2>4. /\ pc' = "process" /\ newFrame' = addedFrames /\ stage' = "Initializing"
        /\ nTrials' = 0 /\ initRef' = NoId /\ lastKf' = NoId /\ keyframes' = {}
    BY <2>2 DEF BeginSession, ResetVisionFrontend, RelocReset, MapReset, InitializerReset
  <2>. QED  BY <1>0, <1>1, <1>2, <1>4, <2>1, <2>2, <2>3, <2>4
<1>3. CASE ~ended
  <2>1. ~setStart /\ stage # "Paused" /\ newer /\ call = "step"
    BY <1>0, <1>3 DEF TurnsInv, Beginning, CopiesInv, Running
  <2>2. TakeFrame /\ addedFrames' = addedFrames + 1
    BY <1>0, <1>1, <2>1 DEF AddImageBundle, BeginSession, IgnoreFrame
  <2>3. setStart' = FALSE /\ setReset' = FALSE
    BY Zenon, <1>1, <2>1, <2>2 DEF TakeFrame, request
  <2>4. UNCHANGED <<stage, nTrials, initRef, lastKf, keyframes, setStart>>
    BY <2>2 DEF TakeFrame, request, map, reloc
  <2>5. pc' = "process" /\ newFrame' = addedFrames
    BY <2>2 DEF TakeFrame
  <2>. QED  BY <1>0, <1>1, <1>3, <1>4, <2>1, <2>2, <2>3, <2>4, <2>5
<1>. QED  BY <1>1, <1>2, <1>3

-----------------------------------------------------------------------------
(* The typing of the wrapper's variables.                                  *)
LEMMA EnvTypeIsPreserved ==
  ASSUME FullInv, FrontendInv', [EnvNext]_<<vars, envVars>>
  PROVE  EnvTypeOK'
<1>0. EnvTypeOK /\ TypeOK' /\ out \in Outputs
  BY DEF FullInv, EnvInv, EnvTypeOK, FrontendInv, IInv, TypeOK
<1>. USE DEF EnvTypeOK, agent, returned, Stages
<1>1. CASE Construct
  BY <1>0, <1>1 DEF Construct
<1>2. CASE ResetEnv
  BY <1>0, <1>2 DEF ResetEnv
<1>3. ASSUME NEW newSeq \in BOOLEAN, NEW kf \in BOOLEAN, NEW wanted \in Cells,
             Step(newSeq, kf, wanted)
      PROVE  EnvTypeOK'
  BY <1>0, <1>3 DEF Step, NewSequence
<1>4. CASE Feed
  BY <1>0, <1>4 DEF Feed
<1>5. CASE Process
  BY <1>0, <1>5 DEF Process
<1>6. CASE Redo
  BY <1>0, <1>6 DEF Redo
<1>7. CASE Return
  <2>1. SeenStage \in Stages /\ out.sinceKf \in Int
    BY <1>0 DEF Outputs, SeenStage
  <2>2. prevValid' \in BOOLEAN /\ valid' \in BOOLEAN
    BY Zenon, <1>7 DEF Return
  <2>. HIDE DEF SeenStage
  <2>. QED  BY <1>0, <1>7, <2>1, <2>2 DEF Return
<1>8. CASE UNCHANGED <<vars, envVars>>
  BY <1>0, <1>8 DEF envVars
<1>. QED
  BY <1>1, <1>2, <1>3, <1>4, <1>5, <1>6, <1>7, <1>8 DEF EnvNext

(* The rest of the inductive invariant, which each action is shown to keep.*)
Copies ==
  /\ TurnsInv /\ CopiesInv /\ ActionInv /\ CellInv
  /\ TrialsInv /\ LostInv /\ ValidStepsObeyTheAction

LEMMA RestartKeepsCopies ==
  ASSUME FullInv, RestartSvo, phase' = "feed", ended' = TRUE,
         call' = "step" => svoStage' = "Initializing", UNCHANGED lost
  PROVE  Copies'
<1>1. /\ pc' = "idle" /\ stage' = "Paused" /\ setStart' = TRUE /\ setReset' = FALSE
      /\ prevStateReset' = TRUE /\ nTrials' = 0
  BY DEF RestartSvo, ResetSvo, ResetVisionFrontend, RelocReset
<1>2. TurnsInv' /\ CopiesInv'
  BY <1>1 DEF TurnsInv, CopiesInv, Beginning, Running
<1>3. ActionInv' /\ CellInv' /\ TrialsInv' /\ ValidStepsObeyTheAction'
  BY <1>1 DEF ActionInv, CellInv, TrialsInv, ValidStepsObeyTheAction
<1>4. LostInv'
  BY <1>1 DEF FullInv, EnvInv, LostInv, Allowed
<1>. QED  BY <1>2, <1>3, <1>4 DEF Copies

LEMMA ConstructKeepsCopies ==
  ASSUME FullInv, Construct
  PROVE  Copies'
<1>0. TurnsInv /\ CellInv /\ TrialsInv /\ LostInv
  BY DEF FullInv, EnvInv
<1>1. /\ phase = "construct" /\ phase' = "new" /\ setStart' = TRUE
      /\ UNCHANGED <<pc, stage, setReset, prevStateReset, cell, nTrials, lost>>
  BY DEF Construct, Start, action, reloc, returned
<1>2. stage = "Paused" /\ pc = "idle" /\ ~setReset /\ prevStateReset
  BY <1>0, <1>1 DEF TurnsInv
<1>3. TurnsInv' /\ CopiesInv'
  BY <1>1, <1>2 DEF TurnsInv, CopiesInv, Beginning, Running
<1>4. ActionInv' /\ CellInv' /\ TrialsInv' /\ LostInv' /\ ValidStepsObeyTheAction'
  BY <1>0, <1>1, <1>2 DEF ActionInv, CellInv, TrialsInv, LostInv, Allowed,
     ValidStepsObeyTheAction
<1>. QED  BY <1>3, <1>4 DEF Copies

(* A step that begins no sequence only notes the action it was given.      *)
LEMMA StepKeepsCopies ==
  ASSUME FullInv, NEW kf \in BOOLEAN, NEW wanted \in Cells, Step(FALSE, kf, wanted)
  PROVE  Copies'
<1>0. TurnsInv /\ CopiesInv /\ CellInv /\ TrialsInv /\ LostInv
  BY DEF FullInv, EnvInv
<1>1. /\ phase = "ready" /\ phase' = "feed" /\ call' = "step" /\ ended' = FALSE
      /\ UNCHANGED <<pc, stage, setStart, setReset, prevStateReset, cell, nTrials,
                     lastFrame, keyframes, lastKf, addedFrames,
                     lost, svoStage, prevValid, newer, age>>
  BY DEF Step, vars, request, action, reloc, frames, map
<1>2. Running /\ pc = "idle" /\ ~setStart /\ ~setReset
  BY <1>0, <1>1 DEF TurnsInv, Running, Beginning
<1>3. TurnsInv'
  BY <1>1, <1>2 DEF TurnsInv, Beginning
<1>4. CopiesInv'
  BY <1>0, <1>1, <1>2 DEF CopiesInv, SinceKf
<1>5. ActionInv' /\ CellInv' /\ TrialsInv' /\ ValidStepsObeyTheAction'
  BY <1>0, <1>1, <1>2 DEF ActionInv, CellInv, TrialsInv, Allowed,
     ValidStepsObeyTheAction
<1>6. LostInv'
  BY <1>0, <1>1, <1>2 DEF LostInv, Running, Allowed
<1>. QED  BY <1>3, <1>4, <1>5, <1>6 DEF Copies

LEMMA FeedKeepsCopies ==
  ASSUME FullInv, Feed
  PROVE  Copies'
<1>0. TurnsInv /\ CopiesInv /\ CellInv /\ TrialsInv /\ LostInv
  BY DEF FullInv, EnvInv
<1>1. UNCHANGED <<call, agent, svoStage, prevValid, returned>>
  BY FeedBeginsOrTakes
<1>2. UNCHANGED <<call, wantKf, svoStage, prevValid, ended, valid, age, lost>>
  BY <1>1 DEF agent, returned
<1>3. /\ phase = "feed" /\ pc = "idle" /\ pc' = "process" /\ phase' = "svo"
      /\ setStart' = FALSE /\ setReset' = FALSE
      /\ newFrame' = addedFrames /\ addedFrames' = addedFrames + 1
      /\ useRL' = AppliesAction /\ actKf' = wantKf
      /\ cell' = NextCell(AppliesAction, wantCell)
  BY FeedBeginsOrTakes
<1>4. addedFrames \in Nat \ {0} /\ lastKf \in Int /\ lastKf < addedFrames /\ nTrials \in Nat
  BY FullInvType
<1>5. CASE ended
  <2>1. /\ stage' = "Initializing" /\ prevStateReset
        /\ nTrials' = 0 /\ initRef' = NoId /\ lastKf' = NoId
    BY <1>5, FeedBeginsOrTakes
  <2>2. TurnsInv' /\ CopiesInv'
    BY <1>0, <1>2, <1>3, <1>5, <2>1 DEF TurnsInv, CopiesInv, Beginning, Running
  <2>3. ActionInv'
    BY <1>2, <1>3, <1>4, <1>5, <2>1 DEF ActionInv, NoId
  <2>4. CellInv'
    BY <1>3, <2>1 DEF CellInv, NextCell
  <2>5. TrialsInv' /\ LostInv' /\ ValidStepsObeyTheAction'
    BY <1>0, <1>2, <1>3, <2>1 DEF TrialsInv, LostInv, Allowed, ValidStepsObeyTheAction
  <2>. QED  BY <2>2, <2>3, <2>4, <2>5 DEF Copies
<1>6. CASE ~ended
  <2>1. /\ call = "step" /\ stage # "Paused"
        /\ UNCHANGED <<stage, nTrials, initRef, lastKf, keyframes>>
    BY <1>6, FeedBeginsOrTakes
  <2>2. Running /\ prevValid = (stage = "Tracking") /\ age = SinceKf
    BY <1>0, <1>3, <1>6 DEF Running, CopiesInv
  <2>3. TurnsInv' /\ CopiesInv'
    BY <1>0, <1>2, <1>3, <1>6, <2>1 DEF TurnsInv, CopiesInv, Beginning, Running
  <2>4. ActionInv'
    <3>1. newFrame' = addedFrames' - 1 /\ lastKf' < newFrame'
      BY <1>3, <1>4, <2>1
    <3>2. prevValid' = (stage' = "Tracking")
      BY Zenon, <1>2, <2>1, <2>2
    <3>3. useRL' = (UseRLActions /\ prevValid') /\ actKf' = wantKf'
      BY <1>2, <1>3, <2>1 DEF AppliesAction
    <3>4. age' = IF lastKf' \in keyframes' THEN newFrame' - 1 - lastKf' ELSE 0
      BY <1>2, <1>3, <2>1, <2>2 DEF SinceKf
    <3>. QED  BY <1>3, <3>1, <3>2, <3>3, <3>4 DEF ActionInv
  <2>5. CellInv'
    <3>1. stage = "Initializing" => ~AppliesAction /\ cell = InitialCell
      BY <1>0, <2>2 DEF AppliesAction, CellInv
    <3>. QED  BY <1>3, <2>1, <3>1 DEF CellInv, NextCell
  <2>6. TrialsInv'
    BY <1>0, <1>3, <2>1 DEF TrialsInv, Allowed
  <2>7. LostInv'
    BY <1>0, <1>2, <1>3, <2>1, <2>2 DEF LostInv, Allowed
  <2>8. ValidStepsObeyTheAction'
    BY <1>3 DEF ValidStepsObeyTheAction
  <2>. QED  BY <2>3, <2>4, <2>5, <2>6, <2>7, <2>8 DEF Copies
<1>. QED  BY <1>5, <1>6

(* Within a call: what the frontend leaves alone while it processes a      *)
(* frame, and what the wrapper does.                                       *)
LEMMA ProcessLeavesRequests ==
  ASSUME FullInv, Process, ProcessFrameBundle
  PROVE  /\ phase = "svo" /\ phase' = "svo" /\ pc = "process" /\ pc' = "finish"
         /\ ~setStart /\ ~setReset /\ ~setStart' /\ ~setReset'
         /\ UNCHANGED <<newFrame, addedFrames, useRL, actKf, cell, prevStateReset,
                        call, wantKf, svoStage, prevValid, ended, valid, age, lost>>
<1>0. TurnsInv
  BY DEF FullInv, EnvInv
<1>1. /\ phase = "svo" /\ phase' = (IF pc' = "idle" THEN "deliver" ELSE "svo")
      /\ UNCHANGED <<call, agent, svoStage, prevValid, returned>>
  BY DEF Process
<1>2. pc = "process" /\ pc' = "finish"
      /\ UNCHANGED <<request, newFrame, addedFrames, action>>
  BY DEF ProcessFrameBundle, InitFrame, TrackFrame, RelocFrame, frames
<1>3. ~setStart /\ ~setReset
  BY <1>0, <1>1 DEF TurnsInv, Beginning
<1>. QED  BY <1>1, <1>2, <1>3 DEF agent, returned, request, action

LEMMA InitFrameKeepsCopies ==
  ASSUME FullInv, Process, InitFrame
  PROVE  Copies'
<1>0. TurnsInv /\ CopiesInv /\ ActionInv /\ CellInv /\ TrialsInv /\ LostInv
  BY DEF FullInv, EnvInv
<1>1. /\ phase = "svo" /\ phase' = "svo" /\ pc = "process" /\ pc' = "finish"
      /\ ~setStart /\ ~setReset /\ ~setStart' /\ ~setReset'
      /\ UNCHANGED <<newFrame, addedFrames, useRL, actKf, cell, prevStateReset,
                     call, wantKf, svoStage, prevValid, ended, valid, age, lost>>
  BY ProcessLeavesRequests DEF ProcessFrameBundle
<1>2. /\ stage = "Initializing" /\ keyframes = {} /\ nTrials = 0 /\ nTrials' = 0
      /\ newFrame = addedFrames - 1 /\ addedFrames \in Nat
  BY <1>0, <1>1, FullInvType DEF InitFrame, TrialsInv, ActionInv, reloc
<1>3. /\ updateRes' # "Failure"
      /\ \/ stage' = "Initializing" /\ UNCHANGED <<keyframes, lastKf>>
         \/ ~ended /\ stage' = "Tracking" /\ lastKf' = newFrame
  <2>1. CASE InitTracks
    BY <1>2, <2>1 DEF InitTracks, map
  <2>2. CASE InitCompletes
    BY <1>0, <1>1, <2>2 DEF InitCompletes, RelatesFrames, TurnsInv
  <2>. QED  BY <2>1, <2>2 DEF InitFrame
<1>4. TurnsInv' /\ CopiesInv'
  BY <1>0, <1>1, <1>3 DEF TurnsInv, CopiesInv, Beginning, Running
<1>5. ActionInv'
  <2>1. CASE ended
    BY <1>0, <1>1, <2>1 DEF ActionInv
  <2>2. CASE ~ended
    <3>1. prevValid = FALSE
      BY <1>0, <1>1, <1>2, <2>2 DEF ActionInv
    <3>2. lastKf' \in keyframes' => newFrame' - lastKf' = 0
      BY <1>1, <1>2, <1>3
    <3>3. newFrame' = addedFrames' - 1
      BY <1>1, <1>2
    <3>. QED  BY <1>1, <2>2, <3>1, <3>2, <3>3 DEF ActionInv, Obeyed
  <2>. QED  BY <2>1, <2>2
<1>6. CellInv' /\ TrialsInv' /\ ValidStepsObeyTheAction'
  BY <1>0, <1>1, <1>2, <1>3 DEF CellInv, TrialsInv, ValidStepsObeyTheAction
<1>7. LostInv'
  BY <1>0, <1>1, <1>3 DEF LostInv, Running, Allowed, Failed
<1>. QED  BY <1>4, <1>5, <1>6, <1>7 DEF Copies

LEMMA TrackFrameKeepsCopies ==
  ASSUME FullInv, Process, TrackFrame
  PROVE  Copies'
<1>0. TurnsInv /\ CopiesInv /\ ActionInv /\ CellInv /\ TrialsInv /\ LostInv
  BY DEF FullInv, EnvInv
<1>1. /\ phase = "svo" /\ phase' = "svo" /\ pc = "process" /\ pc' = "finish"
      /\ ~setStart /\ ~setReset /\ ~setStart' /\ ~setReset'
      /\ UNCHANGED <<newFrame, addedFrames, useRL, actKf, cell, prevStateReset,
                     call, wantKf, svoStage, prevValid, ended, valid, age, lost>>
  BY ProcessLeavesRequests DEF ProcessFrameBundle
<1>2. /\ stage = "Tracking" /\ stage' = "Tracking" /\ UNCHANGED nTrials
      /\ ProcessFrame(lastIsKf)
  BY DEF TrackFrame, reloc
<1>3. /\ ~ended /\ prevValid /\ useRL = UseRLActions /\ actKf = wantKf
      /\ newFrame = addedFrames - 1 /\ lastKf < newFrame /\ lastKf \in keyframes
      /\ age = newFrame - 1 - lastKf
  <2>1. ~ended /\ lastKf \in keyframes
    BY <1>0, <1>1, <1>2, FullInvType DEF TurnsInv
  <2>2. /\ newFrame = addedFrames - 1 /\ lastKf < newFrame
        /\ prevValid = (stage = "Tracking") /\ useRL = (UseRLActions /\ prevValid)
        /\ actKf = wantKf
        /\ age = IF lastKf \in keyframes THEN newFrame - 1 - lastKf ELSE 0
    BY <1>0, <1>1, <2>1 DEF ActionInv
  <2>3. prevValid
    BY <1>2, <2>2
  <2>4. UseRLActions \in BOOLEAN
    BY SvoEnvAssumption
  <2>5. useRL = UseRLActions
    BY Zenon, <2>2, <2>3, <2>4
  <2>. QED  BY <2>1, <2>2, <2>3, <2>5
<1>4. newFrame \in Int /\ lastKf \in Int
  BY FullInvType
<1>5. /\ lastKf' \in keyframes' => newFrame - lastKf' \in {0, age + 1}
      /\ ~Failed' => (UseRLActions => (lastKf' = newFrame <=> wantKf))
  <2>1. CASE TooFewFeatures \/ FeatureDrop(lastIsKf)
    BY <1>3, <1>4, <2>1 DEF TooFewFeatures, FeatureDrop, Failed, map
  <2>2. CASE TracksWithoutKeyframe
    BY <1>3, <1>4, <2>2 DEF TracksWithoutKeyframe, NewKeyframe, map
  <2>3. CASE TracksAsKeyframe
    BY <1>3, <1>4, <2>3 DEF TracksAsKeyframe, NewKeyframe
  <2>. QED  BY <1>2, <2>1, <2>2, <2>3 DEF ProcessFrame
<1>6. TurnsInv' /\ CopiesInv'
  BY <1>0, <1>1, <1>2 DEF TurnsInv, CopiesInv, Beginning, Running
<1>7. ActionInv'
  <2>1. ~Failed' => Obeyed(lastKf = newFrame)'
    BY <1>1, <1>5 DEF Obeyed
  <2>. QED  BY <1>1, <1>3, <1>5, <2>1 DEF ActionInv
<1>8. CellInv' /\ TrialsInv' /\ ValidStepsObeyTheAction'
  BY <1>0, <1>1, <1>2 DEF CellInv, TrialsInv, ValidStepsObeyTheAction
<1>9. LostInv'
  BY <1>0, <1>1, <1>2 DEF LostInv, Running, Allowed
<1>. QED  BY <1>6, <1>7, <1>8, <1>9 DEF Copies

LEMMA RelocFrameKeepsCopies ==
  ASSUME FullInv, Process, RelocFrame
  PROVE  Copies'
<1>0. TurnsInv /\ CopiesInv /\ ActionInv /\ CellInv /\ TrialsInv /\ LostInv
  BY DEF FullInv, EnvInv
<1>1. /\ phase = "svo" /\ phase' = "svo" /\ pc = "process" /\ pc' = "finish"
      /\ ~setStart /\ ~setReset /\ ~setStart' /\ ~setReset'
      /\ UNCHANGED <<newFrame, addedFrames, useRL, actKf, cell, prevStateReset,
                     call, wantKf, svoStage, prevValid, ended, valid, age, lost>>
  BY ProcessLeavesRequests DEF ProcessFrameBundle
<1>2. /\ stage = "Relocalization"
      /\ stage' = (IF updateRes' = "Default" THEN "Tracking" ELSE stage)
      /\ nTrials' = (IF updateRes' = "Default" THEN 0 ELSE nTrials + 1)
  BY DEF RelocFrame
<1>3. /\ ~ended /\ ~prevValid /\ ~useRL
      /\ newFrame = addedFrames - 1 /\ lastKf < newFrame /\ lastKf \in keyframes
      /\ age = newFrame - 1 - lastKf
      /\ nTrials < Allowed /\ lost = nTrials + 1
  BY <1>0, <1>1, <1>2, FullInvType DEF TurnsInv, ActionInv, TrialsInv, LostInv
<1>4. /\ newFrame \in Int /\ lastKf \in Int /\ nTrials \in Nat
      /\ Allowed \in Nat \ {0}
  BY FullInvType
<1>5. /\ UNCHANGED <<keyframes, lastKf>>
      /\ updateRes' \in {"Default", "Failure"}
  <2>1. TooFewFeatures \/ FeatureDrop(FALSE) \/ TracksWithoutKeyframe
    BY <1>2, <1>3 DEF RelocFrame, ProcessFrame, TracksAsKeyframe, NewKeyframe
  <2>. QED  BY <2>1 DEF TooFewFeatures, FeatureDrop, TracksWithoutKeyframe, map
<1>6. TurnsInv' /\ CopiesInv'
  BY <1>0, <1>1, <1>2, <1>3 DEF TurnsInv, CopiesInv, Beginning, Running
<1>7. ActionInv'
  <2>1. newFrame' - lastKf' = age' + 1 /\ newFrame' = addedFrames' - 1
    BY <1>1, <1>3, <1>4, <1>5
  <2>2. Obeyed(lastKf = newFrame)'
    BY <1>1, <1>3 DEF Obeyed
  <2>. QED  BY <1>1, <2>1, <2>2 DEF ActionInv
<1>8. TrialsInv' /\ LostInv'
  <2>1. CASE updateRes' = "Default"
    <3>1. stage' = "Tracking" /\ nTrials' = 0 /\ ~Failed'
      BY <1>2, <2>1 DEF Failed
    <3>. QED  BY <1>0, <1>1, <3>1 DEF TrialsInv, LostInv, Running, Allowed
  <2>2. CASE updateRes' # "Default"
    <3>1. stage' = "Relocalization" /\ nTrials' = nTrials + 1 /\ Failed'
      BY <1>2, <1>5, <2>2 DEF Failed
    <3>2. nTrials' \in 1 .. Allowed /\ lost' = nTrials'
      BY <1>1, <1>3, <1>4, <3>1
    <3>3. Allowed' = Allowed
      BY DEF Allowed
    <3>. QED  BY <1>0, <1>1, <3>1, <3>2, <3>3 DEF TrialsInv, LostInv
  <2>. QED  BY <2>1, <2>2
<1>9. CellInv' /\ ValidStepsObeyTheAction'
  BY <1>1, <1>2 DEF CellInv, ValidStepsObeyTheAction
<1>. QED  BY <1>6, <1>7, <1>8, <1>9 DEF Copies

(* What FinishFrame does: a reset is never pending under the wrapper, so   *)
(* that the frontend stops only when it gives up.                          *)
LEMMA FinishGivesUpOrObserves ==
  ASSUME FullInv, Process, FinishFrame
  PROVE  /\ phase = "svo" /\ phase' = "deliver" /\ pc = "finish" /\ pc' = "idle"
         /\ ~setStart /\ ~setReset /\ ~setStart' /\ ~setReset'
         /\ setStart' = setStart
         /\ UNCHANGED <<addedFrames, cell, prevStateReset,
                        call, wantKf, svoStage, prevValid, ended, valid, age, lost>>
         /\ \/ /\ GivesUp /\ ~ended /\ stage' = "Paused"
               /\ nTrials' = 0 /\ keyframes' = {} /\ out' = NoOutput
            \/ /\ ~GivesUp /\ UNCHANGED <<keyframes, lastKf, nTrials>>
               /\ stage' = (IF Failed THEN "Relocalization" ELSE stage)
               /\ out'.stage = stage'
               /\ out'.sinceKf = IF lastKf \in keyframes THEN newFrame - lastKf ELSE 0
<1>0. TurnsInv
  BY DEF FullInv, EnvInv
<1>1. /\ phase = "svo" /\ phase' = (IF pc' = "idle" THEN "deliver" ELSE "svo")
      /\ UNCHANGED <<call, agent, svoStage, prevValid, returned>>
  BY DEF Process
<1>2. pc = "finish" /\ pc' = "idle" /\ UNCHANGED <<addedFrames, action>>
  BY DEF FinishFrame
<1>3. ~setStart /\ ~setReset
  BY <1>0, <1>1 DEF TurnsInv, Beginning
<1>4. CASE GivesUp
  <2>1. ResetVisionFrontend("Paused", NoId, FALSE) /\ out' = NoOutput
    BY <1>4 DEF FinishFrame
  <2>2. setStart' = FALSE /\ setReset' = FALSE
    BY Zenon, <2>1 DEF ResetVisionFrontend
  <2>3. stage' = "Paused" /\ nTrials' = 0 /\ keyframes' = {}
    BY <2>1 DEF ResetVisionFrontend, RelocReset, MapReset
  <2>4. ~ended
    BY <1>0, <1>1, <1>4 DEF TurnsInv, GivesUp
  <2>5. setStart \in BOOLEAN
    BY DEF FullInv, FrontendInv, IInv, TypeOK, FlagsOK
  <2>6. setStart' = setStart
    BY Zenon, <1>3, <2>2, <2>5
  <2>. QED
    BY <1>1, <1>2, <1>3, <1>4, <2>1, <2>2, <2>3, <2>4, <2>6 DEF agent, returned, action
<1>5. CASE ~GivesUp
  <2>1. /\ stage' = (IF Failed THEN "Relocalization" ELSE stage)
        /\ out' = Observation(stage')
        /\ UNCHANGED <<request, map, nTrials>>
    BY <1>3, <1>5 DEF FinishFrame
  <2>2. UNCHANGED <<keyframes, lastKf, nTrials, setStart, setReset>>
    BY <2>1 DEF map, request
  <2>3. LastKeyframe = IF lastKf \in keyframes THEN lastKf ELSE NoId
    BY DEF LastKeyframe
  <2>4. NoId \notin keyframes
    BY FullInvType
  <2>5. /\ out'.stage = stage'
        /\ out'.sinceKf = IF lastKf \in keyframes THEN newFrame - lastKf ELSE 0
    BY <2>1, <2>3, <2>4 DEF Observation
  <2>. QED
    BY <1>1, <1>2, <1>3, <1>5, <2>1, <2>2, <2>5 DEF agent, returned, action
<1>. QED  BY <1>4, <1>5

LEMMA FinishFrameKeepsCopies ==
  ASSUME FullInv, Process, FinishFrame
  PROVE  Copies'
<1>0. TurnsInv /\ ActionInv /\ CellInv /\ TrialsInv /\ LostInv
  BY DEF FullInv, EnvInv
<1>1. /\ phase = "svo" /\ phase' = "deliver" /\ pc = "finish" /\ pc' = "idle"
      /\ ~setStart /\ ~setReset /\ ~setStart' /\ ~setReset'
      /\ UNCHANGED <<addedFrames, cell, prevStateReset,
                     call, wantKf, svoStage, prevValid, ended, valid, age, lost>>
  BY FinishGivesUpOrObserves
<1>2. /\ CopiesInv' /\ ValidStepsObeyTheAction'
      /\ phase' \in {"svo", "deliver"} /\ call' # "step" => ended'
  BY <1>0, <1>1 DEF CopiesInv, Running, ValidStepsObeyTheAction, TurnsInv
<1>3. CASE GivesUp
  <2>1. /\ ~ended /\ stage' = "Paused" /\ nTrials' = 0 /\ keyframes' = {}
        /\ out' = NoOutput
    BY <1>3, FinishGivesUpOrObserves
  <2>2. TurnsInv'
    BY <1>1, <1>2, <2>1 DEF TurnsInv, Beginning
  <2>3. ActionInv'
    BY <1>1, <2>1 DEF ActionInv, Obeyed, NoOutput
  <2>4. CellInv' /\ TrialsInv' /\ LostInv'
    BY <1>0, <1>1, <2>1 DEF CellInv, TrialsInv, LostInv, Allowed
  <2>. QED  BY <1>2, <2>2, <2>3, <2>4 DEF Copies
<1>4. CASE ~GivesUp
  <2>1. /\ UNCHANGED <<keyframes, lastKf, nTrials>>
        /\ stage' = (IF Failed THEN "Relocalization" ELSE stage)
        /\ out'.stage = stage'
        /\ out'.sinceKf = IF lastKf \in keyframes THEN newFrame - lastKf ELSE 0
    BY <1>4, FinishGivesUpOrObserves
  <2>2. Failed => stage \in {"Tracking", "Relocalization"} /\ ~ended
    BY <1>0, <1>1, FullInvType DEF TurnsInv
  <2>3. TurnsInv'
    BY <1>0, <1>1, <1>2, <2>1, <2>2 DEF TurnsInv, Beginning
  <2>4. out'.sinceKf = SinceKf'
    BY <1>0, <1>1, <2>1 DEF ActionInv, SinceKf
  <2>5. ~ended => out'.sinceKf \in {0, age + 1}
    BY <1>0, <1>1, <2>1 DEF ActionInv
  <2>6. ~ended => Obeyed(out.sinceKf = 0)'
    <3>1. SUFFICES ASSUME ~ended, UseRLActions, prevValid, stage' = "Tracking"
                   PROVE  out'.sinceKf = 0 <=> wantKf
      BY <1>1 DEF Obeyed
    <3>2. ~Failed /\ stage = "Tracking"
      BY <2>1, <3>1
    <3>3. lastKf = newFrame <=> wantKf
      BY <1>0, <1>1, <3>1, <3>2 DEF ActionInv, Obeyed
    <3>4. lastKf \in keyframes /\ lastKf \in Int /\ newFrame \in Int
      BY <3>2, FullInvType
    <3>5. out'.sinceKf = 0 <=> lastKf = newFrame
      BY <2>1, <3>4
    <3>. QED  BY <3>3, <3>5
  <2>7. ActionInv'
    BY <1>1, <2>1, <2>4, <2>5, <2>6 DEF ActionInv
  <2>8. CellInv'
    BY <1>0, <1>1, <2>1 DEF CellInv
  <2>9. TrialsInv' /\ LostInv'
    <3>1. CASE Failed
      <4>1. stage' = "Relocalization" /\ nTrials' = nTrials
        BY <2>1, <3>1
      <4>2. nTrials < Allowed
        BY <1>0, <1>4, <2>2, <3>1, FullInvType DEF TrialsInv, GivesUp
      <4>3. lost = nTrials
        BY <1>0, <1>1, <2>2, <3>1 DEF TrialsInv, LostInv
      <4>. QED  BY <1>0, <1>1, <4>1, <4>2, <4>3 DEF TrialsInv, LostInv, Allowed
    <3>2. CASE ~Failed
      <4>1. stage # "Relocalization" /\ nTrials = 0
        BY <1>0, <1>1, <3>2 DEF TrialsInv
      <4>. QED  BY <1>0, <1>1, <2>1, <3>2, <4>1 DEF TrialsInv, LostInv, Running, Allowed
    <3>. QED  BY <3>1, <3>2
  <2>. QED  BY <1>2, <2>3, <2>7, <2>8, <2>9 DEF Copies
<1>. QED  BY <1>3, <1>4

(* Past the early return for a missing last frame the frontend is not      *)
(* paused: the wrapper never starts it again there.                        *)
LEMMA ReturnDelivers ==
  ASSUME FullInv, Return
  PROVE  /\ phase = "deliver" /\ phase' = "ready" /\ pc = "idle"
         /\ UNCHANGED <<vars, call, wantKf, ended>>
         /\ stage # "Paused" /\ SeenStage = stage /\ out.sinceKf = SinceKf
         /\ newer' = TRUE /\ svoStage' = stage
         /\ prevValid' = (stage = "Tracking")
         /\ valid' = (call # "reset" /\ stage = "Tracking" /\ prevValid)
         /\ age' = SinceKf
         /\ lost' = (IF stage = "Relocalization" THEN lost + 1 ELSE 0)
<1>0. TurnsInv /\ ActionInv
  BY DEF FullInv, EnvInv
<1>1. phase = "deliver" /\ phase' = "ready" /\ pc = "idle"
  BY <1>0 DEF Return, TurnsInv
<1>2. stage = "Paused" <=> lastFrame = NoId
  BY <1>1, FullInvType
<1>3. stage # "Paused"
  BY <1>0, <1>1, <1>2 DEF Return, Done, TurnsInv
<1>4. UNCHANGED <<vars, call, agent, ended>>
  BY <1>2, <1>3 DEF Return, Reinitializes
<1>5. out.stage = stage /\ out.sinceKf = SinceKf
  BY <1>0, <1>1, <1>3 DEF ActionInv
<1>6. SeenStage = stage
  BY <1>5, FullInvType DEF SeenStage, Stages
<1>7. /\ newer' = TRUE /\ svoStage' = stage
      /\ prevValid' = (stage = "Tracking")
      /\ valid' = (call # "reset" /\ stage = "Tracking" /\ prevValid)
      /\ age' = SinceKf
      /\ lost' = (IF stage = "Relocalization" THEN lost + 1 ELSE 0)
  BY Zenon, <1>5, <1>6 DEF Return
<1>. QED  BY <1>1, <1>3, <1>4, <1>5, <1>6, <1>7 DEF agent

LEMMA ReturnKeepsCopies ==
  ASSUME FullInv, Return
  PROVE  Copies'
<1>0. TurnsInv /\ ActionInv /\ CellInv /\ TrialsInv /\ LostInv
  BY DEF FullInv, EnvInv
<1>1. /\ phase = "deliver" /\ phase' = "ready" /\ pc = "idle"
      /\ UNCHANGED <<vars, call, wantKf, ended>>
      /\ stage # "Paused" /\ out.sinceKf = SinceKf
      /\ newer' = TRUE /\ svoStage' = stage
      /\ prevValid' = (stage = "Tracking")
      /\ valid' = (call # "reset" /\ stage = "Tracking" /\ prevValid)
      /\ age' = SinceKf
      /\ lost' = (IF stage = "Relocalization" THEN lost + 1 ELSE 0)
  BY ReturnDelivers
<1>2. UNCHANGED <<pc, stage, setStart, setReset, prevStateReset, cell, nTrials,
                  lastFrame, keyframes, lastKf, addedFrames>>
  BY <1>1 DEF vars, request, action, reloc, frames, map
<1>3. TurnsInv'
  BY <1>0, <1>1, <1>2 DEF TurnsInv, Beginning
<1>4. CopiesInv'
  <2>1. lastFrame' # NoId
    BY <1>1, <1>2, FullInvType
  <2>2. age' = SinceKf'
    BY <1>1, <1>2 DEF SinceKf
  <2>. QED  BY <1>1, <1>2, <2>1, <2>2 DEF CopiesInv
<1>5. ActionInv' /\ CellInv' /\ TrialsInv'
  BY <1>0, <1>1, <1>2 DEF ActionInv, CellInv, TrialsInv, Allowed
<1>6. LostInv'
  BY <1>0, <1>1, <1>2, FullInvType DEF LostInv, TrialsInv, Allowed
<1>7. ValidStepsObeyTheAction'
  <2>1. SUFFICES ASSUME valid', UseRLActions
                 PROVE  age' = 0 <=> wantKf
    BY <1>1 DEF ValidStepsObeyTheAction
  <2>2. stage = "Tracking" /\ prevValid /\ ~ended
    BY <1>0, <1>1, <2>1 DEF TurnsInv
  <2>. QED  BY <1>0, <1>1, <2>1, <2>2 DEF ActionInv, Obeyed
<1>. QED  BY <1>3, <1>4, <1>5, <1>6, <1>7 DEF Copies

-----------------------------------------------------------------------------
LEMMA EnvInitEstablishesFullInv == EnvInit => FullInv
<1>. SUFFICES ASSUME EnvInit PROVE FullInv
  OBVIOUS
<1>1. Init
  BY DEF EnvInit
<1>2. FrontendInv
  <2>1. IInv
    BY <1>1, InitEstablishesIInv
  <2>2. LastFrameInv
    BY <1>1 DEF Init, LastFrameInv, PausedIffNoLastFrame, ReferenceIsBehind
  <2>3. MapInv
    <3>1. IsFiniteSet({}) /\ Cardinality({}) = 0
      BY FS_EmptySet
    <3>2. keyframes = {} /\ stage = "Paused"
      BY <1>1 DEF Init
    <3>. QED  BY <3>1, <3>2, FrameHandlerAssumption DEF MapInv, MapSizeInBounds
  <2>. QED  BY <2>1, <2>2, <2>3 DEF FrontendInv
<1>3. EnvTypeOK
  <2>1. TypeOK
    BY <1>2 DEF FrontendInv, IInv
  <2>2. InitialCell \in Cells
    BY FrameHandlerAssumption
  <2>3. /\ phase = "construct" /\ call = "reset" /\ svoStage = "Paused"
        /\ age = 0 /\ lost = 0 /\ wantCell = InitialCell
    BY DEF EnvInit
  <2>4. /\ wantKf \in BOOLEAN /\ newer \in BOOLEAN /\ prevValid \in BOOLEAN
        /\ ended \in BOOLEAN /\ valid \in BOOLEAN
    BY Zenon DEF EnvInit
  <2>. QED  BY <2>1, <2>2, <2>3, <2>4 DEF EnvTypeOK, Stages
<1>4. Allowed \in Nat
  BY FrameHandlerAssumption DEF Allowed
<1>5. Copies
  <2>1. TurnsInv /\ CopiesInv
    BY DEF EnvInit, Init, TurnsInv, CopiesInv, Beginning, Running
  <2>2. ActionInv /\ CellInv /\ TrialsInv /\ LostInv /\ ValidStepsObeyTheAction
    BY <1>4 DEF EnvInit, Init, ActionInv, CellInv, TrialsInv, LostInv, Running,
       ValidStepsObeyTheAction
  <2>. QED  BY <2>1, <2>2 DEF Copies
<1>. QED  BY <1>2, <1>3, <1>5 DEF FullInv, EnvInv, Copies

LEMMA CopiesAreKept ==
  ASSUME FullInv, [EnvNext]_<<vars, envVars>>
  PROVE  Copies'
<1>1. CASE Construct
  BY <1>1, ConstructKeepsCopies
<1>2. CASE ResetEnv
  BY <1>2, RestartKeepsCopies DEF ResetEnv
<1>3. ASSUME NEW newSeq \in BOOLEAN, NEW kf \in BOOLEAN, NEW wanted \in Cells,
             Step(newSeq, kf, wanted)
      PROVE  Copies'
  <2>1. CASE newSeq = TRUE
    BY <1>3, <2>1, RestartKeepsCopies DEF Step, NewSequence
  <2>2. CASE newSeq = FALSE
    BY <1>3, <2>2, StepKeepsCopies
  <2>. QED  BY <2>1, <2>2
<1>4. CASE Feed
  BY <1>4, FeedKeepsCopies
<1>5. CASE Process
  <2>1. CASE InitFrame
    BY <1>5, <2>1, InitFrameKeepsCopies
  <2>2. CASE TrackFrame
    BY <1>5, <2>2, TrackFrameKeepsCopies
  <2>3. CASE RelocFrame
    BY <1>5, <2>3, RelocFrameKeepsCopies
  <2>4. CASE FinishFrame
    BY <1>5, <2>4, FinishFrameKeepsCopies
  <2>. QED  BY <1>5, <2>1, <2>2, <2>3, <2>4 DEF Process, ProcessFrameBundle
<1>6. CASE Redo
  BY <1>6, RestartKeepsCopies DEF Redo
<1>7. CASE Return
  BY <1>7, ReturnKeepsCopies
<1>8. CASE UNCHANGED <<vars, envVars>>
  <2>1. TurnsInv' /\ CopiesInv'
    BY <1>8 DEF FullInv, EnvInv, vars, envVars, request, frames, map, reloc, init, action,
       agent, returned, TurnsInv, CopiesInv, Beginning, Running, SinceKf
  <2>2. ActionInv'
    BY <1>8 DEF FullInv, EnvInv, vars, envVars, request, frames, map, reloc, init, action,
       agent, returned, ActionInv, Obeyed, SinceKf, Failed
  <2>3. CellInv' /\ TrialsInv' /\ LostInv' /\ ValidStepsObeyTheAction'
    BY <1>8 DEF FullInv, EnvInv, vars, envVars, request, frames, map, reloc, init, action,
       agent, returned, CellInv, TrialsInv, LostInv, ValidStepsObeyTheAction, Running,
       Failed, Allowed
  <2>. QED  BY <2>1, <2>2, <2>3 DEF Copies
<1>. QED  BY <1>1, <1>2, <1>3, <1>4, <1>5, <1>6, <1>7, <1>8 DEF EnvNext

LEMMA FullInvIsPreserved ==
  ASSUME FullInv, [EnvNext]_<<vars, envVars>>
  PROVE  FullInv'
<1>1. FrontendInv'
  BY FrontendInvIsPreserved DEF FullInv, EnvInv
<1>2. EnvTypeOK'
  BY <1>1, EnvTypeIsPreserved
<1>3. Copies'
  BY CopiesAreKept
<1>. QED  BY <1>1, <1>2, <1>3 DEF FullInv, EnvInv, Copies

-----------------------------------------------------------------------------
(* The base of the theorems below: the frontend keeps its own invariants,  *)
(* and the wrapper's copies of its state are right whenever they are used. *)
LEMMA EnvFullInv == EnvSpec => []FullInv
<1>1. EnvInit => FullInv
  BY EnvInitEstablishesFullInv
<1>2. FullInv /\ [EnvNext]_<<vars, envVars>> => FullInv'
  BY FullInvIsPreserved
<1>. QED  BY <1>1, <1>2, PTL DEF EnvSpec

(* VecSVOEnv calls the frontend in an order of its own, and reset_svo() is *)
(* followed at once by start(): the invariants the frontend keeps for any  *)
(* caller hold for this one.                                               *)
THEOREM FrontendInvUnderWrapper == EnvSpec => []FrontendInv
<1>1. FullInv => FrontendInv
  BY DEF FullInv
<1>. QED  BY <1>1, EnvFullInv, PTL

LEMMA ObservedAgesUnderWrapper ==
  ASSUME FullInv, ObservedAgesAreOrdered, [EnvNext]_<<vars, envVars>>
  PROVE  ObservedAgesAreOrdered'
<1>0. EnvTypeOK /\ IInv /\ MapInv
  BY DEF FullInv, EnvInv, FrontendInv
<1>1. CASE [Next]_vars
  BY <1>0, <1>1, ObservedAgesArePreserved
<1>2. CASE ResetSvo(TRUE)
  BY <1>2 DEF ResetSvo, ObservedAgesAreOrdered
<1>. QED  BY <1>0, <1>1, <1>2, WrapperCallsFrontend

(* So everything proved of the frontend alone is true of it under the      *)
(* wrapper: no reset leaves anything behind, no pointer it follows is      *)
(* null, the map keeps its bounds, and the ages the agent sees are in      *)
(* order.                                                                  *)
THEOREM FrontendPropertiesUnderWrapper ==
  EnvSpec => [](/\ NothingSurvivesReset /\ KeyframeToRelocalizeTo
                /\ PausedIffNoLastFrame /\ InitializerHasPredecessor
                /\ MapSizeInBounds /\ OlderKeyframeExists /\ ObservedAgesAreOrdered)
<1>1. EnvInit => ObservedAgesAreOrdered
  BY DEF EnvInit, Init, ObservedAgesAreOrdered, NoOutput
<1>2. FullInv /\ ObservedAgesAreOrdered /\ [EnvNext]_<<vars, envVars>>
        => ObservedAgesAreOrdered'
  BY ObservedAgesUnderWrapper
<1>3. FullInv => /\ NothingSurvivesReset /\ KeyframeToRelocalizeTo
                 /\ PausedIffNoLastFrame /\ InitializerHasPredecessor
                 /\ MapSizeInBounds /\ OlderKeyframeExists
  <2>. SUFFICES ASSUME FullInv
                PROVE  /\ NothingSurvivesReset /\ KeyframeToRelocalizeTo
                       /\ PausedIffNoLastFrame /\ InitializerHasPredecessor
                       /\ MapSizeInBounds /\ OlderKeyframeExists
    OBVIOUS
  <2>1. IInv /\ LastFrameInv /\ MapInv
    BY DEF FullInv, FrontendInv
  <2>2. NothingSurvivesReset /\ KeyframeToRelocalizeTo
    BY <2>1 DEF IInv
  <2>3. PausedIffNoLastFrame /\ InitializerHasPredecessor
    BY <2>1 DEF LastFrameInv, ReferenceIsBehind, InitializerHasPredecessor
  <2>4. MapSizeInBounds /\ OlderKeyframeExists
    BY <2>1, OlderKeyframe DEF MapInv
  <2>. QED  BY <2>2, <2>3, <2>4
<1>. QED  BY <1>1, <1>2, <1>3, EnvFullInv, PTL DEF EnvSpec

(* The invariant of the wrapper: whose turn it is, what its copies of the  *)
(* frontend's state are worth, and how both count.                         *)
THEOREM EnvInductiveInvariant == EnvSpec => []EnvInv
<1>1. FullInv => EnvInv
  BY DEF FullInv
<1>. QED  BY <1>1, EnvFullInv, PTL

(* Every variable of wrapper and frontend keeps its type.                  *)
THEOREM EnvTypeCorrect == EnvSpec => []EnvTypeOK
<1>1. FullInv => EnvTypeOK
  BY DEF FullInv, EnvInv
<1>. QED  BY <1>1, EnvFullInv, PTL

(* No image the loader delivers is dropped for its timestamp or fed to a   *)
(* paused frontend, whatever mix of new sequences, give-ups and resets.    *)
THEOREM ImagesAlwaysReachPipeline == EnvSpec => []EveryImageReachesThePipeline
<1>1. FullInv => EveryImageReachesThePipeline
  <2>. SUFFICES ASSUME FullInv, phase = "feed"
                PROVE  /\ lastFrame = NoId \/ newer
                       /\ setStart \/ stage # "Paused"
    BY DEF EveryImageReachesThePipeline
  <2>0. TurnsInv /\ CopiesInv
    BY DEF FullInv, EnvInv
  <2>1. CASE ended
    <3>1. setStart /\ stage = "Paused" /\ pc = "idle"
      BY <2>0, <2>1 DEF TurnsInv, Beginning
    <3>2. lastFrame = NoId
      BY <3>1, FullInvType
    <3>. QED  BY <3>1, <3>2
  <2>2. CASE ~ended
    BY <2>0, <2>2 DEF CopiesInv, Running
  <2>. QED  BY <2>1, <2>2
<1>. QED  BY <1>1, EnvFullInv, PTL

(* The agent's action drives every frame that is tracked and none that     *)
(* relocalizes, although the wrapper decides before it knows the stage.    *)
THEOREM AgentAlwaysActsWhileTracking == EnvSpec => []AgentActsWhileTracking
<1>1. FullInv => AgentActsWhileTracking
  <2>. SUFFICES ASSUME FullInv, pc = "process"
                PROVE  /\ stage = "Tracking" => useRL = UseRLActions
                       /\ stage = "Relocalization" => ~useRL
    BY DEF AgentActsWhileTracking
  <2>0. TurnsInv /\ ActionInv
    BY DEF FullInv, EnvInv
  <2>1. CASE stage \in {"Tracking", "Relocalization"}
    <3>1. ~ended
      BY <2>0, <2>1 DEF TurnsInv
    <3>2. prevValid = (stage = "Tracking") /\ useRL = (UseRLActions /\ prevValid)
      BY <2>0, <3>1 DEF ActionInv
    <3>3. UseRLActions \in BOOLEAN
      BY SvoEnvAssumption
    <3>. QED  BY Zenon, <3>2, <3>3
  <2>. QED  BY <2>1
<1>. QED  BY <1>1, EnvFullInv, PTL

(* A step that counts for the policy gradient inserted a keyframe exactly  *)
(* when the agent asked for one.                                           *)
THEOREM CountedStepsObey == EnvSpec => []ValidStepsObeyTheAction
<1>1. FullInv => ValidStepsObeyTheAction
  BY DEF FullInv, EnvInv
<1>. QED  BY <1>1, EnvFullInv, PTL

(* A call of the wrapper never returns with the frontend paused, and the   *)
(* stage it reports is the frontend's.                                     *)
THEOREM AlwaysReturnsRunning == EnvSpec => []ReturnsRunning
<1>1. FullInv => ReturnsRunning
  BY DEF FullInv, EnvInv, CopiesInv, Running, ReturnsRunning
<1>. QED  BY <1>1, EnvFullInv, PTL

(* Ground truth is sent with exactly the images that initialize.           *)
THEOREM GroundTruthAlwaysReachesInitializer ==
  EnvSpec => []GroundTruthReachesTheInitializer
<1>1. FullInv => GroundTruthReachesTheInitializer
  <2>. SUFFICES ASSUME FullInv, phase = "feed", call = "step"
                PROVE  svoStage = "Initializing" <=> setStart \/ stage = "Initializing"
    BY DEF GroundTruthReachesTheInitializer
  <2>0. TurnsInv /\ CopiesInv
    BY DEF FullInv, EnvInv
  <2>. QED  BY <2>0 DEF TurnsInv, CopiesInv, Beginning, Running
<1>. QED  BY <1>1, EnvFullInv, PTL

(* Every session initializes on the configured grid.                       *)
THEOREM AlwaysInitializesOnConfiguredGrid == EnvSpec => []InitializesOnConfiguredGrid
<1>1. FullInv => InitializesOnConfiguredGrid
  BY DEF FullInv, EnvInv, CellInv, InitializesOnConfiguredGrid
<1>. QED  BY <1>1, EnvFullInv, PTL

(* The agent sees at most as many observations in a row without tracking   *)
(* as relocalization is allowed trials.                                    *)
THEOREM LostStaysBounded == EnvSpec => []LostIsBounded
<1>1. FullInv => LostIsBounded
  BY DEF FullInv, EnvInv, LostInv, LostIsBounded
<1>. QED  BY <1>1, EnvFullInv, PTL

(* The assertion of play.py: unless the episode ended, the number of       *)
(* frames since the last keyframe grows by one or is zero.                 *)
THEOREM KeyframeDistanceAlwaysCounts == EnvSpec => KeyframeDistanceCountsFrames
<1>1. FullInv /\ [EnvNext]_<<vars, envVars>>
        => [Return /\ ~ended => age' \in {0, age + 1}]_<<vars, envVars>>
  <2>. SUFFICES ASSUME FullInv, Return, ~ended
                PROVE  age' \in {0, age + 1}
    OBVIOUS
  <2>1. phase = "deliver" /\ out.sinceKf = SinceKf /\ age' = SinceKf
    BY ReturnDelivers
  <2>2. out.sinceKf \in {0, age + 1}
    BY <2>1 DEF FullInv, EnvInv, ActionInv
  <2>. QED  BY <2>1, <2>2
<1>. QED  BY <1>1, EnvFullInv, PTL DEF EnvSpec, KeyframeDistanceCountsFrames

-----------------------------------------------------------------------------
(* Frontend and wrapper implement the lifecycle the header promises: every *)
(* step of the environment is one of VoLifecycle or leaves its variables   *)
(* as they are.                                                            *)
LEMMA EnvStepIsLifecycleStep ==
  ASSUME FullInv, [EnvNext]_<<vars, envVars>>
  PROVE  [Lifecycle!Next]_(Lifecycle!vars)
<1>. USE DEF Lifecycle!Next, Lifecycle!vars
<1>0. TurnsInv /\ TrialsInv
  BY DEF FullInv, EnvInv
<1>1. CASE Construct
  BY <1>1 DEF Construct, Start, reloc, Lifecycle!Arm
<1>2. ASSUME RestartSvo PROVE Lifecycle!Restart
  BY <1>2 DEF RestartSvo, ResetSvo, ResetVisionFrontend, RelocReset, Lifecycle!Restart
<1>3. CASE ResetEnv
  BY <1>2, <1>3 DEF ResetEnv
<1>4. ASSUME NEW newSeq \in BOOLEAN, NEW kf \in BOOLEAN, NEW wanted \in Cells,
             Step(newSeq, kf, wanted)
      PROVE  [Lifecycle!Next]_(Lifecycle!vars)
  BY <1>2, <1>4 DEF Step, NewSequence, vars, request, reloc
<1>5. CASE Feed
  <2>1. CASE ended
    <3>1. /\ stage = "Paused" /\ stage' = "Initializing"
          /\ setStart /\ setStart' = FALSE /\ nTrials' = 0
      BY <1>5, <2>1, FeedBeginsOrTakes
    <3>2. nTrials = 0
      BY <1>0, <3>1 DEF TrialsInv
    <3>. QED  BY <3>1, <3>2 DEF Lifecycle!Begin
  <2>2. CASE ~ended
    BY <1>5, <2>2, FeedBeginsOrTakes
  <2>. QED  BY <2>1, <2>2
<1>6. CASE Process
  <2>1. CASE InitFrame
    BY <2>1 DEF InitFrame, InitTracks, InitCompletes, request, reloc,
       Lifecycle!Bootstrap, Lifecycle!Move
  <2>2. CASE TrackFrame
    BY <2>2 DEF TrackFrame, request, reloc
  <2>3. CASE RelocFrame
    <3>1. /\ stage = "Relocalization" /\ setStart' = setStart
          /\ stage' = (IF updateRes' = "Default" THEN "Tracking" ELSE stage)
          /\ nTrials' = (IF updateRes' = "Default" THEN 0 ELSE nTrials + 1)
      BY <2>3 DEF RelocFrame, request
    <3>2. nTrials < Lifecycle!Allowed
      BY <1>0, <2>3, <3>1 DEF TrialsInv, RelocFrame, Allowed, Lifecycle!Allowed
    <3>. QED  BY <3>1, <3>2 DEF Lifecycle!Retry, Lifecycle!Recover, Lifecycle!Move
  <2>4. CASE FinishFrame /\ GivesUp
    <3>1. /\ stage = "Relocalization" /\ stage' = "Paused" /\ nTrials' = 0
          /\ setStart' = setStart /\ pc = "finish"
      BY <1>6, <2>4, FinishGivesUpOrObserves DEF GivesUp
    <3>2. nTrials \in 1 .. Allowed /\ nTrials >= MaxTrials
      BY <1>0, <2>4, <3>1 DEF TrialsInv, GivesUp
    <3>3. nTrials = Lifecycle!Allowed
      BY <3>2, FrameHandlerAssumption DEF Allowed, Lifecycle!Allowed
    <3>. QED  BY <3>1, <3>3 DEF Lifecycle!GiveUp, Lifecycle!Move
  <2>5. CASE FinishFrame /\ ~GivesUp
    <3>1. /\ UNCHANGED nTrials /\ pc = "finish" /\ setStart' = setStart
          /\ stage' = (IF Failed THEN "Relocalization" ELSE stage)
      BY <1>6, <2>5, FinishGivesUpOrObserves
    <3>2. Failed => stage \in {"Tracking", "Relocalization"}
      BY <3>1, FullInvType
    <3>. QED  BY <3>1, <3>2 DEF Lifecycle!Lose, Lifecycle!Move
  <2>. QED  BY <1>6, <2>1, <2>2, <2>3, <2>4, <2>5 DEF Process, ProcessFrameBundle
<1>7. CASE Redo
  BY <1>2, <1>7 DEF Redo
<1>8. CASE Return
  BY <1>8, ReturnDelivers DEF vars, request, reloc
<1>9. CASE UNCHANGED <<vars, envVars>>
  BY <1>9 DEF vars, request, reloc
<1>. QED
  BY <1>1, <1>3, <1>4, <1>5, <1>6, <1>7, <1>8, <1>9 DEF EnvNext

(* The promise of the header is kept under the wrapper: sessions begin     *)
(* when asked for, a lost frontend is allowed a fixed number of images and *)
(* then pauses, and nothing but the wrapper ends a session earlier.        *)
THEOREM WrapperKeepsLifecycle == EnvSpec => KeepsLifecycle
<1>1. EnvInit => Lifecycle!Init
  BY DEF EnvInit, Init, Lifecycle!Init
<1>2. FullInv /\ [EnvNext]_<<vars, envVars>> => [Lifecycle!Next]_(Lifecycle!vars)
  BY EnvStepIsLifecycleStep
<1>. QED  BY <1>1, <1>2, EnvFullInv, PTL DEF EnvSpec, KeepsLifecycle, Lifecycle!Spec

-----------------------------------------------------------------------------
(* Towards the training loop: what it takes an environment to be.          *)
LEMMA StageInvIsPreserved ==
  ASSUME FullInv, StageInv, [EnvNext]_<<vars, envVars>>
  PROVE  StageInv'
<1>1. CASE Construct \/ ResetEnv \/ Redo \/ Return
  <2>1. phase' # "svo"
    BY <1>1 DEF Construct, ResetEnv, Redo, Return
  <2>. QED  BY <2>1 DEF StageInv
<1>2. ASSUME NEW newSeq \in BOOLEAN, NEW kf \in BOOLEAN, NEW wanted \in Cells,
             Step(newSeq, kf, wanted)
      PROVE  StageInv'
  BY <1>2 DEF Step, StageInv
<1>3. CASE Feed
  <2>1. SUFFICES ASSUME ~ended' PROVE svoStage' # "Paused" /\ stage' = svoStage'
    BY DEF StageInv
  <2>2. ~ended /\ UNCHANGED svoStage /\ phase = "feed"
    BY <1>3, <2>1, FeedBeginsOrTakes DEF returned
  <2>3. UNCHANGED stage
    BY <1>3, <2>2, FeedBeginsOrTakes
  <2>4. stage # "Paused" /\ svoStage = stage
    BY <2>2 DEF FullInv, EnvInv, CopiesInv, Running
  <2>. QED  BY <2>2, <2>3, <2>4
<1>4. CASE Process /\ ProcessFrameBundle
  <2>1. /\ phase = "svo" /\ pc = "process" /\ pc' = "finish"
        /\ UNCHANGED <<svoStage, ended>>
    BY <1>4, ProcessLeavesRequests
  <2>2. stage' = stage \/ (stage' = "Tracking" /\ ~Failed')
    BY <1>4 DEF ProcessFrameBundle, InitFrame, InitTracks, InitCompletes, TrackFrame,
       RelocFrame, Failed
  <2>. QED  BY <2>1, <2>2 DEF StageInv
<1>5. CASE Process /\ FinishFrame
  <2>1. phase' # "svo"
    BY <1>5, FinishGivesUpOrObserves
  <2>. QED  BY <2>1 DEF StageInv
<1>6. CASE UNCHANGED <<vars, envVars>>
  BY <1>6 DEF StageInv, Failed, vars, envVars, returned
<1>. QED
  BY <1>1, <1>2, <1>3, <1>4, <1>5, <1>6 DEF EnvNext, Process

(* An image is one step of the loop's environment when it is finished.     *)
LEMMA FinishIsImage ==
  ASSUME FullInv, StageInv, Process, FinishFrame
  PROVE  ForLoop!Image
<1>0. TurnsInv /\ TrialsInv
  BY DEF FullInv, EnvInv
<1>1. /\ phase = "svo" /\ phase' = "deliver" /\ pc = "finish"
      /\ UNCHANGED <<call, svoStage, prevValid, ended>>
  BY FinishGivesUpOrObserves
<1>2. Turn = "image" /\ Turn' = "served" /\ UNCHANGED prevValid
  BY <1>1 DEF Turn
<1>3. Done' <=> stage' = "Paused" /\ call' = "step"
  <2>1. FullInv'
    BY FullInvIsPreserved DEF EnvNext
  <2>2. pc' = "idle"
    BY FinishGivesUpOrObserves
  <2>3. stage' = "Paused" <=> lastFrame' = NoId
    BY <2>1, <2>2 DEF FullInv, FrontendInv, LastFrameInv, PausedIffNoLastFrame
  <2>. QED  BY <2>3 DEF Done
<1>4. /\ GivesUp => ~ended /\ stage = "Relocalization" /\ stage' = "Paused"
      /\ ~GivesUp => stage' = (IF Failed THEN "Relocalization" ELSE stage)
      /\ stage # "Paused"
  BY <1>1, FinishGivesUpOrObserves, FullInvType DEF GivesUp
<1>5. SeenByLoop' = IF stage' = "Paused" THEN "GaveUp" ELSE stage'
  BY <1>1 DEF SeenByLoop
<1>6. CASE ended
  <2>1. SeenByLoop = "Started" /\ stage = "Initializing"
    BY <1>0, <1>1, <1>6 DEF SeenByLoop, TurnsInv
  <2>2. stage' = "Initializing"
    BY <1>1, <1>4, <1>6, <2>1, FullInvType
  <2>3. EndsEpisode /\ EndsEpisode' = TRUE
    BY <1>1, <1>6 DEF EndsEpisode
  <2>. QED
    BY <1>2, <1>5, <2>1, <2>2, <2>3 DEF ForLoop!Image, ForLoop!Move, ForLoop!Follows
<1>7. CASE ~ended
  <2>1. SeenByLoop = svoStage /\ call = "step"
    BY <1>0, <1>1, <1>7 DEF SeenByLoop, TurnsInv
  <2>2. svoStage # "Paused" /\ (stage = svoStage \/ (stage = "Tracking" /\ ~Failed))
    BY <1>1, <1>7 DEF StageInv
  <2>3. Failed => stage \in {"Tracking", "Relocalization"}
    BY <1>1, FullInvType
  <2>4. <<SeenByLoop, SeenByLoop'>> \in ForLoop!Follows
    <3>1. stage \in {"Initializing", "Tracking", "Relocalization"}
          /\ svoStage \in {"Initializing", "Tracking", "Relocalization"}
      BY <1>4, <2>2, FullInvType DEF Stages, FullInv, EnvInv, EnvTypeOK
    <3>2. CASE GivesUp
      <4>1. svoStage = "Relocalization" /\ SeenByLoop' = "GaveUp"
        BY <1>4, <1>5, <2>2, <3>2
      <4>. QED  BY <2>1, <4>1 DEF ForLoop!Follows
    <3>3. CASE ~GivesUp /\ Failed
      <4>1. svoStage = stage /\ stage' = "Relocalization"
        BY <1>4, <2>2, <3>3
      <4>2. SeenByLoop' = "Relocalization" /\ stage \in {"Tracking", "Relocalization"}
        BY <1>5, <2>3, <3>3, <4>1
      <4>. QED  BY <2>1, <4>1, <4>2 DEF ForLoop!Follows
    <3>4. CASE ~GivesUp /\ ~Failed
      <4>1. SeenByLoop' = stage
        BY <1>4, <1>5, <3>4
      <4>2. svoStage = stage \/ stage = "Tracking"
        BY <2>2
      <4>. QED  BY <2>1, <3>1, <4>1, <4>2 DEF ForLoop!Follows
    <3>. QED  BY <3>2, <3>3, <3>4
  <2>5. Done' <=> SeenByLoop' = "GaveUp"
    BY <1>1, <1>3, <1>4, <1>5, <2>1, FullInvType DEF Stages
  <2>6. EndsEpisode' = (EndsEpisode \/ SeenByLoop' = "GaveUp")
    BY <1>1, <1>7, <2>5 DEF EndsEpisode
  <2>. QED
    BY <1>2, <2>4, <2>6 DEF ForLoop!Image, ForLoop!Move
<1>. QED  BY <1>6, <1>7

LEMMA EnvStepIsLoopStep ==
  ASSUME FullInv, StageInv, [EnvNext]_<<vars, envVars>>
  PROVE  [ForLoop!Next]_(ForLoop!vars)
<1>. USE DEF ForLoop!Next, ForLoop!vars
<1>0. TurnsInv /\ CopiesInv
  BY DEF FullInv, EnvInv
<1>1. CASE Construct
  <2>1. phase = "construct" /\ phase' = "new" /\ UNCHANGED <<ended, prevValid>>
    BY <1>1 DEF Construct, returned
  <2>2. UNCHANGED <<Turn, SeenByLoop>>
    BY <2>1 DEF Turn, SeenByLoop
  <2>3. UNCHANGED EndsEpisode
    BY <2>1 DEF EndsEpisode
  <2>. QED  BY <2>1, <2>2, <2>3
<1>2. CASE ResetEnv
  <2>1. /\ phase \in {"new", "ready"} /\ phase' = "feed" /\ ended' = TRUE
        /\ UNCHANGED prevValid
    BY <1>2 DEF ResetEnv
  <2>2. Turn = "ready" /\ Turn' = "image" /\ SeenByLoop' = "Started" /\ EndsEpisode' = TRUE
    BY <2>1 DEF Turn, SeenByLoop, EndsEpisode
  <2>. QED  BY <2>1, <2>2 DEF ForLoop!Reset, ForLoop!Move
<1>3. ASSUME NEW newSeq \in BOOLEAN, NEW kf \in BOOLEAN, NEW wanted \in Cells,
             Step(newSeq, kf, wanted)
      PROVE  ForLoop!Step
  <2>1. /\ phase = "ready" /\ phase' = "feed" /\ ended' = newSeq
        /\ UNCHANGED prevValid
    BY <1>3 DEF Step
  <2>2. stage = SeenByLoop /\ svoStage = stage /\ stage # "Started"
    BY <1>0, <2>1, FullInvType DEF SeenByLoop, CopiesInv, Running, Stages
  <2>3. Turn = "ready" /\ Turn' = "image" /\ EndsEpisode' = newSeq
    BY <2>1 DEF Turn, EndsEpisode
  <2>4. SeenByLoop' = IF newSeq THEN "Started" ELSE SeenByLoop
    BY <1>3, <2>1, <2>2 DEF SeenByLoop, Step
  <2>. QED  BY <2>1, <2>2, <2>3, <2>4 DEF ForLoop!Step, ForLoop!Move
<1>4. CASE Feed
  <2>1. phase = "feed" /\ phase' = "svo" /\ UNCHANGED <<ended, svoStage, prevValid>>
    BY <1>4, FeedBeginsOrTakes DEF returned
  <2>2. UNCHANGED <<Turn, SeenByLoop>>
    BY <2>1 DEF Turn, SeenByLoop
  <2>3. UNCHANGED EndsEpisode
    BY <2>1 DEF EndsEpisode
  <2>. QED  BY <2>1, <2>2, <2>3
<1>5. CASE Process /\ ProcessFrameBundle
  <2>1. phase = "svo" /\ phase' = "svo" /\ UNCHANGED <<ended, svoStage, prevValid>>
    BY <1>5, ProcessLeavesRequests
  <2>2. UNCHANGED <<Turn, SeenByLoop>>
    BY <2>1 DEF Turn, SeenByLoop
  <2>3. UNCHANGED EndsEpisode
    BY <2>1 DEF EndsEpisode
  <2>. QED  BY <2>1, <2>2, <2>3
<1>6. CASE Process /\ FinishFrame
  BY <1>6, FinishIsImage
<1>7. CASE Redo
  <2>1. /\ phase = "deliver" /\ Done /\ phase' = "feed" /\ ended' = TRUE
        /\ UNCHANGED prevValid
    BY <1>7 DEF Redo
  <2>2. stage = "Paused"
    BY <1>0, <2>1, FullInvType DEF TurnsInv, Done
  <2>3. /\ Turn = "served" /\ Turn' = "image"
        /\ SeenByLoop = "GaveUp" /\ SeenByLoop' = "Started"
    BY <2>1, <2>2 DEF Turn, SeenByLoop
  <2>4. EndsEpisode' = EndsEpisode
    BY <2>1 DEF EndsEpisode
  <2>. QED  BY <2>1, <2>3, <2>4 DEF ForLoop!Redo, ForLoop!Move
<1>8. CASE Return
  <2>1. /\ phase = "deliver" /\ phase' = "ready" /\ UNCHANGED <<stage, ended>>
        /\ stage # "Paused" /\ prevValid' = (stage = "Tracking") /\ ~Done
    BY <1>8, ReturnDelivers DEF vars, Return
  <2>2. /\ Turn = "served" /\ Turn' = "ready"
        /\ SeenByLoop = stage /\ SeenByLoop' = stage /\ stage # "GaveUp"
    BY <2>1, FullInvType DEF Turn, SeenByLoop, Stages
  <2>3. EndsEpisode' = EndsEpisode
    BY <2>1 DEF EndsEpisode
  <2>. QED  BY <2>1, <2>2, <2>3 DEF ForLoop!Return, ForLoop!Move
<1>9. CASE UNCHANGED <<vars, envVars>>
  <2>1. UNCHANGED <<phase, call, ended, svoStage, prevValid, stage, lastFrame>>
    BY <1>9 DEF vars, envVars, frames, returned
  <2>2. UNCHANGED <<Turn, SeenByLoop, EndsEpisode>>
    BY <2>1 DEF Turn, SeenByLoop, EndsEpisode, Done
  <2>. QED  BY <2>1, <2>2
<1>. QED
  BY <1>1, <1>2, <1>3, <1>4, <1>5, <1>6, <1>7, <1>8, <1>9 DEF EnvNext, Process

(* Frontend and wrapper are what TrainingLoop takes an environment to be:  *)
(* its stages come in that order, the episode ends exactly when a session  *)
(* began, and a session that gave up is replaced before the call returns.  *)
THEOREM EnvKeepsLoopEnv == EnvSpec => KeepsLoopEnv
<1>1. EnvInit => ForLoop!Init
  BY DEF EnvInit, ForLoop!Init, Turn, SeenByLoop, EndsEpisode
<1>2. EnvInit => StageInv
  BY DEF EnvInit, StageInv
<1>3. FullInv /\ StageInv /\ [EnvNext]_<<vars, envVars>> => StageInv'
  BY StageInvIsPreserved
<1>4. FullInv /\ StageInv /\ [EnvNext]_<<vars, envVars>>
        => [ForLoop!Next]_(ForLoop!vars)
  BY EnvStepIsLoopStep
<1>. QED
  BY <1>1, <1>2, <1>3, <1>4, EnvFullInv, PTL DEF EnvSpec, KeepsLoopEnv, ForLoop!Spec
=============================================================================
