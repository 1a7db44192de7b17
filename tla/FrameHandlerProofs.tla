-------------------------- MODULE FrameHandlerProofs --------------------------
(***************************************************************************)
(* Theorems about the frontend of FrameHandler, for every limit on the     *)
(* number of keyframes and on relocalization trials, every set of cell     *)
(* sizes and any number of frames.                                         *)
(***************************************************************************)
EXTENDS FrameHandler, FiniteSetTheorems, WellFoundedInduction, TLAPS

-----------------------------------------------------------------------------
(* Min of a non-empty set of frame ids is one of them: what the search for *)
(* the first keyframe in addImageBundle() relies on.                       *)
LEMMA MinIsMember ==
  ASSUME NEW S \in SUBSET Nat, S # {}
  PROVE  Min(S) \in S /\ \A y \in S : Min(S) <= y
<1>1. \E x \in S : \A y \in S : ~(<<y, x>> \in OpToRel(<, Nat))
  BY WFMin, NatLessThanWellFounded
<1>2. \A x, y \in Nat : <<y, x>> \in OpToRel(<, Nat) <=> y < x
  BY DEF OpToRel
<1>3. PICK x \in S : \A y \in S : ~(<<y, x>> \in OpToRel(<, Nat))
  BY <1>1
<1>4. ASSUME NEW y \in S PROVE x <= y
  <2>1. x \in Nat /\ y \in Nat
    OBVIOUS
  <2>2. ~(<<y, x>> \in OpToRel(<, Nat))
    BY <1>3
  <2>3. ~(y < x)
    BY <2>1, <2>2, <1>2
  <2>. QED  BY <2>1, <2>3
<1>. QED  BY <1>4 DEF Min

-----------------------------------------------------------------------------
LEMMA InitEstablishesIInv == Init => IInv
<1>. SUFFICES ASSUME Init PROVE IInv
  OBVIOUS
<1>. USE FrameHandlerAssumption DEF Init, NoId, NoOutput, FrameIds
<1>1. TypeOK
  <2>1. FlagsOK
    BY Zenon DEF FlagsOK
  <2>2. StagesOK
    BY DEF StagesOK, Stages, InitResults
  <2>3. FramesOK
    BY DEF FramesOK
  <2>4. out \in Outputs
    BY DEF Outputs, Stages
  <2>. QED  BY <2>1, <2>2, <2>3, <2>4 DEF TypeOK
<1>2. KeyframeToRelocalizeTo
  BY DEF KeyframeToRelocalizeTo, Failed
<1>3. NothingSurvivesReset
  BY DEF NothingSurvivesReset, Held
<1>. QED  BY <1>1, <1>2, <1>3 DEF IInv

-----------------------------------------------------------------------------
LEMMA IInvIsPreserved == IInv /\ [Next]_vars => IInv'
<1>. SUFFICES ASSUME IInv, [Next]_vars PROVE IInv'
  OBVIOUS
<1>. USE FrameHandlerAssumption
     DEF NoId, request, frames, map, reloc, init, action
<1>0. /\ FlagsOK /\ StagesOK /\ FramesOK /\ out \in Outputs
      /\ KeyframeToRelocalizeTo /\ NothingSurvivesReset
      /\ (pc # "idle" => newFrame # NoId)
      /\ sessionStart <= addedFrames
  BY DEF IInv, TypeOK
<1>1. CASE Start \/ Reset
  <2>1. FlagsOK'
    BY Zenon, <1>0, <1>1 DEF FlagsOK, Start, Reset
  <2>2. StagesOK' /\ FramesOK' /\ (out \in Outputs)'
    BY <1>0, <1>1 DEF StagesOK, FramesOK, FrameIds, Start, Reset
  <2>3. KeyframeToRelocalizeTo' /\ NothingSurvivesReset'
    BY <1>0, <1>1 DEF KeyframeToRelocalizeTo, Failed, NothingSurvivesReset, Held,
       Start, Reset
  <2>4. (pc # "idle" => newFrame # NoId)' /\ (sessionStart <= addedFrames)'
    BY <1>0, <1>1 DEF Start, Reset
  <2>. QED  BY <2>1, <2>2, <2>3, <2>4 DEF IInv, TypeOK
<1>2. CASE ResetSvo(FALSE)
  <2>. USE <1>2 DEF ResetSvo
  <2>1. FlagsOK'
    BY Zenon, <1>0 DEF FlagsOK, ResetVisionFrontend, LastFrameReset
  <2>2. StagesOK'
    BY <1>0 DEF StagesOK, Stages, ResetVisionFrontend
  <2>3. FramesOK' /\ NothingSurvivesReset'
    BY <1>0 DEF FramesOK, FrameIds, NothingSurvivesReset, Held, ResetVisionFrontend,
       MapReset, InitializerReset, RelocReset, LastFrameReset
  <2>4. KeyframeToRelocalizeTo'
    BY <1>0 DEF KeyframeToRelocalizeTo, Failed, ResetVisionFrontend
  <2>5. (pc # "idle" => newFrame # NoId)' /\ (sessionStart <= addedFrames)'
        /\ (out \in Outputs)'
    BY <1>0
  <2>. QED  BY <2>1, <2>2, <2>3, <2>4, <2>5 DEF IInv, TypeOK
<1>3. ASSUME NEW fresh \in BOOLEAN, NEW rl \in BOOLEAN, NEW newKf \in BOOLEAN,
             NEW wanted \in Cells, AddImageBundle(fresh, rl, newKf, wanted)
      PROVE  IInv'
  <2>. DEFINE Taken == addedFrames' = addedFrames + 1
  <2>1. FlagsOK'
    BY Zenon, <1>0, <1>3 DEF FlagsOK, AddImageBundle, DropFrame, BeginSession,
       IgnoreFrame, TakeFrame, ResetVisionFrontend, LastFrameReset
  <2>2. StagesOK' /\ (out \in Outputs)'
    BY <1>0, <1>3 DEF StagesOK, Stages, Outputs, NoOutput, AddImageBundle,
       DropFrame, BeginSession, IgnoreFrame, TakeFrame, ResetVisionFrontend, NextCell
  <2>3. ASSUME DropFrame, pc = "idle" PROVE IInv'
    <3>1. FramesOK'
      BY <1>0, <2>3 DEF FramesOK, FrameIds, DropFrame
    <3>2. KeyframeToRelocalizeTo' /\ NothingSurvivesReset'
      BY <1>0, <2>3 DEF KeyframeToRelocalizeTo, NothingSurvivesReset, Held, DropFrame
    <3>3. (pc # "idle" => newFrame # NoId)' /\ (sessionStart <= addedFrames)'
      BY <1>0, <2>3 DEF DropFrame
    <3>. QED  BY <2>1, <2>2, <3>1, <3>2, <3>3 DEF IInv, TypeOK
  <2>4. ASSUME BeginSession, Taken PROVE IInv'
    <3>. USE <2>4 DEF BeginSession
    <3>1. FramesOK'
      BY <1>0 DEF FramesOK, FrameIds, ResetVisionFrontend, MapReset,
         InitializerReset, RelocReset, LastFrameReset
    <3>2. KeyframeToRelocalizeTo'
      BY <1>0 DEF KeyframeToRelocalizeTo, ResetVisionFrontend
    <3>3. NothingSurvivesReset'
      BY <1>0 DEF NothingSurvivesReset, Held, FramesOK, ResetVisionFrontend,
         MapReset, InitializerReset, RelocReset, LastFrameReset
    <3>4. (pc # "idle" => newFrame # NoId)' /\ (sessionStart <= addedFrames)'
      BY <1>0 DEF FramesOK, ResetVisionFrontend
    <3>. QED  BY <2>1, <2>2, <3>1, <3>2, <3>3, <3>4 DEF IInv, TypeOK
  <2>5. ASSUME IgnoreFrame, Taken, pc = "idle" PROVE IInv'
    <3>1. FramesOK'
      BY <1>0, <2>5 DEF FramesOK, FrameIds, IgnoreFrame
    <3>2. KeyframeToRelocalizeTo' /\ NothingSurvivesReset'
      BY <1>0, <2>5 DEF KeyframeToRelocalizeTo, NothingSurvivesReset, Held,
         FramesOK, FrameIds, IgnoreFrame
    <3>3. (pc # "idle" => newFrame # NoId)' /\ (sessionStart <= addedFrames)'
      BY <1>0, <2>5 DEF FramesOK, IgnoreFrame
    <3>. QED  BY <2>1, <2>2, <3>1, <3>2, <3>3 DEF IInv, TypeOK
  <2>6. ASSUME TakeFrame, Taken PROVE IInv'
    <3>1. FramesOK'
      BY <1>0, <2>6 DEF FramesOK, FrameIds, TakeFrame
    <3>2. KeyframeToRelocalizeTo' /\ NothingSurvivesReset'
      BY <1>0, <2>6 DEF KeyframeToRelocalizeTo, NothingSurvivesReset, Held,
         FramesOK, FrameIds, TakeFrame
    <3>3. (pc # "idle" => newFrame # NoId)' /\ (sessionStart <= addedFrames)'
      BY <1>0, <2>6 DEF FramesOK, TakeFrame
    <3>. QED  BY <2>1, <2>2, <3>1, <3>2, <3>3 DEF IInv, TypeOK
  <2>. QED  BY <1>3, <2>3, <2>4, <2>5, <2>6 DEF AddImageBundle
<1>4. CASE InitFrame
  <2>. USE <1>4 DEF InitFrame, InitTracks, InitCompletes, RelatesFrames
  <2>1. FlagsOK'
    BY Zenon, <1>0 DEF FlagsOK
  <2>2. StagesOK'
    BY <1>0 DEF StagesOK, Stages, InitResults
  <2>3. FramesOK'
    BY <1>0 DEF FramesOK, FrameIds
  <2>4. KeyframeToRelocalizeTo'
    BY <1>0 DEF KeyframeToRelocalizeTo, Failed
  <2>5. NothingSurvivesReset'
    BY <1>0 DEF NothingSurvivesReset, Held
  <2>6. (pc # "idle" => newFrame # NoId)' /\ (sessionStart <= addedFrames)'
        /\ (out \in Outputs)'
    BY <1>0
  <2>. QED  BY <2>1, <2>2, <2>3, <2>4, <2>5, <2>6 DEF IInv, TypeOK
<1>5. ASSUME NEW followsKf, ProcessFrame(followsKf), newFrame \in FrameIds
      PROVE  /\ updateRes' \in {"Default", "Keyframe", "Failure"}
             /\ quality' \in {"Insufficient", "Good"}
             /\ \/ UNCHANGED map
                \/ /\ keyframes' \subseteq keyframes \cup {newFrame}
                   /\ newFrame \in keyframes' /\ lastKf' = newFrame
  BY <1>0, <1>5 DEF StagesOK, ProcessFrame, TooFewFeatures, FeatureDrop,
     TracksWithoutKeyframe, TracksAsKeyframe
<1>6. CASE TrackFrame
  <2>. USE <1>6 DEF TrackFrame
  <2>1. newFrame \in FrameIds
    BY <1>0 DEF FramesOK
  <2>2. FlagsOK'
    BY Zenon, <1>0 DEF FlagsOK
  <2>3. StagesOK'
    BY <1>0, <1>5, <2>1 DEF StagesOK
  <2>4. FramesOK'
    BY <1>0, <1>5, <2>1 DEF FramesOK, FrameIds
  <2>5. KeyframeToRelocalizeTo'
    BY <1>0, <1>5, <2>1 DEF KeyframeToRelocalizeTo
  <2>6. NothingSurvivesReset'
    BY <1>0, <1>5, <2>1 DEF NothingSurvivesReset, Held
  <2>7. (pc # "idle" => newFrame # NoId)' /\ (sessionStart <= addedFrames)'
        /\ (out \in Outputs)'
    BY <1>0
  <2>. QED  BY <2>2, <2>3, <2>4, <2>5, <2>6, <2>7 DEF IInv, TypeOK
<1>7. CASE RelocFrame
  <2>1. newFrame \in FrameIds
    BY <1>0, <1>7 DEF FramesOK, RelocFrame
  <2>2. ProcessFrame(FALSE)
    BY <1>7 DEF RelocFrame, ProcessFrame
  <2>3. /\ stage = "Relocalization" /\ stage' \in {"Tracking", "Relocalization"}
        /\ pc' = "finish"
    BY <1>7 DEF RelocFrame
  <2>4. /\ nTrials' \in Nat
        /\ lastFrame' \in {lastFrame, relocKf}
    <3>1. nTrials' \in Nat
      BY <1>0, <1>7 DEF RelocFrame, FramesOK
    <3>2. lastFrame' \in {lastFrame, relocKf}
      BY <1>7 DEF RelocFrame
    <3>. QED  BY <3>1, <3>2
  <2>5. UNCHANGED <<newFrame, addedFrames, relocKf, initRef, sessionStart, out>>
    BY <1>7 DEF RelocFrame
  <2>6. FlagsOK'
    BY Zenon, <1>0, <1>7 DEF FlagsOK, RelocFrame
  <2>7. StagesOK'
    BY <1>0, <1>5, <1>7, <2>1, <2>2 DEF StagesOK, Stages, RelocFrame
  <2>8. FramesOK'
    BY <1>0, <1>5, <2>1, <2>2, <2>4, <2>5 DEF FramesOK, FrameIds
  <2>9. KeyframeToRelocalizeTo'
    <3>1. lastKf \in keyframes
      BY <1>0, <2>3 DEF KeyframeToRelocalizeTo
    <3>2. \/ keyframes' = keyframes /\ lastKf' = lastKf
          \/ newFrame \in keyframes' /\ lastKf' = newFrame
      BY <1>5, <2>1, <2>2
    <3>3. lastKf' \in keyframes'
      BY <3>1, <3>2
    <3>. QED  BY <2>3, <3>3 DEF KeyframeToRelocalizeTo
  <2>10. NothingSurvivesReset'
    BY <1>0, <1>5, <2>1, <2>2, <2>3, <2>4, <2>5 DEF NothingSurvivesReset, Held
  <2>11. (pc # "idle" => newFrame # NoId)' /\ (sessionStart <= addedFrames)'
         /\ (out \in Outputs)'
    <3>1. newFrame # NoId
      BY <1>0, <1>7 DEF RelocFrame
    <3>. QED  BY <1>0, <2>5, <3>1
  <2>. QED  BY <2>6, <2>7, <2>8, <2>9, <2>10, <2>11 DEF IInv, TypeOK
<1>8. CASE FinishFrame
  <2>. USE <1>8 DEF FinishFrame
  <2>1. FlagsOK'
    BY Zenon, <1>0 DEF FlagsOK, ResetVisionFrontend, LastFrameReset
  <2>2. StagesOK'
    BY <1>0 DEF StagesOK, Stages, ResetVisionFrontend
  <2>3. LastKeyframe \in FrameIds \cup {NoId}
    BY <1>0 DEF LastKeyframe, FramesOK
  <2>4. (out \in Outputs)'
    <3>1. ASSUME NEW s \in Stages PROVE Observation(s) \in Outputs
      <4>1. newFrame \in Int /\ LastKeyframe \in Int
        BY <1>0, <2>3 DEF FramesOK, FrameIds
      <4>2. ASSUME ~(Cardinality(keyframes) < 2) PROVE Min(keyframes) \in Int
        <5>1. keyframes # {}
          BY <4>2, FS_EmptySet
        <5>2. keyframes \in SUBSET Nat
          BY <1>0 DEF FramesOK, FrameIds
        <5>3. Min(keyframes) \in keyframes
          BY ONLY <5>1, <5>2, MinIsMember
        <5>4. Min(keyframes) \in Nat
          BY ONLY Zenon, <5>2, <5>3
        <5>. QED  BY ONLY <5>4
      <4>. QED  BY <4>1, <4>2 DEF Observation, Outputs
    <3>2. NoOutput \in Outputs
      BY DEF NoOutput, Outputs
    <3>3. stage' \in Stages
      BY <2>2 DEF StagesOK
    <3>. QED  BY <3>1, <3>2, <3>3
  <2>5. CASE setReset \/ GivesUp
    <3>1. FramesOK' /\ NothingSurvivesReset'
      BY <1>0, <2>5 DEF FramesOK, FrameIds, NothingSurvivesReset, Held,
         ResetVisionFrontend, MapReset, InitializerReset, RelocReset, LastFrameReset
    <3>2. KeyframeToRelocalizeTo'
      BY <1>0, <2>5 DEF KeyframeToRelocalizeTo, ResetVisionFrontend
    <3>3. (pc # "idle" => newFrame # NoId)' /\ (sessionStart <= addedFrames)'
      BY <1>0
    <3>. QED  BY <2>1, <2>2, <2>4, <3>1, <3>2, <3>3 DEF IInv, TypeOK
  <2>6. CASE ~(setReset \/ GivesUp)
    <3>1. FramesOK'
      BY <1>0, <2>3, <2>6 DEF FramesOK, FrameIds
    <3>2. KeyframeToRelocalizeTo'
      BY <1>0, <2>6 DEF KeyframeToRelocalizeTo, Failed
    <3>3. NothingSurvivesReset'
      <4>1. stage # "Paused" /\ stage' # "Paused"
        BY <1>0, <2>6 DEF NothingSurvivesReset, Held
      <4>2. LastKeyframe \in {lastKf, NoId}
        BY DEF LastKeyframe
      <4>3. Held' \subseteq Held
        BY <2>6, <4>2 DEF Held
      <4>. QED  BY <1>0, <4>1, <4>3 DEF NothingSurvivesReset
    <3>4. (pc # "idle" => newFrame # NoId)' /\ (sessionStart <= addedFrames)'
      BY <1>0
    <3>. QED  BY <2>1, <2>2, <2>4, <3>1, <3>2, <3>3, <3>4 DEF IInv, TypeOK
  <2>. QED  BY <2>5, <2>6
<1>9. CASE UNCHANGED vars
  <2>. USE <1>9 DEF vars
  <2>1. FlagsOK'
    BY Zenon, <1>0 DEF FlagsOK
  <2>2. StagesOK' /\ FramesOK' /\ (out \in Outputs)'
    BY <1>0 DEF StagesOK, FramesOK, FrameIds
  <2>3. KeyframeToRelocalizeTo' /\ NothingSurvivesReset'
    BY <1>0 DEF KeyframeToRelocalizeTo, Failed, NothingSurvivesReset, Held
  <2>4. (pc # "idle" => newFrame # NoId)' /\ (sessionStart <= addedFrames)'
    BY <1>0
  <2>. QED  BY <2>1, <2>2, <2>3, <2>4 DEF IInv, TypeOK
<1>. QED
  BY <1>1, <1>2, <1>3, <1>4, <1>6, <1>7, <1>8, <1>9 DEF Next, ProcessFrameBundle

-----------------------------------------------------------------------------
(* IInv holds in every state of every behaviour: the base of the theorems  *)
(* below.                                                                  *)
THEOREM InductiveInvariant == Spec => []IInv
<1>1. Init => IInv
  BY InitEstablishesIInv
<1>2. IInv /\ [Next]_vars => IInv'
  BY IInvIsPreserved
<1>. QED  BY <1>1, <1>2, PTL DEF Spec

(* Every variable of the handler keeps its type: in particular every id it *)
(* keeps is that of a frame it created, since reset_svo() last restarted   *)
(* the count.                                                              *)
THEOREM TypeCorrect == Spec => []TypeOK
<1>1. IInv => TypeOK
  BY DEF IInv
<1>. QED  BY <1>1, InductiveInvariant, PTL

(* Relocalization always has a keyframe to go to: CHECK_NOTNULL on         *)
(* reloc_keyframe_ in addFrameBundle() cannot fire, and the check on the   *)
(* stage of a failed frame before it cannot either.                        *)
THEOREM AlwaysKeyframeToRelocalizeTo == Spec => []KeyframeToRelocalizeTo
<1>1. IInv => KeyframeToRelocalizeTo
  BY DEF IInv
<1>. QED  BY <1>1, InductiveInvariant, PTL

(* A reset, immediate or requested while a frame is processed, leaves no   *)
(* frame of the earlier session behind in the map, in the initializer, in  *)
(* relocalization or as last frame.                                        *)
THEOREM NothingEverSurvivesReset == Spec => []NothingSurvivesReset
<1>1. IInv => NothingSurvivesReset
  BY DEF IInv
<1>. QED  BY <1>1, InductiveInvariant, PTL

-----------------------------------------------------------------------------
(* The second invariant: what a null last frame means, and where the       *)
(* reference of the initializer lies.                                      *)
LEMMA LastFrameInvIsPreserved == IInv /\ LastFrameInv /\ [Next]_vars => LastFrameInv'
<1>. SUFFICES ASSUME IInv, LastFrameInv, [Next]_vars PROVE LastFrameInv'
  OBVIOUS
<1>. USE DEF NoId, request, frames, map, reloc, init, action
<1>0. /\ FramesOK /\ PausedIffNoLastFrame /\ ReferenceIsBehind
      /\ KeyframeToRelocalizeTo
      /\ pc # "idle" => newFrame # NoId /\ stage # "Paused"
  BY DEF IInv, TypeOK, LastFrameInv, NothingSurvivesReset, Held
<1>1. CASE Start \/ Reset
  BY <1>0, <1>1 DEF LastFrameInv, PausedIffNoLastFrame, ReferenceIsBehind, Start, Reset
<1>2. CASE ResetSvo(FALSE)
  BY <1>0, <1>2 DEF LastFrameInv, PausedIffNoLastFrame, ReferenceIsBehind, ResetSvo,
     ResetVisionFrontend, InitializerReset, LastFrameReset
<1>3. ASSUME NEW fresh \in BOOLEAN, NEW rl \in BOOLEAN, NEW newKf \in BOOLEAN,
             NEW wanted \in Cells, AddImageBundle(fresh, rl, newKf, wanted)
      PROVE  LastFrameInv'
  <2>1. CASE DropFrame \/ IgnoreFrame
    <3>1. UNCHANGED <<stage, lastFrame, initRef>> /\ pc' = pc /\ pc = "idle"
      BY <1>3, <2>1 DEF AddImageBundle, DropFrame, IgnoreFrame
    <3>. QED  BY <1>0, <3>1 DEF LastFrameInv, PausedIffNoLastFrame, ReferenceIsBehind
  <2>2. CASE BeginSession
    BY <2>2 DEF LastFrameInv, PausedIffNoLastFrame, ReferenceIsBehind, BeginSession,
       ResetVisionFrontend, InitializerReset
  <2>3. CASE TakeFrame
    <3>1. /\ UNCHANGED <<stage, lastFrame, initRef>> /\ pc = "idle"
          /\ pc' = "process" /\ newFrame' = addedFrames
      BY <1>3, <2>3 DEF AddImageBundle, TakeFrame
    <3>2. lastFrame < addedFrames
      BY <1>0 DEF FramesOK, FrameIds
    <3>. QED
      BY <1>0, <3>1, <3>2 DEF LastFrameInv, PausedIffNoLastFrame, ReferenceIsBehind
  <2>. QED  BY <1>3, <2>1, <2>2, <2>3 DEF AddImageBundle
<1>4. CASE InitFrame
  <2>1. initRef' # NoId => initRef' \in {newFrame, initRef} /\ stage' = stage
    BY <1>4 DEF InitFrame, InitTracks, InitCompletes
  <2>2. /\ pc = "process" /\ pc' = "finish" /\ newFrame' = newFrame
        /\ stage = "Initializing"
    BY <1>4 DEF InitFrame
  <2>3. initRef' # NoId => initRef' <= newFrame
    BY <1>0, <2>1, <2>2 DEF ReferenceIsBehind, FramesOK, FrameIds
  <2>. QED
    BY <2>1, <2>2, <2>3 DEF LastFrameInv, PausedIffNoLastFrame, ReferenceIsBehind
<1>5. CASE TrackFrame \/ RelocFrame
  <2>1. /\ stage # "Initializing" /\ initRef' = initRef /\ pc' = "finish"
    BY <1>5 DEF TrackFrame, RelocFrame
  <2>. QED
    BY <1>0, <2>1 DEF LastFrameInv, PausedIffNoLastFrame, ReferenceIsBehind
<1>6. CASE FinishFrame
  <2>1. CASE setReset \/ GivesUp
    BY <1>6, <2>1 DEF LastFrameInv, PausedIffNoLastFrame, ReferenceIsBehind, FinishFrame,
       ResetVisionFrontend, InitializerReset, LastFrameReset
  <2>2. CASE ~(setReset \/ GivesUp)
    <3>1. /\ pc = "finish" /\ pc' = "idle"
          /\ stage' = IF Failed THEN "Relocalization" ELSE stage
          /\ lastFrame' = newFrame /\ initRef' = initRef
      BY <1>6, <2>2 DEF FinishFrame
    <3>2. Failed => stage # "Initializing"
      BY <1>0, <3>1 DEF KeyframeToRelocalizeTo
    <3>. QED
      BY <1>0, <3>1, <3>2 DEF LastFrameInv, PausedIffNoLastFrame, ReferenceIsBehind
  <2>. QED  BY <2>1, <2>2
<1>7. CASE UNCHANGED vars
  BY <1>0, <1>7 DEF vars, LastFrameInv, PausedIffNoLastFrame, ReferenceIsBehind
<1>. QED
  BY <1>1, <1>2, <1>3, <1>4, <1>5, <1>6, <1>7 DEF Next, ProcessFrameBundle

(* Outside of the frames themselves the last frame exists whenever code    *)
(* follows it unchecked, and the initializer's reference is behind it.     *)
THEOREM LastFrameInvHolds == Spec => []LastFrameInv
<1>1. Init => LastFrameInv
  BY DEF Init, LastFrameInv, PausedIffNoLastFrame, ReferenceIsBehind
<1>2. IInv /\ LastFrameInv /\ [Next]_vars => LastFrameInv'
  BY LastFrameInvIsPreserved
<1>. QED  BY <1>1, <1>2, InductiveInvariant, PTL DEF Spec

(* Between calls the last frame is null exactly when the handler is        *)
(* paused: SvoEnv::step() may take the one for the other.                  *)
THEOREM AlwaysPausedIffNoLastFrame == Spec => []PausedIffNoLastFrame
<1>1. LastFrameInv => PausedIffNoLastFrame
  BY DEF LastFrameInv
<1>. QED  BY <1>1, LastFrameInvHolds, PTL

(* Whenever the initializer may complete, the last frame exists and lies   *)
(* between its reference and the new frame: lastFrameUnsafe() in           *)
(* processFirstFrame() never dereferences null.                            *)
THEOREM AlwaysInitializerHasPredecessor == Spec => []InitializerHasPredecessor
<1>1. LastFrameInv => InitializerHasPredecessor
  BY DEF LastFrameInv, ReferenceIsBehind, InitializerHasPredecessor
<1>. QED  BY <1>1, LastFrameInvHolds, PTL
=============================================================================
