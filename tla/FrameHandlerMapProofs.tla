------------------------- MODULE FrameHandlerMapProofs -------------------------
(***************************************************************************)
(* Theorems about the keyframe map of FrameHandler: its size under the     *)
(* limit, its order in time, and the ages of keyframes the agent is told.  *)
(***************************************************************************)
EXTENDS FrameHandlerProofs

-----------------------------------------------------------------------------
(* Two members of a set of at least two. *)
LEMMA TwoMembers ==
  ASSUME NEW S, IsFiniteSet(S), Cardinality(S) >= 2, NEW x
  PROVE  \E y \in S : y # x
<1>1. SUFFICES ASSUME S \subseteq {x} PROVE FALSE
  OBVIOUS
<1>2. Cardinality({x}) = 1 /\ IsFiniteSet({x})
  BY FS_Singleton
<1>3. Cardinality(S) <= 1
  BY <1>1, <1>2, FS_Subset
<1>. QED  BY <1>3, FS_CardinalityType

(* What eviction leaves: a keyframe joins and the surplus goes. *)
LEMMA EvictionKeepsBounds ==
  ASSUME NEW S, NEW f, NEW gone \in SUBSET (S \ {f}),
         IsFiniteSet(S), Cardinality(S) >= 2,
         MaxKfs > 2 => Cardinality(S) <= MaxKfs,
         Cardinality(gone) = Surplus(S \cup {f})
  PROVE  LET T == (S \cup {f}) \ gone IN
         /\ IsFiniteSet(T) /\ Cardinality(T) >= 2
         /\ MaxKfs > 2 => Cardinality(T) <= MaxKfs
<1>. DEFINE U == S \cup {f}
            T == U \ gone
<1>. USE FrameHandlerAssumption
<1>1. /\ IsFiniteSet(U) /\ Cardinality(U) \in Nat /\ Cardinality(S) \in Nat
      /\ Cardinality(U) = IF f \in S THEN Cardinality(S) ELSE Cardinality(S) + 1
  BY FS_AddElement, FS_CardinalityType
<1>2. IsFiniteSet(gone) /\ IsFiniteSet(T)
  BY <1>1, FS_Subset, FS_Difference
<1>3. Cardinality(T) = Cardinality(U) - Cardinality(gone)
  <2>1. U \cap gone = gone
    OBVIOUS
  <2>2. Cardinality(T) = Cardinality(U) - Cardinality(U \cap gone)
    BY <1>1, FS_Difference
  <2>. QED  BY <2>1, <2>2
<1>4. CASE MaxKfs > 2 /\ Cardinality(U) > MaxKfs
  <2>1. Cardinality(gone) = Cardinality(U) - MaxKfs
    BY <1>4 DEF Surplus
  <2>2. Cardinality(T) = MaxKfs
    BY <1>1, <1>3, <2>1
  <2>. QED  BY <1>2, <1>4, <2>2
<1>5. CASE ~(MaxKfs > 2 /\ Cardinality(U) > MaxKfs)
  <2>1. Cardinality(gone) = 0
    BY <1>5 DEF Surplus
  <2>2. Cardinality(T) = Cardinality(U)
    BY <1>1, <1>3, <2>1
  <2>. QED  BY <1>1, <1>2, <1>5, <2>2
<1>. QED  BY <1>4, <1>5

-----------------------------------------------------------------------------
(* What one tracked frame does to the map. *)
LEMMA ProcessFrameKeepsMap ==
  ASSUME IInv, MapInv, NEW followsKf, ProcessFrame(followsKf),
         stage \in {"Tracking", "Relocalization"}, pc = "process"
  PROVE  /\ IsFiniteSet(keyframes') /\ Cardinality(keyframes') >= 2
         /\ MapSizeInBounds'
         /\ \A k \in keyframes' : k <= lastKf' /\ k <= newFrame
<1>0. /\ IsFiniteSet(keyframes) /\ Cardinality(keyframes) >= 2
      /\ MaxKfs > 2 => Cardinality(keyframes) <= MaxKfs
      /\ \A k \in keyframes : k <= lastKf /\ k <= newFrame
      /\ newFrame \in Nat
  BY DEF MapInv, MapSizeInBounds, IInv, TypeOK, FramesOK, FrameIds, NoId
<1>1. CASE UNCHANGED map
  BY <1>0, <1>1 DEF map, MapSizeInBounds
<1>2. CASE TracksAsKeyframe
  <2>1. PICK gone \in SUBSET (keyframes \ {newFrame}) :
          /\ Cardinality(gone) = Surplus(keyframes \cup {newFrame})
          /\ keyframes' = (keyframes \cup {newFrame}) \ gone
    BY <1>2 DEF TracksAsKeyframe
  <2>2. /\ IsFiniteSet(keyframes') /\ Cardinality(keyframes') >= 2
        /\ MaxKfs > 2 => Cardinality(keyframes') <= MaxKfs
    BY <1>0, <2>1, EvictionKeepsBounds
  <2>3. \A k \in keyframes' : k <= lastKf' /\ k <= newFrame
    BY <1>0, <1>2, <2>1 DEF TracksAsKeyframe
  <2>. QED  BY <2>2, <2>3 DEF MapSizeInBounds
<1>. QED
  BY <1>1, <1>2 DEF ProcessFrame, TooFewFeatures, FeatureDrop, TracksWithoutKeyframe

-----------------------------------------------------------------------------
LEMMA MapInvIsPreserved ==
  IInv /\ LastFrameInv /\ MapInv /\ [Next]_vars => MapInv'
<1>. SUFFICES ASSUME IInv, LastFrameInv, MapInv, [Next]_vars PROVE MapInv'
  OBVIOUS
<1>. USE FrameHandlerAssumption DEF NoId, request, frames, map, reloc, init, action
<1>0. /\ FramesOK /\ stage \in Stages /\ pc \in {"idle", "process", "finish"}
      /\ pc # "idle" => newFrame # NoId /\ stage # "Paused"
      /\ PausedIffNoLastFrame /\ KeyframeToRelocalizeTo
      /\ ReferenceIsBehind
  BY DEF IInv, TypeOK, StagesOK, LastFrameInv, NothingSurvivesReset, Held
<1>1. /\ IsFiniteSet({}) /\ Cardinality({}) = 0
  BY FS_EmptySet
<1>2. ASSUME keyframes' = {}, stage' \in {"Paused", "Initializing"} PROVE MapInv'
  BY <1>1, <1>2 DEF MapInv, MapSizeInBounds
<1>3. ASSUME UNCHANGED <<keyframes, lastKf>>,
             \/ stage' = stage
             \/ {stage, stage'} \subseteq {"Tracking", "Relocalization"},
             \A k \in keyframes : k <= (IF pc = "idle" THEN lastFrame ELSE newFrame)
                => k <= (IF pc = "idle" THEN lastFrame ELSE newFrame)'
      PROVE  MapInv'
  BY <1>3 DEF MapInv, MapSizeInBounds
<1>4. CASE Start \/ Reset
  BY <1>3, <1>4 DEF Start, Reset
<1>5. CASE ResetSvo(FALSE)
  BY <1>2, <1>5 DEF ResetSvo, ResetVisionFrontend, MapReset
<1>6. ASSUME NEW fresh \in BOOLEAN, NEW rl \in BOOLEAN, NEW newKf \in BOOLEAN,
             NEW wanted \in Cells, AddImageBundle(fresh, rl, newKf, wanted)
      PROVE  MapInv'
  <2>1. CASE DropFrame \/ IgnoreFrame
    <3>1. UNCHANGED <<stage, lastFrame, keyframes, lastKf>> /\ pc' = pc /\ pc = "idle"
      BY <1>6, <2>1 DEF AddImageBundle, DropFrame, IgnoreFrame
    <3>. QED  BY <1>3, <3>1
  <2>2. CASE BeginSession
    BY <1>2, <2>2 DEF BeginSession, ResetVisionFrontend, MapReset
  <2>3. CASE TakeFrame
    <3>1. /\ UNCHANGED <<stage, lastFrame, keyframes, lastKf>> /\ pc = "idle"
          /\ pc' = "process" /\ newFrame' = addedFrames
      BY <1>6, <2>3 DEF AddImageBundle, TakeFrame
    <3>2. \A k \in keyframes : k <= addedFrames
      BY <1>0 DEF FramesOK, FrameIds
    <3>. QED  BY <1>3, <3>1, <3>2
  <2>. QED  BY <1>6, <2>1, <2>2, <2>3 DEF AddImageBundle
<1>7. CASE InitFrame
  <2>1. CASE InitTracks
    BY <1>3, <1>7, <2>1 DEF InitFrame, InitTracks
  <2>2. CASE InitCompletes
    <3>1. /\ keyframes = {} /\ keyframes' = {initRef, newFrame} /\ initRef # newFrame
          /\ lastKf' = newFrame /\ stage' = "Tracking"
      BY <1>7, <2>2 DEF InitFrame, InitCompletes, RelatesFrames, MapInv
    <3>2. IsFiniteSet(keyframes') /\ Cardinality(keyframes') = 2
      <4>1. IsFiniteSet({initRef}) /\ Cardinality({initRef}) = 1
        BY FS_Singleton
      <4>2. /\ IsFiniteSet({initRef} \cup {newFrame})
            /\ Cardinality({initRef} \cup {newFrame}) = 1 + 1
        BY <3>1, <4>1, FS_AddElement
      <4>. QED  BY <3>1, <4>2
    <3>3. pc = "process" /\ pc' = "finish" /\ newFrame' = newFrame /\ newFrame \in Nat
      BY <1>0, <1>7 DEF InitFrame, FramesOK, FrameIds
    <3>4. initRef \in Nat /\ initRef <= newFrame
      BY <1>0, <1>7, <2>2, <3>3
         DEF InitCompletes, RelatesFrames, ReferenceIsBehind, FramesOK, FrameIds
    <3>. QED  BY <3>1, <3>2, <3>3, <3>4 DEF MapInv, MapSizeInBounds
  <2>. QED  BY <1>7, <2>1, <2>2 DEF InitFrame
<1>8. CASE TrackFrame
  <2>1. /\ stage = "Tracking" /\ stage' = stage /\ pc = "process" /\ pc' = "finish"
        /\ newFrame' = newFrame /\ ProcessFrame(lastIsKf)
    BY <1>8 DEF TrackFrame
  <2>. QED  BY <2>1, ProcessFrameKeepsMap DEF MapInv
<1>9. CASE RelocFrame
  <2>1. /\ stage = "Relocalization" /\ stage' \in {"Tracking", "Relocalization"}
        /\ pc = "process" /\ pc' = "finish" /\ newFrame' = newFrame
        /\ ProcessFrame(FALSE)
    BY <1>9 DEF RelocFrame, ProcessFrame
  <2>. QED  BY <2>1, ProcessFrameKeepsMap DEF MapInv
<1>10. CASE FinishFrame
  <2>1. CASE setReset \/ GivesUp
    BY <1>2, <1>10, <2>1 DEF FinishFrame, ResetVisionFrontend, MapReset
  <2>2. CASE ~(setReset \/ GivesUp)
    <3>1. /\ pc = "finish" /\ pc' = "idle"
          /\ stage' = IF Failed THEN "Relocalization" ELSE stage
          /\ lastFrame' = newFrame /\ UNCHANGED <<keyframes, lastKf>>
      BY <1>10, <2>2 DEF FinishFrame
    <3>2. Failed => stage \in {"Tracking", "Relocalization"}
      BY <1>0, <3>1 DEF KeyframeToRelocalizeTo
    <3>. QED  BY <1>3, <3>1, <3>2
  <2>. QED  BY <2>1, <2>2
<1>11. CASE UNCHANGED vars
  BY <1>3, <1>11 DEF vars
<1>. QED
  BY <1>4, <1>5, <1>6, <1>7, <1>8, <1>9, <1>10, <1>11 DEF Next, ProcessFrameBundle

(* The map is empty until it is bootstrapped with two keyframes, and from  *)
(* then on the keyframe added last is its youngest.                        *)
THEOREM MapInvHolds == Spec => []MapInv
<1>1. Init => MapInv
  BY FS_EmptySet, FrameHandlerAssumption DEF Init, MapInv, MapSizeInBounds
<1>2. IInv /\ LastFrameInv /\ MapInv /\ [Next]_vars => MapInv'
  BY MapInvIsPreserved
<1>. QED  BY <1>1, <1>2, InductiveInvariant, LastFrameInvHolds, PTL DEF Spec

(* With a limit above two the map never exceeds it, and while there is a   *)
(* session it never has fewer than two keyframes, whatever is evicted.     *)
THEOREM MapSizeStaysInBounds == Spec => []MapSizeInBounds
<1>1. MapInv => MapSizeInBounds
  BY DEF MapInv
<1>. QED  BY <1>1, MapInvHolds, PTL

LEMMA OlderKeyframe ==
  ASSUME IInv, MapInv
  PROVE  OlderKeyframeExists
<1>. SUFFICES ASSUME lastFrame # NoId, pc = "idle", Cardinality(keyframes) >= 2
              PROVE  \E k \in keyframes : k < lastFrame
  BY DEF OlderKeyframeExists
<1>1. PICK k \in keyframes : k # lastFrame
  BY TwoMembers DEF MapInv
<1>2. k <= lastFrame
  BY DEF MapInv
<1>3. k \in Int /\ lastFrame \in Int
  BY DEF IInv, TypeOK, FramesOK, FrameIds, NoId
<1>. QED  BY <1>1, <1>2, <1>3

(* The search for the first keyframe in addImageBundle() always finds one  *)
(* older than the last frame, when it is made at all.                      *)
THEOREM AlwaysOlderKeyframe == Spec => []OlderKeyframeExists
<1>1. IInv /\ MapInv => OlderKeyframeExists
  BY OlderKeyframe
<1>. QED  BY <1>1, InductiveInvariant, MapInvHolds, PTL

-----------------------------------------------------------------------------
(* What addImageBundle() reports of a map with two keyframes or more.      *)
LEMMA ReportedAges ==
  ASSUME IInv, MapInv, NEW s, lastKf \in keyframes, Cardinality(keyframes) >= 2,
         pc = "finish"
  PROVE  0 <= Observation(s).sinceKf /\ Observation(s).sinceKf < Observation(s).sinceFirst
<1>1. /\ keyframes \in SUBSET Nat /\ newFrame \in Nat /\ lastKf \in Nat
      /\ \A k \in keyframes : k <= lastKf /\ k <= newFrame
  BY DEF IInv, TypeOK, FramesOK, FrameIds, MapInv, NoId
<1>2. Min(keyframes) \in keyframes /\ \A k \in keyframes : Min(keyframes) <= k
  <2>1. keyframes # {}
    OBVIOUS
  <2>. QED  BY ONLY <1>1, <2>1, MinIsMember
<1>3. PICK k \in keyframes : k # lastKf
  BY TwoMembers DEF MapInv
<1>. DEFINE m == Min(keyframes)
<1>4. m \in Nat /\ k \in Nat /\ m <= k /\ k <= lastKf /\ lastKf <= newFrame
  BY <1>1, <1>2, <1>3
<1>5. /\ Observation(s).sinceKf = newFrame - lastKf
      /\ Observation(s).sinceFirst = newFrame - m
  <2>1. LastKeyframe = lastKf /\ lastKf # NoId
    BY <1>1 DEF LastKeyframe, NoId
  <2>2. ~(Cardinality(keyframes) < 2)
    BY FS_CardinalityType DEF MapInv
  <2>. QED  BY <2>1, <2>2 DEF Observation
<1>. HIDE DEF m
<1>. QED  BY <1>1, <1>3, <1>4, <1>5

LEMMA ObservedAgesArePreserved ==
  IInv /\ MapInv /\ ObservedAgesAreOrdered /\ [Next]_vars => ObservedAgesAreOrdered'
<1>. SUFFICES ASSUME IInv, MapInv, ObservedAgesAreOrdered, [Next]_vars
              PROVE  ObservedAgesAreOrdered'
  OBVIOUS
<1>1. ASSUME out' \in {out, NoOutput} PROVE ObservedAgesAreOrdered'
  BY <1>1 DEF ObservedAgesAreOrdered, NoOutput
<1>2. CASE FinishFrame
  <2>1. CASE setReset \/ GivesUp
    BY <1>1, <1>2, <2>1 DEF FinishFrame
  <2>2. CASE ~(setReset \/ GivesUp)
    <3>1. /\ pc = "finish" /\ out' = Observation(stage')
          /\ stage' = IF Failed THEN "Relocalization" ELSE stage
      BY <1>2, <2>2 DEF FinishFrame
    <3>2. out'.stage = stage'
      BY <3>1 DEF Observation
    <3>3. ASSUME stage' \in {"Tracking", "Relocalization"}
          PROVE  lastKf \in keyframes /\ Cardinality(keyframes) >= 2
      <4>1. stage \in {"Tracking", "Relocalization"}
        BY <3>1, <3>3 DEF IInv, KeyframeToRelocalizeTo
      <4>. QED  BY <4>1 DEF IInv, KeyframeToRelocalizeTo, MapInv
    <3>4. stage' \in {"Tracking", "Relocalization"} =>
            0 <= out'.sinceKf /\ out'.sinceKf < out'.sinceFirst
      BY <3>1, <3>3, ReportedAges
    <3>. QED  BY <3>2, <3>4 DEF ObservedAgesAreOrdered
  <2>. QED  BY <2>1, <2>2
<1>3. CASE Start \/ Reset \/ ResetSvo(FALSE) \/ ProcessFrameBundle
  BY <1>1, <1>3 DEF Start, Reset, ResetSvo, ProcessFrameBundle, InitFrame, TrackFrame,
     RelocFrame
<1>4. ASSUME NEW fresh \in BOOLEAN, NEW rl \in BOOLEAN, NEW newKf \in BOOLEAN,
             NEW wanted \in Cells, AddImageBundle(fresh, rl, newKf, wanted)
      PROVE  ObservedAgesAreOrdered'
  BY <1>1, <1>4 DEF AddImageBundle
<1>5. CASE UNCHANGED vars
  BY <1>1, <1>5 DEF vars
<1>. QED  BY <1>2, <1>3, <1>4, <1>5 DEF Next

(* The agent is never told of a keyframe younger than the frame it sees,   *)
(* and the keyframe added last is always strictly younger than the first.  *)
THEOREM ObservedAgesStayOrdered == Spec => []ObservedAgesAreOrdered
<1>1. Init => ObservedAgesAreOrdered
  BY DEF Init, ObservedAgesAreOrdered, NoOutput
<1>2. IInv /\ MapInv /\ ObservedAgesAreOrdered /\ [Next]_vars => ObservedAgesAreOrdered'
  BY ObservedAgesArePreserved
<1>. QED  BY <1>1, <1>2, InductiveInvariant, MapInvHolds, PTL DEF Spec
=============================================================================
