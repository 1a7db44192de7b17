-------------------------- MODULE FeatureMapProofs --------------------------
(***************************************************************************)
(* Proofs about FeatureMap, for any number of frames, features and points  *)
(* and any limits.                                                         *)
(***************************************************************************)
EXTENDS FeatureMap, FiniteSetTheorems, SequenceTheorems, TLAPS

LEMMA RefsAreNotEmpty == NoRef \notin Frames \X Slots
BY DEF NoRef

LEMMA NoPointIsNoPoint == NoPoint \notin Points
BY FeatureMapAssumption DEF NoPoint

LEMMA SlotsAreFinite == IsFiniteSet(Slots) /\ Cardinality(Slots) = NSlots
BY SMTT(30), FeatureMapAssumption, FS_Interval DEF Slots

(* A numbering of a finite set, each element once. *)
LEMMA NamesAreDistinct ==
  ASSUME NEW S, IsFiniteSet(S)
  PROVE  /\ SetToSeq(S) \in [1 .. Cardinality(S) -> S]
         /\ IsInjective(SetToSeq(S)) /\ Cardinality(S) \in Nat
<1>1. PICK g : g \in Bijection(1 .. Cardinality(S), S)
  BY FS_CardinalityType DEF ExistsBijection
<1>2. g \in [1 .. Cardinality(S) -> S] /\ IsInjective(g)
  BY <1>1 DEF Bijection, Injection, IsInjective
<1> QED BY <1>2, FS_CardinalityType DEF SetToSeq

(* Two orders of disjoint sets, one after the other. *)
LEMMA OneAfterTheOther ==
  ASSUME NEW A, NEW B, A \cap B = {},
         NEW a \in Seq(A), \A i, j \in 1 .. Len(a) : i # j => a[i] # a[j],
         NEW b \in Seq(B), \A i, j \in 1 .. Len(b) : i # j => b[i] # b[j]
  PROVE  /\ a \o b \in Seq(A \cup B)
         /\ \A i, j \in 1 .. Len(a \o b) : i # j => (a \o b)[i] # (a \o b)[j]
<1>1. a \o b \in Seq(A \cup B) /\ Len(a \o b) = Len(a) + Len(b)
  OBVIOUS
<1>2. \A i \in 1 .. Len(a \o b) :
        (a \o b)[i] = IF i <= Len(a) THEN a[i] ELSE b[i - Len(a)]
  OBVIOUS
<1>3. \A i \in 1 .. Len(a) : a[i] \in A
  OBVIOUS
<1>4. \A i \in 1 .. Len(b) : b[i] \in B
  OBVIOUS
<1>5. ASSUME NEW i \in 1 .. Len(a \o b), NEW j \in 1 .. Len(a \o b), i < j
      PROVE  (a \o b)[i] # (a \o b)[j]
  <2>0. Len(a) \in Nat /\ Len(b) \in Nat
    OBVIOUS
  <2>1. CASE j <= Len(a)
    BY <1>2, <1>5, <2>0, <2>1
  <2>2. CASE i <= Len(a) /\ j > Len(a)
    <3>1. (a \o b)[i] \in A
      BY <1>2, <1>3, <2>0, <2>2
    <3>2. (a \o b)[j] \in B
      BY <1>1, <1>2, <1>4, <2>0, <2>2
    <3> QED BY <3>1, <3>2
  <2>3. CASE i > Len(a)
    <3>1. i - Len(a) \in 1 .. Len(b) /\ j - Len(a) \in 1 .. Len(b) /\ i - Len(a) # j - Len(a)
      BY <1>1, <1>5, <2>0, <2>3
    <3>2. (a \o b)[i] = b[i - Len(a)] /\ (a \o b)[j] = b[j - Len(a)]
      BY <1>2, <1>5, <2>0, <2>3
    <3> QED BY <3>1, <3>2
  <2> QED BY <2>0, <2>1, <2>2, <2>3
<1> QED BY <1>1, <1>5

LEMMA OrdersAreSequences ==
  ASSUME NEW S, IsFiniteSet(S), NEW f \in SetToSeqs(S)
  PROVE  f \in Seq(S) /\ \A i, j \in 1 .. Len(f) : i # j => f[i] # f[j]
<1>1. Cardinality(S) \in Nat
  BY FS_CardinalityType
<1>2. f \in [1 .. Cardinality(S) -> S]
      /\ \A i, j \in 1 .. Cardinality(S) : i # j => f[i] # f[j]
  BY DEF SetToSeqs
<1>3. f \in Seq(S) /\ Len(f) = Cardinality(S)
  BY <1>1, <1>2
<1> QED BY <1>2, <1>3

-----------------------------------------------------------------------------
(* Consequences of the invariant that most steps need. *)

(* A slot with a landmark is of a known type, and not the only one to say  *)
(* so.                                                                     *)
LEMMA LandmarkSlot ==
  ASSUME TypeOK, ObservationsAreMutual, SeedsHaveNoLandmark,
         NEW s \in keyframes \X Slots, At(s).landmark # NoPoint
  PROVE  /\ At(s).landmark \in Points /\ s \in obs[At(s).landmark]
         /\ At(s).type \in {"Corner", "Outlier"}
         /\ \A o \in obs[At(s).landmark] : o[1] = s[1] => o = s
<1>1. s[1] \in keyframes /\ s[2] \in Slots /\ keyframes \subseteq Frames
  BY DEF TypeOK
<1>2. At(s) \in Features
  BY <1>1 DEF At, TypeOK
<1>3. At(s).type \in Types /\ At(s).landmark \in Points
  BY <1>2 DEF Features
<1>4. At(s).type \notin SeedTypes \cup {"None"}
  BY DEF SeedsHaveNoLandmark
<1>5. s \in SlotsOf(keyframes)
  BY <1>4 DEF SlotsOf
<1>6. {o \in obs[At(s).landmark] : o[1] = s[1]} = {s}
  BY <1>5 DEF ObservationsAreMutual
<1> QED BY <1>3, <1>4, <1>6 DEF Types, SeedTypes

LEMMA Observation ==
  ASSUME TypeOK, ObservationsAreMutual, NEW p \in Points, NEW o \in obs[p]
  PROVE  o \in keyframes \X Slots /\ At(o).landmark = p
<1>1. o \in Frames \X Slots
  BY DEF TypeOK
<1> QED BY <1>1 DEF ObservationsAreMutual

(* Mutual observation, from its pointwise form. *)
LEMMA MutualNext ==
  ASSUME \A s \in keyframes' \X Slots :
           At(s)'.landmark # NoPoint =>
             s \in obs'[At(s)'.landmark]
             /\ \A o \in obs'[At(s)'.landmark] : o[1] = s[1] => o = s,
         \A p \in Points : \A o \in obs'[p] : o[1] \in keyframes' /\ At(o)'.landmark = p
  PROVE  ObservationsAreMutual'
BY DEF ObservationsAreMutual, SlotsOf

-----------------------------------------------------------------------------
LEMMA InitEstablishesIInv == Init => IInv
<1> SUFFICES ASSUME Init PROVE IInv
  OBVIOUS
<1> USE FeatureMapAssumption DEF Init
<1> USE DEF NoFeatures, Empty, Feature, Features, Types
<1>1. TypeOK
  BY DEF TypeOK
<1>2. DroppedInv /\ ObservationsAreMutual /\ SeedsHaveNoLandmark
  BY DEF DroppedInv, ObservationsAreMutual, SeedsHaveNoLandmark, SlotsOf
<1>3. MatchesInv
  BY DEF MatchesInv
<1>4. NewFrameSeesLivePoints /\ NoFeatureTwice
  BY DEF NewFrameSeesLivePoints, NoFeatureTwice
<1> QED BY <1>1, <1>2, <1>3, <1>4 DEF IInv

(* Without a frame in process there is nothing to say about its features.  *)
LEMMA NothingInProcess ==
  ASSUME cur' = NoFeatures, pc' # "optimize"
  PROVE  MatchesInv' /\ NewFrameSeesLivePoints' /\ NoFeatureTwice'
<1> USE DEF NoFeatures, Empty, Feature
<1>1. MatchesInv'
  BY DEF MatchesInv
<1>2. NewFrameSeesLivePoints'
  BY DEF NewFrameSeesLivePoints
<1>3. NoFeatureTwice'
  BY DEF NoFeatureTwice
<1> QED BY <1>1, <1>2, <1>3

LEMMA ResetPreserves == ASSUME IInv, ResetMap PROVE IInv'
<1> USE DEF IInv, ResetMap
<1>1. cur' = NoFeatures /\ pc' # "optimize"
  BY DEF MatchesInv
<1>2. MatchesInv' /\ NewFrameSeesLivePoints' /\ NoFeatureTwice'
  BY <1>1, NothingInProcess
<1>3. NoFeatures \in [Slots -> Features]
  BY DEF NoFeatures, Empty, Feature, Features, Types
<1>4. TypeOK'
  BY <1>3 DEF TypeOK
<1>5. DroppedInv' /\ ObservationsAreMutual' /\ SeedsHaveNoLandmark'
  BY DEF DroppedInv, ObservationsAreMutual, SeedsHaveNoLandmark, SlotsOf
<1> QED BY <1>2, <1>4, <1>5

LEMMA LeavePreserves == ASSUME IInv, LeaveFrame PROVE IInv'
<1> USE DEF IInv, LeaveFrame, map
<1>1. MatchesInv' /\ NewFrameSeesLivePoints' /\ NoFeatureTwice'
  BY NothingInProcess
<1>2. NoFeatures \in [Slots -> Features]
  BY DEF NoFeatures, Empty, Feature, Features, Types
<1>3. TypeOK'
  BY <1>2 DEF TypeOK
<1>4. DroppedInv' /\ ObservationsAreMutual' /\ SeedsHaveNoLandmark'
  BY DEF DroppedInv, ObservationsAreMutual, SeedsHaveNoLandmark, SlotsOf, At
<1> QED BY <1>1, <1>3, <1>4

(* What an update of seeds does to a slot. *)
LEMMA RetypedSlot ==
  ASSUME TypeOK, NEW converged, NEW diverged, NEW k \in Frames, NEW i \in Slots
  PROVE  LET new == Retyped(converged, diverged)[k][i] IN
         /\ new \in Features
         /\ new.landmark = features[k][i].landmark /\ new.ref = features[k][i].ref
         /\ <<k, i>> \in diverged => new.type = "Outlier"
         /\ <<k, i>> \in converged \ diverged => new.type = "Converged"
         /\ <<k, i>> \notin converged \cup diverged => new = features[k][i]
<1>1. features[k][i] \in Features
  BY DEF TypeOK
<1> QED BY <1>1 DEF Retyped, Features, Types

LEMMA RetypedType ==
  ASSUME TypeOK, NEW converged, NEW diverged
  PROVE  Retyped(converged, diverged) \in [Frames -> [Slots -> Features]]
<1>1. \A k \in Frames, i \in Slots : Retyped(converged, diverged)[k][i] \in Features
  BY RetypedSlot
<1>2. Retyped(converged, diverged) = [k \in Frames |-> [i \in Slots |->
        Retyped(converged, diverged)[k][i]]]
  BY DEF Retyped
<1> QED BY ONLY SMTT(30), <1>1, <1>2

(* A keyframe none of whose slots is concerned stays as it is. *)
LEMMA RetypedElsewhere ==
  ASSUME TypeOK, NEW converged, NEW diverged, NEW k \in Frames,
         \A i \in Slots : <<k, i>> \notin converged \cup diverged
  PROVE  Retyped(converged, diverged)[k] = features[k]
<1>1. ASSUME NEW i \in Slots PROVE Retyped(converged, diverged)[k][i] = features[k][i]
  <2>1. <<k, i>> \notin converged \cup diverged
    OBVIOUS
  <2> QED BY <2>1 DEF Retyped
<1>2. features[k] \in [Slots -> Features]
      /\ Retyped(converged, diverged)[k] \in [Slots -> Features]
  BY RetypedType DEF TypeOK
<1> DEFINE new == Retyped(converged, diverged)[k]
<1>3. /\ new \in [Slots -> Features] /\ features[k] \in [Slots -> Features]
      /\ \A i \in Slots : new[i] = features[k][i]
  BY <1>1, <1>2
<1> HIDE DEF new
<1>4. new = features[k]
  BY ONLY SMTT(30), <1>3
<1> QED BY <1>4 DEF new

LEMMA BeginPreserves ==
  ASSUME IInv, NEW converged, NEW diverged, BeginFrame(converged, diverged) PROVE IInv'
<1> USE DEF IInv, BeginFrame
<1>1. MatchesInv' /\ NewFrameSeesLivePoints' /\ NoFeatureTwice'
  BY NothingInProcess DEF MatchesInv
<1>2. converged \cup diverged \subseteq SeedsOf(keyframes)
  BY DEF Updated
<1>3. TypeOK'
  <2>1. features' \in [Frames -> [Slots -> Features]]
    BY RetypedType
  <2> QED BY <2>1 DEF TypeOK
<1>4. \A s \in Frames \X Slots : At(s)'.landmark = At(s).landmark /\ At(s)'.ref = At(s).ref
  BY RetypedSlot DEF At
<1>5. DroppedInv'
  <2> SUFFICES ASSUME NEW k \in Frames \ keyframes PROVE features'[k] = features[k]
    BY DEF DroppedInv
  <2>1. \A i \in Slots : <<k, i>> \notin converged \cup diverged
    BY <1>2 DEF SeedsOf
  <2> QED BY <2>1, RetypedElsewhere
<1>6. ObservationsAreMutual'
  <2>1. keyframes' = keyframes /\ obs' = obs /\ keyframes \subseteq Frames
    BY DEF TypeOK
  <2>2. \A s \in keyframes \X Slots : At(s).landmark # NoPoint =>
          s \in obs[At(s).landmark] /\ \A o \in obs[At(s).landmark] : o[1] = s[1] => o = s
    BY LandmarkSlot
  <2>3. \A p \in Points : \A o \in obs[p] : o \in keyframes \X Slots /\ At(o).landmark = p
    BY Observation
  <2> HIDE DEF IInv, BeginFrame
  <2> QED BY <1>4, <2>1, <2>2, <2>3, MutualNext
<1>7. SeedsHaveNoLandmark'
  <2> SUFFICES ASSUME NEW s \in keyframes \X Slots
               PROVE  /\ At(s)'.type \in SeedTypes \cup {"None"} => At(s)'.landmark = NoPoint
                      /\ At(s)'.ref = NoRef
    BY DEF SeedsHaveNoLandmark
  <2>1. s[1] \in Frames /\ s[2] \in Slots /\ s = <<s[1], s[2]>>
    BY DEF TypeOK
  <2>2. At(s).ref = NoRef
        /\ (At(s).type \in SeedTypes \cup {"None"} => At(s).landmark = NoPoint)
    BY DEF SeedsHaveNoLandmark
  <2>3. CASE s \in converged \cup diverged
    <3>1. At(s).type \in SeedTypes
      BY <1>2, <2>3 DEF SeedsOf
    <3> QED BY <1>4, <2>1, <2>2, <3>1
  <2>4. CASE s \notin converged \cup diverged
    <3>1. At(s)' = At(s)
      BY <2>1, <2>4, RetypedSlot DEF At
    <3> QED BY <2>2, <3>1
  <2> QED BY <2>3, <2>4
<1> QED BY <1>1, <1>3, <1>5, <1>6, <1>7

LEMMA InitializePreserves ==
  ASSUME IInv, NEW points \in SUBSET Points,
         NEW tracked \in 0 .. Cardinality(Slots), NEW seeds \in 0 .. Cardinality(Slots),
         InitializeMap(points, tracked, seeds)
  PROVE  IInv'
<1> DEFINE n == Cardinality(points)
           name == SetToSeq(points)
           track == [i \in Slots |-> IF i <= n THEN Corner(name[i])
                                     ELSE IF i <= tracked THEN Corner(NoPoint) ELSE Empty]
           later == Slots \cap tracked + 1 .. tracked + seeds
<1>1. PICK ref \in Frames, new \in Frames :
        /\ ref # new
        /\ keyframes' = {ref, new}
        /\ \E type \in [later -> SeedOutcomes] :
             features' = [features EXCEPT
               ![ref] = track,
               ![new] = [i \in Slots |-> IF i \in DOMAIN type
                                         THEN Feature(type[i], NoPoint, NoRef)
                                         ELSE track[i]]]
        /\ obs' = [p \in Points |-> {ref, new} \X {i \in 1 .. n : name[i] = p}]
  BY DEF InitializeMap
<1>2. PICK type \in [later -> SeedOutcomes] :
        features' = [features EXCEPT
          ![ref] = track,
          ![new] = [i \in Slots |-> IF i \in DOMAIN type
                                    THEN Feature(type[i], NoPoint, NoRef)
                                    ELSE track[i]]]
  BY <1>1
<1>3. /\ pc = "idle" /\ pc' = "idle" /\ cur' = cur /\ keyframes = {} /\ n <= tracked
      /\ nFailed' = [p \in Points |-> IF p \in points THEN 0 ELSE nFailed[p]]
  BY DEF InitializeMap
<1>4. /\ TypeOK /\ cur = NoFeatures
      /\ \A k \in Frames : features[k] = NoFeatures
  BY <1>3 DEF IInv, MatchesInv, DroppedInv
<1>5. IsFiniteSet(points)
  BY FS_Subset, FeatureMapAssumption
<1>6. /\ name \in [1 .. n -> points] /\ n \in Nat
      /\ \A i, j \in 1 .. n : name[i] = name[j] => i = j
  BY <1>5, NamesAreDistinct DEF IsInjective
<1>7. /\ Slots = 1 .. NSlots /\ NSlots \in Nat /\ tracked \in 0 .. NSlots
      /\ seeds \in 0 .. NSlots
  BY SlotsAreFinite, FeatureMapAssumption DEF Slots
<1> HIDE DEF n, name
<1>8. \A i \in Slots :
        /\ i <= n => track[i] = Corner(name[i]) /\ name[i] \in points
        /\ i > n => track[i] \in {Corner(NoPoint), Empty}
  BY <1>6, <1>7
<1>9. ASSUME NEW k \in {ref, new}, NEW i \in Slots
      PROVE  /\ i <= n => features'[k][i] = Corner(name[i]) /\ name[i] \in points
             /\ i > n => /\ features'[k][i] \in Features
                         /\ features'[k][i].landmark = NoPoint
                         /\ features'[k][i].ref = NoRef
  <2>1. features'[k][i] = IF k = new /\ i \in later THEN Feature(type[i], NoPoint, NoRef)
                          ELSE track[i]
    BY <1>1, <1>2, <1>4 DEF TypeOK
  <2>2. i \in later => i > n /\ type[i] \in SeedOutcomes
    BY <1>3, <1>6, <1>7
  <2> HIDE DEF track, later
  <2> QED BY <1>8, <1>6, <1>7, <2>1, <2>2
       DEF Corner, Empty, Feature, Features, Types, SeedOutcomes
<1>17. /\ features'[new] = [i \in Slots |-> features'[new][i]]
       /\ features'[ref] = [i \in Slots |-> features'[ref][i]]
  <2>1. features'[ref] = track
    BY <1>1, <1>2, <1>4 DEF TypeOK
  <2>2. features'[new] = [i \in Slots |-> IF i \in DOMAIN type
                                    THEN Feature(type[i], NoPoint, NoRef)
                                    ELSE track[i]]
    BY <1>1, <1>2, <1>4 DEF TypeOK
  <2> QED BY ONLY <2>1, <2>2 DEF track
<1> HIDE DEF track, later
<1>10. \A k \in Frames \ {ref, new} : features'[k] = NoFeatures
  BY <1>2, <1>4 DEF TypeOK
<1>11. features' \in [Frames -> [Slots -> Features]]
  <2>1. NoFeatures \in [Slots -> Features]
    BY DEF NoFeatures, Empty, Feature, Features, Types
  <2>2. ASSUME NEW k \in {ref, new}, NEW i \in Slots PROVE features'[k][i] \in Features
    <3>1. CASE i <= n
      <4>1. features'[k][i] = Corner(name[i]) /\ name[i] \in Points
        BY <1>9, <3>1
      <4> QED BY <4>1 DEF Corner, Feature, Features, Types
    <3>2. CASE i > n
      BY <1>9, <3>2
    <3> QED BY <1>6, <1>7, <3>1, <3>2
  <2>4. features'[new] \in [Slots -> Features] /\ features'[ref] \in [Slots -> Features]
    BY <2>2, <1>17
  <2>5. features' = [k \in Frames |-> features'[k]]
    BY <1>2, <1>4 DEF TypeOK
  <2> QED BY <1>10, <2>1, <2>4, <2>5
<1>12. TypeOK'
  <2>1. obs' \in [Points -> SUBSET (Frames \X Slots)]
    <3>1. \A i \in 1 .. n : i \in Slots
      BY <1>3, <1>6, <1>7
    <3> QED BY <1>1, <3>1
  <2>2. nFailed' \in [Points -> 0 .. MaxFailed + 1]
    BY <1>3, <1>4, FeatureMapAssumption DEF TypeOK
  <2> QED BY <1>1, <1>3, <1>4, <1>11, <2>1, <2>2 DEF TypeOK
<1>13. MatchesInv' /\ NewFrameSeesLivePoints' /\ NoFeatureTwice'
  BY <1>3, <1>4, NothingInProcess
<1>14. DroppedInv'
  BY <1>1, <1>10 DEF DroppedInv
<1>15. ObservationsAreMutual'
  <2>1. ASSUME NEW s \in keyframes' \X Slots, At(s)'.landmark # NoPoint
        PROVE  s \in obs'[At(s)'.landmark]
               /\ \A o \in obs'[At(s)'.landmark] : o[1] = s[1] => o = s
    <3>1. s[1] \in {ref, new} /\ s[2] \in Slots /\ s = <<s[1], s[2]>>
      BY <1>1
    <3>2. s[2] \in 1 .. n
      BY <1>6, <1>7, <1>9, <2>1, <3>1 DEF At
    <3>3. At(s)'.landmark = name[s[2]] /\ name[s[2]] \in Points
      <4>1. features'[s[1]][s[2]] = Corner(name[s[2]]) /\ name[s[2]] \in Points
        BY <1>6, <1>9, <3>1, <3>2
      <4> QED BY <4>1 DEF At, Corner, Feature
    <3>4. obs'[name[s[2]]] = {ref, new} \X {i \in 1 .. n : name[i] = name[s[2]]}
      BY <1>1, <3>3
    <3> QED BY <1>6, <3>1, <3>2, <3>3, <3>4
  <2>2. ASSUME NEW p \in Points, NEW o \in obs'[p]
        PROVE  o[1] \in keyframes' /\ At(o)'.landmark = p
    <3>1. o[1] \in {ref, new} /\ o[2] \in 1 .. n /\ name[o[2]] = p
      BY <1>1
    <3>2. o[2] \in Slots /\ o[2] <= n
      BY <1>3, <1>6, <1>7, <3>1
    <3>3. features'[o[1]][o[2]] = Corner(name[o[2]])
      BY <1>9, <3>1, <3>2
    <3> QED BY <1>1, <3>1, <3>3 DEF At, Corner, Feature
  <2> QED BY <2>1, <2>2, MutualNext
<1>16. SeedsHaveNoLandmark'
  <2> SUFFICES ASSUME NEW s \in keyframes' \X Slots
               PROVE  /\ At(s)'.type \in SeedTypes \cup {"None"} => At(s)'.landmark = NoPoint
                      /\ At(s)'.ref = NoRef
    BY DEF SeedsHaveNoLandmark
  <2>1. s[1] \in {ref, new} /\ s[2] \in Slots
    BY <1>1
  <2>2. CASE s[2] <= n
    <3>1. features'[s[1]][s[2]] = Corner(name[s[2]])
      BY <1>9, <2>1, <2>2
    <3> QED BY <3>1 DEF At, Corner, Feature, SeedTypes
  <2>3. CASE s[2] > n
    BY <1>9, <2>1, <2>3 DEF At
  <2> QED BY <1>6, <1>7, <2>1, <2>2, <2>3
<1> QED BY <1>12, <1>13, <1>14, <1>15, <1>16 DEF IInv

-----------------------------------------------------------------------------
(* What the reprojector collects. *)

LEMMA OncePerPointIsOnce ==
  ASSUME NEW slots
  PROVE  /\ OncePerPoint(slots) \subseteq slots
         /\ \A s, t \in OncePerPoint(slots) : At(s).landmark = At(t).landmark => s = t
<1> DEFINE first(p) == CHOOSE s \in slots : At(s).landmark = p
<1>1. \A s \in slots : first(At(s).landmark) \in slots
                      /\ At(first(At(s).landmark)).landmark = At(s).landmark
  OBVIOUS
<1>2. OncePerPoint(slots) = {first(p) : p \in {At(s).landmark : s \in slots}}
  BY DEF OncePerPoint
<1> HIDE DEF first
<1>3. \A t \in OncePerPoint(slots) : t \in slots /\ t = first(At(t).landmark)
  BY <1>1, <1>2
<1> QED BY <1>3

LEMMA ObserversAreFinite ==
  ASSUME TypeOK, NEW p \in Points
  PROVE  IsFiniteSet(obs[p]) /\ Cardinality(obs[p]) \in Nat
<1>1. IsFiniteSet(Frames \X Slots)
  BY SlotsAreFinite, FS_Product, FeatureMapAssumption
<1>2. obs[p] \subseteq Frames \X Slots
  BY DEF TypeOK
<1> QED BY <1>1, <1>2, FS_Subset, FS_CardinalityType

(* A point is tried once, and only if it is not to be deleted.             *)
LEMMA PointsToProject ==
  ASSUME IInv, NEW overlap \in Overlaps
  PROVE  /\ Trash(overlap) \subseteq Points
         /\ \A s \in PointCandidates(overlap) :
              /\ s \in keyframes \X Slots /\ At(s).type = "Corner"
              /\ At(s).landmark \in Points /\ At(s).landmark \notin Trash(overlap)
              /\ s \in obs[At(s).landmark]
              /\ nFailed[At(s).landmark] <= MaxFailed
              /\ RemoveUnconstrained => Cardinality(obs[At(s).landmark]) >= 2
         /\ \A s, t \in PointCandidates(overlap) :
              At(s).landmark = At(t).landmark => s = t
<1>1. overlap \subseteq keyframes
  BY DEF Overlaps
<1>2. ASSUME NEW s \in LandmarkSlots(overlap)
      PROVE  /\ s \in keyframes \X Slots /\ At(s).type = "Corner"
             /\ At(s).landmark \in Points /\ s \in obs[At(s).landmark]
  <2>1. s \in keyframes \X Slots /\ At(s).landmark # NoPoint /\ At(s).type # "Outlier"
    BY <1>1 DEF LandmarkSlots, SlotsOf
  <2> QED BY <2>1, LandmarkSlot DEF IInv
<1>3. Trash(overlap) \subseteq Points
  BY <1>2 DEF Trash, Seen
<1>4. ASSUME NEW s \in PointCandidates(overlap)
      PROVE  s \in LandmarkSlots(overlap) /\ At(s).landmark \notin Trash(overlap)
  BY OncePerPointIsOnce DEF PointCandidates
<1>5. ASSUME NEW s \in PointCandidates(overlap)
      PROVE  /\ nFailed[At(s).landmark] <= MaxFailed
             /\ RemoveUnconstrained => Cardinality(obs[At(s).landmark]) >= 2
  <2>1. ~WornOut(At(s).landmark) /\ ~Unconstrained(At(s).landmark)
    BY <1>4 DEF Trash, Seen
  <2>2. At(s).landmark \in Points
    BY <1>2, <1>4
  <2>3. nFailed[At(s).landmark] \in Nat /\ Cardinality(obs[At(s).landmark]) \in Nat
    BY <2>2, ObserversAreFinite, FeatureMapAssumption DEF IInv, TypeOK
  <2> QED BY <2>1, <2>3, FeatureMapAssumption DEF WornOut, Unconstrained
<1>6. \A s, t \in PointCandidates(overlap) :
        At(s).landmark = At(t).landmark => s = t
  BY OncePerPointIsOnce DEF PointCandidates
<1> QED BY <1>2, <1>3, <1>4, <1>5, <1>6

LEMMA SeedsToProject ==
  ASSUME IInv, NEW overlap \in Overlaps, NEW s \in SeedsOf(overlap)
  PROVE  s \in keyframes \X Slots /\ At(s).type \in SeedTypes /\ At(s).landmark = NoPoint
BY DEF SeedsOf, Overlaps, IInv, SeedsHaveNoLandmark

(* The matches, in the order they were made. *)
LEMMA MatchesInOrder ==
  ASSUME IInv, NEW overlap \in Overlaps, NEW matched \in SUBSET Candidates(overlap),
         NEW first \in SetToSeqs(matched \cap PointCandidates(overlap)),
         NEW second \in SetToSeqs(matched \ ((matched \cap PointCandidates(overlap))
                                           \cup SeedCandidates(overlap, "Seed"))),
         NEW third \in SetToSeqs(matched \cap SeedCandidates(overlap, "Seed"))
  PROVE  LET order == first \o second \o third IN
         order \in Seq(matched) /\ \A i, j \in 1 .. Len(order) : i # j => order[i] # order[j]
<1>1. matched \subseteq Frames \X Slots
  BY PointsToProject, SeedsToProject DEF Candidates, IInv, TypeOK
<1>2. IsFiniteSet(matched)
  BY <1>1, SlotsAreFinite, FS_Product, FS_Subset, FeatureMapAssumption
<1> DEFINE points == matched \cap PointCandidates(overlap)
           unconverged == SeedCandidates(overlap, "Seed")
           rest == matched \ (points \cup unconverged)
           last == matched \cap unconverged
<1>3. points \cap unconverged = {}
  BY PointsToProject DEF SeedCandidates
<1>4. IsFiniteSet(points) /\ IsFiniteSet(rest) /\ IsFiniteSet(last)
  BY <1>2, FS_Subset
<1>5. /\ points \cap rest = {} /\ (points \cup rest) \cap last = {}
      /\ (points \cup rest) \cup last \subseteq matched
  BY <1>3
<1>6. /\ first \in SetToSeqs(points) /\ second \in SetToSeqs(rest)
      /\ third \in SetToSeqs(last)
  OBVIOUS
<1> HIDE DEF points, unconverged, rest, last
<1>7. /\ first \in Seq(points) /\ \A i, j \in 1 .. Len(first) : i # j => first[i] # first[j]
      /\ second \in Seq(rest) /\ \A i, j \in 1 .. Len(second) : i # j => second[i] # second[j]
      /\ third \in Seq(last) /\ \A i, j \in 1 .. Len(third) : i # j => third[i] # third[j]
  BY <1>4, <1>6, OrdersAreSequences
<1>8. /\ first \o second \in Seq(points \cup rest)
      /\ \A i, j \in 1 .. Len(first \o second) :
           i # j => (first \o second)[i] # (first \o second)[j]
  <2>1. points \cap rest = {}
    BY <1>5
  <2>2. /\ first \in Seq(points) /\ \A i, j \in 1 .. Len(first) : i # j => first[i] # first[j]
        /\ second \in Seq(rest) /\ \A i, j \in 1 .. Len(second) : i # j => second[i] # second[j]
    BY <1>7
  <2> QED BY ONLY SMTT(60), <2>1, <2>2, OneAfterTheOther
<1> DEFINE both == first \o second
<1>9. both \o third = first \o second \o third
  OBVIOUS
<1>10. /\ both \in Seq(points \cup rest)
       /\ \A i, j \in 1 .. Len(both) : i # j => both[i] # both[j]
  BY <1>8
<1>11. (points \cup rest) \cap last = {}
  BY <1>5
<1>12. third \in Seq(last) /\ \A i, j \in 1 .. Len(third) : i # j => third[i] # third[j]
  BY <1>7
<1> HIDE DEF both
<1>13. /\ both \o third \in Seq((points \cup rest) \cup last)
       /\ \A i, j \in 1 .. Len(both \o third) : i # j => (both \o third)[i] # (both \o third)[j]
  BY ONLY SMTT(60), <1>10, <1>11, <1>12, OneAfterTheOther
<1>14. Seq((points \cup rest) \cup last) \subseteq Seq(matched)
  BY <1>5
<1> QED BY <1>9, <1>13, <1>14

(* What the projection makes of the slots of the map: the trash is no      *)
(* landmark any more, seeds that were tried may converge or diverge.       *)
LEMMA ProjectedSlot ==
  ASSUME IInv, NEW overlap \in Overlaps, NEW matched,
         NEW changed \in SUBSET SeedCandidates(overlap, "Seed"),
         NEW k \in Frames, NEW i \in Slots
  PROVE  LET new == WithoutPoints(TriedSeeds(matched, changed), Trash(overlap))[k][i]
             old == features[k][i]
             deleted == \E p \in Trash(overlap) : <<k, i>> \in obs[p] IN
         /\ new \in Features
         /\ deleted => new.landmark = NoPoint
         /\ ~deleted => new.landmark = old.landmark
         /\ new.ref = old.ref
         /\ <<k, i>> \in changed => old.type \in SeedTypes
         /\ <<k, i>> \notin changed => new.type = old.type
         /\ <<k, i>> \in changed \cap matched => new.type = "Converged"
         /\ <<k, i>> \in changed \ matched => new.type = "Outlier"
         /\ (~deleted /\ <<k, i>> \notin changed) => new = old
<1> DEFINE tried == TriedSeeds(matched, changed)
<1>1. /\ tried[k][i] \in Features
      /\ tried[k][i].landmark = features[k][i].landmark
      /\ tried[k][i].ref = features[k][i].ref
      /\ <<k, i>> \in changed \cap matched => tried[k][i].type = "Converged"
      /\ <<k, i>> \in changed \ matched => tried[k][i].type = "Outlier"
      /\ <<k, i>> \notin changed => tried[k][i] = features[k][i]
  BY RetypedSlot DEF TriedSeeds, IInv
<1>2. <<k, i>> \in changed => features[k][i].type \in SeedTypes
  BY DEF SeedCandidates, SeedsOf, At
<1> HIDE DEF tried
<1>3. WithoutPoints(tried, Trash(overlap))[k][i] =
        IF \E p \in Trash(overlap) : <<k, i>> \in obs[p]
        THEN [tried[k][i] EXCEPT !.landmark = NoPoint] ELSE tried[k][i]
  BY DEF WithoutPoints
<1>4. WithoutPoints(TriedSeeds(matched, changed), Trash(overlap)) =
      WithoutPoints(tried, Trash(overlap))
  BY DEF tried
<1> QED BY <1>1, <1>2, <1>3, <1>4 DEF Features

LEMMA ProjectPreserves ==
  ASSUME IInv, NEW overlap \in Overlaps, NEW matched \in SUBSET Candidates(overlap),
         NEW failed \in SUBSET (PointCandidates(overlap) \ matched),
         NEW changed \in SUBSET SeedCandidates(overlap, "Seed"),
         ProjectMapInFrame(overlap, matched, failed, changed)
  PROVE  IInv'
<1> DEFINE trash == Trash(overlap)
           worn == {At(s).landmark : s \in failed}
<1>1. /\ pc' = "optimize" /\ keyframes' = keyframes
      /\ features' = WithoutPoints(TriedSeeds(matched, changed), trash)
      /\ nFailed' = [p \in Points |-> IF p \in worn THEN nFailed[p] + 1
                                      ELSE IF p \in trash THEN 0 ELSE nFailed[p]]
      /\ obs' = [p \in Points |-> IF p \in trash THEN {} ELSE obs[p]]
  BY DEF ProjectMapInFrame
<1>2. PICK first \in SetToSeqs(matched \cap PointCandidates(overlap)),
           second \in SetToSeqs(matched \ ((matched \cap PointCandidates(overlap))
                                         \cup SeedCandidates(overlap, "Seed"))),
           third \in SetToSeqs(matched \cap SeedCandidates(overlap, "Seed")) :
        cur' = Packed(first \o second \o third)
  BY DEF ProjectMapInFrame
<1> DEFINE order == first \o second \o third
<1>3. order \in Seq(matched) /\ \A i, j \in 1 .. Len(order) : i # j => order[i] # order[j]
  BY MatchesInOrder
<1>4. cur' = Packed(order)
  BY <1>2
<1> HIDE DEF order, trash, worn
<1>5. trash \subseteq Points
  BY PointsToProject DEF trash
<1>6. TypeOK /\ keyframes \subseteq Frames /\ NSlots \in Nat /\ Slots = 1 .. NSlots
  BY FeatureMapAssumption DEF IInv, TypeOK, Slots
<1>7. ASSUME NEW i \in Slots
      PROVE  /\ i <= Len(order) => order[i] \in matched /\ cur'[i] = Match(order[i])
             /\ i > Len(order) => cur'[i] = Empty
  BY <1>3, <1>4, <1>6 DEF Packed
<1>8. ASSUME NEW s \in matched
      PROVE  /\ s \in keyframes \X Slots /\ s = <<s[1], s[2]>>
             /\ s[1] \in Frames /\ s[2] \in Slots
             /\ \/ s \in PointCandidates(overlap) /\ At(s).landmark \in Points
                  /\ At(s).type = "Corner"
                \/ At(s).landmark = NoPoint /\ At(s).type \in SeedTypes
  BY <1>6, PointsToProject, SeedsToProject DEF Candidates
<1>9. ASSUME NEW k \in Frames, NEW i \in Slots
      PROVE  LET new == features'[k][i]
                 old == features[k][i]
                 deleted == \E p \in trash : <<k, i>> \in obs[p] IN
             /\ new \in Features
             /\ deleted => new.landmark = NoPoint
             /\ ~deleted => new.landmark = old.landmark
             /\ new.ref = old.ref
             /\ <<k, i>> \in changed => old.type \in SeedTypes
             /\ <<k, i>> \notin changed => new.type = old.type
             /\ <<k, i>> \in changed \cap matched => new.type = "Converged"
             /\ (~deleted /\ <<k, i>> \notin changed) => new = old
  BY <1>1, ProjectedSlot DEF trash
<1>10. features' \in [Frames -> [Slots -> Features]]
  <2>1. features' = [k \in Frames |-> [i \in Slots |-> features'[k][i]]]
    BY <1>1 DEF WithoutPoints
  <2> QED BY <1>9, <2>1
<1>11. \A s \in matched : Match(s) \in Features /\ Match(s).type # "None"
  BY <1>8, <1>6 DEF Match, Feature, Features, Types, SeedTypes
<1>12. TypeOK'
  <2>1. cur' \in [Slots -> Features]
    <3>1. Empty \in Features
      BY DEF Empty, Feature, Features, Types
    <3>2. \A i \in Slots : cur'[i] \in Features
      BY <1>3, <1>6, <1>7, <1>11, <3>1
    <3>3. cur' = [i \in Slots |-> cur'[i]]
      BY <1>4 DEF Packed
    <3> QED BY <3>2, <3>3
  <2>2. obs' \in [Points -> SUBSET (Frames \X Slots)]
    BY <1>1, <1>6 DEF TypeOK
  <2>3. \A p \in worn : nFailed[p] <= MaxFailed
    BY PointsToProject DEF worn
  <2>4. nFailed \in [Points -> 0 .. MaxFailed + 1]
    BY <1>6 DEF TypeOK
  <2>5. nFailed' \in [Points -> 0 .. MaxFailed + 1]
    BY <1>1, <2>3, <2>4, FeatureMapAssumption
  <2> QED BY <1>1, <1>6, <1>10, <2>1, <2>2, <2>5 DEF TypeOK
<1>13. DroppedInv'
  <2> SUFFICES ASSUME NEW k \in Frames \ keyframes PROVE features'[k] = features[k]
    BY <1>1 DEF DroppedInv, IInv
  <2>1. \A p \in trash : \A o \in obs[p] : o[1] # k
    BY <1>5, Observation DEF IInv
  <2>2. \A s \in changed : s[1] # k
    BY SeedsToProject DEF SeedCandidates
  <2>3. ASSUME NEW i \in Slots PROVE features'[k][i] = features[k][i]
    <3>1. <<k, i>> \notin changed /\ ~ \E p \in trash : <<k, i>> \in obs[p]
      BY <2>1, <2>2
    <3> QED BY <1>9, <3>1
  <2> QED BY <1>6, <1>10, <2>3 DEF TypeOK
<1>14. MatchesInv'
  <2> SUFFICES ASSUME NEW i \in Slots
      PROVE /\ cur'[i].type = "None" => cur'[i] = Empty
            /\ cur'[i].type # "None" => \A j \in 1 .. i : cur'[j].type # "None"
            /\ cur'[i].landmark # NoPoint => cur'[i].type = "Corner" /\ cur'[i].ref = NoRef
            /\ cur'[i].ref # NoRef => cur'[i].type \in SeedTypes
                   /\ features'[cur'[i].ref[1]][cur'[i].ref[2]].type \in SeedTypes
    BY <1>1 DEF MatchesInv, At
  <2>1. CASE i > Len(order)
    BY <1>7, <2>1 DEF Empty, Feature
  <2>2. CASE i <= Len(order)
    <3>1. order[i] \in matched /\ cur'[i] = Match(order[i])
      BY <1>7, <2>2
    <3>2. cur'[i].type # "None"
      BY <1>11, <3>1
    <3>3. \A j \in 1 .. i : cur'[j].type # "None"
      BY <1>3, <1>6, <1>7, <1>11, <2>2
    <3>4. cur'[i].landmark # NoPoint => cur'[i].type = "Corner" /\ cur'[i].ref = NoRef
      BY <1>8, <3>1 DEF Match, Feature
    <3>5. ASSUME cur'[i].ref # NoRef
          PROVE  /\ cur'[i].type \in SeedTypes
                 /\ features'[cur'[i].ref[1]][cur'[i].ref[2]].type \in SeedTypes
      <4> DEFINE s == order[i]
      <4>1. cur'[i].ref = s /\ At(s).landmark = NoPoint /\ cur'[i].type = At(s).type
        BY <3>1, <3>5 DEF Match, Feature
      <4>2. At(s).type \in SeedTypes
        BY <1>8, <3>1, <4>1, PointsToProject, NoPointIsNoPoint
      <4> HIDE DEF s
      <4>3. features'[s[1]][s[2]].type \in SeedTypes
        <5>1. s \in matched
          BY <3>1 DEF s
        <5>2. CASE s \in changed
          BY <1>8, <1>9, <5>1, <5>2 DEF SeedTypes
        <5>3. CASE s \notin changed
          BY <1>8, <1>9, <4>2, <5>1, <5>3 DEF At
        <5> QED BY <5>2, <5>3
      <4> QED BY <4>1, <4>2, <4>3
    <3> QED BY <3>2, <3>3, <3>4, <3>5
  <2> QED BY <1>3, <1>6, <2>1, <2>2
<1>15. NewFrameSeesLivePoints'
  <2> SUFFICES ASSUME NEW i \in Slots
      PROVE /\ cur'[i].landmark # NoPoint =>
                 /\ obs'[cur'[i].landmark] # {}
                 /\ RemoveUnconstrained => Cardinality(obs'[cur'[i].landmark]) >= 2
            /\ cur'[i].ref # NoRef => cur'[i].ref[1] \in keyframes'
    BY DEF NewFrameSeesLivePoints
  <2>1. CASE i > Len(order)
    BY <1>7, <2>1 DEF Empty, Feature
  <2>2. CASE i <= Len(order)
    <3> DEFINE s == order[i]
    <3>1. s \in matched /\ cur'[i] = Match(s)
      BY <1>7, <2>2
    <3> HIDE DEF s
    <3>2. ASSUME At(s).landmark # NoPoint
          PROVE  /\ obs'[At(s).landmark] # {}
                 /\ RemoveUnconstrained => Cardinality(obs'[At(s).landmark]) >= 2
      <4>1. s \in PointCandidates(overlap) /\ At(s).landmark \in Points
        BY <1>8, <3>1, <3>2
      <4>2. obs'[At(s).landmark] = obs[At(s).landmark]
        BY <1>1, <4>1, PointsToProject DEF trash
      <4> QED BY <4>1, <4>2, PointsToProject
    <3>3. s[1] \in keyframes'
      BY <1>1, <1>8, <3>1
    <3> QED BY <3>1, <3>2, <3>3 DEF Match, Feature
  <2> QED BY <1>3, <1>6, <2>1, <2>2
<1>16. NoFeatureTwice'
  <2> SUFFICES ASSUME NEW i \in Slots, NEW j \in Slots, i # j
      PROVE /\ cur'[i].landmark # NoPoint => cur'[i].landmark # cur'[j].landmark
            /\ cur'[i].ref # NoRef => cur'[i].ref # cur'[j].ref
    BY DEF NoFeatureTwice
  <2>1. CASE i > Len(order) \/ j > Len(order)
    BY <1>7, <2>1 DEF Empty, Feature
  <2>2. CASE i <= Len(order) /\ j <= Len(order)
    <3>1. /\ order[i] \in matched /\ cur'[i] = Match(order[i])
          /\ order[j] \in matched /\ cur'[j] = Match(order[j])
      BY <1>7, <2>2
    <3>2. order[i] # order[j]
      BY <1>3, <1>6, <2>2
    <3> QED BY <1>8, <3>1, <3>2, PointsToProject DEF Match, Feature
  <2> QED BY <1>3, <1>6, <2>1, <2>2
<1>17. ObservationsAreMutual'
  <2>1. ASSUME NEW s \in keyframes' \X Slots, At(s)'.landmark # NoPoint
        PROVE  s \in obs'[At(s)'.landmark]
               /\ \A o \in obs'[At(s)'.landmark] : o[1] = s[1] => o = s
    <3>1. s \in keyframes \X Slots /\ s[1] \in Frames /\ s[2] \in Slots /\ s = <<s[1], s[2]>>
      BY <1>1, <1>6
    <3>2. At(s)'.landmark = At(s).landmark /\ ~ \E p \in trash : s \in obs[p]
      BY <1>9, <2>1, <3>1 DEF At
    <3>3. /\ At(s).landmark \in Points /\ s \in obs[At(s).landmark]
          /\ \A o \in obs[At(s).landmark] : o[1] = s[1] => o = s
      BY <2>1, <3>1, <3>2, LandmarkSlot DEF IInv
    <3>4. obs'[At(s).landmark] = obs[At(s).landmark]
      BY <1>1, <3>2, <3>3
    <3> QED BY <3>2, <3>3, <3>4
  <2>2. ASSUME NEW p \in Points, NEW o \in obs'[p]
        PROVE  o[1] \in keyframes' /\ At(o)'.landmark = p
    <3>1. p \notin trash /\ o \in obs[p]
      BY <1>1
    <3>2. o \in keyframes \X Slots /\ At(o).landmark = p
      BY <3>1, Observation DEF IInv
    <3>3. \A q \in trash : o \notin obs[q]
      BY <1>5, <3>1, <3>2, Observation DEF IInv
    <3>4. o[1] \in Frames /\ o[2] \in Slots /\ o = <<o[1], o[2]>>
      BY <1>6, <3>2
    <3>5. At(o)'.landmark = At(o).landmark
      BY <1>9, <3>3, <3>4 DEF At
    <3> QED BY <1>1, <3>2, <3>5
  <2> QED BY <2>1, <2>2, MutualNext
<1>18. SeedsHaveNoLandmark'
  <2> SUFFICES ASSUME NEW s \in keyframes \X Slots
               PROVE  /\ At(s)'.type \in SeedTypes \cup {"None"} => At(s)'.landmark = NoPoint
                      /\ At(s)'.ref = NoRef
    BY <1>1 DEF SeedsHaveNoLandmark
  <2>1. s[1] \in Frames /\ s[2] \in Slots /\ s = <<s[1], s[2]>>
    BY <1>6
  <2>2. /\ At(s).type \in SeedTypes \cup {"None"} => At(s).landmark = NoPoint
        /\ At(s).ref = NoRef
    BY DEF IInv, SeedsHaveNoLandmark
  <2>3. At(s)'.landmark \in {At(s).landmark, NoPoint} /\ At(s)'.ref = At(s).ref
    BY <1>9, <2>1 DEF At
  <2>4. CASE s \in changed
    BY <1>9, <2>1, <2>2, <2>3, <2>4 DEF At
  <2>5. CASE s \notin changed
    BY <1>9, <2>1, <2>2, <2>3, <2>5 DEF At
  <2> QED BY <2>4, <2>5
<1> QED BY <1>12, <1>13, <1>14, <1>15, <1>16, <1>17, <1>18 DEF IInv

-----------------------------------------------------------------------------
(* The frame that becomes a keyframe. *)

(* Free slots are those after the features matched. *)
LEMMA SeedSlotsAreFree ==
  ASSUME IInv, NEW n, NEW i \in SeedSlots(n)
  PROVE  i \in Slots /\ cur[i] = Empty
<1>1. i \in Slots /\ Cardinality(Tracked) < i
  BY DEF SeedSlots
<1>2. Slots = 1 .. NSlots /\ NSlots \in Nat
  BY FeatureMapAssumption DEF Slots
<1>3. i \notin Tracked
  <2> SUFFICES ASSUME i \in Tracked PROVE FALSE
    OBVIOUS
  <2>1. 1 .. i \subseteq Tracked
    BY <1>1, <1>2 DEF Tracked, IInv, MatchesInv
  <2>2. IsFiniteSet(Tracked) /\ Cardinality(Tracked) \in Nat
    BY SlotsAreFinite, FS_Subset, FS_CardinalityType DEF Tracked
  <2>3. Cardinality(1 .. i) <= Cardinality(Tracked)
    BY <2>1, <2>2, FS_Subset
  <2>4. Cardinality(1 .. i) = i
    BY <1>1, <1>2, FS_Interval
  <2> QED BY <1>1, <1>2, <2>2, <2>3, <2>4
<1> QED BY <1>1, <1>3 DEF Tracked, IInv, MatchesInv

(* What optimizePose() leaves: points the map observes, seeds it still has.*)
LEMMA OptimizedFeature ==
  ASSUME IInv, NEW outliers, NEW i \in Slots
  PROVE  LET g == WithoutOutliers(outliers)[i] IN
         /\ g \in Features /\ g.landmark \in {NoPoint, cur[i].landmark}
         /\ g.landmark # NoPoint => /\ g.type = "Corner" /\ g.ref = NoRef
                                   /\ g.landmark \in Points /\ obs[g.landmark] # {}
         /\ g.ref # NoRef => /\ g.ref = cur[i].ref /\ g.ref \in keyframes \X Slots
                            /\ At(g.ref).type \in SeedTypes /\ At(g.ref).landmark = NoPoint
<1> DEFINE g == WithoutOutliers(outliers)[i]
<1>1. g = IF i \in outliers THEN Feature("Outlier", NoPoint, NoRef) ELSE cur[i]
  BY DEF WithoutOutliers
<1>2. cur[i] \in Features
  BY DEF IInv, TypeOK
<1>3. CASE i \in outliers
  BY <1>1, <1>3 DEF Feature, Features, Types
<1>4. CASE i \notin outliers
  <2>1. g = cur[i]
    BY <1>1, <1>4
  <2> HIDE DEF g
  <2>2. g.landmark # NoPoint =>
          /\ g.type = "Corner" /\ g.ref = NoRef
          /\ g.landmark \in Points /\ obs[g.landmark] # {}
    BY <1>2, <2>1 DEF Features, IInv, MatchesInv, NewFrameSeesLivePoints
  <2>3. ASSUME g.ref # NoRef
        PROVE  /\ g.ref \in keyframes \X Slots
               /\ At(g.ref).type \in SeedTypes /\ At(g.ref).landmark = NoPoint
    <3>1. g.ref \in Frames \X Slots /\ g.ref[1] \in keyframes /\ At(g.ref).type \in SeedTypes
      BY <1>2, <2>1, <2>3 DEF Features, IInv, MatchesInv, NewFrameSeesLivePoints
    <3>2. g.ref \in keyframes \X Slots
      BY <3>1
    <3> QED BY <3>1, <3>2 DEF IInv, SeedsHaveNoLandmark
  <2>4. WithoutOutliers(outliers)[i] = g
    BY DEF g
  <2> HIDE DEF IInv
  <2> QED BY <1>2, <2>1, <2>2, <2>3, <2>4
<1> QED BY <1>3, <1>4

(* Every seed matched is upgraded: it is a seed still. The points it may   *)
(* get are new to everybody.                                               *)
LEMMA EverySeedIsUpgraded ==
  ASSUME IInv, NEW outliers
  PROVE  LET fs == WithoutOutliers(outliers) IN
         /\ Upgraded(fs) = Matched(fs) /\ Matched(fs) \subseteq keyframes \X Slots
         /\ \A s \in Matched(fs) : At(s).landmark = NoPoint
<1> QED BY OptimizedFeature DEF Upgraded, Matched

LEMMA UnusedPoints ==
  ASSUME IInv, NEW p \in Unused
  PROVE  p \in Points /\ obs[p] = {} /\ \A i \in Slots : cur[i].landmark # p
BY DEF Unused, Referenced

(* The features of the new keyframe: no references, no point twice.        *)
LEMMA UpgradedFeatures ==
  ASSUME IInv, NEW outliers,
         NEW name \in Injection(Upgraded(WithoutOutliers(outliers)), Unused),
         NEW i \in Slots
  PROVE  LET fs == WithoutOutliers(outliers)
             g == UpgradedFeature(fs[i], name) IN
         /\ g \in Features /\ g.ref = NoRef
         /\ g.landmark # NoPoint => g.type = "Corner"
         /\ cur[i] = Empty => g.landmark = NoPoint
         /\ \A j \in Slots : (g.landmark # NoPoint /\ i # j) =>
              UpgradedFeature(fs[j], name).landmark # g.landmark
<1> DEFINE fs == WithoutOutliers(outliers)
           g(j) == UpgradedFeature(fs[j], name)
<1>1. /\ name \in [Matched(fs) -> Unused]
      /\ \A s, t \in Matched(fs) : name[s] = name[t] => s = t
  BY EverySeedIsUpgraded DEF Injection, IsInjective
<1>2. ASSUME NEW j \in Slots
      PROVE  /\ fs[j] \in Features /\ fs[j].landmark \in {NoPoint, cur[j].landmark}
             /\ fs[j].landmark # NoPoint => fs[j].type = "Corner" /\ fs[j].ref = NoRef
             /\ fs[j].ref # NoRef => fs[j].ref = cur[j].ref /\ fs[j].ref \in Matched(fs)
  BY OptimizedFeature DEF Matched
<1>3. cur[i] = Empty => fs[i].landmark = NoPoint /\ fs[i].ref = NoRef
  BY DEF WithoutOutliers, Empty, Feature
<1> HIDE DEF fs
<1>4. ASSUME NEW j \in Slots
      PROVE  \/ /\ fs[j].ref = NoRef /\ g(j) = fs[j]
             \/ /\ fs[j].ref # NoRef /\ g(j) = Corner(name[fs[j].ref])
                /\ fs[j].ref \in Matched(fs) /\ name[fs[j].ref] \in Unused
                /\ fs[j].ref = cur[j].ref
  BY <1>1, <1>2 DEF UpgradedFeature, PointAt
<1>5. \A p \in Unused : p \in Points /\ p # NoPoint /\ \A j \in Slots : cur[j].landmark # p
  BY UnusedPoints, NoPointIsNoPoint
<1>6. /\ g(i) \in Features /\ g(i).ref = NoRef
      /\ g(i).landmark # NoPoint => g(i).type = "Corner"
  <2>1. CASE fs[i].ref = NoRef
    BY <1>2, <1>4, <2>1
  <2>2. CASE fs[i].ref # NoRef
    <3>1. g(i) = Corner(name[fs[i].ref]) /\ name[fs[i].ref] \in Points
      BY <1>4, <1>5, <2>2
    <3> HIDE DEF g
    <3> QED BY <3>1 DEF Corner, Feature, Features, Types
  <2> QED BY <2>1, <2>2
<1>7. cur[i] = Empty => g(i).landmark = NoPoint
  BY <1>3, <1>4
<1>8. ASSUME NEW j \in Slots, g(i).landmark # NoPoint, i # j
      PROVE  g(j).landmark # g(i).landmark
  <2>1. NoFeatureTwice
    BY DEF IInv
  <2>2. ASSUME NEW l \in Slots, fs[l].ref # NoRef
        PROVE  /\ g(l).landmark = name[fs[l].ref] /\ name[fs[l].ref] \in Unused
               /\ fs[l].ref = cur[l].ref /\ fs[l].ref \in Matched(fs)
    <3>1. /\ g(l) = Corner(name[fs[l].ref]) /\ name[fs[l].ref] \in Unused
          /\ fs[l].ref = cur[l].ref /\ fs[l].ref \in Matched(fs)
      BY <1>4, <2>2
    <3> HIDE DEF g
    <3> QED BY <3>1 DEF Corner, Feature
  <2>3. \A l \in Slots : fs[l].ref = NoRef => g(l).landmark \in {NoPoint, cur[l].landmark}
    BY <1>2, <1>4
  <2> HIDE DEF g
  <2>4. CASE fs[i].ref = NoRef /\ fs[j].ref = NoRef
    BY <1>8, <2>1, <2>3, <2>4 DEF NoFeatureTwice
  <2>5. CASE fs[i].ref # NoRef /\ fs[j].ref # NoRef
    BY <1>1, <1>8, <2>1, <2>2, <2>5 DEF NoFeatureTwice
  <2>6. CASE fs[i].ref # NoRef /\ fs[j].ref = NoRef
    BY <1>5, <1>8, <2>2, <2>3, <2>6
  <2>7. CASE fs[i].ref = NoRef /\ fs[j].ref # NoRef
    BY <1>5, <1>8, <2>2, <2>3, <2>7
  <2> QED BY <2>4, <2>5, <2>6, <2>7
<1> QED BY <1>6, <1>7, <1>8 DEF fs

LEMMA SelectPreserves ==
  ASSUME IInv, NEW outliers, SelectFrame(outliers) PROVE IInv'
<1> DEFINE fs == WithoutOutliers(outliers)
<1>1. PICK gone \in SUBSET keyframes, n \in 0 .. Cardinality(Slots \ Tracked) :
        \E seeds \in [SeedSlots(n) -> SeedOutcomes],
           f \in Frames \ keyframes, name \in Injection(Upgraded(fs), Unused) :
          NewKeyframe(fs, f, name, seeds, gone)
  BY DEF SelectFrame
<1>2. PICK seeds \in [SeedSlots(n) -> SeedOutcomes],
           f \in Frames \ keyframes, name \in Injection(Upgraded(fs), Unused) :
          NewKeyframe(fs, f, name, seeds, gone)
  BY <1>1
<1> DEFINE h(i) == UpgradedFeature(fs[i], name)
<1>3. /\ pc' = "idle" /\ cur' = NoFeatures
      /\ keyframes' = (keyframes \cup {f}) \ gone
  BY <1>2 DEF NewKeyframe
<1>4. /\ name \in [Matched(fs) -> Unused]
      /\ DOMAIN name = Matched(fs)
      /\ \A s, t \in Matched(fs) : name[s] = name[t] => s = t
      /\ Matched(fs) \subseteq keyframes \X Slots
      /\ \A s \in Matched(fs) : At(s).landmark = NoPoint
  BY EverySeedIsUpgraded DEF Injection, IsInjective
<1>5. \A p \in Unused : p \in Points /\ p # NoPoint /\ obs[p] = {}
  BY UnusedPoints, NoPointIsNoPoint
<1>6. ASSUME NEW i \in Slots
      PROVE  /\ h(i) \in Features /\ h(i).ref = NoRef
             /\ h(i).landmark # NoPoint => h(i).type = "Corner" /\ h(i).landmark \in Points
             /\ cur[i] = Empty => h(i).landmark = NoPoint
             /\ \A j \in Slots : (h(i).landmark # NoPoint /\ i # j) =>
                  h(j).landmark # h(i).landmark
  BY UpgradedFeatures DEF Features
<1>7. \A i \in SeedSlots(n) : i \in Slots /\ h(i).landmark = NoPoint
  BY <1>6, SeedSlotsAreFree
<1>8. TypeOK /\ keyframes \subseteq Frames
  BY DEF IInv, TypeOK
<1>9. features' = [k \in Frames |-> [i \in Slots |->
       IF k \in gone THEN Empty
       ELSE IF k = f /\ i \in SeedSlots(n) THEN Feature(seeds[i], NoPoint, NoRef)
       ELSE IF k = f THEN h(i)
       ELSE IF <<k, i>> \in Matched(fs) THEN Corner(name[<<k, i>>])
       ELSE features[k][i]]]
  BY <1>2, <1>4 DEF NewKeyframe, UpgradedSeed, PointAt
<1>10. ASSUME NEW p \in Points, NEW o
       PROVE  o \in obs'[p] <=>
                /\ o[1] \notin gone
                /\ \/ o \in obs[p]
                   \/ o \in Matched(fs) /\ name[o] = p
                   \/ o \in {f} \X {i \in Slots : h(i).landmark = p}
  BY <1>2, <1>4 DEF NewKeyframe, WithoutKeyframes, WithObservations
<1>11. /\ obs' \in [Points -> SUBSET (Frames \X Slots)]
       /\ nFailed' \in [Points -> 0 .. MaxFailed + 1]
  <2>1. \A p \in Points : obs'[p] \subseteq Frames \X Slots
    BY <1>4, <1>8, <1>10 DEF TypeOK
  <2>2. obs' = [p \in Points |-> obs'[p]]
    BY <1>2 DEF NewKeyframe
  <2>3. nFailed' = [p \in Points |->
          IF obs'[p] = {} \/ \E s \in DOMAIN name : name[s] = p THEN 0 ELSE nFailed[p]]
    BY <1>2 DEF NewKeyframe
  <2>4. nFailed \in [Points -> 0 .. MaxFailed + 1] /\ 0 \in 0 .. MaxFailed + 1
    BY <1>8, FeatureMapAssumption DEF TypeOK
  <2> QED BY <2>1, <2>2, <2>3, <2>4
<1> HIDE DEF fs, h
<1>12. f \in Frames /\ f \notin keyframes /\ f \notin gone
  OBVIOUS
(* The slots of the map, one way to change after the other. *)
<1>13. ASSUME NEW i \in Slots
       PROVE  /\ i \in SeedSlots(n) =>
                   features'[f][i] = Feature(seeds[i], NoPoint, NoRef)
              /\ i \notin SeedSlots(n) => features'[f][i] = h(i)
  BY <1>9, <1>12
<1>14. ASSUME NEW s \in Matched(fs), s[1] \notin gone
       PROVE  features'[s[1]][s[2]] = Corner(name[s])
  <2>1. s[1] \in Frames /\ s[2] \in Slots /\ s = <<s[1], s[2]>> /\ s[1] # f
    BY <1>4, <1>8, <1>12
  <2> QED BY <1>9, <1>14, <2>1
<1>15. ASSUME NEW k \in Frames \ (gone \cup {f}), NEW i \in Slots, <<k, i>> \notin Matched(fs)
       PROVE  features'[k][i] = features[k][i]
  BY <1>9, <1>15
<1>16. \A k \in gone : features'[k] = NoFeatures
  BY <1>8, <1>9 DEF NoFeatures
<1>17. Empty \in Features /\ \A p \in Points : Corner(p) \in Features
  BY DEF Empty, Corner, Feature, Features, Types
<1>18. TypeOK'
  <2>1. ASSUME NEW k \in Frames, NEW i \in Slots PROVE features'[k][i] \in Features
    <3>1. CASE k \in gone
      BY <1>16, <1>17, <3>1 DEF NoFeatures
    <3>2. CASE k = f /\ i \in SeedSlots(n)
      <4>1. features'[f][i] = Feature(seeds[i], NoPoint, NoRef) /\ seeds[i] \in SeedOutcomes
        BY <1>13, <3>2
      <4> QED BY <3>2, <4>1 DEF Feature, Features, Types, SeedOutcomes
    <3>3. CASE k = f /\ i \notin SeedSlots(n)
      BY <1>6, <1>13, <3>3
    <3>4. CASE k \notin gone /\ k # f /\ <<k, i>> \in Matched(fs)
      BY <1>4, <1>5, <1>14, <1>17, <3>4
    <3>5. CASE k \notin gone /\ k # f /\ <<k, i>> \notin Matched(fs)
      BY <1>8, <1>15, <3>5 DEF TypeOK
    <3> QED BY <3>1, <3>2, <3>3, <3>4, <3>5
  <2>2. features' = [k \in Frames |-> [i \in Slots |-> features'[k][i]]]
    BY <1>9
  <2>3. features' \in [Frames -> [Slots -> Features]]
    BY <2>1, <2>2
  <2>4. NoFeatures \in [Slots -> Features]
    BY <1>17 DEF NoFeatures
  <2> QED BY <1>3, <1>8, <1>11, <1>12, <2>3, <2>4 DEF TypeOK
<1>19. MatchesInv' /\ NewFrameSeesLivePoints' /\ NoFeatureTwice'
  BY <1>3, NothingInProcess
<1>20. DroppedInv'
  <2> SUFFICES ASSUME NEW k \in Frames \ keyframes' PROVE features'[k] = NoFeatures
    BY DEF DroppedInv
  <2>1. CASE k \in gone
    BY <1>16, <2>1
  <2>2. CASE k \notin gone
    <3>1. k \notin keyframes /\ k # f
      BY <1>3, <1>12, <2>2
    <3>2. \A i \in Slots : <<k, i>> \notin Matched(fs)
      BY <1>4, <3>1
    <3>3. \A i \in Slots : features'[k][i] = features[k][i]
      BY <1>15, <2>2, <3>1, <3>2
    <3>4. features[k] = NoFeatures
      BY <3>1 DEF IInv, DroppedInv
    <3>5. features'[k] = [i \in Slots |-> features'[k][i]]
      BY <1>9
    <3> QED BY <3>3, <3>4, <3>5 DEF NoFeatures
  <2> QED BY <2>1, <2>2
<1>21. ObservationsAreMutual'
  <2>1. ASSUME NEW s \in keyframes' \X Slots, At(s)'.landmark # NoPoint
        PROVE  s \in obs'[At(s)'.landmark]
               /\ \A o \in obs'[At(s)'.landmark] : o[1] = s[1] => o = s
    <3> DEFINE p == At(s)'.landmark
    <3>1. /\ s[1] \in keyframes \cup {f} /\ s[1] \notin gone /\ s[1] \in Frames
          /\ s[2] \in Slots /\ s = <<s[1], s[2]>> /\ p = features'[s[1]][s[2]].landmark
      BY <1>3, <1>8, <1>12 DEF At
    <3>2. \A q \in Points : \A o \in obs[q] : o \in keyframes \X Slots /\ At(o).landmark = q
      BY Observation DEF IInv
    <3> HIDE DEF p
    <3>3. p # NoPoint
      BY <2>1 DEF p
    <3>4. CASE s[1] = f
      <4>0. p = features'[f][s[2]].landmark
        BY <3>1, <3>4
      <4>1. p = h(s[2]).landmark /\ p \in Points
        <5>1. s[2] \notin SeedSlots(n)
          <6> SUFFICES ASSUME s[2] \in SeedSlots(n) PROVE FALSE
            OBVIOUS
          <6>1. features'[f][s[2]] = Feature(seeds[s[2]], NoPoint, NoRef)
            BY <1>13, <3>1
          <6> QED BY <3>3, <4>0, <6>1 DEF Feature
        <5>2. features'[f][s[2]] = h(s[2])
          BY <1>13, <3>1, <5>1
        <5> QED BY <1>6, <3>1, <3>3, <4>0, <5>2
      <4>2. s \in obs'[p]
        BY <1>10, <3>1, <3>4, <4>1
      <4>3. ASSUME NEW o \in obs'[p], o[1] = f PROVE o = s
        <5>1. o \notin obs[p] /\ o \notin Matched(fs)
          BY <1>4, <1>12, <3>2, <4>1, <4>3
        <5>2. o \in {f} \X {i \in Slots : h(i).landmark = p}
          BY <1>10, <4>1, <5>1
        <5>3. o = <<f, o[2]>> /\ o[2] \in Slots /\ h(o[2]).landmark = p
          BY <5>2
        <5>4. o[2] = s[2]
          BY <1>6, <3>1, <3>3, <4>1, <5>3
        <5> QED BY <3>1, <3>4, <5>3, <5>4
      <4> QED BY <3>4, <4>2, <4>3 DEF p
    <3>5. CASE s[1] # f /\ s \in Matched(fs)
      <4>1. p = name[s] /\ p \in Points /\ obs[p] = {}
        <5>1. features'[s[1]][s[2]] = Corner(name[s])
          BY <1>14, <3>1, <3>5
        <5>2. p = name[s]
          BY <3>1, <5>1 DEF Corner, Feature
        <5> QED BY <1>4, <1>5, <3>5, <5>2
      <4>2. s \in obs'[p]
        BY <1>10, <3>1, <3>5, <4>1
      <4>3. ASSUME NEW o \in obs'[p], o[1] = s[1] PROVE o = s
        BY <1>4, <1>10, <3>5, <4>1, <4>3
      <4> QED BY <4>2, <4>3 DEF p
    <3>6. CASE s[1] # f /\ s \notin Matched(fs)
      <4>1. p = At(s).landmark /\ s \in keyframes \X Slots
        BY <1>15, <3>1, <3>6 DEF At
      <4>2. p \in Points /\ s \in obs[p] /\ \A o \in obs[p] : o[1] = s[1] => o = s
        BY <3>3, <4>1, LandmarkSlot DEF IInv
      <4>3. s \in obs'[p]
        BY <1>10, <3>1, <4>2
      <4>4. \A o \in Matched(fs) : name[o] # p
        BY <1>4, <1>5, <4>2
      <4>5. ASSUME NEW o \in obs'[p], o[1] = s[1] PROVE o = s
        BY <1>10, <3>6, <4>2, <4>4, <4>5
      <4> QED BY <4>3, <4>5 DEF p
    <3> QED BY <3>4, <3>5, <3>6
  <2>2. ASSUME NEW p \in Points, NEW o \in obs'[p]
        PROVE  o[1] \in keyframes' /\ At(o)'.landmark = p
    <3>1. o[1] \notin gone
      BY <1>10
    <3>2. CASE o \in obs[p]
      <4>1. o \in keyframes \X Slots /\ At(o).landmark = p
        BY <3>2, Observation DEF IInv
      <4>2. o \notin Matched(fs) /\ o = <<o[1], o[2]>> /\ o[1] \in Frames /\ o[1] # f
        BY <1>4, <1>8, <1>12, <4>1, NoPointIsNoPoint
      <4>3. features'[o[1]][o[2]] = features[o[1]][o[2]]
        BY <1>15, <3>1, <4>1, <4>2
      <4> QED BY <1>3, <3>1, <4>1, <4>3 DEF At
    <3>3. CASE o \in Matched(fs) /\ name[o] = p
      <4>1. features'[o[1]][o[2]] = Corner(p)
        BY <1>14, <3>1, <3>3
      <4>2. o[1] \in keyframes
        BY <1>4, <3>3
      <4> QED BY <1>3, <3>1, <4>1, <4>2 DEF At, Corner, Feature
    <3>4. CASE o \in {f} \X {i \in Slots : h(i).landmark = p}
      <4>1. o[1] = f /\ o[2] \in Slots /\ h(o[2]).landmark = p
        BY <3>4
      <4>2. o[2] \notin SeedSlots(n)
        BY <1>7, <4>1, NoPointIsNoPoint
      <4>3. features'[f][o[2]] = h(o[2])
        BY <1>13, <4>1, <4>2
      <4> QED BY <1>3, <3>1, <4>1, <4>3 DEF At
    <3> QED BY <1>10, <3>2, <3>3, <3>4
  <2> QED BY <2>1, <2>2, MutualNext
<1>22. SeedsHaveNoLandmark'
  <2> SUFFICES ASSUME NEW s \in keyframes' \X Slots
               PROVE  LET next == features'[s[1]][s[2]] IN
                      /\ next.type \in SeedTypes \cup {"None"} => next.landmark = NoPoint
                      /\ next.ref = NoRef
    BY DEF SeedsHaveNoLandmark, At
  <2>1. /\ s[1] \in keyframes \cup {f} /\ s[1] \notin gone /\ s[1] \in Frames
        /\ s[2] \in Slots /\ s = <<s[1], s[2]>>
    BY <1>3, <1>8, <1>12
  <2>2. CASE s[1] = f /\ s[2] \in SeedSlots(n)
    <3>1. features'[s[1]][s[2]] = Feature(seeds[s[2]], NoPoint, NoRef)
      BY <1>13, <2>1, <2>2
    <3> QED BY <3>1 DEF Feature
  <2>3. CASE s[1] = f /\ s[2] \notin SeedSlots(n)
    BY <1>6, <1>13, <2>1, <2>3 DEF SeedTypes
  <2>4. CASE s[1] # f /\ s \in Matched(fs)
    <3>1. features'[s[1]][s[2]] = Corner(name[s])
      BY <1>14, <2>1, <2>4
    <3> QED BY <3>1 DEF Corner, Feature, SeedTypes
  <2>5. CASE s[1] # f /\ s \notin Matched(fs)
    BY <1>15, <2>1, <2>5 DEF IInv, SeedsHaveNoLandmark, At
  <2> QED BY <2>2, <2>3, <2>4, <2>5
<1> QED BY <1>18, <1>19, <1>20, <1>21, <1>22 DEF IInv

LEMMA NextPreserves == ASSUME IInv, [Next]_vars PROVE IInv'
<1>1. CASE ResetMap
  BY <1>1, ResetPreserves
<1>2. CASE \E points \in SUBSET Points, tracked, seeds \in 0 .. Cardinality(Slots) :
             InitializeMap(points, tracked, seeds)
  BY <1>2, InitializePreserves
<1>3. CASE \E diverged \in SUBSET Updated(keyframes) :
             \E converged \in SUBSET (SeedsOf(keyframes) \ diverged) :
               BeginFrame(converged, diverged)
  BY <1>3, BeginPreserves
<1>4. CASE \E overlap \in Overlaps :
             \E matched \in SUBSET Candidates(overlap),
                changed \in SUBSET SeedCandidates(overlap, "Seed") :
               \E failed \in SUBSET (PointCandidates(overlap) \ matched) :
                 ProjectMapInFrame(overlap, matched, failed, changed)
  BY SMTT(30), <1>4, ProjectPreserves
<1>5. CASE LeaveFrame
  BY <1>5, LeavePreserves
<1>6. CASE \E outliers \in SUBSET Removable : SelectFrame(outliers)
  BY <1>6, SelectPreserves
<1>7. CASE UNCHANGED vars
  BY <1>7 DEF vars, map, IInv, TypeOK, DroppedInv, MatchesInv, ObservationsAreMutual,
     SeedsHaveNoLandmark, NewFrameSeesLivePoints, NoFeatureTwice, SlotsOf, At
<1> QED BY <1>1, <1>2, <1>3, <1>4, <1>5, <1>6, <1>7 DEF Next

-----------------------------------------------------------------------------
(* The parts of the invariant hold together in every state. *)
THEOREM InductiveInvariant == Spec => []IInv
<1>1. Init => IInv
  BY InitEstablishesIInv
<1>2. IInv /\ [Next]_vars => IInv'
  BY NextPreserves
<1> QED BY <1>1, <1>2, PTL DEF Spec

(* Every slot holds a feature, every observation is of a slot, and a point *)
(* fails at most once more than reprojectFrames() allows it to.            *)
THEOREM TypeCorrect == Spec => []TypeOK
<1>1. IInv => TypeOK
  BY DEF IInv
<1> QED BY <1>1, InductiveInvariant, PTL

(* What Map::checkDataConsistency() checks of points and keyframes: each   *)
(* refers to the other, from and to the same slot, whatever was matched,   *)
(* upgraded, evicted or deleted.                                           *)
THEOREM ObservationsStayMutual == Spec => []ObservationsAreMutual
<1>1. IInv => ObservationsAreMutual
  BY DEF IInv
<1> QED BY <1>1, InductiveInvariant, PTL

(* What Map::checkDataConsistency() checks of seeds: none has a landmark.  *)
THEOREM SeedsStayWithoutLandmark == Spec => []SeedsHaveNoLandmark
<1>1. IInv => SeedsHaveNoLandmark
  BY DEF IInv
<1> QED BY <1>1, InductiveInvariant, PTL

(* Points deleted by the reprojector are never those the frame in process  *)
(* was given, and its seeds are of keyframes in the map.                   *)
THEOREM FrameSeesLivePoints == Spec => []NewFrameSeesLivePoints
<1>1. IInv => NewFrameSeesLivePoints
  BY DEF IInv
<1> QED BY <1>1, InductiveInvariant, PTL

(* The CHECKs of upgradeSeedsToFeatures() do not fail as long as seeds are *)
(* updated in the tracking thread: what was matched is a seed still.       *)
THEOREM UpgradeAlwaysKnowsType == Spec => []UpgradeKnowsType
<1>1. IInv => UpgradeKnowsType
  BY DEF IInv, MatchesInv, UpgradeKnowsType
<1> QED BY <1>1, InductiveInvariant, PTL

(* The assertion of addObservation(): no frame observes a point twice.     *)
THEOREM FeaturesAreDistinct == Spec => []NoFeatureTwice
<1>1. IInv => NoFeatureTwice
  BY DEF IInv
<1> QED BY <1>1, InductiveInvariant, PTL

(* As long as its keyframe is in the map, a slot that is not a seed's      *)
(* keeps its type, and its point unless that is deleted; a seed converges, *)
(* diverges, or is upgraded to a corner with a point, and goes no way back.*)
THEOREM SlotsAlwaysMoveForward == Spec => SlotsOnlyMoveForward
<1> DEFINE MovesTo(now, next) ==
             /\ next.type \in LaterTypes(now.type)
             /\ IF now.type \in SeedTypes
                THEN next.landmark # NoPoint <=> next.type = "Corner"
                ELSE next.landmark \in {now.landmark, NoPoint}
           Forward == \A s \in keyframes \X Slots :
             s[1] \in keyframes' => MovesTo(At(s), features'[s[1]][s[2]])
<1>1. ASSUME IInv, Next PROVE Forward
  <2> SUFFICES ASSUME NEW s \in keyframes \X Slots, s[1] \in keyframes'
               PROVE  MovesTo(At(s), features'[s[1]][s[2]])
    OBVIOUS
  <2> HIDE DEF Forward
  <2>1. /\ s[1] \in keyframes /\ s[1] \in Frames /\ s[2] \in Slots
        /\ s = <<s[1], s[2]>> /\ At(s) = features[s[1]][s[2]]
        /\ At(s).type \in SeedTypes => At(s).landmark = NoPoint
    BY <1>1 DEF IInv, TypeOK, At, SeedsHaveNoLandmark
  <2>2. CASE ResetMap
    BY <2>2 DEF ResetMap
  <2>3. ASSUME NEW points, NEW tracked, NEW seeds, InitializeMap(points, tracked, seeds)
        PROVE  FALSE
    BY <2>1, <2>3 DEF InitializeMap
  <2>8. features'[s[1]][s[2]] = At(s) => MovesTo(At(s), features'[s[1]][s[2]])
    BY <2>1 DEF LaterTypes, SeedTypes
  <2>9. ASSUME At(s).type \in SeedTypes, features'[s[1]][s[2]].landmark = NoPoint,
               features'[s[1]][s[2]].type \in {"Converged", "Outlier"}
        PROVE  MovesTo(At(s), features'[s[1]][s[2]])
    BY <2>9 DEF LaterTypes, SeedTypes
  <2>4. ASSUME NEW converged, NEW diverged, BeginFrame(converged, diverged)
        PROVE  MovesTo(At(s), features'[s[1]][s[2]])
    <3>1. /\ converged \cup diverged \subseteq SeedsOf(keyframes)
          /\ features' = Retyped(converged, diverged)
      BY <2>4 DEF BeginFrame, Updated
    <3>2. CASE s \in converged \cup diverged
      <4>1. At(s).type \in SeedTypes
        BY <3>1, <3>2 DEF SeedsOf
      <4>2. /\ features'[s[1]][s[2]].landmark = NoPoint
            /\ features'[s[1]][s[2]].type \in {"Converged", "Outlier"}
        BY <1>1, <2>1, <3>1, <3>2, <4>1, RetypedSlot DEF IInv
      <4> QED BY <2>9, <4>1, <4>2
    <3>3. CASE s \notin converged \cup diverged
      <4>1. features'[s[1]][s[2]] = At(s)
        BY <1>1, <2>1, <3>1, <3>3, RetypedSlot DEF IInv
      <4> QED BY <2>8, <4>1
    <3> QED BY <3>2, <3>3
  <2>5. ASSUME NEW overlap \in Overlaps, NEW matched,
               NEW changed \in SUBSET SeedCandidates(overlap, "Seed"), NEW failed,
               ProjectMapInFrame(overlap, matched, failed, changed)
        PROVE  MovesTo(At(s), features'[s[1]][s[2]])
    <3> DEFINE next == features'[s[1]][s[2]]
    <3>1. features' = WithoutPoints(TriedSeeds(matched, changed), Trash(overlap))
      BY <2>5 DEF ProjectMapInFrame
    <3>2. /\ next.landmark \in {At(s).landmark, NoPoint}
          /\ s \in changed => At(s).type \in SeedTypes /\ next.type \in {"Converged", "Outlier"}
          /\ s \notin changed => next.type = At(s).type
      BY <1>1, <2>1, <3>1, ProjectedSlot
    <3> HIDE DEF next
    <3>3. CASE s \in changed
      <4>1. next.landmark = NoPoint
        BY <2>1, <3>2, <3>3
      <4> QED BY <2>9, <3>2, <3>3, <4>1 DEF next
    <3>4. CASE s \notin changed
      <4>1. MovesTo(At(s), next)
        BY <2>1, <3>2, <3>4 DEF LaterTypes, SeedTypes
      <4> QED BY <4>1 DEF next
    <3> QED BY <3>3, <3>4
  <2>6. CASE LeaveFrame
    BY <2>1, <2>6, <2>8 DEF LeaveFrame, map
  <2>7. ASSUME NEW outliers, SelectFrame(outliers)
        PROVE  MovesTo(At(s), features'[s[1]][s[2]])
    <3> DEFINE fs == WithoutOutliers(outliers)
    <3>1. PICK gone \in SUBSET keyframes, n \in 0 .. Cardinality(Slots \ Tracked) :
            \E seeds \in [SeedSlots(n) -> SeedOutcomes],
               f \in Frames \ keyframes, name \in Injection(Upgraded(fs), Unused) :
              NewKeyframe(fs, f, name, seeds, gone)
      BY <2>7 DEF SelectFrame
    <3>2. PICK seeds \in [SeedSlots(n) -> SeedOutcomes],
               f \in Frames \ keyframes, name \in Injection(Upgraded(fs), Unused) :
            NewKeyframe(fs, f, name, seeds, gone)
      BY <3>1
    <3>3. s[1] \notin gone /\ s[1] # f
      BY <2>1, <3>2 DEF NewKeyframe
    <3>4. s \in Matched(fs) => /\ At(s).type \in SeedTypes
                               /\ PointAt(s, name) \in Unused
      <4>1. Upgraded(fs) = Matched(fs) /\ name \in [Upgraded(fs) -> Unused]
        BY <1>1, EverySeedIsUpgraded DEF Injection
      <4>2. s \in Matched(fs) => At(s).type \in SeedTypes
        BY <1>1, OptimizedFeature DEF Matched
      <4> HIDE DEF fs
      <4> QED BY <4>1, <4>2 DEF PointAt
    <3>5. features' = [k \in Frames |-> [i \in Slots |->
           IF k \in gone THEN Empty
           ELSE IF k = f /\ i \in DOMAIN seeds THEN Feature(seeds[i], NoPoint, NoRef)
           ELSE IF k = f THEN UpgradedFeature(fs[i], name)
           ELSE IF <<k, i>> \in Matched(fs) THEN UpgradedSeed(<<k, i>>, PointAt(<<k, i>>, name))
           ELSE features[k][i]]]
      BY <3>2 DEF NewKeyframe
    <3> HIDE DEF fs
    <3>6. CASE s \in Matched(fs)
      <4>1. features'[s[1]][s[2]] = Corner(PointAt(s, name))
        BY <2>1, <3>3, <3>5, <3>6 DEF UpgradedSeed
      <4>2. PointAt(s, name) # NoPoint /\ At(s).type \in SeedTypes
        BY <3>4, <3>6, NoPointIsNoPoint DEF Unused
      <4> QED BY <4>1, <4>2 DEF Corner, Feature, LaterTypes, SeedTypes
    <3>7. CASE s \notin Matched(fs)
      <4>1. features'[s[1]][s[2]] = At(s)
        BY <2>1, <3>3, <3>5, <3>7
      <4> QED BY <2>8, <4>1
    <3> QED BY <3>6, <3>7
  <2> HIDE DEF MovesTo
  <2> QED BY <1>1, <2>2, <2>3, <2>4, <2>5, <2>6, <2>7 DEF Next
<1>2. ASSUME UNCHANGED vars PROVE [Forward]_vars
  BY <1>2
<1>3. IInv /\ [Next]_vars => [Forward]_vars
  BY <1>1, <1>2
<1> QED BY <1>3, InductiveInvariant, PTL DEF Spec, SlotsOnlyMoveForward
=============================================================================
