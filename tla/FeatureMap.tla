----------------------------- MODULE FeatureMap -----------------------------
(***************************************************************************)
(* The landmarks of the map and what one frame after the other does to     *)
(* them: seeds of keyframes converge, diverge or become points, a new      *)
(* frame is matched against both, loses outliers, and if it is selected    *)
(* as keyframe joins the map, from which another keyframe is evicted.      *)
(* Points and keyframes refer to each other: landmark_vec_ one way, obs_   *)
(* the other; the frame in process refers to both.                         *)
(*                                                                         *)
(* One frame is three steps: BeginFrame (seed update), ProjectMapInFrame,  *)
(* then LeaveFrame or, with the removal of outliers, SelectFrame.          *)
(* The depth filter runs in the tracking thread here, as in the training   *)
(* configuration; FeatureMapWorker moves it into a thread of its own.      *)
(*                                                                         *)
(* Abstracted: images, poses, depths and grid cells, by a free choice of   *)
(* what is visible, matched, converged, diverged or an outlier; corner and *)
(* edgelet features, which differ only in their alignment; ids of frames   *)
(* and points nothing refers to any more are used again. Options are those *)
(* of the environment: one camera, no map points of a second detector, no  *)
(* global map, a limit on keyframes above two.                             *)
(***************************************************************************)
EXTENDS Naturals, SequencesExt

CONSTANTS
  Frames,      (* ids of frames that can become keyframes                  *)
  NSlots,      (* bound: features a frame has                              *)
  Points,      (* bound: ids of points                                     *)
  MaxKfs,      (* options_.max_n_kfs                                       *)
  MaxOverlap,  (* reprojector option max_n_kfs                             *)
  MaxMatches,  (* reprojector option max_n_features_per_frame              *)
  MaxFailed,   (* failed reprojections a point survives; 10 in the code    *)
  RemoveUnconstrained  (* reprojector option remove_unconstrained_points   *)

ASSUME FeatureMapAssumption ==
  /\ IsFiniteSet(Frames) /\ IsFiniteSet(Points) /\ 0 \notin Points
  /\ NSlots \in Nat
  /\ MaxKfs \in Nat /\ 2 < MaxKfs /\ MaxKfs < Cardinality(Frames)
  /\ MaxOverlap \in Nat /\ MaxFailed \in Nat
  /\ MaxMatches \in 1 .. NSlots
  /\ RemoveUnconstrained \in BOOLEAN

VARIABLES
  pc,         (* "idle", or where the new frame is: "reproject" or
                 "optimize"                                                *)
  keyframes,  (* ids in map_->keyframes_                                   *)
  features,   (* type_vec_, landmark_vec_, seed_ref_vec_ of each keyframe  *)
  obs,        (* obs_ of each point: pairs of a keyframe and an index      *)
  nFailed,    (* n_failed_reproj_ of each point                            *)
  cur         (* the features of the new frame                             *)

map  == <<keyframes, features, obs, nFailed>>
vars == <<pc, map, cur>>

Slots == 1 .. NSlots

NoPoint == 0
NoRef == <<>>
SeedTypes == {"Seed", "Converged"}
Feature(type, point, ref) == [type |-> type, landmark |-> point, ref |-> ref]
Empty == Feature("None", NoPoint, NoRef)   (* beyond num_features_ *)
Corner(p) == Feature("Corner", p, NoRef)
NewSeed == Feature("Seed", NoPoint, NoRef)
NoFeatures == [i \in Slots |-> Empty]

At(s) == features[s[1]][s[2]]
SlotsOf(kfs) == {s \in kfs \X Slots : At(s).type # "None"}
SeedsOf(kfs) == {s \in kfs \X Slots : At(s).type \in SeedTypes}

(* The points something refers to; the others are deallocated. *)
Referenced ==
  UNION {{At(s).landmark : s \in SlotsOf(keyframes)},
         {cur[i].landmark : i \in Slots},
         {p \in Points : obs[p] # {}}}
Unused == Points \ Referenced

Init ==
  /\ pc = "idle"
  /\ keyframes = {}
  /\ features = [k \in Frames |-> NoFeatures]
  /\ obs = [p \in Points |-> {}]
  /\ nFailed = [p \in Points |-> 0]
  /\ cur = NoFeatures

-----------------------------------------------------------------------------
(* What getClosestNKeyframesWithOverlap() can return. *)
Overlaps == {kfs \in SUBSET keyframes : Cardinality(kfs) <= MaxOverlap}

(* updateSeed(): an unconverged seed may converge, any feature that is     *)
(* passed to it may diverge.                                               *)
SeedOutcomes == {"Seed", "Converged", "Outlier"}
CanConverge(s) == At(s).type = "Seed"
CanDiverge(s) == At(s).type # "Outlier"

Retyped(converged, diverged) ==
  [k \in Frames |-> [i \in Slots |->
     IF <<k, i>> \in diverged THEN [features[k][i] EXCEPT !.type = "Outlier"]
     ELSE IF <<k, i>> \in converged THEN [features[k][i] EXCEPT !.type = "Converged"]
     ELSE features[k][i]]]

(* resetVisionFrontendCommon(): the map is emptied, the frames dropped. *)
ResetMap ==
  /\ pc = "idle" /\ keyframes # {}
  /\ keyframes' = {}
  /\ features' = [k \in Frames |-> NoFeatures]
  /\ obs' = [p \in Points |-> {}]
  /\ UNCHANGED <<pc, nFailed, cur>>

(* rescaleAndInitializePoints() and processFirstFrame(): the first points  *)
(* are observed by both frames, tracked features without a point stay      *)
(* corners, and the second frame gets seeds, updated at once.              *)
InitializeMap(points, tracked, seeds) ==
  LET n == Cardinality(points)
      name == SetToSeq(points)
      track == [i \in Slots |-> IF i <= n THEN Corner(name[i])
                                ELSE IF i <= tracked THEN Corner(NoPoint) ELSE Empty] IN
  /\ pc = "idle" /\ keyframes = {}
  /\ n <= tracked
  /\ \E ref, new \in Frames :
       /\ ref # new
       /\ keyframes' = {ref, new}
       /\ \E type \in [Slots \cap tracked + 1 .. tracked + seeds -> SeedOutcomes] :
            features' = [features EXCEPT
              ![ref] = track,
              ![new] = [i \in Slots |-> IF i \in DOMAIN type
                                        THEN Feature(type[i], NoPoint, NoRef)
                                        ELSE track[i]]]
       /\ obs' = [p \in Points |-> {ref, new} \X {i \in 1 .. n : name[i] = p}]
  /\ nFailed' = [p \in Points |-> IF p \in points THEN 0 ELSE nFailed[p]]
  /\ UNCHANGED <<pc, cur>>

MutUpdatesAnyFeature(kfs) == SlotsOf(kfs)

(* updateSeeds() passes over what is not a seed. *)
Updated(kfs) == SeedsOf(kfs)

(* processFrame() begins with updateSeeds() on the keyframes that          *)
(* overlapped the frame before.                                            *)
BeginFrame(converged, diverged) ==
  /\ pc = "idle" /\ keyframes # {}
  /\ converged \cup diverged \subseteq Updated(keyframes)
  /\ {s[1] : s \in converged \cup diverged} \in Overlaps
  /\ \A s \in converged : CanConverge(s)
  /\ \A s \in diverged : CanDiverge(s)
  /\ pc' = "reproject"
  /\ features' = Retyped(converged, diverged)
  /\ UNCHANGED <<keyframes, obs, nFailed, cur>>

-----------------------------------------------------------------------------
(* reprojectFrames(), for the keyframes that overlap the new frame. *)

(* "try to reproject each map point that the other KF observes" *)
LandmarkSlots(kfs) ==
  {s \in SlotsOf(kfs) : At(s).landmark # NoPoint /\ At(s).type # "Outlier"}

MutEveryObservation(slots) == slots

(* "make sure we project a point only once": the first slot that has it.   *)
OncePerPoint(slots) ==
  {CHOOSE s \in slots : At(s).landmark = p : p \in {At(s).landmark : s \in slots}}

MutWornOutLate(p) == nFailed[p] > MaxFailed + 1
WornOut(p) == nFailed[p] > MaxFailed
Unconstrained(p) == RemoveUnconstrained /\ Cardinality(obs[p]) < 2

Seen(kfs) == {At(s).landmark : s \in LandmarkSlots(kfs)}

(* trash_points *)
Trash(kfs) == {p \in Seen(kfs) : WornOut(p) \/ Unconstrained(p)}

MutTrashIsMatched(kfs) == OncePerPoint(LandmarkSlots(kfs))

PointCandidates(kfs) ==
  OncePerPoint({s \in LandmarkSlots(kfs) : At(s).landmark \notin Trash(kfs)})
SeedCandidates(kfs, type) == {s \in SeedsOf(kfs) : At(s).type = type}
Candidates(kfs) == PointCandidates(kfs) \cup SeedsOf(kfs)

(* The match of a slot: its point, or a reference to its seed, under the   *)
(* type the slot had as a candidate.                                       *)
Match(s) ==
  Feature(At(s).type, At(s).landmark,
          IF At(s).landmark = NoPoint THEN s ELSE NoRef)

(* Matches take the slots of the new frame one after the other. *)
Packed(order) ==
  [i \in Slots |-> IF i <= Len(order) THEN Match(order[i]) ELSE Empty]

MutMatchesDiverged(matched, changed) == Retyped(changed \ matched, changed \cap matched)

(* updateSeed() of the unconverged candidates tried: one that converges is *)
(* a match, one that diverges is none.                                     *)
TriedSeeds(matched, changed) == Retyped(changed \cap matched, changed \ matched)

(* safeDeletePoint(): the slots that observe a deleted point forget it. *)
WithoutPoints(fs, deleted) ==
  [k \in Frames |-> [i \in Slots |->
     IF \E p \in deleted : <<k, i>> \in obs[p]
     THEN [fs[k][i] EXCEPT !.landmark = NoPoint]
     ELSE fs[k][i]]]

(* The candidates in matched matched, the points in failed were tried in   *)
(* vain. Converged seeds are tried only for want of points, unconverged    *)
(* ones only for want of both. At last the trash is deleted.               *)
ProjectMapInFrame(overlap, matched, failed, changed) ==
  LET trash == Trash(overlap)
      points == matched \cap PointCandidates(overlap)
      unconverged == SeedCandidates(overlap, "Seed")
      worn == {At(s).landmark : s \in failed} IN
  /\ pc = "reproject"
  /\ Cardinality(matched) <= MaxMatches
  /\ Cardinality(points) < MaxMatches \/ matched = points
  /\ changed \subseteq unconverged
  /\ Cardinality(matched \ unconverged) < MaxMatches \/ changed = {}
  /\ pc' = "optimize"
  /\ \E first \in SetToSeqs(points),
        second \in SetToSeqs(matched \ (points \cup unconverged)),
        third \in SetToSeqs(matched \cap unconverged) :
       cur' = Packed(first \o second \o third)
  /\ features' = WithoutPoints(TriedSeeds(matched, changed), trash)
  /\ nFailed' = [p \in Points |-> IF p \in worn THEN nFailed[p] + 1
                                  ELSE IF p \in trash THEN 0 ELSE nFailed[p]]
  /\ obs' = [p \in Points |-> IF p \in trash THEN {} ELSE obs[p]]
  /\ UNCHANGED keyframes

(* Failure, or a frame that is not selected, whatever outliers it loses:   *)
(* the map keeps nothing of it.                                            *)
LeaveFrame ==
  /\ pc = "optimize"
  /\ pc' = "idle"
  /\ cur' = NoFeatures
  /\ UNCHANGED map

-----------------------------------------------------------------------------
(* A frame selected as keyframe; fs are its features after optimizePose(). *)

(* removeOutliers() clears point and reference of a slot. *)
WithoutOutliers(outliers) ==
  [i \in Slots |-> IF i \in outliers THEN Feature("Outlier", NoPoint, NoRef) ELSE cur[i]]

Surplus(kfs) ==
  IF Cardinality(kfs) > MaxKfs THEN Cardinality(kfs) - MaxKfs ELSE 0

(* upgradeSeedsToFeatures(): the seeds matched that have no point yet get  *)
(* one each, name[s]; the slots of the new frame share the points.         *)
Matched(fs) == {fs[i].ref : i \in Slots} \ {NoRef}
Upgraded(fs) == {s \in Matched(fs) : At(s).landmark = NoPoint}

MutKeepsSeedType(s, point) == [At(s) EXCEPT !.landmark = point]

(* The slot of a seed that was upgraded. *)
UpgradedSeed(s, point) == Corner(point)

PointAt(s, name) == IF s \in DOMAIN name THEN name[s] ELSE At(s).landmark
UpgradedFeature(f, name) == IF f.ref = NoRef THEN f ELSE Corner(PointAt(f.ref, name))

MutForgetsSeed(fs, name, f) ==
  [p \in Points |-> obs[p] \cup
     ({f} \X {i \in Slots : UpgradedFeature(fs[i], name).landmark = p})]

(* addObservation() for the new frame f and, of a new point, its seed. *)
WithObservations(fs, name, f) ==
  [p \in Points |-> obs[p] \cup {s \in DOMAIN name : name[s] = p} \cup
     ({f} \X {i \in Slots : UpgradedFeature(fs[i], name).landmark = p})]

MutKeepsObservations(observers, gone) == observers

(* removeKeyframe(): no point is observed by an evicted keyframe. *)
WithoutKeyframes(observers, gone) == {s \in observers : s[1] \notin gone}

(* seeds: the types of the new seeds of f, updated at once with the older  *)
(* keyframes; gone: the keyframes furthest away, never f itself. A point   *)
(* that lost all its observers is deallocated.                             *)
NewKeyframe(fs, f, name, seeds, gone) ==
  /\ pc = "optimize"
  /\ pc' = "idle"
  /\ Cardinality(gone) = Surplus(keyframes \cup {f})
  /\ keyframes' = (keyframes \cup {f}) \ gone
  /\ features' = [k \in Frames |-> [i \in Slots |->
       IF k \in gone THEN Empty
       ELSE IF k = f /\ i \in DOMAIN seeds THEN Feature(seeds[i], NoPoint, NoRef)
       ELSE IF k = f THEN UpgradedFeature(fs[i], name)
       ELSE IF <<k, i>> \in Matched(fs) THEN UpgradedSeed(<<k, i>>, PointAt(<<k, i>>, name))
       ELSE features[k][i]]]
  /\ obs' = [p \in Points |-> WithoutKeyframes(WithObservations(fs, name, f)[p], gone)]
  /\ nFailed' = [p \in Points |->
       IF obs'[p] = {} \/ \E s \in DOMAIN name : name[s] = p THEN 0 ELSE nFailed[p]]
  /\ cur' = NoFeatures

-----------------------------------------------------------------------------
Tracked == {i \in Slots : cur[i].type # "None"}
Removable == {i \in Slots : cur[i].landmark # NoPoint \/ cur[i].ref # NoRef}

(* Slots that take n new seeds, the first ones free. *)
SeedSlots(n) == {i \in Slots : Cardinality(Tracked) < i /\ i <= Cardinality(Tracked) + n}

SelectFrame(outliers) ==
  LET fs == WithoutOutliers(outliers) IN
  \E gone \in SUBSET keyframes, n \in 0 .. Cardinality(Slots \ Tracked) :
    \E seeds \in [SeedSlots(n) -> SeedOutcomes],
       f \in Frames \ keyframes, name \in Injection(Upgraded(fs), Unused) :
      NewKeyframe(fs, f, name, seeds, gone)

Next ==
  \/ ResetMap
  \/ \E points \in SUBSET Points, tracked, seeds \in 0 .. Cardinality(Slots) :
       InitializeMap(points, tracked, seeds)
  \/ \E diverged \in SUBSET Updated(keyframes) :
       \E converged \in SUBSET (SeedsOf(keyframes) \ diverged) :
         BeginFrame(converged, diverged)
  \/ \E overlap \in Overlaps :
       \E matched \in SUBSET Candidates(overlap),
          changed \in SUBSET SeedCandidates(overlap, "Seed") :
         \E failed \in SUBSET (PointCandidates(overlap) \ matched) :
           ProjectMapInFrame(overlap, matched, failed, changed)
  \/ LeaveFrame
  \/ \E outliers \in SUBSET Removable : SelectFrame(outliers)

Spec == Init /\ [][Next]_vars

-----------------------------------------------------------------------------
Types == {"None", "Seed", "Converged", "Corner", "Outlier"}
Features == [type : Types, landmark : Points \cup {NoPoint},
             ref : (Frames \X Slots) \cup {NoRef}]

(* A point fails at most once more than it is allowed to: the next frame   *)
(* that sees it puts it into the trash instead of trying it.               *)
TypeOK ==
  /\ pc \in {"idle", "reproject", "optimize"}
  /\ keyframes \subseteq Frames
  /\ features \in [Frames -> [Slots -> Features]]
  /\ obs \in [Points -> SUBSET (Frames \X Slots)]
  /\ nFailed \in [Points -> 0 .. MaxFailed + 1]
  /\ cur \in [Slots -> Features]

(* Map::checkDataConsistency(), and the CHECK_NOTNULL of matchCandidate(): *)
(* a landmark of a keyframe has one observation back to it, the slot it is *)
(* in; an observation leads to a keyframe of the map that has the landmark.*)
ObservationsAreMutual ==
  /\ \A s \in SlotsOf(keyframes) :
       At(s).landmark # NoPoint =>
         {o \in obs[At(s).landmark] : o[1] = s[1]} = {s}
  /\ \A p \in Points : \A o \in obs[p] : o[1] \in keyframes /\ At(o).landmark = p

(* checkDataConsistency() again: no seed has a landmark, and no feature of *)
(* a keyframe keeps a reference to a seed.                                 *)
SeedsHaveNoLandmark ==
  \A s \in keyframes \X Slots :
    /\ At(s).type \in SeedTypes \cup {"None"} => At(s).landmark = NoPoint
    /\ At(s).ref = NoRef

(* The frame in process refers to nothing that is gone: its points are     *)
(* observed in the map and, if the reprojector removes unconstrained ones, *)
(* by two keyframes; its seeds are those of keyframes in the map.          *)
NewFrameSeesLivePoints ==
  \A i \in Slots :
    /\ cur[i].landmark # NoPoint =>
         /\ obs[cur[i].landmark] # {}
         /\ RemoveUnconstrained => Cardinality(obs[cur[i].landmark]) >= 2
    /\ cur[i].ref # NoRef => cur[i].ref[1] \in keyframes

(* The CHECKs of upgradeSeedsToFeatures(): a landmark is of an upgraded    *)
(* type, a seed still of the type of a seed (or upgraded, by another       *)
(* camera's frame).                                                        *)
UpgradeKnowsType ==
  pc = "optimize" =>
    \A i \in Slots :
      /\ cur[i].landmark # NoPoint => cur[i].type = "Corner"
      /\ cur[i].ref # NoRef => At(cur[i].ref).type \in SeedTypes \cup {"Corner"}

(* addObservation() asserts it: no two features of the new frame are of    *)
(* the same point, nor of the same seed.                                   *)
NoFeatureTwice ==
  \A i, j \in Slots :
    i # j => /\ cur[i].landmark # NoPoint => cur[i].landmark # cur[j].landmark
             /\ cur[i].ref # NoRef => cur[i].ref # cur[j].ref

(* What a slot of a keyframe holds only moves forward: a seed converges,   *)
(* becomes an outlier, or a corner, and that exactly when it gets a point; *)
(* it never unconverges and never becomes empty. What is no seed keeps its *)
(* type and at most loses its point.                                       *)
LaterTypes(type) ==
  CASE type = "Seed"      -> {"Seed", "Converged", "Outlier", "Corner"}
    [] type = "Converged" -> {"Converged", "Outlier", "Corner"}
    [] OTHER              -> {type}
SlotsOnlyMoveForward ==
  [][\A s \in keyframes \X Slots :
       s[1] \in keyframes' =>
         LET now == At(s)
             next == features'[s[1]][s[2]] IN
         /\ next.type \in LaterTypes(now.type)
         /\ IF now.type \in SeedTypes
            THEN next.landmark # NoPoint <=> next.type = "Corner"
            ELSE next.landmark \in {now.landmark, NoPoint}]_vars

(* The map is the graph it promises to be: an observation disappears only  *)
(* with its keyframe or with its point as a whole, and a new point starts  *)
(* with two observers.                                                     *)
Graph == INSTANCE ObservationGraph
           WITH observes <- {e \in Frames \X Points : \E o \in obs[e[2]] : o[1] = e[1]}
KeepsGraph == Graph!Spec

-----------------------------------------------------------------------------
(* What makes the invariants inductive together: a frame has features only *)
(* while the map has it; those of the new frame take its first slots, and  *)
(* what they refer to has not changed since they were matched.             *)
DroppedInv == \A k \in Frames \ keyframes : features[k] = NoFeatures

MatchesInv ==
  /\ pc # "optimize" => cur = NoFeatures
  /\ \A i \in Slots :
       /\ cur[i].type = "None" => cur[i] = Empty
       /\ cur[i].type # "None" => \A j \in 1 .. i : cur[j].type # "None"
       /\ cur[i].landmark # NoPoint => cur[i].type = "Corner" /\ cur[i].ref = NoRef
       /\ cur[i].ref # NoRef => cur[i].type \in SeedTypes /\ At(cur[i].ref).type \in SeedTypes

IInv ==
  /\ TypeOK /\ DroppedInv /\ MatchesInv
  /\ ObservationsAreMutual /\ SeedsHaveNoLandmark
  /\ NewFrameSeesLivePoints /\ NoFeatureTwice
=============================================================================
