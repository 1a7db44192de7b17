----------------------- MODULE FeatureMapGraphProofs -----------------------
(***************************************************************************)
(* FeatureMap implements ObservationGraph: what the seeds, matches and     *)
(* observations of single features do adds up to a bipartite graph that    *)
(* changes as the map promises.                                            *)
(***************************************************************************)
EXTENDS FeatureMapProofs

Edges == {e \in Frames \X Points : \E o \in obs[e[2]] : o[1] = e[1]}

(* The observers of a point, from its edges.                               *)
LEMMA ObserversAre ==
  ASSUME NEW E, NEW p, NEW K, \A e \in E : e[2] = p => e[1] \in K,
         \A k \in K : <<k, p>> \in E
  PROVE  Graph!ObserversOf(p, E) = K
<1>1. \A k \in Graph!ObserversOf(p, E) : k \in K
  BY DEF Graph!ObserversOf
<1>2. ASSUME NEW k \in K PROVE k \in Graph!ObserversOf(p, E)
  <2>1. <<k, p>> \in {e \in E : e[2] = p}
    OBVIOUS
  <2> QED BY <2>1 DEF Graph!ObserversOf
<1> QED BY <1>1, <1>2

LEMMA KnownBefore ==
  ASSUME TypeOK
  PROVE  Graph!KnownPoints(Edges) = {p \in Points : obs[p] # {}}
<1>1. \A p \in Points : \A o \in obs[p] : <<o[1], p>> \in Edges
  BY DEF TypeOK, Edges
<1>2. \A e \in Edges : e[2] \in Points /\ obs[e[2]] # {}
  BY DEF Edges
<1>3. Graph!KnownPoints(Edges) = {e[2] : e \in Edges}
  BY DEF Graph!KnownPoints
<1> QED
  <2>1. ASSUME NEW p \in Points, obs[p] # {} PROVE p \in {e[2] : e \in Edges}
    <3>1. PICK o \in obs[p] : TRUE
      BY <2>1
    <3>2. <<o[1], p>> \in Edges /\ <<o[1], p>>[2] = p
      BY <1>1
    <3> QED BY <3>2
  <2> QED BY <1>2, <1>3, <2>1

LEMMA KnownAfter ==
  ASSUME TypeOK'
  PROVE  Graph!KnownPoints(Edges') = {p \in Points : obs'[p] # {}}
<1>1. \A p \in Points : \A o \in obs'[p] : <<o[1], p>> \in Edges'
  BY DEF TypeOK, Edges
<1>2. \A e \in Edges' : e[2] \in Points /\ obs'[e[2]] # {}
  BY DEF Edges
<1>3. Graph!KnownPoints(Edges') = {e[2] : e \in Edges'}
  BY DEF Graph!KnownPoints
<1> QED
  <2>1. ASSUME NEW p \in Points, obs'[p] # {} PROVE p \in {e[2] : e \in Edges'}
    <3>1. PICK o \in obs'[p] : TRUE
      BY <2>1
    <3>2. <<o[1], p>> \in Edges' /\ <<o[1], p>>[2] = p
      BY <1>1
    <3> QED BY <3>2
  <2> QED BY <1>2, <1>3, <2>1

-----------------------------------------------------------------------------
LEMMA ResetClears == ASSUME ResetMap PROVE Graph!Clear
<1>1. keyframes' = {} /\ \A p \in Points : obs'[p] = {}
  BY DEF ResetMap
<1>2. Edges' = {}
  BY <1>1 DEF Edges
<1> QED BY <1>1, <1>2 DEF Graph!Clear, Edges

LEMMA InitializeBootstraps ==
  ASSUME TypeOK, TypeOK', NEW points \in SUBSET Points, NEW tracked, NEW seeds,
         InitializeMap(points, tracked, seeds)
  PROVE  Graph!Bootstrap
<1> DEFINE n == Cardinality(points)
           name == SetToSeq(points)
<1>1. PICK ref \in Frames, new \in Frames :
        /\ ref # new /\ keyframes' = {ref, new}
        /\ obs' = [p \in Points |-> {ref, new} \X {i \in 1 .. n : name[i] = p}]
  BY DEF InitializeMap
<1>2. keyframes = {}
  BY DEF InitializeMap
<1> HIDE DEF n, name
<1>3. ASSUME NEW e
      PROVE  e \in Edges' <=> e \in keyframes' \X {p \in Points : obs'[p] # {}}
  <2>1. ASSUME e \in Edges'
        PROVE  e \in keyframes' \X {p \in Points : obs'[p] # {}}
    BY <1>1, <2>1 DEF Edges
  <2>2. ASSUME e \in keyframes' \X {p \in Points : obs'[p] # {}}
        PROVE  e \in Edges'
    <3>1. e[1] \in {ref, new} /\ e[2] \in Points /\ obs'[e[2]] # {} /\ e = <<e[1], e[2]>>
      BY <1>1, <2>2
    <3>2. PICK i \in 1 .. n : name[i] = e[2]
      BY <1>1, <3>1
    <3>3. <<e[1], i>> \in obs'[e[2]] /\ <<e[1], i>>[1] = e[1]
      BY <1>1, <3>1, <3>2
    <3> QED BY <3>1, <3>3 DEF Edges
  <2> QED BY <2>1, <2>2
<1>4. Edges' = keyframes' \X Graph!KnownPoints(Edges')
  BY <1>3, KnownAfter
<1> QED BY <1>1, <1>2, <1>4 DEF Graph!Bootstrap, Edges

LEMMA ProjectForgets ==
  ASSUME IInv, NEW overlap \in Overlaps, NEW matched, NEW failed, NEW changed,
         ProjectMapInFrame(overlap, matched, failed, changed)
  PROVE  Graph!Forget
<1> DEFINE trash == Trash(overlap)
           points == trash \cap Graph!KnownPoints(Edges)
<1>1. keyframes' = keyframes /\ obs' = [p \in Points |-> IF p \in trash THEN {} ELSE obs[p]]
  BY DEF ProjectMapInFrame
<1> HIDE DEF trash
<1>2. Edges' = {e \in Edges : e[2] \notin trash}
  BY <1>1 DEF Edges
<1>3. \A e \in Edges : e[2] \in Graph!KnownPoints(Edges)
  BY DEF Graph!KnownPoints
<1>4. Edges' = {e \in Edges : e[2] \notin points}
  BY <1>2, <1>3
<1>5. points \in SUBSET Graph!KnownPoints(Edges)
  OBVIOUS
<1> QED BY <1>1, <1>4, <1>5 DEF Graph!Forget, Edges

LEMMA SelectExtends ==
  ASSUME IInv, TypeOK', NEW outliers, SelectFrame(outliers)
  PROVE  Graph!Extend
<1> DEFINE fs == WithoutOutliers(outliers)
<1>1. PICK gone \in SUBSET keyframes, n \in 0 .. Cardinality(Slots \ Tracked) :
        \E seeds \in [SeedSlots(n) -> SeedOutcomes],
           f \in Frames \ keyframes, name \in Injection(Upgraded(fs), Unused) :
          NewKeyframe(fs, f, name, seeds, gone)
  BY DEF SelectFrame
<1>2. PICK seeds \in [SeedSlots(n) -> SeedOutcomes],
           f \in Frames \ keyframes, name \in Injection(Upgraded(fs), Unused) :
          NewKeyframe(fs, f, name, seeds, gone)
  BY <1>1
<1> DEFINE h(i) == UpgradedFeature(fs[i], name)
<1>3. /\ keyframes' = (keyframes \cup {f}) \ gone
      /\ f \in Frames /\ f \notin keyframes /\ f \notin gone
  BY <1>2 DEF NewKeyframe
<1>4. /\ DOMAIN name = Matched(fs) /\ Matched(fs) \subseteq keyframes \X Slots
      /\ \A s \in Matched(fs) : name[s] \in Unused
      /\ \A s, t \in Matched(fs) : name[s] = name[t] => s = t
  BY EverySeedIsUpgraded DEF Injection, IsInjective
<1>5. \A p \in Unused : p \in Points /\ p # NoPoint /\ obs[p] = {}
  BY UnusedPoints, NoPointIsNoPoint
<1>6. ASSUME NEW p \in Points, NEW o
      PROVE  o \in obs'[p] <=>
               /\ o[1] \notin gone
               /\ \/ o \in obs[p]
                  \/ o \in Matched(fs) /\ name[o] = p
                  \/ o \in {f} \X {i \in Slots : h(i).landmark = p}
  BY <1>2, <1>4 DEF NewKeyframe, WithoutKeyframes, WithObservations
(* A point of the new frame was known, or is that of a seed matched.       *)
<1>7. ASSUME NEW i \in Slots, h(i).landmark # NoPoint
      PROVE  \/ obs[h(i).landmark] # {}
             \/ fs[i].ref \in Matched(fs) /\ name[fs[i].ref] = h(i).landmark
  <2>1. CASE fs[i].ref = NoRef
    BY <1>7, <2>1, OptimizedFeature DEF UpgradedFeature
  <2>2. CASE fs[i].ref # NoRef
    <3>1. fs[i].ref \in Matched(fs)
      BY <2>2 DEF Matched
    <3>2. h(i) = Corner(name[fs[i].ref])
      BY <1>4, <2>2, <3>1 DEF UpgradedFeature, PointAt
    <3> QED BY <3>1, <3>2 DEF Corner, Feature
  <2> QED BY <2>1, <2>2
(* A seed matched is that of a slot of the new frame.                      *)
<1>8. ASSUME NEW s \in Matched(fs)
      PROVE  \E i \in Slots : h(i).landmark = name[s]
  <2>1. PICK i \in Slots : fs[i].ref = s /\ s # NoRef
    BY DEF Matched
  <2>2. h(i) = Corner(name[s])
    BY <1>4, <2>1 DEF UpgradedFeature, PointAt
  <2> QED BY <2>2 DEF Corner, Feature
<1> HIDE DEF fs, h
<1>9. TypeOK /\ keyframes \subseteq Frames
  BY DEF IInv, TypeOK
<1>10. keyframes' \ keyframes = {f} /\ keyframes \ keyframes' = gone
  BY <1>3
<1>11. Edges \ Edges' = {e \in Edges : e[1] \in gone}
  <2>1. ASSUME NEW e \in Edges, e[1] \notin gone PROVE e \in Edges'
    <3>1. PICK o \in obs[e[2]] : o[1] = e[1]
      BY DEF Edges
    <3>2. e \in Frames \X Points /\ e[2] \in Points
      BY DEF Edges
    <3>3. o \in obs'[e[2]]
      BY <1>6, <2>1, <3>1, <3>2
    <3> QED BY <3>1, <3>2, <3>3 DEF Edges
  <2>2. ASSUME NEW e \in Edges', e[1] \in gone PROVE FALSE
    <3>1. e[2] \in Points /\ \E o \in obs'[e[2]] : o[1] = e[1]
      BY DEF Edges
    <3> QED BY <1>6, <2>2, <3>1
  <2> QED BY <2>1, <2>2
<1>12. ASSUME NEW p \in Points
       PROVE  /\ obs'[p] # {} /\ obs[p] = {} =>
                   \E s \in Matched(fs) : name[s] = p
              /\ (\E s \in Matched(fs) : name[s] = p) => obs[p] = {} /\ obs'[p] # {}
  <2>1. ASSUME NEW o \in obs'[p], obs[p] = {}
        PROVE  \E s \in Matched(fs) : name[s] = p
    <3>1. CASE o \in Matched(fs) /\ name[o] = p
      BY <3>1
    <3>2. CASE o \in {f} \X {i \in Slots : h(i).landmark = p}
      <4>1. o[2] \in Slots /\ h(o[2]).landmark = p /\ p # NoPoint
        BY <3>2, NoPointIsNoPoint
      <4> QED BY <1>7, <2>1, <4>1
    <3> QED BY <1>6, <2>1, <3>1, <3>2
  <2>2. ASSUME NEW s \in Matched(fs), name[s] = p
        PROVE  obs[p] = {} /\ obs'[p] # {}
    <3>1. PICK i \in Slots : h(i).landmark = p
      BY <1>8, <2>2
    <3>2. <<f, i>> \in {f} \X {j \in Slots : h(j).landmark = p}
      BY <3>1
    <3>3. <<f, i>> \in obs'[p]
      BY <1>3, <1>6, <3>2
    <3> QED BY <1>4, <1>5, <2>2, <3>3
  <2> QED BY <2>1, <2>2
<1> DEFINE born == Graph!KnownPoints(Edges') \ Graph!KnownPoints(Edges)
<1>13. born = {p \in Points : obs'[p] # {} /\ obs[p] = {}}
  BY <1>9, KnownBefore, KnownAfter
<1> HIDE DEF born
<1>14. ASSUME NEW e \in Edges' \ Edges PROVE e[1] = f \/ e[2] \in born
  <2>1. PICK o \in obs'[e[2]] : o[1] = e[1]
    BY DEF Edges
  <2>2. e \in Frames \X Points /\ e[2] \in Points /\ o \notin obs[e[2]]
    BY <2>1 DEF Edges
  <2>3. CASE o \in Matched(fs) /\ name[o] = e[2]
    BY <1>12, <1>13, <2>2, <2>3
  <2>4. CASE o \in {f} \X {i \in Slots : h(i).landmark = e[2]}
    BY <2>1, <2>4
  <2> QED BY SMTT(30), <1>6, <2>1, <2>2, <2>3, <2>4
<1>15. ASSUME NEW p \in born
       PROVE  \E other \in keyframes : Graph!ObserversOf(p, Edges') = {f, other} \ gone
  <2>1. p \in Points /\ obs[p] = {} /\ obs'[p] # {}
    BY <1>13
  <2>2. PICK s \in Matched(fs) : name[s] = p
    BY <1>12, <2>1
  <2>3. s \in keyframes \X Slots /\ s[1] \in keyframes /\ s[1] \in Frames
    BY <1>4, <1>9, <2>2
  <2>4. ASSUME NEW o \in obs'[p] PROVE o[1] \in {f, s[1]} /\ o[1] \notin gone
    BY <1>4, <1>6, <2>1, <2>2
  <2>5. ASSUME NEW k \in {f, s[1]} \ gone PROVE k \in Frames /\ \E o \in obs'[p] : o[1] = k
    <3>1. CASE k = f
      <4>1. PICK i \in Slots : h(i).landmark = p
        BY <1>8, <2>2
      <4>2. <<f, i>> \in {f} \X {j \in Slots : h(j).landmark = p}
        BY <4>1
      <4>3. <<f, i>> \in obs'[p]
        BY <1>3, <1>6, <2>1, <4>2
      <4> QED BY <1>3, <3>1, <4>3
    <3>2. CASE k = s[1]
      <4>1. s \in obs'[p]
        BY <1>6, <2>1, <2>2, <3>2
      <4> QED BY <2>3, <3>2, <4>1
    <3> QED BY <3>1, <3>2
  <2>7. ASSUME NEW e \in Edges', e[2] = p PROVE e[1] \in {f, s[1]} \ gone
    BY SMTT(30), <2>4, <2>7 DEF Edges
  <2>8. ASSUME NEW k \in {f, s[1]} \ gone PROVE <<k, p>> \in Edges' /\ <<k, p>>[2] = p
    BY <2>1, <2>5 DEF Edges
  <2>9. Graph!ObserversOf(p, Edges') = {f, s[1]} \ gone
    BY <2>7, <2>8, ObserversAre
  <2> QED BY <2>3, <2>9
<1>16. f \in keyframes' \ keyframes
  BY <1>10
<1>17. \E k \in keyframes' \ keyframes :
         LET dropped == keyframes \ keyframes'
             new == Graph!KnownPoints(Edges') \ Graph!KnownPoints(Edges) IN
         /\ keyframes' \ keyframes = {k}
         /\ Edges \ Edges' = {e \in Edges : e[1] \in dropped}
         /\ \A e \in Edges' \ Edges : e[1] = k \/ e[2] \in new
         /\ \A p \in new : \E other \in keyframes :
              Graph!ObserversOf(p, Edges') = {k, other} \ dropped
  <2> HIDE DEF Edges
  <2>1. /\ \A e \in Edges' \ Edges : e[1] = f \/ e[2] \in born
        /\ \A p \in born : \E other \in keyframes :
             Graph!ObserversOf(p, Edges') = {f, other} \ gone
    BY <1>14, <1>15
  <2> QED BY <1>10, <1>11, <1>16, <2>1 DEF born
<1> QED BY <1>17 DEF Graph!Extend, Edges

-----------------------------------------------------------------------------
(* Keyframes and points form the graph that ObservationGraph describes:    *)
(* an observation appears only with a new keyframe, a new point only with  *)
(* the keyframe of its seed and the new one, and an observation disappears *)
(* only with its keyframe or with its point as a whole.                    *)
THEOREM MapKeepsGraph == Spec => KeepsGraph
<1>1. Init => Graph!Init
  <2> SUFFICES ASSUME Init PROVE Graph!Init
    OBVIOUS
  <2>1. keyframes = {} /\ Edges = {}
    BY DEF Init, Edges
  <2> QED BY <2>1 DEF Graph!Init, Edges
<1>2. ASSUME IInv, [Next]_vars PROVE [Graph!Next]_(Graph!vars)
  <2>1. IInv' /\ TypeOK /\ TypeOK'
    <3>1. IInv'
      BY <1>2, NextPreserves
    <3> QED BY <1>2, <3>1 DEF IInv
  <2>2. CASE ResetMap
    BY <2>2, ResetClears DEF Graph!Next
  <2>3. ASSUME NEW points \in SUBSET Points, NEW tracked, NEW seeds,
               InitializeMap(points, tracked, seeds)
        PROVE  Graph!Next
    BY <2>1, <2>3, InitializeBootstraps DEF Graph!Next
  <2>4. ASSUME NEW overlap \in Overlaps, NEW matched, NEW failed, NEW changed,
               ProjectMapInFrame(overlap, matched, failed, changed)
        PROVE  Graph!Next
    BY <1>2, <2>4, ProjectForgets DEF Graph!Next
  <2>5. ASSUME NEW outliers, SelectFrame(outliers)
        PROVE  Graph!Next
    BY <1>2, <2>1, <2>5, SelectExtends DEF Graph!Next
  <2>6. ASSUME UNCHANGED <<keyframes, obs>> PROVE UNCHANGED Graph!vars
    BY <2>6 DEF Graph!vars
  <2>7. ASSUME NEW converged, NEW diverged, BeginFrame(converged, diverged)
        PROVE  UNCHANGED Graph!vars
    BY <2>6, <2>7 DEF BeginFrame
  <2>8. CASE LeaveFrame
    BY <2>6, <2>8 DEF LeaveFrame, map
  <2>9. CASE UNCHANGED vars
    BY <2>6, <2>9 DEF vars, map
  <2> QED BY <1>2, <2>2, <2>3, <2>4, <2>5, <2>7, <2>8, <2>9 DEF Next
<1> QED BY <1>1, <1>2, InductiveInvariant, PTL DEF Spec, KeepsGraph, Graph!Spec
=============================================================================
