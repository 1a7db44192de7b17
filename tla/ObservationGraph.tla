-------------------------- MODULE ObservationGraph --------------------------
(***************************************************************************)
(* What the map promises the algorithms that walk it: keyframes and points *)
(* form a bipartite graph, an edge saying that the keyframe observes the   *)
(* point. An edge appears only with a new keyframe, which sees points that *)
(* are known or that it creates together with one older keyframe; an edge  *)
(* disappears only with its keyframe, or with its point as a whole.        *)
(***************************************************************************)
VARIABLES
  keyframes,   (* the keyframes in the map                                 *)
  observes     (* pairs of a keyframe and a point                          *)

vars == <<keyframes, observes>>

ObserversOf(p, edges) == {e[1] : e \in {d \in edges : d[2] = p}}
KnownPoints(edges) == {e[2] : e \in edges}

Init == keyframes = {} /\ observes = {}

(* Two keyframes come first, and observe the same points. *)
Bootstrap ==
  /\ keyframes = {}
  /\ \E ref, new \in keyframes' : ref # new /\ keyframes' = {ref, new}
  /\ observes' = keyframes' \X KnownPoints(observes')

(* A keyframe k joins, others leave with all their edges. *)
Extend ==
  \E k \in keyframes' \ keyframes :
    LET gone == keyframes \ keyframes'
        born == KnownPoints(observes') \ KnownPoints(observes) IN
    /\ keyframes' \ keyframes = {k}
    /\ observes \ observes' = {e \in observes : e[1] \in gone}
    /\ \A e \in observes' \ observes : e[1] = k \/ e[2] \in born
    /\ \A p \in born :
         \E other \in keyframes :
           ObserversOf(p, observes') = {k, other} \ gone

(* Points leave with all their edges. *)
Forget ==
  /\ \E points \in SUBSET KnownPoints(observes) :
       observes' = {e \in observes : e[2] \notin points}
  /\ UNCHANGED keyframes

Clear == keyframes' = {} /\ observes' = {}

Next == Bootstrap \/ Extend \/ Forget \/ Clear

Spec == Init /\ [][Next]_vars
=============================================================================
