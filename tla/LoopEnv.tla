------------------------------- MODULE LoopEnv -------------------------------
(***************************************************************************)
(* One environment as the training loop sees it, whatever the frontend     *)
(* does inside: a call restarts the session or goes on with it, hands over *)
(* one image, and another one only to replace a session that gave up; it   *)
(* returns with a session that has seen an image, and with the flag that   *)
(* ends the episode exactly when the session changed. It is the interface  *)
(* between TrainingLoop, which has many environments but only the stages   *)
(* of a frontend, and SvoEnv, which has one with all of its frontend.      *)
(***************************************************************************)
VARIABLES
  turn,     (* "ready" between calls, "image" when one is due, "served"    *)
  stage,    (* of the frontend; "Started" before its first image, "GaveUp" *)
            (* when it paused itself                                       *)
  ended,    (* the call in progress, or the last one, ended the episode    *)
  tracked   (* the last observation is of a tracked frame                  *)

vars == <<turn, stage, ended, tracked>>

Init == turn = "ready" /\ stage = "Started" /\ ended = TRUE /\ tracked = FALSE

(* One image later. *)
Follows ==
  {<<"Started", "Initializing">>,
   <<"Initializing", "Initializing">>, <<"Initializing", "Tracking">>,
   <<"Tracking", "Tracking">>, <<"Tracking", "Relocalization">>,
   <<"Relocalization", "Relocalization">>, <<"Relocalization", "Tracking">>,
   <<"Relocalization", "GaveUp">>}

Move(from, to) == turn = from /\ turn' = to

Reset ==
  /\ Move("ready", "image")
  /\ stage' = "Started" /\ ended' = TRUE
  /\ UNCHANGED tracked

(* The session goes on, or the loader started another sequence. *)
Step ==
  /\ Move("ready", "image")
  /\ stage # "Started"
  /\ \/ ended' = FALSE /\ UNCHANGED stage
     \/ ended' = TRUE /\ stage' = "Started"
  /\ UNCHANGED tracked

Image ==
  /\ Move("image", "served")
  /\ <<stage, stage'>> \in Follows
  /\ ended' = (ended \/ stage' = "GaveUp")
  /\ UNCHANGED tracked

Redo ==
  /\ Move("served", "image")
  /\ stage = "GaveUp" /\ stage' = "Started"
  /\ UNCHANGED <<ended, tracked>>

Return ==
  /\ Move("served", "ready")
  /\ stage # "GaveUp"
  /\ tracked' = (stage = "Tracking")
  /\ UNCHANGED <<stage, ended>>

Next == Reset \/ Step \/ Image \/ Redo \/ Return

Spec == Init /\ [][Next]_vars
=============================================================================
