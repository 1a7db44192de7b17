----------------------------- MODULE VoLifecycle -----------------------------
(***************************************************************************)
(* What the visual odometry promises the program that drives it, as the    *)
(* header of FrameHandlerBase states it: a session begins when start() was *)
(* called ("at the beginning or to restart once the stage is set to        *)
(* paused"), it is bootstrapped, it may lose track, and once it            *)
(* relocalizes it is allowed a fixed number of images before it resets to  *)
(* the paused stage. Only the program can end a session earlier, and it    *)
(* asks for the next one in the same breath.                               *)
(***************************************************************************)
EXTENDS Naturals

CONSTANT MaxTrials   (* images allowed for relocalization *)

VARIABLES
  stage,    (* Stage of the odometry                                     *)
  trials,   (* images spent on relocalization                            *)
  armed     (* start() was called and not yet obeyed                     *)

vars == <<stage, trials, armed>>

(* The image that finds the limit reached still counts: at least one. *)
Allowed == IF MaxTrials = 0 THEN 1 ELSE MaxTrials

Init == stage = "Paused" /\ trials = 0 /\ armed = FALSE

Arm == armed' = TRUE /\ UNCHANGED <<stage, trials>>

Begin ==
  /\ stage = "Paused" /\ armed
  /\ stage' = "Initializing" /\ armed' = FALSE
  /\ UNCHANGED trials

Move(from, to) == stage = from /\ stage' = to /\ UNCHANGED armed

Bootstrap == Move("Initializing", "Tracking") /\ UNCHANGED trials
Lose      == Move("Tracking", "Relocalization") /\ UNCHANGED trials
Retry     == /\ Move("Relocalization", "Relocalization")
             /\ trials < Allowed
             /\ trials' = trials + 1
Recover   == /\ Move("Relocalization", "Tracking")
             /\ trials < Allowed
             /\ trials' = 0
GiveUp    == /\ Move("Relocalization", "Paused")
             /\ trials = Allowed
             /\ trials' = 0

(* The program ends the session and asks for the next. *)
Restart == stage' = "Paused" /\ trials' = 0 /\ armed' = TRUE

Next == Arm \/ Begin \/ Bootstrap \/ Lose \/ Retry \/ Recover \/ GiveUp \/ Restart

Spec == Init /\ [][Next]_vars
=============================================================================
