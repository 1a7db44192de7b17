---------------------------- MODULE TrainingLoop ----------------------------
(***************************************************************************)
(* The training loop over many environments: the data loader that deals    *)
(* out images, the wrapper VecSVOEnv, the frontends it steps in parallel,  *)
(* and the rollout buffer of the trainer. Each keeps its own idea of when  *)
(* an episode starts: the loader by the number of images it dealt, the     *)
(* frontend by giving up, the wrapper by the poses it aligns, the buffer   *)
(* by episode_starts. The properties say that the four agree.              *)
(*                                                                         *)
(* collect_rollouts() is Step, PerAgentStep for each environment in any    *)
(* order, ResetDones if a frontend gave up, Deliver; and NewRollout once   *)
(* the buffer is full.                                                     *)
(*                                                                         *)
(* Abstracted: a frontend to the stages it goes through, of which module   *)
(* FrameHandler has the detail, its number of trials to a free choice;     *)
(* images and poses to their place in the trajectory; observations and     *)
(* actions, which no property is about; the ground-truth poses.            *)
(***************************************************************************)
EXTENDS Integers, Sequences

CONSTANTS
  Envs,         (* environments                                            *)
  Trajectories, (* trajectories of the dataset                             *)
  NrSamples,    (* images of each: nr_samples_per_traj                     *)
  TrajLength,   (* reward_traj_length                                      *)
  NrPoints,     (* reward_nr_points_for_align                              *)
  BufferSize    (* n_steps, the buffer_size of the rollout buffer          *)

ASSUME TrainingAssumption ==
  /\ NrSamples \in [Trajectories -> Nat \ {0}]
  /\ TrajLength \in Nat \ {0} /\ NrPoints \in Nat /\ NrPoints < TrajLength
  /\ BufferSize \in Nat \ {0}

VARIABLES
  phase,      (* where the loop is: "learn", "reset", "ready", "svo",
                 "redo"                                                    *)
  traj,       (* traj_idx of each environment                              *)
  time,       (* internal_idx - start_dataloader_idx                       *)
  selectNew,  (* select_new_traj                                           *)
  newSeq,     (* new_seq of the last batch                                 *)
  todo,       (* environments the parallel loop has still to step          *)
  stage,      (* where each frontend is                                    *)
  done,       (* svo_dones                                                 *)
  prevValid,  (* prev_svo_valid_stage                                      *)
  envSteps,   (* env_steps: poses in the alignment window                  *)
  window,     (* positions: of each entry, the image it is of              *)
  starts,     (* _last_episode_starts                                      *)
  buffer,     (* the rollout so far: episode starts and valid mask         *)
  since,      (* history: the first image of the frontend's session        *)
  broke       (* history: a session ended since the last observation       *)

history == <<since, broke>>
loader == <<traj, time, selectNew, newSeq>>
align  == <<envSteps, window>>
vars   == <<phase, loader, todo, stage, done, prevValid, align, starts, buffer, history>>

NoPose == -1
EmptyWindow == [i \in 1 .. TrajLength |-> NoPose]
All(value) == [e \in Envs |-> value]

(* Of f, what g says of the environments in es. *)
With(f, es, g) == [e \in Envs |-> IF e \in es THEN g[e] ELSE f[e]]
Where(f) == {e \in Envs : f[e]}

(* set_up_running_indices() and the zeroed arrays of VecSVOEnv. *)
Init ==
  /\ phase = "learn"
  /\ traj \in [Envs -> Trajectories]
  /\ time = All(0) /\ selectNew = All(TRUE) /\ newSeq = All(FALSE)
  /\ todo = {}
  /\ stage = All("Started") /\ done = All(FALSE)
  /\ prevValid = All(FALSE)
  /\ envSteps = All(0) /\ window = All(EmptyWindow)
  /\ starts = All(FALSE) /\ buffer = <<>>
  /\ since = All(0) /\ broke = All(FALSE)

-----------------------------------------------------------------------------
MutLastImageTwice(e) == selectNew[e] \/ time[e] + 1 > NrSamples[traj[e]]

MutSkipsLastImage(e) == selectNew[e] \/ time[e] + 2 >= NrSamples[traj[e]]

(* The trajectory of e is used up, or e never had one. *)
SelectsNew(e) == selectNew[e] \/ time[e] + 1 >= NrSamples[traj[e]]

(* __getitem__(): the next image of each trajectory, or the first of one   *)
(* drawn at random.                                                        *)
NextBatch ==
  LET new == {e \in Envs : SelectsNew(e)} IN
  /\ \E drawn \in [new -> Trajectories] : traj' = With(traj, new, drawn)
  /\ time' = [e \in Envs |-> IF e \in new THEN 0 ELSE time[e] + 1]
  /\ newSeq' = [e \in Envs |-> e \in new]
  /\ selectNew' = All(FALSE)

MutKeepsSteps(es) ==
  /\ envSteps' = envSteps
  /\ window' = With(window, es, All(EmptyWindow))

(* What reset_dones(), reset_new_seq() and reset() do to the window. *)
ClearWindow(es) ==
  /\ envSteps' = With(envSteps, es, All(0))
  /\ window' = With(window, es, All(EmptyWindow))

(* SvoVecEnv::reset(): reset_svo() and start(), at image[e].               *)
RestartFrontends(es, image) ==
  /\ stage' = With(stage, es, All("Started"))
  /\ since' = With(since, es, image)
  /\ broke' = With(broke, es, All(TRUE))

(* _setup_learn() calls reset(). The flags of the first batch are not      *)
(* looked at.                                                              *)
Learn ==
  /\ phase = "learn"
  /\ NextBatch
  /\ RestartFrontends(Envs, time')
  /\ todo' = Envs
  /\ phase' = "reset"
  /\ UNCHANGED <<done, prevValid, align, starts, buffer>>

(* step() up to svo_step(), with reset_new_seq(). *)
Step ==
  /\ phase = "ready" /\ Len(buffer) < BufferSize
  /\ NextBatch
  /\ RestartFrontends(Where(newSeq'), time')
  /\ ClearWindow(Where(newSeq'))
  /\ todo' = Envs
  /\ done' = All(FALSE)
  /\ phase' = "svo"
  /\ UNCHANGED <<prevValid, starts, buffer>>

MutInitializesAtOnce(s) ==
  CASE s \in {"Started", "Initializing"} -> {"Initializing", "Tracking"}
    [] s = "Tracking"       -> {"Tracking", "Relocalization"}
    [] s = "Relocalization" -> {"Relocalization", "Tracking", "GaveUp"}
    [] s = "GaveUp"         -> {}

(* One image: the first one never initializes, a frontend that gives up    *)
(* has tried to relocalize.                                                *)
NextStages(s) ==
  CASE s = "Started"        -> {"Initializing"}
    [] s = "Initializing"   -> {"Initializing", "Tracking"}
    [] s = "Tracking"       -> {"Tracking", "Relocalization"}
    [] s = "Relocalization" -> {"Relocalization", "Tracking", "GaveUp"}
    [] s = "GaveUp"         -> {}

(* perAgentStep(), from step() and from env_step(). *)
PerAgentStep(e) ==
  /\ e \in todo
  /\ todo' = todo \ {e}
  /\ \E s \in NextStages(stage[e]) :
       /\ stage' = [stage EXCEPT ![e] = s]
       /\ done' = [done EXCEPT ![e] = @ \/ s = "GaveUp"]
  /\ UNCHANGED <<phase, loader, prevValid, align, starts, buffer, history>>

(* reset_dones(): the frontends that gave up get the same image again. *)
ResetDones ==
  /\ phase = "svo" /\ todo = {} /\ Where(done) # {}
  /\ RestartFrontends(Where(done), time)
  /\ ClearWindow(Where(done))
  /\ todo' = Where(done)
  /\ phase' = "redo"
  /\ UNCHANGED <<loader, done, prevValid, starts, buffer>>

-----------------------------------------------------------------------------
SvoValid(e) == stage[e] = "Tracking"

MutOnlySequenceEnds(e) == newSeq[e]

(* dones: the frontend gave up or the dataset starts a sequence. *)
Ended(e) == done[e] \/ newSeq[e]

(* valid_stages *)
Valid(e) == SvoValid(e) /\ prevValid[e]

(* update_alignment_buffer(): a full window moves up by one. *)
MovedUp(e) ==
  IF envSteps[e] >= TrajLength
  THEN [i \in 1 .. TrajLength |-> window[e][IF i < TrajLength THEN i + 1 ELSE i]]
  ELSE window[e]
BufferIdx(e) == IF envSteps[e] < TrajLength THEN envSteps[e] + 1 ELSE TrajLength

Aligned(e) ==
  IF SvoValid(e) THEN [MovedUp(e) EXCEPT ![BufferIdx(e)] = time[e]] ELSE window[e]

(* The bound: a window that is full counts no further. *)
MoreSteps(n) == IF n > TrajLength THEN n ELSE n + 1

MutRewardsEarly(e, n) == ~Ended(e) /\ n >= NrPoints

(* pos_rew_mask: n is env_steps, the new pose included. *)
Rewarded(e, n) == ~Ended(e) /\ n > NrPoints

(* What add() stores of a step; aligned: whether its reward has a position *)
(* error.                                                                  *)
Stored(n) == [start   |-> starts,
              valid   |-> [e \in Envs |-> Valid(e)],
              aligned |-> [e \in Envs |-> Rewarded(e, n[e])],
              broke   |-> broke,
              tracked |-> [e \in Envs |-> SvoValid(e)]]

(* The end of reset(): the window is empty, every episode starts.          *)
EndReset ==
  /\ phase = "reset" /\ todo = {}
  /\ ClearWindow(Envs)
  /\ starts' = All(TRUE)
  /\ prevValid' = [e \in Envs |-> SvoValid(e)]
  /\ broke' = All(FALSE)
  /\ phase' = "ready"
  /\ UNCHANGED <<loader, todo, stage, done, buffer, since>>

(* The end of step(), and the step is added to the buffer. *)
EndStep ==
  /\ todo = {}
  /\ phase = "redo" \/ (phase = "svo" /\ Where(done) = {})
  /\ envSteps' = [e \in Envs |-> IF SvoValid(e) THEN MoreSteps(envSteps[e]) ELSE envSteps[e]]
  /\ window' = [e \in Envs |-> Aligned(e)]
  /\ buffer' = Append(buffer, Stored(envSteps'))
  /\ starts' = [e \in Envs |-> Ended(e)]
  /\ prevValid' = [e \in Envs |-> SvoValid(e)]
  /\ broke' = All(FALSE)
  /\ phase' = "ready"
  /\ UNCHANGED <<loader, todo, stage, done, since>>

(* The next collect_rollouts() resets the buffer, and goes on with the     *)
(* observation and the episode starts of the last.                         *)
NewRollout ==
  /\ phase = "ready" /\ Len(buffer) = BufferSize
  /\ buffer' = <<>>
  /\ UNCHANGED <<phase, loader, todo, stage, done, prevValid, align, starts, history>>

Next ==
  \/ Learn
  \/ Step
  \/ \E e \in Envs : PerAgentStep(e)
  \/ ResetDones
  \/ EndReset
  \/ EndStep
  \/ NewRollout

Spec == Init /\ [][Next]_vars

-----------------------------------------------------------------------------
(* compute_returns_and_advantage(): does the value of what follows step p  *)
(* enter its return? What follows the last step is the last observation.   *)
NextNonTerminal(p, e) ==
  IF p = Len(buffer) THEN ~starts[e] ELSE ~buffer[p + 1].start[e]

(* The steps whose rewards enter the return of step p. *)
Flows(p, e) ==
  {q \in p .. Len(buffer) : \A r \in p .. q - 1 : NextNonTerminal(r, e)}

-----------------------------------------------------------------------------
FrontendStages == {"Started", "Initializing", "Tracking", "Relocalization", "GaveUp"}
Flags == [Envs -> BOOLEAN]
Steps == [start : Flags, valid : Flags, aligned : Flags, broke : Flags, tracked : Flags]
Poses == Nat \cup {NoPose}

(* The types; an image that is dealt exists in its trajectory.             *)
LoaderOK ==
  /\ traj \in [Envs -> Trajectories]
  /\ time \in [Envs -> Nat] /\ \A e \in Envs : time[e] < NrSamples[traj[e]]
  /\ selectNew \in Flags /\ newSeq \in Flags
LoopOK ==
  /\ phase \in {"learn", "reset", "ready", "svo", "redo"}
  /\ todo \in SUBSET Envs
  /\ stage \in [Envs -> FrontendStages] /\ done \in Flags
  /\ prevValid \in Flags /\ starts \in Flags
  /\ since \in [Envs -> Nat] /\ broke \in Flags
WindowOK ==
  /\ envSteps \in [Envs -> 0 .. TrajLength + 1]
  /\ window \in [Envs -> [1 .. TrajLength -> Poses]]
BufferOK == buffer \in Seq(Steps) /\ Len(buffer) <= BufferSize
TypeOK == LoaderOK /\ LoopOK /\ WindowOK /\ BufferOK

(* test_dataloader() of the wrapper, "Discrepancy detected": each call of  *)
(* reset() or step() takes one image of every environment, and unless it   *)
(* is flagged new, that is the next of the same trajectory; a new one      *)
(* starts only when all images of the last were dealt. In between, while   *)
(* frontends that gave up are stepped again, the image stays the same.     *)
Calls == phase \in {"learn", "ready"} /\ phase' \in {"reset", "svo"}
DealsWholeTrajectories ==
  [][\A e \in Envs :
       IF ~Calls THEN UNCHANGED <<traj[e], time[e]>>
       ELSE IF newSeq'[e]
       THEN time'[e] = 0 /\ (selectNew[e] \/ time[e] = NrSamples[traj[e]] - 1)
       ELSE traj'[e] = traj[e] /\ time'[e] = time[e] + 1]_vars

(* The alignment window of an environment is of one session of its         *)
(* frontend in one sequence, in order, without gaps that were never        *)
(* written: whatever ends the session empties the window before it is      *)
(* read again. An alignment over two sessions has no meaning, as each has  *)
(* an origin and a scale of its own.                                       *)
WindowOfOneSession ==
  phase = "ready" =>
    \A e \in Envs, i \in 1 .. TrajLength :
      IF i <= envSteps[e]
        THEN since[e] < window[e][i] /\ window[e][i] <= time[e]
             /\ \A j \in 1 .. i - 1 : window[e][j] < window[e][i]
        ELSE window[e][i] = NoPose

(* The position error of a step is that of the newest image against an     *)
(* alignment of earlier ones: the pose judged never takes part in it.      *)
AlignsOnThePast ==
  (phase = "ready" /\ buffer # <<>>) =>
    \A e \in Envs :
      buffer[Len(buffer)].aligned[e] =>
        \A i \in 1 .. NrPoints :
          window[e][i] # NoPose /\ window[e][i] < time[e]

(* A step that counts for the policy gradient, or is rewarded for its      *)
(* position, was acted on and observed in one session, although            *)
(* prev_svo_valid_stage stays raised when a session ends; one that counts  *)
(* was tracked before and after.                                           *)
CountedStepsAreOfOneSession ==
  \A p \in 1 .. Len(buffer), e \in Envs :
    /\ (buffer[p].valid[e] \/ buffer[p].aligned[e]) => ~buffer[p].broke[e]
    /\ buffer[p].valid[e] =>
         buffer[p].tracked[e] /\ (p > 1 => buffer[p - 1].tracked[e])

(* No reward, and no estimate of the last observation, enters the return   *)
(* of a step of another session: episode_starts, recorded a step late and  *)
(* carried over from one rollout to the next, cuts at every give-up and    *)
(* every new sequence, in the middle of masked steps too.                  *)
ReturnsStayInSession ==
  (phase = "ready" /\ Len(buffer) = BufferSize) =>
    \A p \in 1 .. BufferSize, e \in Envs :
      \A q \in Flows(p, e) :
        /\ \A r \in p .. q - 1 : ~buffer[r].broke[e]
        /\ (q = BufferSize /\ NextNonTerminal(q, e)) => ~buffer[q].broke[e]

-----------------------------------------------------------------------------
(* What makes the invariants inductive: a step in which a session ended    *)
(* ends the episode, and its frontend cannot have tracked since; what is   *)
(* in the window is older than the image being processed.                  *)
Stepping == phase \in {"svo", "redo"}

SessionInv ==
  /\ phase \in {"learn", "reset"} => buffer = <<>> /\ envSteps = All(0)
  /\ Stepping => Len(buffer) < BufferSize
  /\ \A e \in Envs :
       /\ since[e] <= time[e]
       /\ phase = "ready" => ~broke[e]
       /\ Stepping /\ broke[e] => Ended(e)
       /\ Stepping /\ ~broke[e] => since[e] < time[e]
       /\ broke[e] => stage[e] = IF e \in todo THEN "Started" ELSE "Initializing"

BufferInv ==
  \A e \in Envs, p \in 1 .. Len(buffer) :
    IF p < Len(buffer)
      THEN buffer[p].broke[e] => buffer[p + 1].start[e]
      ELSE /\ buffer[p].broke[e] => starts[e]
           /\ prevValid[e] => buffer[p].tracked[e]

WindowInv ==
  \A e \in Envs, i \in 1 .. TrajLength :
    IF i <= envSteps[e]
      THEN /\ since[e] < window[e][i] /\ window[e][i] <= time[e]
           /\ Stepping => window[e][i] < time[e]
           /\ \A j \in 1 .. i - 1 : window[e][j] < window[e][i]
      ELSE window[e][i] = NoPose

IInv ==
  /\ TypeOK /\ SessionInv /\ BufferInv /\ WindowInv
  /\ CountedStepsAreOfOneSession /\ AlignsOnThePast

(* Each environment is one of LoopEnv: what the loop assumes of frontends  *)
(* that it steps in parallel, and repeats when one of them gives up, comes *)
(* to one session after the other for each of them.                        *)
EpisodeEnds(e) ==
  CASE phase \in {"learn", "reset"} -> TRUE
    [] phase \in {"svo", "redo"}    -> Ended(e)
    [] phase = "ready"              -> starts[e]

Turn(e) ==
  CASE phase \in {"learn", "ready"} -> "ready"
    [] OTHER -> IF e \in todo THEN "image" ELSE "served"

EnvOf(e) == INSTANCE LoopEnv
  WITH turn <- Turn(e), stage <- stage[e], ended <- EpisodeEnds(e), tracked <- prevValid[e]
KeepsLoopEnv ==
  /\ \A e \in Envs : EnvOf(e)!Init
  /\ [][\A e \in Envs : [EnvOf(e)!Next]_(EnvOf(e)!vars)]_vars

(* What that takes: a frontend that gave up is seen to have done so before *)
(* the call returns, and one that was restarted gets an image.             *)
InTurn(e) ==
  /\ phase = "learn" \/ (phase \in {"reset", "redo"} /\ e \in todo) => stage[e] = "Started"
  /\ phase # "learn" /\ e \notin todo => stage[e] # "Started"
  /\ phase = "reset" => stage[e] \in {"Started", "Initializing"}
  /\ phase = "svo" => (done[e] <=> stage[e] = "GaveUp")
  /\ phase # "svo" \/ e \in todo => stage[e] # "GaveUp"
TurnsInv == (phase \in {"learn", "ready"} => todo = {}) /\ \A e \in Envs : InTurn(e)
=============================================================================
