------------------------- MODULE TrainingLoopProofs -------------------------
(***************************************************************************)
(* Proofs about TrainingLoop, for any number of environments and           *)
(* trajectories of any length, and any size of window and buffer.          *)
(***************************************************************************)
EXTENDS TrainingLoop, SequenceTheorems, TLAPS

USE DEF All, With, Where

-----------------------------------------------------------------------------
(* What a batch, a restart and an emptied window are, by type.             *)
LEMMA NextBatchType ==
  ASSUME LoaderOK, NextBatch PROVE LoaderOK'
<1> USE TrainingAssumption DEF LoaderOK, Flags
<1> DEFINE new == {e \in Envs : SelectsNew(e)}
<1>1. PICK drawn \in [new -> Trajectories] : traj' = With(traj, new, drawn)
  BY DEF NextBatch
<1>2. traj' \in [Envs -> Trajectories]
  BY <1>1
<1>3. time' \in [Envs -> Nat]
  BY DEF NextBatch
<1>4. ASSUME NEW e \in Envs PROVE time'[e] < NrSamples[traj'[e]]
  <2>1. CASE e \in new
    <3>1. time'[e] = 0
      BY <2>1 DEF NextBatch
    <3>2. NrSamples[traj'[e]] \in Nat \ {0}
      BY <1>2
    <3> QED BY <3>1, <3>2
  <2>2. CASE e \notin new
    <3>1. time'[e] = time[e] + 1 /\ traj'[e] = traj[e]
      BY <1>1, <2>2 DEF NextBatch
    <3>2. ~(time[e] + 1 >= NrSamples[traj[e]])
      BY <2>2 DEF SelectsNew
    <3>3. NrSamples[traj[e]] \in Nat /\ time[e] \in Nat
      OBVIOUS
    <3> QED BY <3>1, <3>2, <3>3
  <2> QED BY <2>1, <2>2
<1>5. selectNew' \in [Envs -> BOOLEAN] /\ newSeq' \in [Envs -> BOOLEAN]
  BY DEF NextBatch
<1> QED BY <1>2, <1>3, <1>4, <1>5

(* What a batch does to the clock of an environment. *)
LEMMA NextBatchTime ==
  ASSUME LoaderOK, NextBatch, NEW e \in Envs
  PROVE  /\ newSeq'[e] => time'[e] = 0
         /\ ~newSeq'[e] => time'[e] = time[e] + 1
BY DEF NextBatch, LoaderOK

LEMMA ClearWindowType ==
  ASSUME WindowOK, NEW es, ClearWindow(es) PROVE WindowOK'
<1> USE TrainingAssumption DEF WindowOK, ClearWindow, EmptyWindow, Poses, NoPose
<1>1. envSteps' \in [Envs -> 0 .. TrajLength + 1]
  OBVIOUS
<1>2. window' \in [Envs -> [1 .. TrajLength -> Poses]]
  OBVIOUS
<1> QED BY <1>1, <1>2

LEMMA RestartType ==
  ASSUME LoopOK, NEW es, NEW image, \A e \in Envs : image[e] \in Nat,
         RestartFrontends(es, image)
  PROVE  /\ stage' \in [Envs -> FrontendStages]
         /\ since' \in [Envs -> Nat] /\ broke' \in Flags
<1> USE DEF LoopOK, RestartFrontends, FrontendStages, Flags
<1>1. stage' \in [Envs -> FrontendStages]
  OBVIOUS
<1>2. since' \in [Envs -> Nat]
  OBVIOUS
<1>3. broke' \in Flags
  OBVIOUS
<1> QED BY <1>1, <1>2, <1>3

(* The window after a step. *)
LEMMA AlignedType ==
  ASSUME LoaderOK, WindowOK, NEW e \in Envs
  PROVE  Aligned(e) \in [1 .. TrajLength -> Poses]
<1> USE TrainingAssumption DEF WindowOK, LoaderOK
<1>1. MovedUp(e) \in [1 .. TrajLength -> Poses]
  BY DEF MovedUp
<1>2. time[e] \in Poses
  BY DEF Poses
<1> QED BY <1>1, <1>2 DEF Aligned

(* Each action keeps the types. *)
LEMMA TypeIsPreserved ==
  ASSUME TypeOK, SessionInv, [Next]_vars PROVE TypeOK'
<1> USE TrainingAssumption DEF TypeOK
<1>1. CASE Learn
  <2>1. LoaderOK'
    BY <1>1, NextBatchType DEF Learn
  <2>2. \A e \in Envs : time'[e] \in Nat
    BY <2>1 DEF LoaderOK
  <2>3. stage' \in [Envs -> FrontendStages] /\ since' \in [Envs -> Nat] /\ broke' \in Flags
    BY <1>1, <2>2, RestartType DEF Learn
  <2>4. LoopOK'
    BY <1>1, <2>3 DEF Learn, LoopOK
  <2>5. WindowOK' /\ BufferOK'
    BY <1>1 DEF Learn, WindowOK, BufferOK, align
  <2> QED BY <2>1, <2>4, <2>5
<1>2. CASE Step
  <2>1. LoaderOK'
    BY <1>2, NextBatchType DEF Step
  <2>2. \A e \in Envs : time'[e] \in Nat
    BY <2>1 DEF LoaderOK
  <2>3. stage' \in [Envs -> FrontendStages] /\ since' \in [Envs -> Nat] /\ broke' \in Flags
    BY <1>2, <2>2, RestartType DEF Step
  <2>4. LoopOK'
    BY <1>2, <2>3 DEF Step, LoopOK, Flags
  <2>5. WindowOK'
    BY <1>2, ClearWindowType DEF Step
  <2>6. BufferOK'
    BY <1>2 DEF Step, BufferOK
  <2> QED BY <2>1, <2>4, <2>5, <2>6
<1>3. ASSUME NEW e \in Envs, PerAgentStep(e) PROVE TypeOK'
  <2>1. PICK s \in NextStages(stage[e]) :
          /\ stage' = [stage EXCEPT ![e] = s]
          /\ done' = [done EXCEPT ![e] = @ \/ s = "GaveUp"]
    BY <1>3 DEF PerAgentStep
  <2>2. s \in FrontendStages
    BY DEF LoopOK, FrontendStages, NextStages
  <2>3. stage' \in [Envs -> FrontendStages]
    BY <2>1, <2>2 DEF LoopOK
  <2>4. done' \in Flags
    BY <2>1 DEF LoopOK, Flags
  <2>5. LoopOK'
    BY <1>3, <2>3, <2>4 DEF PerAgentStep, LoopOK, history
  <2>6. LoaderOK' /\ WindowOK' /\ BufferOK'
    BY <1>3 DEF PerAgentStep, LoaderOK, WindowOK, BufferOK, loader, align
  <2> QED BY <2>5, <2>6
<1>4. CASE ResetDones
  <2>1. LoaderOK'
    BY <1>4 DEF ResetDones, LoaderOK, loader
  <2>2. \A e \in Envs : time[e] \in Nat
    BY DEF LoaderOK
  <2>3. stage' \in [Envs -> FrontendStages] /\ since' \in [Envs -> Nat] /\ broke' \in Flags
    BY <1>4, <2>2, RestartType DEF ResetDones
  <2>4. LoopOK'
    BY <1>4, <2>3 DEF ResetDones, LoopOK
  <2>5. WindowOK'
    BY <1>4, ClearWindowType DEF ResetDones
  <2>6. BufferOK'
    BY <1>4 DEF ResetDones, BufferOK
  <2> QED BY <2>1, <2>4, <2>5, <2>6
<1>5. CASE EndReset
  <2>1. LoaderOK' /\ BufferOK'
    BY <1>5 DEF EndReset, LoaderOK, BufferOK, loader
  <2>2. prevValid' \in Flags
    BY <1>5 DEF EndReset, SvoValid, Flags
  <2>3. LoopOK'
    BY <1>5, <2>2 DEF EndReset, LoopOK, Flags
  <2>4. WindowOK'
    BY <1>5, ClearWindowType DEF EndReset
  <2> QED BY <2>1, <2>3, <2>4
<1>6. CASE EndStep
  <2>1. LoaderOK'
    BY <1>6 DEF EndStep, LoaderOK, loader
  <2>2. prevValid' \in Flags /\ starts' \in Flags
    BY <1>6 DEF EndStep, SvoValid, Ended, Flags, LoopOK, LoaderOK
  <2>3. LoopOK'
    BY <1>6, <2>2 DEF EndStep, LoopOK, Flags
  <2>4. envSteps' \in [Envs -> 0 .. TrajLength + 1]
    BY <1>6 DEF EndStep, WindowOK, MoreSteps
  <2>5. window' \in [Envs -> [1 .. TrajLength -> Poses]]
    BY <1>6, AlignedType DEF EndStep
  <2>6. Stored(envSteps') \in Steps
    <3>1. [e \in Envs |-> Valid(e)] \in Flags
      BY DEF Valid, SvoValid, Flags, LoopOK
    <3>2. [e \in Envs |-> Rewarded(e, envSteps'[e])] \in Flags
      BY DEF Rewarded, Ended, Flags
    <3>3. [e \in Envs |-> SvoValid(e)] \in Flags
      BY DEF SvoValid, Flags
    <3> QED BY <3>1, <3>2, <3>3 DEF Stored, Steps, LoopOK
  <2>7. buffer' = Append(buffer, Stored(envSteps')) /\ Len(buffer) < BufferSize
    BY <1>6 DEF EndStep, SessionInv, Stepping
  <2>8. BufferOK'
    BY <2>6, <2>7 DEF BufferOK
  <2> QED BY <2>1, <2>3, <2>4, <2>5, <2>8 DEF WindowOK
<1>7. CASE NewRollout
  <2>1. LoaderOK' /\ LoopOK' /\ WindowOK'
    BY <1>7 DEF NewRollout, LoaderOK, LoopOK, WindowOK, loader, align, history
  <2>2. BufferOK'
    BY <1>7 DEF NewRollout, BufferOK
  <2> QED BY <2>1, <2>2
<1>8. CASE UNCHANGED vars
  BY <1>8 DEF vars, loader, align, history, LoaderOK, LoopOK, WindowOK, BufferOK
<1> QED BY <1>1, <1>2, <1>3, <1>4, <1>5, <1>6, <1>7, <1>8 DEF Next

-----------------------------------------------------------------------------
(* Sessions and episodes: each action keeps SessionInv.                    *)
LEMMA SessionIsPreserved ==
  ASSUME TypeOK, SessionInv, TypeOK', [Next]_vars PROVE SessionInv'
<1> USE DEF TypeOK
<1> DEFINE Session(e) ==
      /\ since[e] <= time[e]
      /\ phase = "ready" => ~broke[e]
      /\ Stepping /\ broke[e] => Ended(e)
      /\ Stepping /\ ~broke[e] => since[e] < time[e]
      /\ broke[e] => stage[e] = IF e \in todo THEN "Started" ELSE "Initializing"
<1>1. CASE Learn
  <2>1. buffer' = <<>> /\ envSteps' = All(0)
    BY <1>1 DEF Learn, SessionInv, align
  <2>2. phase' = "reset"
    BY <1>1 DEF Learn
  <2>3. ASSUME NEW e \in Envs PROVE Session(e)'
    <3>1. since'[e] = time'[e] /\ broke'[e] /\ stage'[e] = "Started" /\ e \in todo'
      BY <1>1 DEF Learn, RestartFrontends
    <3>2. time'[e] \in Nat
      BY DEF LoaderOK
    <3> QED BY <2>2, <3>1, <3>2 DEF Stepping
  <2> QED BY <2>1, <2>2, <2>3 DEF SessionInv, Stepping
<1>2. CASE Step
  <2>1. phase' = "svo" /\ Len(buffer') < BufferSize
    BY <1>2 DEF Step
  <2>2. ASSUME NEW e \in Envs PROVE Session(e)'
    <3>0. time[e] \in Nat /\ time'[e] \in Nat /\ since[e] <= time[e] /\ ~broke[e]
          /\ since[e] \in Nat
      BY <1>2 DEF LoaderOK, LoopOK, SessionInv, Step
    <3>1. CASE newSeq'[e]
      <4>1. since'[e] = time'[e] /\ broke'[e] /\ stage'[e] = "Started" /\ e \in todo'
        BY <1>2, <3>1 DEF Step, RestartFrontends
      <4> QED BY <3>0, <3>1, <4>1, <2>1 DEF Ended, Stepping
    <3>2. CASE ~newSeq'[e]
      <4>1. since'[e] = since[e] /\ broke'[e] = broke[e]
        BY <1>2, <3>2 DEF Step, RestartFrontends, LoopOK
      <4>2. time'[e] = time[e] + 1
        BY <1>2, <3>2, NextBatchTime DEF Step
      <4> QED BY <3>0, <4>1, <4>2, <2>1 DEF Stepping
    <3> QED BY <3>1, <3>2
  <2> QED BY <2>1, <2>2 DEF SessionInv, Stepping
<1>3. ASSUME NEW a \in Envs, PerAgentStep(a) PROVE SessionInv'
  <2>1. PICK s \in NextStages(stage[a]) :
          /\ stage' = [stage EXCEPT ![a] = s]
          /\ done' = [done EXCEPT ![a] = @ \/ s = "GaveUp"]
    BY <1>3 DEF PerAgentStep
  <2>2. UNCHANGED <<phase, time, newSeq, envSteps, buffer, since, broke>>
        /\ a \in todo /\ todo' = todo \ {a}
    BY <1>3 DEF PerAgentStep, loader, align, history
  <2>3. ASSUME NEW e \in Envs PROVE Session(e)'
    <3>1. Session(e)
      BY DEF SessionInv
    <3>2. Ended(e) => Ended(e)'
      BY <2>1, <2>2 DEF Ended, LoopOK, Flags
    <3>3. broke[e] => stage'[e] = IF e \in todo' THEN "Started" ELSE "Initializing"
      BY <2>1, <2>2, <3>1 DEF NextStages, LoopOK
    <3> QED BY <2>2, <3>1, <3>2, <3>3 DEF Stepping
  <2> QED BY <2>2, <2>3 DEF SessionInv, Stepping
<1>4. CASE ResetDones
  <2>1. UNCHANGED <<time, newSeq, buffer, done>> /\ phase = "svo" /\ phase' = "redo"
        /\ todo = {} /\ todo' = Where(done)
    BY <1>4 DEF ResetDones, loader
  <2>2. ASSUME NEW e \in Envs PROVE Session(e)'
    <3>0. Session(e) /\ time[e] \in Nat
      BY DEF SessionInv, LoaderOK
    <3>1. CASE done[e]
      <4>1. since'[e] = time[e] /\ broke'[e] /\ stage'[e] = "Started" /\ e \in todo'
        BY <1>4, <3>1 DEF ResetDones, RestartFrontends
      <4> QED BY <3>0, <3>1, <4>1, <2>1 DEF Ended
    <3>2. CASE ~done[e]
      <4>1. since'[e] = since[e] /\ broke'[e] = broke[e] /\ stage'[e] = stage[e]
            /\ e \notin todo'
        BY <1>4, <3>2 DEF ResetDones, RestartFrontends, LoopOK
      <4> QED BY <3>0, <4>1, <2>1 DEF Stepping, Ended
    <3> QED BY <3>1, <3>2
  <2> QED BY <2>1, <2>2 DEF SessionInv, Stepping
<1>5. CASE EndReset \/ EndStep
  <2>1. phase' = "ready" /\ UNCHANGED <<time, since>> /\ \A e \in Envs : ~broke'[e]
    BY <1>5 DEF EndReset, EndStep, loader
  <2>2. ASSUME NEW e \in Envs PROVE Session(e)'
    BY <2>1 DEF SessionInv, Stepping
  <2> QED BY <2>1, <2>2 DEF SessionInv, Stepping
<1>6. CASE NewRollout
  <2>1. UNCHANGED <<phase, todo, stage, done, envSteps, newSeq, time, since, broke>>
        /\ buffer' = <<>> /\ phase = "ready"
    BY <1>6 DEF NewRollout, loader, align, history
  <2>2. ASSUME NEW e \in Envs PROVE Session(e)'
    <3>1. Session(e)
      BY DEF SessionInv
    <3> QED BY <2>1, <3>1 DEF Stepping
  <2> QED BY <2>1, <2>2 DEF SessionInv, Stepping
<1>7. CASE UNCHANGED vars
  BY <1>7 DEF vars, loader, align, history, SessionInv, Stepping, Ended
<1> QED BY <1>1, <1>2, <1>3, <1>4, <1>5, <1>6, <1>7 DEF Next

(* A frontend whose session broke in this step does not track at its end,  *)
(* one that does was tracking images since before this one.                *)
LEMMA TrackedIsOfOneSession ==
  ASSUME TypeOK, SessionInv, EndStep, NEW e \in Envs
  PROVE  /\ SvoValid(e) => ~broke[e]
         /\ ~Ended(e) => ~broke[e]
         /\ SvoValid(e) => since[e] < time[e]
<1>1. todo = {} /\ Stepping
  BY DEF EndStep, Stepping
<1>2. broke[e] => stage[e] = "Initializing"
  BY <1>1 DEF SessionInv
<1> QED BY <1>1, <1>2 DEF SessionInv, SvoValid

(* What is in the buffer after a step. *)
LEMMA BufferAfterStep ==
  ASSUME TypeOK, TypeOK', EndStep
  PROVE  /\ Len(buffer') = Len(buffer) + 1
         /\ \A p \in 1 .. Len(buffer) : buffer'[p] = buffer[p]
         /\ buffer'[Len(buffer')] = Stored(envSteps')
<1>1. buffer \in Seq(Steps) /\ buffer' = Append(buffer, Stored(envSteps'))
  BY DEF EndStep, TypeOK, BufferOK
<1> QED BY <1>1

LEMMA BufferIsPreserved ==
  ASSUME TypeOK, SessionInv, BufferInv, TypeOK', [Next]_vars PROVE BufferInv'
<1>1. CASE EndStep
  <2> SUFFICES ASSUME NEW e \in Envs, NEW p \in 1 .. Len(buffer')
               PROVE  IF p < Len(buffer')
                        THEN buffer'[p].broke[e] => buffer'[p + 1].start[e]
                        ELSE /\ buffer'[p].broke[e] => starts'[e]
                             /\ prevValid'[e] => buffer'[p].tracked[e]
    BY DEF BufferInv
  <2>0. Len(buffer) \in Nat
    BY DEF TypeOK, BufferOK
  <2>1. CASE p = Len(buffer')
    <3>1. buffer'[p].broke[e] = broke[e] /\ buffer'[p].tracked[e] = SvoValid(e)
      BY <1>1, <2>1, BufferAfterStep DEF Stored
    <3>2. starts'[e] = Ended(e) /\ prevValid'[e] = SvoValid(e)
      BY <1>1 DEF EndStep
    <3> QED BY <1>1, <2>0, <2>1, <3>1, <3>2, TrackedIsOfOneSession
  <2>2. CASE p = Len(buffer)
    <3>1. buffer'[p] = buffer[p] /\ p + 1 = Len(buffer') /\ p \in 1 .. Len(buffer)
      BY <1>1, <2>0, <2>2, BufferAfterStep
    <3>2. buffer'[p + 1].start[e] = starts[e]
      BY <1>1, <3>1, BufferAfterStep DEF Stored
    <3>3. buffer[p].broke[e] => starts[e]
      BY <2>2, <3>1 DEF BufferInv
    <3> QED BY <2>0, <2>2, <3>1, <3>2, <3>3
  <2>3. CASE p < Len(buffer)
    <3>1. buffer'[p] = buffer[p] /\ buffer'[p + 1] = buffer[p + 1] /\ p \in 1 .. Len(buffer)
          /\ p < Len(buffer')
      BY <1>1, <2>0, <2>3, BufferAfterStep
    <3>2. buffer[p].broke[e] => buffer[p + 1].start[e]
      BY <2>3, <3>1 DEF BufferInv
    <3> QED BY <3>1, <3>2
  <2> QED BY <1>1, <2>0, <2>1, <2>2, <2>3, BufferAfterStep
<1>2. CASE EndReset \/ Learn \/ NewRollout
  <2>1. buffer' = <<>>
    BY <1>2 DEF EndReset, Learn, NewRollout, SessionInv
  <2> QED BY <2>1 DEF BufferInv
<1>3. CASE Step \/ (\E e \in Envs : PerAgentStep(e)) \/ ResetDones \/ UNCHANGED vars
  <2>1. UNCHANGED <<buffer, starts, prevValid>>
    BY <1>3 DEF Step, PerAgentStep, ResetDones, vars
  <2> QED BY <2>1 DEF BufferInv
<1> QED BY <1>1, <1>2, <1>3 DEF Next

-----------------------------------------------------------------------------
(* The window: a session that ends empties it, a step appends to it.       *)
LEMMA WindowIsPreserved ==
  ASSUME TypeOK, SessionInv, WindowInv, TypeOK', [Next]_vars PROVE WindowInv'
<1> USE TrainingAssumption DEF TypeOK
<1> DEFINE Entry(e, i) ==
      IF i <= envSteps[e]
        THEN /\ since[e] < window[e][i] /\ window[e][i] <= time[e]
             /\ Stepping => window[e][i] < time[e]
             /\ \A j \in 1 .. i - 1 : window[e][j] < window[e][i]
        ELSE window[e][i] = NoPose
<1> SUFFICES ASSUME NEW e \in Envs, NEW i \in 1 .. TrajLength PROVE Entry(e, i)'
  BY DEF WindowInv
<1>0. Entry(e, i)
  BY DEF WindowInv
<1>1. ASSUME envSteps'[e] = 0, window'[e] = EmptyWindow PROVE Entry(e, i)'
  BY <1>1 DEF EmptyWindow
<1>2. CASE Learn
  <2>1. envSteps' = All(0) /\ window' = window /\ envSteps = All(0)
    BY <1>2 DEF Learn, SessionInv, align
  <2> QED BY <1>0, <2>1
<1>3. CASE Step
  <2>1. CASE newSeq'[e]
    BY <1>1, <1>3, <2>1 DEF Step, ClearWindow
  <2>2. CASE ~newSeq'[e]
    <3>1. since'[e] = since[e] /\ window'[e] = window[e] /\ envSteps'[e] = envSteps[e]
      BY <1>3, <2>2 DEF Step, RestartFrontends, ClearWindow, LoopOK, WindowOK
    <3>2. time'[e] = time[e] + 1 /\ time[e] \in Nat
      BY <1>3, <2>2, NextBatchTime DEF Step, LoaderOK
    <3>3. window[e][i] \in Poses
      BY DEF WindowOK
    <3>4. window[e][i] \in Int
      BY <3>3 DEF Poses, NoPose
    <3> QED BY <1>0, <3>1, <3>2, <3>4
  <2> QED BY <2>1, <2>2
<1>4. CASE ResetDones
  <2>1. CASE done[e]
    BY <1>1, <1>4, <2>1 DEF ResetDones, ClearWindow
  <2>2. CASE ~done[e]
    <3>1. since'[e] = since[e] /\ window'[e] = window[e] /\ envSteps'[e] = envSteps[e]
          /\ time' = time /\ Stepping
      BY <1>4, <2>2 DEF ResetDones, RestartFrontends, ClearWindow, LoopOK, WindowOK, loader, Stepping
    <3> QED BY <1>0, <3>1
  <2> QED BY <2>1, <2>2
<1>5. CASE EndReset
  BY <1>1, <1>5 DEF EndReset, ClearWindow
<1>6. CASE EndStep
  <2>1. time' = time /\ since' = since /\ Stepping /\ ~Stepping'
    BY <1>6 DEF EndStep, loader, Stepping
  <2>2. CASE ~SvoValid(e)
    <3>1. envSteps'[e] = envSteps[e] /\ window'[e] = window[e]
      BY <1>6, <2>2 DEF EndStep, Aligned
    <3> QED BY <1>0, <2>1, <3>1
  <2>3. CASE SvoValid(e)
    <3>0. since[e] < time[e] /\ time[e] \in Nat /\ since[e] \in Nat
          /\ envSteps[e] \in 0 .. TrajLength + 1
      BY <1>6, <2>3, TrackedIsOfOneSession DEF LoaderOK, LoopOK, WindowOK
    <3>1. envSteps'[e] = MoreSteps(envSteps[e])
          /\ window'[e] = [MovedUp(e) EXCEPT ![BufferIdx(e)] = time[e]]
      BY <1>6, <2>3 DEF EndStep, Aligned
    <3>2. \A j \in 1 .. TrajLength :
            IF j <= envSteps[e]
              THEN since[e] < window[e][j] /\ window[e][j] < time[e]
                   /\ \A k \in 1 .. j - 1 : window[e][k] < window[e][j]
              ELSE window[e][j] = NoPose
      BY <2>1 DEF WindowInv
    <3>3. CASE envSteps[e] < TrajLength
      <4>1. window'[e] = [window[e] EXCEPT ![envSteps[e] + 1] = time[e]]
            /\ envSteps'[e] = envSteps[e] + 1
        <5>1. ~(envSteps[e] >= TrajLength) /\ ~(envSteps[e] > TrajLength)
          BY <3>0, <3>3
        <5>2. MovedUp(e) = window[e]
          BY <5>1, Zenon DEF MovedUp
        <5>3. BufferIdx(e) = envSteps[e] + 1
          BY <3>3, Zenon DEF BufferIdx
        <5>4. MoreSteps(envSteps[e]) = envSteps[e] + 1
          BY <5>1, Zenon DEF MoreSteps
        <5> QED BY <3>1, <5>2, <5>3, <5>4
      <4>2. \A j \in 1 .. TrajLength :
              window'[e][j] = IF j = envSteps[e] + 1 THEN time[e] ELSE window[e][j]
        BY <4>1 DEF WindowOK
      <4> HIDE DEF TypeOK
      <4>3. CASE i <= envSteps[e]
        <5>1. window'[e][i] = window[e][i] /\ \A j \in 1 .. i - 1 : window'[e][j] = window[e][j]
          BY <3>0, <4>2, <4>3
        <5>2. since[e] < window[e][i] /\ window[e][i] < time[e]
              /\ \A j \in 1 .. i - 1 : window[e][j] < window[e][i]
          BY <3>2, <4>3
        <5>3. window[e][i] \in Int
          BY DEF WindowOK, Poses, NoPose, TypeOK
        <5> QED BY <2>1, <3>0, <4>1, <4>3, <5>1, <5>2, <5>3
      <4>4. CASE i = envSteps[e] + 1
        <5>1. window'[e][i] = time[e]
          BY <4>2, <4>4
        <5>2. \A j \in 1 .. i - 1 : window'[e][j] < time[e]
          BY <3>0, <3>2, <4>2, <4>4
        <5> QED BY <2>1, <3>0, <4>1, <4>4, <5>1, <5>2
      <4>5. CASE i > envSteps[e] + 1
        BY <3>0, <3>2, <4>1, <4>2, <4>5
      <4> QED BY <3>0, <4>3, <4>4, <4>5
    <3>4. CASE envSteps[e] >= TrajLength
      <4>1. \A j \in 1 .. TrajLength :
              window'[e][j] = IF j = TrajLength THEN time[e] ELSE window[e][j + 1]
        BY <3>0, <3>1, <3>4 DEF MovedUp, BufferIdx
      <4>2. envSteps'[e] >= TrajLength
        BY <3>0, <3>1, <3>4 DEF MoreSteps
      <4>3. \A j \in 1 .. TrajLength : window[e][j] \in Int
        BY DEF WindowOK, Poses, NoPose
      <4> HIDE DEF TypeOK
      <4>4. since[e] < window'[e][i] /\ window'[e][i] <= time[e]
        <5>1. CASE i = TrajLength
          BY <3>0, <4>1, <5>1
        <5>2. CASE i < TrajLength
          <6>1. i + 1 \in 1 .. TrajLength /\ i + 1 <= envSteps[e]
            BY <3>0, <3>4, <5>2
          <6>2. since[e] < window[e][i + 1] /\ window[e][i + 1] < time[e]
            BY <3>2, <6>1
          <6> QED BY <3>0, <4>1, <4>3, <5>2, <6>1, <6>2
        <5> QED BY <5>1, <5>2
      <4>5. ASSUME NEW j \in 1 .. i - 1 PROVE window'[e][j] < window'[e][i]
        <5>1. j \in 1 .. TrajLength /\ j < TrajLength /\ j + 1 \in 1 .. TrajLength
              /\ j + 1 <= envSteps[e]
          BY <3>0, <3>4
        <5>2. window'[e][j] = window[e][j + 1]
          BY <4>1, <5>1
        <5>3. CASE i = TrajLength
          BY <3>2, <4>1, <5>1, <5>2, <5>3
        <5>4. CASE i < TrajLength
          <6>1. i + 1 \in 1 .. TrajLength /\ i + 1 <= envSteps[e] /\ j + 1 \in 1 .. i
            BY <3>0, <3>4, <5>4
          <6>2. window[e][j + 1] < window[e][i + 1]
            BY <3>2, <6>1
          <6> QED BY <4>1, <5>2, <5>4, <6>2
        <5> QED BY <5>3, <5>4
      <4>6. i <= envSteps'[e]
        <5>1. envSteps'[e] \in Int
          BY <3>0, <3>1 DEF MoreSteps
        <5> QED BY <4>2, <5>1
      <4> QED BY <2>1, <4>4, <4>5, <4>6
    <3> QED BY <3>0, <3>3, <3>4
  <2> QED BY <2>2, <2>3
<1>7. CASE (\E a \in Envs : PerAgentStep(a)) \/ NewRollout \/ UNCHANGED vars
  <2>1. UNCHANGED <<phase, time, since, window, envSteps>>
    BY <1>7 DEF PerAgentStep, NewRollout, vars, loader, align, history
  <2> QED BY <1>0, <2>1 DEF Stepping
<1> QED BY <1>2, <1>3, <1>4, <1>5, <1>6, <1>7 DEF Next

-----------------------------------------------------------------------------
(* The properties of the buffer's contents. *)
LEMMA CountedIsPreserved ==
  ASSUME TypeOK, SessionInv, BufferInv, TypeOK', CountedStepsAreOfOneSession, [Next]_vars
  PROVE  CountedStepsAreOfOneSession'
<1>1. CASE EndStep
  <2> SUFFICES ASSUME NEW e \in Envs, NEW p \in 1 .. Len(buffer')
               PROVE  /\ (buffer'[p].valid[e] \/ buffer'[p].aligned[e]) => ~buffer'[p].broke[e]
                      /\ buffer'[p].valid[e] =>
                           buffer'[p].tracked[e] /\ (p > 1 => buffer'[p - 1].tracked[e])
    BY DEF CountedStepsAreOfOneSession
  <2>0. Len(buffer) \in Nat
    BY DEF TypeOK, BufferOK
  <2>1. CASE p = Len(buffer) + 1
    <3>1. buffer'[p] = Stored(envSteps')
      BY <1>1, <2>1, BufferAfterStep
    <3>2. /\ buffer'[p].valid[e] = Valid(e)
          /\ buffer'[p].aligned[e] = Rewarded(e, envSteps'[e])
          /\ buffer'[p].broke[e] = broke[e] /\ buffer'[p].tracked[e] = SvoValid(e)
      BY <3>1 DEF Stored
    <3>3. Valid(e) \/ Rewarded(e, envSteps'[e]) => ~broke[e]
      BY <1>1, TrackedIsOfOneSession DEF Valid, Rewarded
    <3>4. p > 1 /\ prevValid[e] => buffer'[p - 1].tracked[e]
      <4>1. CASE p > 1
        <5>1. p - 1 = Len(buffer) /\ p - 1 \in 1 .. Len(buffer)
          BY <2>0, <2>1, <4>1
        <5>2. prevValid[e] => buffer[p - 1].tracked[e]
          BY <2>0, <5>1 DEF BufferInv
        <5>3. buffer'[p - 1] = buffer[p - 1]
          BY <1>1, <5>1, BufferAfterStep
        <5> QED BY <5>2, <5>3
      <4> QED BY <4>1
    <3> QED BY <3>2, <3>3, <3>4 DEF Valid
  <2>2. CASE p # Len(buffer) + 1
    <3>1. p \in 1 .. Len(buffer) /\ (p > 1 => p - 1 \in 1 .. Len(buffer))
      BY <1>1, <2>0, <2>2, BufferAfterStep
    <3>2. buffer'[p] = buffer[p] /\ (p > 1 => buffer'[p - 1] = buffer[p - 1])
      BY <1>1, <3>1, BufferAfterStep
    <3> QED BY <3>1, <3>2 DEF CountedStepsAreOfOneSession
  <2> QED BY <2>1, <2>2
<1>2. CASE NewRollout
  BY <1>2 DEF NewRollout, CountedStepsAreOfOneSession
<1>3. CASE UNCHANGED buffer
  BY <1>3 DEF CountedStepsAreOfOneSession
<1>4. Next => EndStep \/ NewRollout \/ UNCHANGED buffer
  BY DEF Next, Learn, Step, PerAgentStep, ResetDones, EndReset
<1> QED BY <1>1, <1>2, <1>3, <1>4 DEF vars

LEMMA AlignedIsPreserved ==
  ASSUME TypeOK, SessionInv, WindowInv, TypeOK', AlignsOnThePast, [Next]_vars
  PROVE  AlignsOnThePast'
<1> USE TrainingAssumption
<1>1. CASE EndStep
  <2> SUFFICES ASSUME NEW e \in Envs, buffer'[Len(buffer')].aligned[e], NEW i \in 1 .. NrPoints
               PROVE  window'[e][i] # NoPose /\ window'[e][i] < time'[e]
    BY DEF AlignsOnThePast
  <2>0. /\ envSteps[e] \in 0 .. TrajLength + 1 /\ i \in 1 .. TrajLength
        /\ time[e] \in Nat /\ since[e] \in Nat
        /\ window[e] \in [1 .. TrajLength -> Poses] /\ time' = time
    BY <1>1 DEF TypeOK, WindowOK, LoaderOK, LoopOK, EndStep, loader
  <2>1. Rewarded(e, envSteps'[e])
    BY <1>1, BufferAfterStep DEF Stored
  <2>2. envSteps'[e] > NrPoints
    BY <2>1 DEF Rewarded
  <2>3. Stepping
    BY <1>1 DEF EndStep, Stepping
  <2>4. \A j \in 1 .. TrajLength : j <= envSteps[e] =>
          window[e][j] # NoPose /\ window[e][j] < time[e]
    <3> SUFFICES ASSUME NEW j \in 1 .. TrajLength, j <= envSteps[e]
                 PROVE  window[e][j] # NoPose /\ window[e][j] < time[e]
      OBVIOUS
    <3>1. since[e] < window[e][j] /\ window[e][j] < time[e]
      BY <2>3 DEF WindowInv
    <3> QED BY <2>0, <3>1 DEF NoPose
  <2>5. CASE ~SvoValid(e)
    <3>1. window'[e] = window[e] /\ envSteps'[e] = envSteps[e]
      BY <1>1, <2>5 DEF EndStep, Aligned
    <3> QED BY <2>0, <2>2, <2>4, <3>1
  <2>6. CASE SvoValid(e)
    <3>1. window'[e] = [MovedUp(e) EXCEPT ![BufferIdx(e)] = time[e]]
          /\ envSteps'[e] = MoreSteps(envSteps[e])
      BY <1>1, <2>6 DEF EndStep, Aligned
    <3>2. CASE envSteps[e] < TrajLength
      <4>1. ~(envSteps[e] >= TrajLength) /\ ~(envSteps[e] > TrajLength)
        BY <2>0, <3>2
      <4>2. MovedUp(e) = window[e] /\ BufferIdx(e) = envSteps[e] + 1
        BY <3>2, <4>1, Zenon DEF MovedUp, BufferIdx
      <4>3. MoreSteps(envSteps[e]) = envSteps[e] + 1
        BY <4>1, Zenon DEF MoreSteps
      <4>4. i <= envSteps[e] /\ i # envSteps[e] + 1
        BY <2>0, <2>2, <3>1, <4>3
      <4>5. window'[e][i] = window[e][i]
        BY <2>0, <3>1, <4>2, <4>4
      <4> QED BY <2>0, <2>4, <4>4, <4>5
    <3>3. CASE envSteps[e] >= TrajLength
      <4>1. BufferIdx(e) = TrajLength
        BY <2>0, <3>3 DEF BufferIdx
      <4>2. window'[e][i] = window[e][i + 1] /\ i + 1 \in 1 .. TrajLength
            /\ i + 1 <= envSteps[e]
        BY <2>0, <3>1, <3>3, <4>1 DEF MovedUp
      <4> QED BY <2>0, <2>4, <4>2
    <3> QED BY <2>0, <3>2, <3>3
  <2> QED BY <2>5, <2>6
<1>2. CASE NewRollout
  BY <1>2 DEF NewRollout, AlignsOnThePast
<1>3. CASE EndReset
  BY <1>3 DEF EndReset, SessionInv, AlignsOnThePast
<1>4. CASE Learn \/ Step \/ ResetDones
  BY <1>4 DEF Learn, Step, ResetDones, AlignsOnThePast
<1>5. CASE (\E e \in Envs : PerAgentStep(e)) \/ UNCHANGED vars
  BY <1>5 DEF PerAgentStep, vars, loader, align, AlignsOnThePast
<1> QED BY <1>1, <1>2, <1>3, <1>4, <1>5 DEF Next

-----------------------------------------------------------------------------
LEMMA InitEstablishesIInv == Init => IInv
<1> SUFFICES ASSUME Init PROVE IInv
  OBVIOUS
<1> USE TrainingAssumption DEF Init
<1>1. LoaderOK
  <2>1. \A e \in Envs : NrSamples[traj[e]] \in Nat \ {0}
    OBVIOUS
  <2> QED BY <2>1 DEF LoaderOK, Flags
<1>2. LoopOK
  BY DEF LoopOK, FrontendStages, Flags
<1>3. WindowOK
  BY DEF WindowOK, EmptyWindow, Poses, NoPose
<1>4. BufferOK
  BY DEF BufferOK
<1>5. SessionInv /\ BufferInv /\ WindowInv
  BY DEF SessionInv, BufferInv, WindowInv, Stepping, EmptyWindow
<1>6. CountedStepsAreOfOneSession /\ AlignsOnThePast
  BY DEF CountedStepsAreOfOneSession, AlignsOnThePast
<1> QED BY <1>1, <1>2, <1>3, <1>4, <1>5, <1>6 DEF IInv, TypeOK

LEMMA NextPreservesIInv == IInv /\ [Next]_vars => IInv'
<1> SUFFICES ASSUME IInv, [Next]_vars PROVE IInv'
  OBVIOUS
<1> USE DEF IInv
<1>1. TypeOK'
  BY TypeIsPreserved
<1>2. SessionInv' /\ BufferInv' /\ WindowInv'
  BY <1>1, SessionIsPreserved, BufferIsPreserved, WindowIsPreserved
<1>3. CountedStepsAreOfOneSession' /\ AlignsOnThePast'
  BY <1>1, CountedIsPreserved, AlignedIsPreserved
<1> QED BY <1>1, <1>2, <1>3

(* The inductive invariant: which of loader, frontend, wrapper and buffer  *)
(* knows in which phase that a session has ended.                          *)
THEOREM InductiveInvariant == Spec => []IInv
BY InitEstablishesIInv, NextPreservesIInv, PTL DEF Spec

(* The types of the loop's state, the bounds on the alignment window and   *)
(* the rollout buffer, and that every image the loader deals exists.       *)
THEOREM TypeCorrect == Spec => []TypeOK
<1>1. IInv => TypeOK
  BY DEF IInv
<1> QED BY <1>1, InductiveInvariant, PTL

(* Whenever the wrapper is about to use it, the alignment window of every  *)
(* environment is of one session of its frontend in one sequence.          *)
THEOREM WindowStaysInSession == Spec => []WindowOfOneSession
<1>1. IInv => WindowOfOneSession
  BY DEF IInv, WindowInv, WindowOfOneSession
<1> QED BY <1>1, InductiveInvariant, PTL

(* compute_reward() never aligns a pose with itself: the entries it uses   *)
(* are written and older than the image of the step.                       *)
THEOREM AlwaysAlignsOnThePast == Spec => []AlignsOnThePast
<1>1. IInv => AlignsOnThePast
  BY DEF IInv
<1> QED BY <1>1, InductiveInvariant, PTL

(* valid_stages and pos_rew_mask let no step through that spans the end of *)
(* a session.                                                              *)
THEOREM CountedStepsStayInSession == Spec => []CountedStepsAreOfOneSession
<1>1. IInv => CountedStepsAreOfOneSession
  BY DEF IInv
<1> QED BY <1>1, InductiveInvariant, PTL

(* episode_starts cuts the return of every step where its session ends,    *)
(* from one rollout to the next.                                           *)
THEOREM ReturnsAlwaysStayInSession == Spec => []ReturnsStayInSession
<1>1. IInv => ReturnsStayInSession
  <2> SUFFICES ASSUME IInv, Len(buffer) = BufferSize,
                      NEW p \in 1 .. BufferSize, NEW e \in Envs, NEW q \in Flows(p, e)
               PROVE  /\ \A r \in p .. q - 1 : ~buffer[r].broke[e]
                      /\ (q = BufferSize /\ NextNonTerminal(q, e)) => ~buffer[q].broke[e]
    BY DEF ReturnsStayInSession
  <2>0. BufferSize \in Nat \ {0} /\ q \in p .. BufferSize /\ p \in 1 .. BufferSize
    BY TrainingAssumption DEF Flows
  <2>1. ASSUME NEW r \in 1 .. BufferSize, NextNonTerminal(r, e) PROVE ~buffer[r].broke[e]
    <3>1. CASE r < Len(buffer)
      BY <2>0, <2>1, <3>1 DEF IInv, BufferInv, NextNonTerminal
    <3>2. CASE r = Len(buffer)
      BY <2>0, <2>1, <3>2 DEF IInv, BufferInv, NextNonTerminal
    <3> QED BY <2>0, <3>1, <3>2
  <2>2. ASSUME NEW r \in p .. q - 1 PROVE ~buffer[r].broke[e]
    <3>1. NextNonTerminal(r, e) /\ r \in 1 .. BufferSize
      BY <2>0 DEF Flows
    <3> QED BY <2>1, <3>1
  <2>3. q \in 1 .. BufferSize
    BY <2>0
  <2> QED BY <2>1, <2>2, <2>3
<1> QED BY <1>1, InductiveInvariant, PTL

(* The loader deals every image of a trajectory once and in order before   *)
(* it draws the next, and flags exactly the first ones as new.             *)
THEOREM TrajectoriesAreDealtWhole == Spec => DealsWholeTrajectories
<1> DEFINE Dealt == \A e \in Envs :
             IF ~Calls THEN UNCHANGED <<traj[e], time[e]>>
             ELSE IF newSeq'[e]
             THEN time'[e] = 0 /\ (selectNew[e] \/ time[e] = NrSamples[traj[e]] - 1)
             ELSE traj'[e] = traj[e] /\ time'[e] = time[e] + 1
<1>1. ASSUME TypeOK, NextBatch, Calls PROVE Dealt
  <2> SUFFICES ASSUME NEW e \in Envs
               PROVE  IF newSeq'[e]
                        THEN time'[e] = 0 /\ (selectNew[e] \/ time[e] = NrSamples[traj[e]] - 1)
                        ELSE traj'[e] = traj[e] /\ time'[e] = time[e] + 1
    BY <1>1
  <2>1. newSeq'[e] <=> SelectsNew(e)
    <3>1. newSeq' = [a \in Envs |-> a \in {b \in Envs : SelectsNew(b)}]
      BY <1>1 DEF NextBatch
    <3> QED BY <3>1
  <2>2. time[e] \in Nat /\ time[e] < NrSamples[traj[e]] /\ NrSamples[traj[e]] \in Nat
    BY <1>1, TrainingAssumption DEF TypeOK, LoaderOK
  <2>3. CASE newSeq'[e]
    <3>1. time'[e] = 0
      BY <1>1, <2>3, NextBatchTime DEF TypeOK
    <3>2. selectNew[e] \/ time[e] = NrSamples[traj[e]] - 1
      BY <2>1, <2>2, <2>3 DEF SelectsNew
    <3> QED BY <2>3, <3>1, <3>2
  <2>4. CASE ~newSeq'[e]
    <3>1. time'[e] = time[e] + 1
      BY <1>1, <2>4, NextBatchTime DEF TypeOK
    <3>2. traj'[e] = traj[e]
      BY <1>1, <2>1, <2>4 DEF NextBatch, TypeOK, LoaderOK
    <3> QED BY <2>4, <3>1, <3>2
  <2> QED BY <2>3, <2>4
<1>2. [Next]_vars => IF Calls THEN NextBatch ELSE UNCHANGED <<traj, time>>
  BY DEF Next, Learn, Step, PerAgentStep, ResetDones, EndReset, EndStep, NewRollout,
         Calls, vars, loader
<1>3. TypeOK /\ [Next]_vars => [Dealt]_vars
  <2>1. ASSUME ~Calls, UNCHANGED <<traj, time>> PROVE Dealt
    BY <2>1
  <2> QED BY <1>1, <1>2, <2>1
<1> QED BY <1>3, TypeCorrect, PTL DEF Spec, DealsWholeTrajectories

-----------------------------------------------------------------------------
(* Each environment is one of LoopEnv.                                     *)
LEMMA TurnsArePreserved ==
  ASSUME TypeOK, TurnsInv, [Next]_vars PROVE TurnsInv'
<1>0. /\ stage \in [Envs -> FrontendStages] /\ done \in [Envs -> BOOLEAN]
      /\ newSeq \in [Envs -> BOOLEAN] /\ todo \in SUBSET Envs
      /\ phase \in {"learn", "reset", "ready", "svo", "redo"}
      /\ phase \in {"learn", "ready"} => todo = {}
  BY DEF TypeOK, LoaderOK, LoopOK, Flags, TurnsInv
<1>1. SUFFICES ASSUME NEW e \in Envs
               PROVE  (phase' \in {"learn", "ready"} => todo' = {}) /\ InTurn(e)'
  BY <1>0 DEF TurnsInv, Next, Learn, Step, PerAgentStep, ResetDones, EndReset, EndStep,
     NewRollout, vars
<1>2. InTurn(e)
  BY DEF TurnsInv
<1>3. CASE Learn \/ Step
  BY <1>0, <1>2, <1>3 DEF Learn, Step, RestartFrontends, InTurn
<1>4. ASSUME NEW a \in Envs, PerAgentStep(a)
      PROVE  (phase' \in {"learn", "ready"} => todo' = {}) /\ InTurn(e)'
  <2>1. PICK s \in NextStages(stage[a]) :
          /\ stage' = [stage EXCEPT ![a] = s]
          /\ done' = [done EXCEPT ![a] = @ \/ s = "GaveUp"]
    BY <1>4 DEF PerAgentStep
  <2>2. /\ a \in todo /\ todo' = todo \ {a} /\ UNCHANGED phase
        /\ phase \in {"reset", "svo", "redo"}
    BY <1>0, <1>4 DEF PerAgentStep
  <2>3. CASE e = a
    <3>1. stage'[e] = s /\ done'[e] = (done[e] \/ s = "GaveUp") /\ e \notin todo'
      BY <1>0, <2>1, <2>2, <2>3
    <3>2. stage[e] \in FrontendStages /\ stage[e] # "GaveUp" /\ s \in NextStages(stage[e])
      BY <1>0, <1>2, <2>1, <2>2, <2>3 DEF InTurn
    <3>3. s \in {"Initializing", "Tracking", "Relocalization", "GaveUp"}
      BY <3>2 DEF NextStages, FrontendStages
    <3>4. phase \in {"reset", "redo"} => s = "Initializing"
      BY <1>2, <2>2, <2>3, <3>2 DEF InTurn, NextStages
    <3>. QED  BY <1>2, <2>2, <2>3, <3>1, <3>2, <3>3, <3>4 DEF InTurn
  <2>4. CASE e # a
    <3>1. UNCHANGED <<stage[e], done[e]>> /\ (e \in todo' <=> e \in todo)
      BY <1>0, <2>1, <2>2, <2>4
    <3>. QED  BY <1>2, <2>2, <3>1 DEF InTurn
  <2>. QED  BY <2>3, <2>4
<1>5. CASE ResetDones
  BY <1>0, <1>2, <1>5 DEF ResetDones, RestartFrontends, InTurn
<1>6. CASE EndReset \/ EndStep
  <2>1. UNCHANGED <<stage, todo>> /\ todo = {} /\ phase' = "ready" /\ phase # "learn"
    BY <1>6 DEF EndReset, EndStep
  <2>2. stage[e] # "GaveUp"
    BY <1>2, <1>6, <2>1 DEF EndReset, EndStep, InTurn
  <2>. QED  BY <1>2, <2>1, <2>2 DEF InTurn
<1>7. CASE NewRollout \/ UNCHANGED vars
  <2>1. UNCHANGED <<phase, todo, stage, done>>
    BY <1>7 DEF NewRollout, vars
  <2>. QED  BY <1>0, <1>2, <2>1 DEF InTurn
<1>. QED  BY <1>3, <1>4, <1>5, <1>6, <1>7 DEF Next

LEMMA EachStepIsLoopEnvStep ==
  ASSUME TypeOK, TurnsInv, [Next]_vars, NEW e \in Envs
  PROVE  [EnvOf(e)!Next]_(EnvOf(e)!vars)
<1>. USE DEF EnvOf!Next, EnvOf!vars
<1>0. /\ stage \in [Envs -> FrontendStages] /\ done \in [Envs -> BOOLEAN]
      /\ newSeq \in [Envs -> BOOLEAN] /\ todo \in SUBSET Envs
      /\ phase \in {"learn", "reset", "ready", "svo", "redo"}
      /\ phase \in {"learn", "ready"} => todo = {}
      /\ InTurn(e)
  BY DEF TypeOK, LoaderOK, LoopOK, Flags, TurnsInv
<1>1. CASE Learn
  <2>1. Turn(e) = "ready" /\ Turn(e)' = "image" /\ EpisodeEnds(e)' = TRUE
    BY <1>1 DEF Learn, Turn, EpisodeEnds
  <2>2. stage'[e] = "Started" /\ UNCHANGED prevValid
    BY <1>1 DEF Learn, RestartFrontends
  <2>. QED  BY <2>1, <2>2 DEF EnvOf!Reset, EnvOf!Move
<1>2. CASE Step
  <2>1. /\ Turn(e) = "ready" /\ Turn(e)' = "image"
        /\ EpisodeEnds(e)' = (done'[e] \/ newSeq'[e])
    BY <1>2 DEF Step, Turn, EpisodeEnds, Ended
  <2>2. newSeq'[e] \in BOOLEAN /\ done'[e] = FALSE
    BY <1>2 DEF Step, NextBatch
  <2>3. stage'[e] = (IF newSeq'[e] THEN "Started" ELSE stage[e]) /\ UNCHANGED prevValid
    BY <1>0, <1>2 DEF Step, RestartFrontends
  <2>4. stage[e] # "Started"
    BY <1>0, <1>2 DEF Step, InTurn
  <2>. QED  BY <2>1, <2>2, <2>3, <2>4 DEF EnvOf!Step, EnvOf!Move
<1>3. ASSUME NEW a \in Envs, PerAgentStep(a) PROVE [EnvOf(e)!Next]_(EnvOf(e)!vars)
  <2>1. PICK s \in NextStages(stage[a]) :
          /\ stage' = [stage EXCEPT ![a] = s]
          /\ done' = [done EXCEPT ![a] = @ \/ s = "GaveUp"]
    BY <1>3 DEF PerAgentStep
  <2>2. /\ a \in todo /\ todo' = todo \ {a}
        /\ UNCHANGED <<phase, newSeq, prevValid, starts>>
        /\ phase \in {"reset", "svo", "redo"}
    BY <1>0, <1>3 DEF PerAgentStep, loader
  <2>3. CASE e = a
    <3>1. stage'[e] = s /\ done'[e] = (done[e] \/ s = "GaveUp") /\ e \notin todo'
      BY <1>0, <2>1, <2>2, <2>3
    <3>2. stage[e] \in FrontendStages /\ stage[e] # "GaveUp" /\ s \in NextStages(stage[e])
      BY <1>0, <2>1, <2>2, <2>3 DEF InTurn
    <3>3. <<stage[e], stage'[e]>> \in EnvOf(e)!Follows
      BY <3>1, <3>2 DEF NextStages, FrontendStages, EnvOf!Follows
    <3>4. Turn(e) = "image" /\ Turn(e)' = "served"
      BY <2>2, <2>3, <3>1 DEF Turn
    <3>5. phase = "reset" => s # "GaveUp"
      BY <1>0, <2>2, <2>3, <3>2 DEF InTurn, NextStages
    <3>6. EpisodeEnds(e)' = (EpisodeEnds(e) \/ stage'[e] = "GaveUp")
      BY <2>2, <3>1, <3>5 DEF EpisodeEnds, Ended
    <3>. QED  BY <2>2, <3>3, <3>4, <3>6 DEF EnvOf!Image, EnvOf!Move
  <2>4. CASE e # a
    <3>1. UNCHANGED <<stage[e], done[e]>> /\ (e \in todo' <=> e \in todo)
      BY <1>0, <2>1, <2>2, <2>4
    <3>2. UNCHANGED <<Turn(e), EpisodeEnds(e)>>
      BY <2>2, <3>1 DEF Turn, EpisodeEnds, Ended
    <3>. QED  BY <2>2, <3>1, <3>2
  <2>. QED  BY <2>3, <2>4
<1>4. CASE ResetDones
  <2>1. /\ phase = "svo" /\ phase' = "redo" /\ todo = {} /\ todo' = {a \in Envs : done[a]}
        /\ UNCHANGED <<newSeq, done, prevValid>>
    BY <1>4 DEF ResetDones, loader
  <2>2. stage'[e] = IF done[e] THEN "Started" ELSE stage[e]
    BY <1>0, <1>4 DEF ResetDones, RestartFrontends
  <2>3. UNCHANGED EpisodeEnds(e)
    BY <2>1 DEF EpisodeEnds, Ended
  <2>4. Turn(e) = "served" /\ Turn(e)' = IF done[e] THEN "image" ELSE "served"
    BY <2>1 DEF Turn
  <2>5. done[e] => stage[e] = "GaveUp"
    BY <1>0, <2>1 DEF InTurn
  <2>. QED  BY <2>1, <2>2, <2>3, <2>4, <2>5 DEF EnvOf!Redo, EnvOf!Move
<1>5. CASE EndReset \/ EndStep
  <2>1. /\ todo = {} /\ todo' = {} /\ phase \in {"reset", "svo", "redo"} /\ phase' = "ready"
        /\ UNCHANGED stage
    BY <1>5 DEF EndReset, EndStep
  <2>2. Turn(e) = "served" /\ Turn(e)' = "ready"
    BY <2>1 DEF Turn
  <2>3. stage[e] # "GaveUp"
    BY <1>0, <1>5 DEF EndReset, EndStep, InTurn
  <2>4. prevValid'[e] = (stage[e] = "Tracking")
    BY <1>5 DEF EndReset, EndStep, SvoValid
  <2>5. EpisodeEnds(e)' = EpisodeEnds(e)
    BY <1>5 DEF EndReset, EndStep, EpisodeEnds
  <2>. QED  BY <2>1, <2>2, <2>3, <2>4, <2>5 DEF EnvOf!Return, EnvOf!Move
<1>6. CASE NewRollout \/ UNCHANGED vars
  <2>1. UNCHANGED <<phase, todo, stage, done, newSeq, starts, prevValid>>
    BY <1>6 DEF NewRollout, vars, loader
  <2>2. UNCHANGED <<Turn(e), EpisodeEnds(e)>>
    BY <2>1 DEF Turn, EpisodeEnds, Ended
  <2>. QED  BY <2>1, <2>2
<1>. QED  BY <1>1, <1>2, <1>3, <1>4, <1>5, <1>6 DEF Next

(* In a loop over many environments, stepped by threads in any order and   *)
(* stepped again when they give up, each environment goes through calls,   *)
(* images and sessions as LoopEnv has it.                                  *)
THEOREM EveryEnvIsLoopEnv == Spec => KeepsLoopEnv
<1>. DEFINE EachSteps == \A e \in Envs : [EnvOf(e)!Next]_(EnvOf(e)!vars)
<1>1. Init => \A e \in Envs : EnvOf(e)!Init
  BY DEF Init, EnvOf!Init, Turn, EpisodeEnds
<1>2. Init => TurnsInv
  BY DEF Init, TurnsInv, InTurn
<1>3. TypeOK /\ TurnsInv /\ [Next]_vars => TurnsInv'
  BY TurnsArePreserved
<1>4. TypeOK /\ TurnsInv /\ [Next]_vars => [EachSteps]_vars
  BY EachStepIsLoopEnvStep
<1>. QED  BY <1>1, <1>2, <1>3, <1>4, TypeCorrect, PTL DEF Spec, KeepsLoopEnv

(* And the loop leaves out nothing that a frontend may do: with one image, *)
(* a stage leads to exactly those that LoopEnv has follow it.              *)
THEOREM FrontendsDoAllOfLoopEnv ==
  \A e \in Envs, s \in FrontendStages :
    NextStages(s) = {t \in FrontendStages : <<s, t>> \in EnvOf(e)!Follows}
BY DEF NextStages, FrontendStages, EnvOf!Follows
=============================================================================
