--------------------------- MODULE PipelineRunProofs ---------------------------
(***************************************************************************)
(* Proofs about PipelineRun, for any workflow, policies, limit of parallel *)
(* steps and number of resumes.  The invariant says, of each step, what    *)
(* its goroutine and its background process may rely on (StepInv) and what *)
(* its record promises (RecordInv); of the scheduler, where it can be      *)
(* (SchedulerInv); and of the saves, that the file is never ahead of the   *)
(* copy that is being written, nor that copy of the state (FileInv).  A    *)
(* second one says when background processes are cut off (CutInv).         *)
(***************************************************************************)
EXTENDS PipelineRun, TLAPS

Busy == {"scan", "wait", "received", "recorded", "settling"}
Folding == {"received", "recorded", "settling"}

\* Where the run's own goroutine is.
SchedulerInv ==
    /\ receiving \in Step <=> phase \in Folding
    /\ phase \in Busy \cup {"opening"} => state.status = "running"
    /\ phase \in {"opening", "scan"} => ~fatal
    /\ saving[Main] # NoState => phase \in {"opening", "recorded", "closing"}
    /\ Idle => \A s \in Step : sidecar[s] \in {"none", "unmarked"}

\* A step in flight has no result yet, its dependencies have theirs, and they have been
\* settled; past its check none of them has failed.
InFlightInv(s) ==
    /\ s \in state.inFlight => pc[s] \in {"marked", "ready", "working", "delay"}
    /\ pc[s] # "idle" =>
        /\ phase \in Busy /\ state.steps[s] = "none"
        /\ \A d \in DependsOn[s] :
               d \in executed /\ d # receiving /\ state.steps[d] # "cancelled"
    /\ pc[s] \in {"working", "delay"} => ~HasFailedDependency(s)
    /\ pc[s] = "done" => result[s] \in Result /\ (result[s] = "dependency" <=> HasFailedDependency(s))
    /\ pc[s] \notin {"working", "delay"} => attempts[s] = 0
    /\ pc[s] = "delay" => attempts[s] < MaxAttempts(s)

\* A background process belongs to a step that is completed, or about to be.
SidecarInv(s) ==
    /\ sidecar[s] # "none" =>
        /\ s \in Detached
        /\ \/ pc[s] = "done" /\ result[s] = "completed"
           \/ state.steps[s] \in {"completed", "relaunch"}
    /\ s \in killed => sidecar[s] \in {"killed", "unmarked"} \/ state.steps[s] = "relaunch"

\* Who has a copy of the state in hand waits for its write.
CopyInv(s) ==
    /\ saving[WorkerOf(s)] # NoState => pc[s] = "marked"
    /\ saving[WatcherOf(s)] # NoState => sidecar[s] = "flagged"

StepInv(s) == InFlightInv(s) /\ SidecarInv(s) /\ CopyInv(s)

Unshared(s) == \A e \in Step \ {s} : OutputVar[e] # OutputVar[s]

\* What the record of a step, the graph, the variables and fatalErr say together.
RecordInv(s) ==
    /\ s \in executed <=> state.steps[s] # "none" /\ ~(phase = "received" /\ receiving = s)
    /\ receiving = s => state.steps[s] # "none" /\ (state.steps[s] = "skipped" => ~HasFailedDependency(s))
    /\ state.steps[s] = "dependency" => HasFailedDependency(s)
    /\ s \in failed => state.steps[s] \in {"failed", "dependency"}
    /\ state.steps[s] \in {"failed", "dependency"} => s \in failed \/ receiving = s
    /\ \/ state.steps[s] = "cancelled"
       \/ state.steps[s] = "failed" /\ OnError[s] # "continue"
       => fatal \/ receiving = s
    /\ s \in executed /\ state.steps[s] \in {"completed", "relaunch"} /\ Unshared(s)
       => state.vars[OutputVar[s]] = s

\* Every step has a result that a completed run may have.
AllDone(f) ==
    \A s \in Step :
        /\ f.steps[s] \notin {"none", "cancelled"}
        /\ f.steps[s] = "failed" => OnError[s] = "continue"
        /\ f.steps[s] = "dependency" => \E d \in DependsOn[s] : f.steps[d] \in {"failed", "dependency"}

\* A copy is of a state that the run was in.
Sound(f) ==
    /\ \A s \in f.inFlight : f.steps[s] = "none"
    /\ f.status = "completed" => AllDone(f)

\* g is as far as f, or further.
Keeps(f, g) ==
    \A s \in Step : f.steps[s] \in {"completed", "skipped"} => g.steps[s] \in {f.steps[s], "relaunch"}

\* The file is behind the copy that is being written, and the copy behind the state.
FileInv ==
    /\ state.status = "completed" => AllDone(state)
    /\ file # NoState => Sound(file) /\ (phase # "off" => Keeps(file, state))
    /\ \A t \in Thread : saving[t] # NoState =>
        /\ Sound(saving[t]) /\ Keeps(saving[t], state)
        /\ file # NoState => Keeps(file, saving[t])
        /\ \A u \in Thread : saving[u] # NoState => u = t

IInv ==
    /\ TypeOK /\ SchedulerInv /\ FileInv
    /\ \A s \in Step : StepInv(s) /\ RecordInv(s)

-----------------------------------------------------------------------------
\* The goroutines that save are all different.
LEMMA ThreadsDiffer ==
    \A s, u \in Step :
        /\ {Main, WorkerOf(s), WatcherOf(s)} \subseteq Thread
        /\ Main # WorkerOf(s) /\ Main # WatcherOf(s) /\ WorkerOf(s) # WatcherOf(u)
        /\ WorkerOf(s) = WorkerOf(u) => s = u
        /\ WatcherOf(s) = WatcherOf(u) => s = u
  BY DEF Thread, Main, WorkerOf, WatcherOf

\* The fields of a state have their types.
LEMMA StateParts ==
    ASSUME NEW f \in State
    PROVE  /\ f.status \in {"running", "completed", "failed", "cancelled"}
           /\ f.steps \in [Step -> Record] /\ f.inFlight \in SUBSET Step
           /\ f.vars \in [Variable -> Step \cup {NoStep}]
  BY DEF State

\* The state a run starts with is a state.
LEMMA FreshStateIsState ==
    FreshState \in State
  BY DEF FreshState, State, Record

\* A process that has not run yet.
THEOREM Initially ==
    Init => IInv
  <1> SUFFICES ASSUME Init PROVE IInv
    OBVIOUS
  <1> USE DEF Init
  <1>1. TypeOK
    <2>1. /\ 0 \in 0..RetryCount + 1 /\ 0 \in 0..MaxRuns
      BY PipelineAssumption DEF PipelineAssumption
    <2>2. {fatal, cancelled, cut} \subseteq BOOLEAN
      OBVIOUS
    <2> QED
      BY FreshStateIsState, <2>1, <2>2 DEF TypeOK
  <1>2. SchedulerInv
    BY ThreadsDiffer, PipelineAssumption DEF SchedulerInv, Busy, Folding, Thread, FreshState, PipelineAssumption
  <1>3. FileInv
    BY DEF FileInv, FreshState
  <1>4. ASSUME NEW s \in Step PROVE StepInv(s) /\ RecordInv(s)
    <2>1. StepInv(s)
      BY ThreadsDiffer DEF StepInv, InFlightInv, SidecarInv, CopyInv, FreshState
    <2>2. RecordInv(s)
      BY PipelineAssumption DEF RecordInv, FreshState, PipelineAssumption
    <2> QED
      BY <2>1, <2>2
  <1> QED
    BY <1>1, <1>2, <1>3, <1>4 DEF IInv

\* A step of one goroutine, or of one background process, that leaves all records alone.
LEMMA LocalStep ==
    ASSUME IInv, TypeOK', NEW s \in Step, ~Idle,
           UNCHANGED <<file, saving, executed, failed, phase, receiving, fatal>>,
           state'.steps = state.steps, state'.status = state.status, state'.vars = state.vars,
           state'.inFlight \ {s} = state.inFlight \ {s},
           \A u \in Step \ {s} :
               /\ pc'[u] = pc[u] /\ result'[u] = result[u] /\ attempts'[u] = attempts[u]
               /\ sidecar'[u] = sidecar[u] /\ (u \in killed' <=> u \in killed),
           StepInv(s)'
    PROVE  IInv'
  <1>1. SchedulerInv'
    BY DEF IInv, SchedulerInv, Idle
  <1>2. FileInv'
    <2>1. state.status = "completed" => AllDone(state) /\ AllDone(state)'
      BY DEF IInv, FileInv, AllDone
    <2>2. ASSUME NEW f, Keeps(f, state) PROVE Keeps(f, state')
      BY <2>2 DEF Keeps
    <2>3. ASSUME NEW f, Sound(f) PROVE Sound(f)'
      BY <2>3 DEF Sound
    <2>4. ASSUME NEW t \in Thread, saving[t] # NoState
          PROVE  /\ Sound(saving[t]) /\ Keeps(saving[t], state')
                 /\ file # NoState => Keeps(file, saving[t])
                 /\ \A u \in Thread : saving[u] # NoState => u = t
      BY <2>2, <2>4 DEF IInv, FileInv
    <2>5. file # NoState => Sound(file) /\ (phase # "off" => Keeps(file, state'))
      BY <2>2 DEF IInv, FileInv
    <2> QED
      BY <2>1, <2>4, <2>5 DEF FileInv
  <1>3. ASSUME NEW u \in Step PROVE StepInv(u)'
    <2>1. CASE u = s
      BY <2>1
    <2>2. CASE u # s
      <3>1. StepInv(u)
        BY DEF IInv
      <3>2. u \in state'.inFlight <=> u \in state.inFlight
        BY <2>2
      <3>3. InFlightInv(u)'
        BY <2>2, <3>1, <3>2 DEF StepInv, InFlightInv, HasFailedDependency, MaxAttempts
      <3>4. SidecarInv(u)' /\ CopyInv(u)'
        BY <2>2, <3>1 DEF StepInv, SidecarInv, CopyInv
      <3> QED
        BY <3>3, <3>4 DEF StepInv
    <2> QED
      BY <2>1, <2>2
  <1>4. ASSUME NEW u \in Step PROVE RecordInv(u)'
    BY DEF IInv, RecordInv, HasFailedDependency, Unshared
  <1> QED
    BY <1>1, <1>2, <1>3, <1>4 DEF IInv

-----------------------------------------------------------------------------
(***************************************************************************)
(* Steps of a step's goroutine and of its background process.              *)
(***************************************************************************)

\* A step in flight that is not done has no background process yet.
LEMMA NothingBehind ==
    ASSUME IInv, NEW s \in Step, pc[s] \notin {"idle", "done"}
    PROVE  /\ phase \in Busy /\ state.steps[s] = "none"
           /\ sidecar[s] = "none" /\ s \notin killed /\ saving[WatcherOf(s)] = NoState
  BY DEF IInv, StepInv, InFlightInv, SidecarInv, CopyInv

\* A step that hands over a result leaves the rest to the scheduler.
LEMMA DeliverStep ==
    ASSUME IInv, NEW s \in Step, NEW r \in Result, Deliver(s, r),
           pc[s] \in {"ready", "working", "delay"}, r = "dependency" <=> HasFailedDependency(s),
           \/ sidecar' = sidecar
           \/ s \in Detached /\ r = "completed" /\ sidecar' = [sidecar EXCEPT ![s] = "running"]
    PROVE  IInv'
  <1>1. /\ pc' = [pc EXCEPT ![s] = "done"] /\ result' = [result EXCEPT ![s] = r]
        /\ attempts' = [attempts EXCEPT ![s] = 0]
        /\ UNCHANGED <<file, saving, executed, failed, phase, receiving, fatal, cancelled, cut, killed, runs>>
    BY DEF Deliver, persistence, graph, scheduler
  <1>2. /\ state' \in State /\ state'.steps = state.steps /\ state'.status = state.status
        /\ state'.vars = state.vars /\ state'.inFlight = state.inFlight \ {s}
    BY DEF Deliver, IInv, TypeOK, State
  <1>3. TypeOK'
    <2>1. result' \in [Step -> Result \cup {"none"}] /\ sidecar' \in [Step -> {"none", "running", "killed", "flagged", "unmarked"}]
      BY <1>1 DEF IInv, TypeOK
    <2>2. attempts' \in [Step -> 0..RetryCount + 1]
      <3>1. 0 \in 0..RetryCount + 1
        BY PipelineAssumption DEF PipelineAssumption
      <3> QED
        BY <1>1, <3>1 DEF IInv, TypeOK
    <2>3. pc' \in [Step -> {"idle", "start", "marked", "ready", "working", "delay", "done"}]
      BY <1>1 DEF IInv, TypeOK
    <2> QED
      BY <1>1, <1>2, <2>1, <2>2, <2>3 DEF IInv, TypeOK
  <1>4. phase \in Busy /\ state.steps[s] = "none" /\ sidecar[s] = "none" /\ s \notin killed
        /\ saving[WatcherOf(s)] = NoState
    BY NothingBehind
  <1>5. pc'[s] = "done" /\ result'[s] = r /\ attempts'[s] = 0
        /\ (sidecar'[s] = "none" \/ (s \in Detached /\ r = "completed"))
    BY <1>1, <1>4 DEF IInv, TypeOK
  <1>6. StepInv(s)'
    <2>1. InFlightInv(s)'
      BY <1>1, <1>2, <1>4, <1>5 DEF IInv, StepInv, InFlightInv, HasFailedDependency
    <2>2. SidecarInv(s)'
      BY <1>1, <1>2, <1>4, <1>5 DEF SidecarInv
    <2>3. CopyInv(s)'
      BY <1>1, <1>4, <1>5 DEF IInv, StepInv, CopyInv
    <2> QED
      BY <2>1, <2>2, <2>3 DEF StepInv
  <1>7. \A u \in Step \ {s} :
            /\ pc'[u] = pc[u] /\ result'[u] = result[u] /\ attempts'[u] = attempts[u]
            /\ sidecar'[u] = sidecar[u] /\ (u \in killed' <=> u \in killed)
    BY <1>1 DEF IInv, TypeOK
  <1> QED
    BY <1>1, <1>2, <1>3, <1>4, <1>6, <1>7, LocalStep DEF Busy, Idle

\* The steps of a goroutine that only move it.
LEMMA MoveStep ==
    ASSUME IInv, NEW s \in Step, NEW p \in {"marked", "working", "delay"}, pc' = [pc EXCEPT ![s] = p],
           pc[s] \in {"start", "ready", "working", "delay"},
           p = "marked" => pc[s] = "start",
           p \in {"working", "delay"} => pc[s] # "start" /\ ~HasFailedDependency(s),
           attempts' \in [Step -> 0..RetryCount + 1],
           \A u \in Step \ {s} : attempts'[u] = attempts[u],
           p = "marked" => attempts'[s] = attempts[s],
           p = "delay" => attempts'[s] < MaxAttempts(s),
           state' \in State, state'.steps = state.steps, state'.status = state.status,
           state'.vars = state.vars,
           state'.inFlight \in {state.inFlight, state.inFlight \cup {s}},
           UNCHANGED <<persistence, graph, scheduler, result, background, runs>>
    PROVE  IInv'
  <1>1. UNCHANGED <<file, saving, executed, failed, phase, receiving, fatal, cancelled, cut, result,
                    sidecar, killed, runs>>
    BY DEF persistence, graph, scheduler, background
  <1>2. TypeOK'
    <2>1. pc' \in [Step -> {"idle", "start", "marked", "ready", "working", "delay", "done"}]
      BY DEF IInv, TypeOK
    <2> QED
      BY <1>1, <2>1 DEF IInv, TypeOK
  <1>3. phase \in Busy /\ state.steps[s] = "none" /\ sidecar[s] = "none" /\ s \notin killed
        /\ saving[WatcherOf(s)] = NoState
    BY NothingBehind
  <1>4. pc'[s] = p /\ \A u \in Step \ {s} : pc'[u] = pc[u]
    BY DEF IInv, TypeOK
  <1>5. StepInv(s)'
    <2>1. InFlightInv(s)'
      BY <1>1, <1>3, <1>4 DEF IInv, StepInv, InFlightInv, HasFailedDependency, MaxAttempts
    <2>2. SidecarInv(s)' /\ CopyInv(s)'
      BY <1>1, <1>3, <1>4 DEF IInv, StepInv, SidecarInv, CopyInv
    <2> QED
      BY <2>1, <2>2 DEF StepInv
  <1> QED
    BY <1>1, <1>2, <1>3, <1>4, <1>5, LocalStep DEF Busy, Idle

\* A step's own goroutine touches no record: the scheduler does.
LEMMA WorkerPreserves ==
    ASSUME IInv, NEW s \in Step,
           \/ markStepInFlight(s) \/ SkipForDependency(s) \/ EvaluateWhen(s)
           \/ Work(s) \/ Complete(s) \/ FailAttempt(s) \/ Fail(s) \/ BeCancelled(s)
    PROVE  IInv'
  <1>1. /\ RetryCount \in Nat /\ MaxAttempts(s) \in Nat
        /\ MaxAttempts(s) <= RetryCount + 1 /\ attempts[s] \in 0..RetryCount + 1
        /\ attempts \in [Step -> 0..RetryCount + 1]
    BY PipelineAssumption DEF PipelineAssumption, MaxAttempts, IInv, TypeOK
  <1>2. pc[s] \in {"working", "delay"} => ~HasFailedDependency(s)
    BY DEF IInv, StepInv, InFlightInv
  <1>3. {"completed", "failed", "cancelled", "skipped", "dependency"} = Result
    BY DEF Result
  <1>4. CASE markStepInFlight(s)
    <2>1. /\ state' \in State /\ state'.steps = state.steps /\ state'.status = state.status
          /\ state'.vars = state.vars /\ state'.inFlight = state.inFlight \cup {s}
      BY <1>4 DEF markStepInFlight, IInv, TypeOK, State
    <2> QED
      BY <1>1, <1>4, <2>1, MoveStep DEF markStepInFlight
  <1>5. CASE SkipForDependency(s)
    BY <1>3, <1>5, DeliverStep DEF SkipForDependency
  <1>6. CASE EvaluateWhen(s)
    <2>1. PICK r \in {"skipped", "failed"} : Deliver(s, r)
      BY <1>6 DEF EvaluateWhen
    <2> QED
      BY <1>3, <1>6, <2>1, DeliverStep DEF EvaluateWhen, MayWork
  <1>7. CASE Work(s)
    <2>1. attempts[s] + 1 \in 0..RetryCount + 1
      <3>1. CASE pc[s] = "ready"
        <4>1. attempts[s] = 0
          BY <3>1 DEF IInv, StepInv, InFlightInv
        <4> QED
          BY <1>1, <4>1
      <3>2. CASE pc[s] = "delay"
        <4>1. attempts[s] < MaxAttempts(s)
          BY <3>2 DEF IInv, StepInv, InFlightInv
        <4> QED
          BY <1>1, <4>1
      <3> QED
        BY <1>7, <3>1, <3>2 DEF Work
    <2>2. /\ attempts' = [attempts EXCEPT ![s] = attempts[s] + 1]
          /\ pc' = [pc EXCEPT ![s] = "working"]
          /\ UNCHANGED <<persistence, state, graph, scheduler, result, background, runs>>
      BY <1>7 DEF Work
    <2>3. /\ attempts' \in [Step -> 0..RetryCount + 1]
          /\ \A u \in Step \ {s} : attempts'[u] = attempts[u]
      BY <1>1, <2>1, <2>2
    <2>4. pc[s] \in {"ready", "delay"} /\ ~HasFailedDependency(s)
      BY <1>2, <1>7 DEF Work, MayWork
    <2>5. state' \in State /\ state' = state
      BY <2>2 DEF IInv, TypeOK
    <2> QED
      BY <2>2, <2>3, <2>4, <2>5, MoveStep
  <1>8. CASE Complete(s)
    <2>1. sidecar' = sidecar \/ (s \in Detached /\ sidecar' = [sidecar EXCEPT ![s] = "running"])
      BY <1>8 DEF Complete
    <2> QED
      BY <1>2, <1>3, <1>8, <2>1, DeliverStep DEF Complete
  <1>9. CASE FailAttempt(s)
    <2>1. /\ attempts' = attempts /\ pc' = [pc EXCEPT ![s] = "delay"]
          /\ pc[s] = "working" /\ attempts[s] < MaxAttempts(s)
          /\ UNCHANGED <<persistence, state, graph, scheduler, result, background, runs>>
      BY <1>9 DEF FailAttempt
    <2>2. state' \in State /\ state' = state
      BY <2>1 DEF IInv, TypeOK
    <2>3. MaxAttempts(s)' = MaxAttempts(s)
      BY DEF MaxAttempts
    <2> QED
      BY <1>1, <1>2, <2>1, <2>2, <2>3, MoveStep
  <1>10. CASE Fail(s)
    <2>1. PICK r \in {"failed", "skipped", "completed"} : Deliver(s, r)
      BY <1>10 DEF Fail
    <2> QED
      BY <1>2, <1>3, <1>10, <2>1, DeliverStep DEF Fail
  <1>11. CASE BeCancelled(s)
    BY <1>2, <1>3, <1>11, DeliverStep DEF BeCancelled
  <1> QED
    BY <1>4, <1>5, <1>6, <1>7, <1>8, <1>9, <1>10, <1>11

\* A background process that exits or is killed touches no record either, nor does a
\* watcher that gives up.
LEMMA BackgroundPreserves ==
    ASSUME IInv, NEW s \in Step, SidecarExits(s) \/ SidecarKilled(s) \/ GiveUp(s)
    PROVE  IInv'
  <1>1. /\ \/ sidecar[s] = "running" /\ sidecar'[s] \in {"none", "killed"}
           \/ sidecar[s] = "killed" /\ sidecar'[s] = "unmarked"
        /\ sidecar' \in [Step -> {"none", "running", "killed", "flagged", "unmarked"}]
        /\ \A u \in Step \ {s} : sidecar'[u] = sidecar[u]
        /\ sidecar'[s] \in {"none", "unmarked"} => killed' = killed
        /\ sidecar'[s] = "killed" => killed' = killed \cup {s}
        /\ UNCHANGED <<file, saving, state, executed, failed, phase, receiving, fatal, cancelled, cut,
                       pc, result, attempts, runs>>
    BY DEF SidecarExits, SidecarKilled, GiveUp, IInv, TypeOK, persistence, graph, scheduler, worker
  <1>2. /\ ~Idle /\ s \in Detached /\ saving[WatcherOf(s)] = NoState
        /\ \/ pc[s] = "done" /\ result[s] = "completed"
           \/ state.steps[s] \in {"completed", "relaunch"}
        /\ s \in killed => sidecar[s] = "killed" \/ state.steps[s] = "relaunch"
    BY <1>1 DEF IInv, SchedulerInv, StepInv, SidecarInv, CopyInv
  <1>3. TypeOK'
    <2>1. killed' \subseteq Detached
      BY <1>1, <1>2 DEF IInv, TypeOK
    <2> QED
      BY <1>1, <2>1 DEF IInv, TypeOK
  <1>4. StepInv(s)'
    <2>1. InFlightInv(s)'
      BY <1>1 DEF IInv, StepInv, InFlightInv, HasFailedDependency, MaxAttempts
    <2>2. SidecarInv(s)' /\ CopyInv(s)'
      BY <1>1, <1>2 DEF IInv, StepInv, SidecarInv, CopyInv
    <2> QED
      BY <2>1, <2>2 DEF StepInv
  <1>5. \A u \in Step \ {s} :
            /\ pc'[u] = pc[u] /\ result'[u] = result[u] /\ attempts'[u] = attempts[u]
            /\ sidecar'[u] = sidecar[u] /\ (u \in killed' <=> u \in killed)
    BY <1>1
  <1> QED
    BY <1>1, <1>2, <1>3, <1>4, <1>5, LocalStep

-----------------------------------------------------------------------------
(***************************************************************************)
(* Saves.                                                                  *)
(***************************************************************************)

\* A state may be copied: what is in flight has no result.
LEMMA StateIsSound ==
    ASSUME IInv PROVE Sound(state)
  BY DEF IInv, StepInv, InFlightInv, FileInv, Sound, TypeOK, State

\* A copy is taken when no other is being written, so it is ahead of the file.
LEMMA SnapshotPreserves ==
    ASSUME IInv, NEW t \in Thread, snapshotState(t)
    PROVE  IInv'
  <1>1. /\ WantsSave(t) /\ (\A u \in Thread : saving[u] = NoState)
        /\ saving' = [saving EXCEPT ![t] = state]
        /\ UNCHANGED <<file, state, executed, failed, phase, receiving, fatal, cancelled, cut, pc,
                       result, attempts, sidecar, killed, runs>>
    BY DEF snapshotState, MayCopy, graph, scheduler, worker, background
  <1>2. TypeOK'
    <2>1. saving' \in [Thread -> State \cup {NoState}]
      BY <1>1 DEF IInv, TypeOK
    <2> QED
      BY <1>1, <2>1 DEF IInv, TypeOK
  <1>3. saving'[t] = state /\ \A u \in Thread \ {t} : saving'[u] = NoState
    BY <1>1 DEF IInv, TypeOK
  <1>4. /\ t = Main => phase \in {"opening", "recorded", "closing"}
        /\ \A s \in Step : /\ t = WorkerOf(s) => pc[s] = "marked"
                           /\ t = WatcherOf(s) => sidecar[s] = "flagged"
        /\ phase # "off"
    <2>1. CASE t = Main
      BY <1>1, <2>1, ThreadsDiffer DEF WantsSave
    <2>2. CASE \E s \in Step : t = WorkerOf(s)
      <3>1. PICK s \in Step : t = WorkerOf(s)
        BY <2>2
      <3>2. pc[s] = "marked"
        BY <1>1, <3>1, ThreadsDiffer DEF WantsSave
      <3>3. phase \in Busy
        BY <3>2 DEF IInv, StepInv, InFlightInv
      <3> QED
        BY <3>1, <3>2, <3>3, ThreadsDiffer DEF Busy
    <2>3. CASE \E s \in Step : t = WatcherOf(s)
      <3>1. PICK s \in Step : t = WatcherOf(s)
        BY <2>3
      <3>2. sidecar[s] = "flagged"
        BY <1>1, <3>1, ThreadsDiffer DEF WantsSave
      <3>3. phase # "off"
        BY <3>2 DEF IInv, SchedulerInv, Idle
      <3> QED
        BY <3>1, <3>2, <3>3, ThreadsDiffer
    <2> QED
      BY <2>1, <2>2, <2>3 DEF Thread
  <1>5. SchedulerInv'
    BY <1>1, <1>3, <1>4, ThreadsDiffer DEF IInv, SchedulerInv, Idle
  <1>6. FileInv'
    <2>1. Sound(state) /\ Keeps(state, state)
      BY StateIsSound DEF Keeps
    <2>2. file # NoState => Sound(file) /\ Keeps(file, state)
      BY <1>4 DEF IInv, FileInv
    <2>3. state.status = "completed" => AllDone(state)
      BY DEF IInv, FileInv
    <2>4. ASSUME NEW u \in Thread, saving'[u] # NoState
          PROVE  u = t /\ saving'[u] = state
      BY <1>3, <2>4
    <2> QED
      BY <1>1, <2>1, <2>2, <2>3, <2>4 DEF FileInv
  <1>7. ASSUME NEW s \in Step PROVE StepInv(s)' /\ RecordInv(s)'
    <2>1. InFlightInv(s)' /\ SidecarInv(s)'
      BY <1>1 DEF IInv, StepInv, InFlightInv, SidecarInv, HasFailedDependency, MaxAttempts
    <2>2. CopyInv(s)'
      BY <1>1, <1>3, <1>4, ThreadsDiffer DEF CopyInv
    <2>3. RecordInv(s)'
      BY <1>1 DEF IInv, RecordInv, HasFailedDependency, Unshared
    <2> QED
      BY <2>1, <2>2, <2>3 DEF StepInv
  <1> QED
    BY <1>2, <1>5, <1>6, <1>7 DEF IInv

\* A copy that is written, or lost, leaves the file behind the state.
LEMMA SavePreserves ==
    ASSUME IInv, NEW t \in Thread, SaveState(t)
    PROVE  IInv'
  <1>1. /\ saving[t] # NoState /\ saving' = [saving EXCEPT ![t] = NoState]
        /\ file' \in {saving[t], file}
        /\ UNCHANGED <<state, executed, failed, receiving, fatal, cancelled, cut, result, attempts,
                       killed, runs>>
    BY DEF SaveState, graph
  <1>2. \A u \in Thread : saving'[u] = NoState
    BY <1>1 DEF IInv, TypeOK, FileInv
  <1>3. /\ t # Main => phase' = phase
        /\ t = Main => \/ phase = "opening" /\ phase' = "scan"
                       \/ phase = "recorded" /\ phase' = "settling"
                       \/ phase = "closing" /\ phase' = "leaving"
    <2>1. t = Main => phase \in {"opening", "recorded", "closing"} /\ phase' = AfterSave[phase]
      BY <1>1 DEF IInv, SchedulerInv, SaveState
    <2>2. /\ AfterSave["opening"] = "scan" /\ AfterSave["recorded"] = "settling"
          /\ AfterSave["closing"] = "leaving"
      BY DEF AfterSave
    <2> QED
      BY <2>1, <2>2 DEF SaveState
  <1>4. \A s \in Step :
          /\ pc'[s] = pc[s] \/ (pc[s] = "marked" /\ pc'[s] = "ready")
          /\ sidecar'[s] = sidecar[s] \/ (sidecar[s] = "flagged" /\ sidecar'[s] = "none")
    BY <1>1 DEF IInv, StepInv, CopyInv, SaveState
  <1>5. TypeOK'
    <2>1. file' \in State \cup {NoState} /\ saving' \in [Thread -> State \cup {NoState}]
      BY <1>1 DEF IInv, TypeOK
    <2>2. phase' \in {"off", "opening", "scan", "wait", "received", "recorded", "settling",
                      "closing", "leaving", "ended"}
      BY <1>3 DEF IInv, TypeOK
    <2>3. /\ pc' \in [Step -> {"idle", "start", "marked", "ready", "working", "delay", "done"}]
          /\ sidecar' \in [Step -> {"none", "running", "killed", "flagged", "unmarked"}]
      BY DEF IInv, TypeOK, SaveState
    <2> QED
      BY <1>1, <2>1, <2>2, <2>3 DEF IInv, TypeOK
  <1>6. SchedulerInv'
    BY <1>1, <1>2, <1>3, <1>4, ThreadsDiffer DEF IInv, SchedulerInv, Idle, Busy, Folding
  <1>7. FileInv'
    <2>1. /\ Sound(saving[t]) /\ Keeps(saving[t], state)
          /\ file # NoState => Sound(file) /\ (phase # "off" => Keeps(file, state))
          /\ state.status = "completed" => AllDone(state)
      BY <1>1 DEF IInv, FileInv
    <2>2. phase' # "off" => phase # "off"
      BY <1>3
    <2>3. file' # NoState => Sound(file') /\ (phase' # "off" => Keeps(file', state))
      BY <1>1, <2>1, <2>2
    <2> QED
      BY <1>1, <1>2, <2>1, <2>3 DEF FileInv
  <1>8. ASSUME NEW s \in Step PROVE StepInv(s)' /\ RecordInv(s)'
    <2>1. InFlightInv(s)'
      BY <1>1, <1>3, <1>4 DEF IInv, StepInv, InFlightInv, HasFailedDependency, MaxAttempts, Busy
    <2>2. SidecarInv(s)'
      BY <1>1, <1>4 DEF IInv, StepInv, SidecarInv
    <2>3. CopyInv(s)'
      BY <1>2, ThreadsDiffer DEF CopyInv
    <2>4. RecordInv(s)'
      BY <1>1, <1>3 DEF IInv, RecordInv, HasFailedDependency, Unshared
    <2> QED
      BY <2>1, <2>2, <2>3, <2>4 DEF StepInv
  <1> QED
    BY <1>5, <1>6, <1>7, <1>8 DEF IInv

-----------------------------------------------------------------------------
(***************************************************************************)
(* Steps of the scheduler.                                                 *)
(***************************************************************************)

\* Without a save it is enough that what is finished in the state stays finished.
LEMMA SameFile ==
    ASSUME IInv, UNCHANGED <<file, saving>>, phase # "off",
           \A s \in Step :
               /\ state.steps[s] \in {"completed", "skipped"} => state'.steps[s] \in {state.steps[s], "relaunch"}
               /\ state.steps[s] = "relaunch" => state'.steps[s] = "relaunch",
           state'.status = "completed" => AllDone(state')
    PROVE  FileInv'
  <1>1. ASSUME NEW f, Keeps(f, state) PROVE Keeps(f, state')
    BY <1>1 DEF Keeps
  <1>2. file # NoState => Sound(file) /\ Keeps(file, state')
    BY <1>1 DEF IInv, FileInv
  <1>3. ASSUME NEW t \in Thread, saving[t] # NoState
        PROVE  /\ Sound(saving[t]) /\ Keeps(saving[t], state')
               /\ file # NoState => Keeps(file, saving[t])
               /\ \A u \in Thread : saving[u] # NoState => u = t
    BY <1>1, <1>3 DEF IInv, FileInv
  <1> QED
    BY <1>2, <1>3 DEF FileInv

\* The dependencies of a started step are settled, and none was cancelled.
LEMMA DispatchPreserves ==
    ASSUME IInv, Dispatch
    PROVE  IInv'
  <1>1. PICK S \in SUBSET (Ready \ InFlight) : pc' = [s \in Step |-> IF s \in S THEN "start" ELSE pc[s]]
    BY DEF Dispatch
  <1>2. /\ phase = "scan" /\ phase' = "wait"
        /\ UNCHANGED <<file, saving, state, executed, failed, receiving, fatal, cancelled, cut, result,
                       attempts, sidecar, killed, runs>>
    BY DEF Dispatch, persistence, graph, background
  <1>3. TypeOK'
    <2>1. pc' \in [Step -> {"idle", "start", "marked", "ready", "working", "delay", "done"}]
      BY <1>1 DEF IInv, TypeOK
    <2> QED
      BY <1>2, <2>1 DEF IInv, TypeOK
  <1>4. SchedulerInv'
    BY <1>2 DEF IInv, SchedulerInv, Idle, Busy, Folding
  <1>5. FileInv'
    BY <1>2, SameFile DEF IInv, FileInv
  <1>6. ASSUME NEW s \in Step PROVE StepInv(s)'
    <2>1. CASE s \in S
      <3>1. pc[s] = "idle" /\ pc'[s] = "start" /\ s \notin executed /\ DependsOn[s] \subseteq executed
        BY <1>1, <2>1 DEF Ready, InFlight
      <3>2. state.steps[s] = "none"
        BY <1>2, <3>1 DEF IInv, RecordInv
      <3>3. ASSUME NEW d \in DependsOn[s]
            PROVE  d \in executed /\ d # receiving /\ state.steps[d] # "cancelled"
        BY <1>2, <3>1 DEF IInv, TypeOK, SchedulerInv, RecordInv, Folding
      <3>4. InFlightInv(s)'
        BY <1>2, <3>1, <3>2, <3>3 DEF IInv, StepInv, InFlightInv, Busy
      <3>5. SidecarInv(s)' /\ CopyInv(s)'
        BY <1>2, <3>1 DEF IInv, StepInv, SidecarInv, CopyInv
      <3> QED
        BY <3>4, <3>5 DEF StepInv
    <2>2. CASE s \notin S
      <3>1. pc'[s] = pc[s]
        BY <1>1, <2>2
      <3>2. InFlightInv(s)'
        BY <1>2, <3>1 DEF IInv, StepInv, InFlightInv, HasFailedDependency, MaxAttempts, Busy
      <3>3. SidecarInv(s)' /\ CopyInv(s)'
        BY <1>2, <3>1 DEF IInv, StepInv, SidecarInv, CopyInv
      <3> QED
        BY <3>2, <3>3 DEF StepInv
    <2> QED
      BY <2>1, <2>2
  <1>7. ASSUME NEW s \in Step PROVE RecordInv(s)'
    BY <1>2 DEF IInv, RecordInv, HasFailedDependency, Unshared
  <1> QED
    BY <1>3, <1>4, <1>5, <1>6, <1>7 DEF IInv

\* A result is folded in before anything that depends on it is in flight.
LEMMA ReceivePreserves ==
    ASSUME IInv, NEW s \in Step, Receive(s)
    PROVE  IInv'
  <1>1. /\ phase = "wait" /\ pc[s] = "done" /\ receiving' = s /\ phase' = "received"
        /\ state' = [state EXCEPT !.steps[s] = result[s]]
        /\ pc' = [pc EXCEPT ![s] = "idle"] /\ result' = [result EXCEPT ![s] = "none"]
        /\ UNCHANGED <<file, saving, executed, failed, fatal, cancelled, cut, attempts, sidecar,
                       killed, runs>>
    BY DEF Receive, persistence, graph, background
  <1>2. /\ state.steps[s] = "none" /\ result[s] \in Result /\ s \notin executed /\ s \notin state.inFlight
        /\ (result[s] = "dependency" <=> HasFailedDependency(s))
        /\ attempts[s] = 0 /\ saving[WorkerOf(s)] = NoState /\ receiving \notin Step
    BY <1>1 DEF IInv, StepInv, InFlightInv, CopyInv, RecordInv, SchedulerInv, Folding
  <1>3. /\ state'.steps = [state.steps EXCEPT ![s] = result[s]] /\ state'.vars = state.vars
        /\ state'.status = state.status /\ state'.inFlight = state.inFlight /\ state' \in State
    BY <1>1, <1>2 DEF IInv, TypeOK, State, Record
  <1>4. state'.steps[s] = result[s] /\ \A u \in Step \ {s} : state'.steps[u] = state.steps[u]
    BY <1>3, StateParts DEF IInv, TypeOK
  <1>5. /\ pc'[s] = "idle" /\ result'[s] = "none"
        /\ \A u \in Step \ {s} : pc'[u] = pc[u] /\ result'[u] = result[u]
    BY <1>1 DEF IInv, TypeOK
  <1>6. TypeOK'
    <2>1. /\ pc' \in [Step -> {"idle", "start", "marked", "ready", "working", "delay", "done"}]
          /\ result' \in [Step -> Result \cup {"none"}]
      BY <1>1 DEF IInv, TypeOK
    <2> QED
      BY <1>1, <1>3, <2>1 DEF IInv, TypeOK
  <1>7. SchedulerInv'
    BY <1>1, <1>3 DEF IInv, SchedulerInv, Idle, Busy, Folding
  <1>8. FileInv'
    <2>1. state'.status = "running"
      BY <1>1, <1>3 DEF IInv, SchedulerInv, Busy
    <2> QED
      BY <1>1, <1>2, <1>4, <2>1, SameFile
  <1>9. ASSUME NEW u \in Step PROVE StepInv(u)'
    <2>1. CASE u = s
      <3>1. InFlightInv(s)'
        BY <1>1, <1>2, <1>3, <1>5 DEF InFlightInv
      <3>2. SidecarInv(s)'
        BY <1>1, <1>2, <1>4 DEF IInv, StepInv, SidecarInv
      <3>3. CopyInv(s)'
        BY <1>1, <1>2 DEF IInv, StepInv, CopyInv
      <3> QED
        BY <2>1, <3>1, <3>2, <3>3 DEF StepInv
    <2>2. CASE u # s
      <3>1. ASSUME NEW d \in DependsOn[u], pc[u] # "idle"
            PROVE  d \in executed' /\ d # receiving' /\ state'.steps[d] # "cancelled"
        <4>1. d \in executed /\ state.steps[d] # "cancelled"
          BY <3>1 DEF IInv, StepInv, InFlightInv
        <4>2. d \in Step /\ d # s
          BY <1>2, <4>1 DEF IInv, TypeOK
        <4> QED
          BY <1>1, <1>4, <4>1, <4>2
      <3>2. InFlightInv(u)'
        BY <1>1, <1>3, <1>4, <1>5, <2>2, <3>1
           DEF IInv, StepInv, InFlightInv, HasFailedDependency, MaxAttempts, Busy
      <3>3. SidecarInv(u)' /\ CopyInv(u)'
        BY <1>1, <1>4, <1>5, <2>2 DEF IInv, StepInv, SidecarInv, CopyInv
      <3> QED
        BY <3>2, <3>3 DEF StepInv
    <2> QED
      BY <2>1, <2>2
  <1>10. ASSUME NEW u \in Step PROVE RecordInv(u)'
    <2>1. CASE u = s
      BY <1>1, <1>2, <1>4, <2>1 DEF IInv, RecordInv, HasFailedDependency, Result
    <2>2. CASE u # s
      BY <1>1, <1>2, <1>3, <1>4, <2>2 DEF IInv, RecordInv, HasFailedDependency, Unshared
    <2> QED
      BY <2>1, <2>2
  <1> QED
    BY <1>6, <1>7, <1>8, <1>9, <1>10 DEF IInv

\* The output of a step is in its variable when the step is executed.
LEMMA StoreOutputPreserves ==
    ASSUME IInv, StoreOutput
    PROVE  IInv'
  <1>1. /\ phase = "received" /\ phase' = "recorded" /\ executed' = executed \cup {receiving}
        /\ UNCHANGED <<file, saving, failed, receiving, fatal, cancelled, cut, pc, result, attempts,
                       sidecar, killed, runs>>
    BY DEF StoreOutput, persistence, worker, background
  <1>2. receiving \in Step /\ OutputVar[receiving] \in Variable /\ state.status = "running"
    BY <1>1, PipelineAssumption DEF IInv, SchedulerInv, Folding, Busy, PipelineAssumption
  <1>3. /\ state'.steps = state.steps /\ state'.status = state.status /\ state'.inFlight = state.inFlight
        /\ state'.vars = (IF Stored(receiving) THEN [state.vars EXCEPT ![OutputVar[receiving]] = receiving]
                          ELSE state.vars)
        /\ state' \in State
    BY <1>2 DEF StoreOutput, IInv, TypeOK, State
  <1>4. TypeOK'
    BY <1>1, <1>2, <1>3 DEF IInv, TypeOK
  <1>5. SchedulerInv'
    BY <1>1, <1>3 DEF IInv, SchedulerInv, Idle, Busy, Folding
  <1>6. FileInv'
    BY <1>1, <1>2, <1>3, SameFile
  <1>7. ASSUME NEW s \in Step PROVE StepInv(s)'
    <2>1. InFlightInv(s)'
      BY <1>1, <1>3 DEF IInv, StepInv, InFlightInv, HasFailedDependency, MaxAttempts, Busy
    <2>2. SidecarInv(s)' /\ CopyInv(s)'
      BY <1>1, <1>3 DEF IInv, StepInv, SidecarInv, CopyInv
    <2> QED
      BY <2>1, <2>2 DEF StepInv
  <1>8. ASSUME NEW s \in Step PROVE RecordInv(s)'
    <2>1. s \in executed' /\ state'.steps[s] \in {"completed", "relaunch"} /\ Unshared(s)
          => state'.vars[OutputVar[s]] = s
      <3>1. CASE s = receiving
        <4>1. state.vars \in [Variable -> Step \cup {NoStep}]
          BY StateParts DEF IInv, TypeOK
        <4> QED
          BY <1>2, <1>3, <3>1, <4>1 DEF Stored
      <3>2. CASE s # receiving
        <4>1. Unshared(s) => OutputVar[receiving] # OutputVar[s]
          BY <1>2, <3>2 DEF Unshared
        <4>2. /\ OutputVar[s] \in Variable
              /\ state.vars \in [Variable -> Step \cup {NoStep}]
          BY StateParts, PipelineAssumption DEF IInv, TypeOK, PipelineAssumption
        <4>3. Unshared(s) => state'.vars[OutputVar[s]] = state.vars[OutputVar[s]]
          BY <1>3, <4>1, <4>2
        <4> QED
          BY <1>1, <1>3, <3>2, <4>3 DEF IInv, RecordInv
      <3> QED
        BY <3>1, <3>2
    <2>2. RecordInv(s)
      BY DEF IInv
    <2>3. s \in executed' <=> state'.steps[s] # "none" /\ ~(phase' = "received" /\ receiving' = s)
      BY <1>1, <1>3, <2>2 DEF RecordInv
    <2>4. Unshared(s)' <=> Unshared(s)
      BY DEF Unshared
    <2> QED
      BY <1>1, <1>3, <2>1, <2>2, <2>3, <2>4 DEF RecordInv, HasFailedDependency
  <1> QED
    BY <1>4, <1>5, <1>6, <1>7, <1>8 DEF IInv

\* A failure that is settled concerns no step in flight.
LEMMA SettlePreserves ==
    ASSUME IInv, Settle
    PROVE  IInv'
  <1>1. /\ phase = "settling" /\ receiving' = NoStep
        /\ failed' = (IF CountsAsFailed(receiving) THEN failed \cup {receiving} ELSE failed)
        /\ fatal' = (fatal \/ EndsRun(receiving)) /\ cut' = (cut \/ EndsRun(receiving))
        /\ phase' = (IF fatal' THEN "wait" ELSE "scan")
        /\ UNCHANGED <<file, saving, state, executed, cancelled, pc, result, attempts, sidecar, killed, runs>>
    BY DEF Settle, persistence, worker, background
  <1>2. receiving \in Step /\ state.status = "running" /\ NoStep \notin Step
    BY <1>1, PipelineAssumption DEF IInv, SchedulerInv, Folding, Busy, PipelineAssumption
  <1>3. phase' \in {"wait", "scan"} /\ (phase' = "scan" => ~fatal')
    BY <1>1
  <1>4. TypeOK'
    <2>1. fatal' \in BOOLEAN /\ cut' \in BOOLEAN
      BY <1>1 DEF IInv, TypeOK, EndsRun
    <2>2. failed' \subseteq Step
      BY <1>1, <1>2 DEF IInv, TypeOK
    <2> QED
      BY <1>1, <1>3, <2>1, <2>2 DEF IInv, TypeOK
  <1>5. SchedulerInv'
    BY <1>1, <1>2, <1>3 DEF IInv, SchedulerInv, Idle, Busy, Folding
  <1>6. FileInv'
    BY <1>1, <1>2, SameFile
  <1>7. ASSUME NEW s \in Step PROVE StepInv(s)'
    <2>1. pc[s] # "idle" => receiving \notin DependsOn[s]
      BY DEF IInv, StepInv, InFlightInv
    <2>2. pc[s] # "idle" => (HasFailedDependency(s)' <=> HasFailedDependency(s))
      BY <1>1, <2>1 DEF HasFailedDependency
    <2>3. NoStep \notin DependsOn[s]
      BY <1>2, PipelineAssumption DEF PipelineAssumption
    <2>4. InFlightInv(s)'
      BY <1>1, <1>3, <2>2, <2>3 DEF IInv, StepInv, InFlightInv, MaxAttempts, Busy
    <2>5. SidecarInv(s)' /\ CopyInv(s)'
      BY <1>1 DEF IInv, StepInv, SidecarInv, CopyInv
    <2> QED
      BY <2>4, <2>5 DEF StepInv
  <1>8. ASSUME NEW s \in Step PROVE RecordInv(s)'
    <2>1. RecordInv(s)
      BY DEF IInv
    <2>2. HasFailedDependency(s) => HasFailedDependency(s)'
      BY <1>1 DEF HasFailedDependency
    <2>3. receiving' # s
      BY <1>1, <1>2
    <2>4. CASE s = receiving
      <3>1. CountsAsFailed(s) <=> state.steps[s] \in {"failed", "dependency"}
        BY <2>1, <2>4 DEF CountsAsFailed, RecordInv
      <3>2. s \in failed' <=> state.steps[s] \in {"failed", "dependency"}
        BY <1>1, <2>1, <2>4, <3>1 DEF RecordInv
      <3>3. EndsRun(s) => fatal'
        BY <1>1, <2>4
      <3> QED
        BY <1>1, <1>3, <2>1, <2>2, <2>3, <2>4, <3>2, <3>3 DEF RecordInv, EndsRun, Unshared
    <2>5. CASE s # receiving
      <3>1. s \in failed' <=> s \in failed
        BY <1>1, <2>5
      <3> QED
        BY <1>1, <1>3, <2>1, <2>2, <2>3, <2>5, <3>1 DEF RecordInv, Unshared
    <2> QED
      BY <2>4, <2>5
  <1> QED
    BY <1>4, <1>5, <1>6, <1>7, <1>8 DEF IInv

\* A run without a fatal error that has executed every step has done all of them.
LEMMA FinishPreserves ==
    ASSUME IInv, Finish
    PROVE  IInv'
  <1>1. /\ InFlight = {} /\ phase' = "closing"
        /\ \/ phase = "scan" /\ executed = Step
           \/ phase = "wait" /\ fatal
        /\ UNCHANGED <<file, saving, executed, failed, receiving, fatal, cancelled, pc, result, attempts,
                       sidecar, killed, runs>>
    BY DEF Finish, persistence, graph, worker, background
  <1>2. /\ state'.steps = state.steps /\ state'.inFlight = state.inFlight /\ state'.vars = state.vars
        /\ state'.status = Outcome /\ state' \in State
    BY DEF Finish, Outcome, IInv, TypeOK, State
  <1>3. receiving \notin Step /\ \A s \in Step : pc[s] = "idle"
    BY <1>1 DEF IInv, SchedulerInv, Folding, InFlight
  <1>4. TypeOK'
    BY <1>1, <1>2 DEF IInv, TypeOK, Finish
  <1>5. SchedulerInv'
    BY <1>1 DEF IInv, SchedulerInv, Idle, Busy, Folding
  <1>6. state'.status = "completed" => AllDone(state')
    <2>1. SUFFICES ASSUME ~fatal, NEW s \in Step
                   PROVE  /\ state.steps[s] \notin {"none", "cancelled"}
                          /\ state.steps[s] = "failed" => OnError[s] = "continue"
                          /\ state.steps[s] = "dependency" =>
                                 \E d \in DependsOn[s] : state.steps[d] \in {"failed", "dependency"}
      BY <1>2 DEF Outcome, AllDone
    <2>2. s \in executed
      BY <1>1, <2>1
    <2>3. RecordInv(s) /\ receiving # s
      BY <1>3 DEF IInv
    <2>4. ASSUME HasFailedDependency(s)
          PROVE  \E d \in DependsOn[s] : state.steps[d] \in {"failed", "dependency"}
      <3>1. PICK d \in DependsOn[s] : d \in failed
        BY <2>4 DEF HasFailedDependency
      <3>2. RecordInv(d)
        BY <3>1 DEF IInv, TypeOK
      <3> QED
        BY <3>1, <3>2 DEF RecordInv
    <2> QED
      BY <2>1, <2>2, <2>3, <2>4 DEF RecordInv
  <1>7. FileInv'
    BY <1>1, <1>2, <1>6, SameFile
  <1>8. ASSUME NEW s \in Step PROVE StepInv(s)' /\ RecordInv(s)'
    <2>1. InFlightInv(s)'
      BY <1>1, <1>2, <1>3 DEF IInv, StepInv, InFlightInv
    <2>2. SidecarInv(s)' /\ CopyInv(s)'
      BY <1>1, <1>2 DEF IInv, StepInv, SidecarInv, CopyInv
    <2>3. RecordInv(s)'
      BY <1>1, <1>2 DEF IInv, RecordInv, HasFailedDependency, Unshared
    <2> QED
      BY <2>1, <2>2, <2>3 DEF StepInv
  <1> QED
    BY <1>4, <1>5, <1>7, <1>8 DEF IInv

\* The steps that only move the run's own goroutine, or cancel its context.
LEMMA CutReturnCancelPreserve ==
    ASSUME IInv, CutOff \/ Return \/ Cancel
    PROVE  IInv'
  <1>1. /\ UNCHANGED <<file, saving, state, executed, failed, receiving, pc, result, attempts, sidecar,
                       killed, runs>>
        /\ \/ phase = "scan" /\ phase' = "wait"
           \/ phase = "leaving" /\ phase' = "ended" /\ fatal' = fatal /\ MayReturn
           \/ phase \in Busy \cup {"opening"} /\ phase' = phase /\ fatal' = fatal
        /\ fatal' \in {fatal, TRUE} /\ cancelled' \in {cancelled, TRUE} /\ cut' \in {cut, TRUE}
    BY DEF CutOff, Return, Cancel, persistence, graph, worker, background, Busy
  <1>2. TypeOK'
    <2>1. /\ fatal' \in BOOLEAN /\ cancelled' \in BOOLEAN /\ cut' \in BOOLEAN
      BY <1>1 DEF IInv, TypeOK
    <2>2. phase' \in {"off", "opening", "scan", "wait", "received", "recorded", "settling",
                      "closing", "leaving", "ended"}
      BY <1>1 DEF IInv, TypeOK
    <2> QED
      BY <1>1, <2>1, <2>2 DEF IInv, TypeOK
  <1>3. SchedulerInv'
    BY <1>1 DEF IInv, SchedulerInv, Idle, Busy, Folding, MayReturn
  <1>4. FileInv'
    <2>1. phase # "off"
      BY <1>1 DEF Busy
    <2>2. state.status = "completed" => AllDone(state)
      BY DEF IInv, FileInv
    <2> QED
      BY <1>1, <2>1, <2>2, SameFile
  <1>5. ASSUME NEW s \in Step PROVE StepInv(s)' /\ RecordInv(s)'
    <2>1. InFlightInv(s)'
      BY <1>1 DEF IInv, StepInv, InFlightInv, HasFailedDependency, MaxAttempts, Busy
    <2>2. SidecarInv(s)' /\ CopyInv(s)'
      BY <1>1 DEF IInv, StepInv, SidecarInv, CopyInv
    <2>3. RecordInv(s)'
      <3>1. fatal => fatal'
        BY <1>1
      <3>2. (phase' = "received" /\ receiving' = s) <=> (phase = "received" /\ receiving = s)
        BY <1>1
      <3>3. RecordInv(s) /\ (Unshared(s)' <=> Unshared(s)) /\ (HasFailedDependency(s)' <=> HasFailedDependency(s))
        BY <1>1 DEF IInv, Unshared, HasFailedDependency
      <3> QED
        BY <1>1, <3>1, <3>2, <3>3 DEF RecordInv
    <2> QED
      BY <2>1, <2>2, <2>3 DEF StepInv
  <1> QED
    BY <1>2, <1>3, <1>4, <1>5 DEF IInv

\* A watcher finds a completed record, and leaves it completed.
LEMMA MarkPreserves ==
    ASSUME IInv, NEW s \in Step, markFireAndForgetCancelled(s)
    PROVE  IInv'
  <1>1. /\ sidecar[s] = "killed" /\ state.steps[s] # "none"
        /\ sidecar' = [sidecar EXCEPT ![s] = "flagged"]
        /\ UNCHANGED <<file, saving, executed, failed, phase, receiving, fatal, cancelled, cut, pc,
                       result, attempts, killed, runs>>
    BY DEF markFireAndForgetCancelled, ResultIsThere, persistence, graph, scheduler, worker
  <1>2. ~Idle /\ s \in Detached /\ state.steps[s] \in {"completed", "relaunch"}
    BY <1>1 DEF IInv, SchedulerInv, StepInv, SidecarInv, InFlightInv
  <1>3. /\ state'.steps = [state.steps EXCEPT ![s] = "relaunch"] /\ state'.status = state.status
        /\ state'.inFlight = state.inFlight /\ state'.vars = state.vars /\ state' \in State
    BY <1>2 DEF markFireAndForgetCancelled, IInv, TypeOK, State, Record
  <1>4. state'.steps[s] = "relaunch" /\ \A u \in Step \ {s} : state'.steps[u] = state.steps[u]
    BY <1>3, StateParts DEF IInv, TypeOK
  <1>5. sidecar'[s] = "flagged" /\ \A u \in Step \ {s} : sidecar'[u] = sidecar[u]
    BY <1>1 DEF IInv, TypeOK
  <1>6. TypeOK'
    <2>1. sidecar' \in [Step -> {"none", "running", "killed", "flagged", "unmarked"}]
      BY <1>1 DEF IInv, TypeOK
    <2> QED
      BY <1>1, <1>3, <2>1 DEF IInv, TypeOK
  <1>7. SchedulerInv'
    BY <1>1, <1>2, <1>3 DEF IInv, SchedulerInv, Idle
  <1>8. FileInv'
    <2>1. \A u \in Step : \/ state'.steps[u] = state.steps[u]
                          \/ state.steps[u] \in {"completed", "relaunch"} /\ state'.steps[u] = "relaunch"
      BY <1>2, <1>4
    <2>2. AllDone(state) => AllDone(state')
      <3>1. SUFFICES ASSUME AllDone(state), NEW u \in Step
                     PROVE  /\ state'.steps[u] \notin {"none", "cancelled"}
                            /\ state'.steps[u] = "failed" => OnError[u] = "continue"
                            /\ state'.steps[u] = "dependency" =>
                                   \E d \in DependsOn[u] : state'.steps[d] \in {"failed", "dependency"}
        BY DEF AllDone
      <3>2. DependsOn[u] \subseteq Step
        BY PipelineAssumption DEF PipelineAssumption
      <3> QED
        BY <2>1, <3>1, <3>2 DEF AllDone
    <2>3. state'.status = "completed" => AllDone(state')
      BY <1>3, <2>2 DEF IInv, FileInv
    <2>4. phase # "off"
      BY <1>2 DEF Idle
    <2> QED
      BY <1>1, <2>1, <2>3, <2>4, SameFile
  <1>9. ASSUME NEW u \in Step PROVE StepInv(u)' /\ RecordInv(u)'
    <2>1. InFlightInv(u)'
      <3>1. \A d \in DependsOn[u] : state'.steps[d] = "cancelled" => state.steps[d] = "cancelled"
        BY <1>4, PipelineAssumption DEF PipelineAssumption
      <3>2. state'.steps[u] = "none" <=> state.steps[u] = "none"
        BY <1>1, <1>4
      <3> QED
        BY <1>1, <1>3, <3>1, <3>2 DEF IInv, StepInv, InFlightInv, HasFailedDependency, MaxAttempts
    <2>2. SidecarInv(u)' /\ CopyInv(u)'
      BY <1>1, <1>2, <1>4, <1>5 DEF IInv, StepInv, SidecarInv, CopyInv
    <2>3. RecordInv(u)'
      BY <1>1, <1>2, <1>3, <1>4 DEF IInv, RecordInv, HasFailedDependency, Unshared
    <2> QED
      BY <2>1, <2>2, <2>3 DEF StepInv
  <1> QED
    BY <1>6, <1>7, <1>8, <1>9 DEF IInv

-----------------------------------------------------------------------------
(***************************************************************************)
(* Processes.                                                              *)
(***************************************************************************)

\* What holds of a process that has only just started, or has died.
LEMMA FreshPreserves ==
    ASSUME IInv, NEW p \in {"opening", "off"}, FreshProcess(p), UNCHANGED file, runs' \in 0..MaxRuns,
           state' \in State, state'.status = "running", state'.inFlight = {},
           executed' = {s \in Step : state'.steps[s] # "none"},
           \A s \in Step : state'.steps[s] \in {"none", "completed", "skipped"},
           \A s \in Step : s \in executed' /\ state'.steps[s] = "completed" /\ Unshared(s)
                           => state'.vars[OutputVar[s]] = s,
           file # NoState /\ p # "off" => Keeps(file, state')
    PROVE  IInv'
  <1>1. /\ failed' = {} /\ phase' = p /\ receiving' = NoStep /\ NoStep \notin Step
        /\ fatal' = FALSE /\ cancelled' = FALSE /\ cut' = FALSE /\ killed' = {}
        /\ saving' = [t \in Thread |-> NoState]
        /\ pc' = [s \in Step |-> "idle"] /\ result' = [s \in Step |-> "none"]
        /\ attempts' = [s \in Step |-> 0] /\ sidecar' = [s \in Step |-> "none"]
    BY PipelineAssumption DEF FreshProcess, PipelineAssumption
  <1>2. TypeOK'
    <2>1. attempts' \in [Step -> 0..RetryCount + 1]
      <3>1. 0 \in 0..RetryCount + 1
        BY PipelineAssumption DEF PipelineAssumption
      <3> QED
        BY <1>1, <3>1
    <2>2. {fatal', cancelled', cut'} \subseteq BOOLEAN
      BY <1>1
    <2>3. /\ file' \in State \cup {NoState} /\ saving' \in [Thread -> State \cup {NoState}]
          /\ pc' \in [Step -> {"idle", "start", "marked", "ready", "working", "delay", "done"}]
          /\ result' \in [Step -> Result \cup {"none"}]
          /\ sidecar' \in [Step -> {"none", "running", "killed", "flagged", "unmarked"}]
      BY <1>1 DEF IInv, TypeOK
    <2> QED
      BY <1>1, <2>1, <2>2, <2>3 DEF TypeOK
  <1>3. SchedulerInv'
    <2>1. saving'[Main] = NoState
      BY <1>1 DEF Thread
    <2>2. p \notin Folding /\ (p = "opening" => state'.status = "running") /\ p \notin Busy
      BY DEF Folding, Busy
    <2> QED
      BY <1>1, <2>1, <2>2 DEF SchedulerInv, Idle
  <1>4. FileInv'
    BY <1>1 DEF IInv, FileInv
  <1>5. ASSUME NEW s \in Step PROVE StepInv(s)' /\ RecordInv(s)'
    <2>1. InFlightInv(s)' /\ SidecarInv(s)'
      BY <1>1 DEF InFlightInv, SidecarInv
    <2>2. CopyInv(s)'
      BY <1>1, ThreadsDiffer DEF CopyInv
    <2>3. RecordInv(s)'
      <3>1. state'.steps[s] \in {"none", "completed", "skipped"} /\ (s \in executed' <=> state'.steps[s] # "none")
        OBVIOUS
      <3>2. receiving' # s /\ s \notin failed' /\ phase' # "received"
        BY <1>1
      <3>3. Unshared(s)' <=> Unshared(s)
        BY DEF Unshared
      <3>4. s \in executed' /\ state'.steps[s] = "completed" /\ Unshared(s) => state'.vars[OutputVar[s]] = s
        OBVIOUS
      <3> QED
        BY <3>1, <3>2, <3>3, <3>4 DEF RecordInv
    <2> QED
      BY <2>1, <2>2, <2>3 DEF StepInv
  <1> QED
    BY <1>2, <1>3, <1>4, <1>5 DEF IInv

\* A resume retains no step that was in flight, and rebuilds the variables of the others.
LEMMA ProcessPreserves ==
    ASSUME IInv, Run \/ Resume \/ Crash
    PROVE  IInv'
  <1>1. ASSUME Run \/ Crash PROVE IInv'
    <2>1. /\ state' = FreshState /\ executed' = {} /\ UNCHANGED file
          /\ FreshState.status = "running" /\ FreshState.inFlight = {}
          /\ \A s \in Step : FreshState.steps[s] = "none"
      BY <1>1 DEF Run, Crash, FreshState
    <2>2. runs' \in 0..MaxRuns
      BY <1>1, PipelineAssumption DEF IInv, TypeOK, Run, Crash, PipelineAssumption
    <2>3. PICK p \in {"opening", "off"} : FreshProcess(p) /\ (file = NoState \/ p = "off")
      BY <1>1 DEF Run, Crash
    <2> QED
      BY <2>1, <2>2, <2>3, FreshStateIsState, FreshPreserves
  <1>2. ASSUME Resume PROVE IInv'
    <2>1. PICK restored \in [Variable -> Step \cup {NoStep}] :
              /\ \A v \in Variable : restored[v] \in Restored(v)
              /\ state' = [status |-> "running", inFlight |-> {}, vars |-> restored,
                           steps |-> [s \in Step |-> IF s \in Retained \ file.inFlight
                                                     THEN file.steps[s] ELSE "none"]]
      BY <1>2 DEF Resume
    <2>2. /\ executed' = Retained /\ UNCHANGED file /\ FreshProcess("opening") /\ file # NoState
      BY <1>2 DEF Resume
    <2>3. runs' \in 0..MaxRuns
      BY <1>2, PipelineAssumption DEF IInv, TypeOK, Resume, PipelineAssumption
    <2>4. file \in State /\ Sound(file) /\ file.steps \in [Step -> Record]
      BY <2>2, StateParts DEF IInv, TypeOK, FileInv
    <2>5. ASSUME NEW s \in Step
          PROVE  /\ s \in Retained => s \notin file.inFlight /\ file.steps[s] \in {"completed", "skipped"}
                 /\ s \notin Retained => file.steps[s] \notin {"completed", "skipped"}
      BY <2>4 DEF Sound, Retained, Reruns, Record, Result
    <2>6. /\ state'.status = "running" /\ state'.inFlight = {} /\ state'.vars = restored
          /\ \A s \in Step : state'.steps[s] = IF s \in Retained THEN file.steps[s] ELSE "none"
      BY <2>1, <2>5
    <2>7. state' \in State
      BY <2>1, <2>4 DEF State, Record
    <2>8. executed' = {s \in Step : state'.steps[s] # "none"}
      BY <2>2, <2>5, <2>6 DEF Retained
    <2>9. \A s \in Step : state'.steps[s] \in {"none", "completed", "skipped"}
      BY <2>5, <2>6
    <2>10. ASSUME NEW s \in Step, s \in executed', Unshared(s)
           PROVE  state'.vars[OutputVar[s]] = s
      <3>1. OutputVar[s] \in Variable
        BY PipelineAssumption DEF PipelineAssumption
      <3>2. {e \in Retained : OutputVar[e] = OutputVar[s]} = {s}
        BY <2>2, <2>10 DEF Unshared, Retained
      <3>3. Restored(OutputVar[s]) = {s}
        BY <3>2 DEF Restored
      <3> QED
        BY <2>1, <2>6, <3>1, <3>3
    <2>11. Keeps(file, state')
      BY <2>5, <2>6 DEF Keeps
    <2> QED
      BY <2>2, <2>3, <2>6, <2>7, <2>8, <2>9, <2>10, <2>11, FreshPreserves
  <1> QED
    BY <1>1, <1>2

-----------------------------------------------------------------------------
(***************************************************************************)
(* The invariant, and what follows from it.                                *)
(***************************************************************************)

\* Every step of a run, of its goroutines and of the processes around it keeps the
\* invariant.
THEOREM StepPreserves ==
    IInv /\ [Next]_vars => IInv'
  <1> SUFFICES ASSUME IInv, [Next]_vars PROVE IInv'
    OBVIOUS
  <1>1. \A s \in Step : Main \in Thread /\ WorkerOf(s) \in Thread /\ WatcherOf(s) \in Thread
    BY DEF Thread
  <1>2. Main \in Thread
    BY DEF Thread
  <1>3. CASE Run \/ Resume \/ Crash
    BY <1>3, ProcessPreserves
  <1>4. CASE Cancel
    BY <1>4, CutReturnCancelPreserve
  <1>5. CASE Scheduler
    <2>1. CASE snapshotState(Main) \/ SaveState(Main)
      BY <1>2, <2>1, SnapshotPreserves, SavePreserves
    <2>2. CASE Dispatch \/ StoreOutput \/ Settle \/ Finish
      BY <2>2, DispatchPreserves, StoreOutputPreserves, SettlePreserves, FinishPreserves
    <2>3. CASE CutOff \/ Return
      BY <2>3, CutReturnCancelPreserve
    <2>4. CASE \E s \in Step : Receive(s)
      BY <2>4, ReceivePreserves
    <2> QED
      BY <1>5, <2>1, <2>2, <2>3, <2>4 DEF Scheduler
  <1>6. ASSUME NEW s \in Step, Worker(s) PROVE IInv'
    <2>1. CASE snapshotState(WorkerOf(s)) \/ SaveState(WorkerOf(s))
      BY <1>1, <2>1, SnapshotPreserves, SavePreserves
    <2>2. CASE \/ markStepInFlight(s) \/ SkipForDependency(s) \/ EvaluateWhen(s)
               \/ Work(s) \/ Complete(s) \/ FailAttempt(s) \/ Fail(s) \/ BeCancelled(s)
      BY <2>2, WorkerPreserves
    <2> QED
      BY <1>6, <2>1, <2>2 DEF Worker
  <1>7. ASSUME NEW s \in Step, Watcher(s) \/ SidecarExits(s) PROVE IInv'
    <2>1. CASE snapshotState(WatcherOf(s)) \/ SaveState(WatcherOf(s))
      BY <1>1, <2>1, SnapshotPreserves, SavePreserves
    <2>2. CASE SidecarKilled(s) \/ SidecarExits(s) \/ GiveUp(s)
      BY <2>2, BackgroundPreserves
    <2>3. CASE markFireAndForgetCancelled(s)
      BY <2>3, MarkPreserves
    <2> QED
      BY <1>7, <2>1, <2>2, <2>3 DEF Watcher
  <1>8. CASE UNCHANGED vars
    <2>1. UNCHANGED <<file, saving, state, executed, failed, phase, receiving, fatal, cancelled, cut,
                      pc, result, attempts, sidecar, killed, runs>>
      BY <1>8 DEF vars, persistence, graph, scheduler, worker, background
    <2>2. TypeOK' /\ SchedulerInv'
      BY <2>1 DEF IInv, TypeOK, SchedulerInv, Idle
    <2>3. FileInv'
      BY <2>1 DEF IInv, FileInv
    <2>4. ASSUME NEW s \in Step PROVE StepInv(s)' /\ RecordInv(s)'
      BY <2>1 DEF IInv, StepInv, InFlightInv, SidecarInv, CopyInv, RecordInv, HasFailedDependency,
                  MaxAttempts, Unshared
    <2> QED
      BY <2>2, <2>3, <2>4 DEF IInv
  <1> QED
    BY <1>3, <1>4, <1>5, <1>6, <1>7, <1>8 DEF Next

\* The invariant holds of every behaviour of a run, its crashes and its resumes.
THEOREM Invariance ==
    Spec => []IInv
  BY Initially, StepPreserves, PTL DEF Spec

\* The variables keep to their types, and no step is attempted more often than its
\* policy allows.
THEOREM TypeCorrect ==
    Spec => []TypeOK
  <1>1. IInv => TypeOK
    BY DEF IInv
  <1> QED
    BY <1>1, Invariance, PTL

\* A dependency of a step in flight has been settled, and is not failed.
LEMMA DependencySucceeded ==
    ASSUME IInv, NEW s \in Step, pc[s] = "working", NEW d \in DependsOn[s]
    PROVE  d \in executed /\ state.steps[d] \in {"completed", "relaunch", "skipped"}
  <1>1. d \in Step /\ state.steps[d] \in Record
    BY PipelineAssumption, StateParts DEF PipelineAssumption, IInv, TypeOK
  <1>2. d \in executed /\ d # receiving /\ state.steps[d] # "cancelled" /\ d \notin failed
    BY DEF IInv, StepInv, InFlightInv, HasFailedDependency
  <1> QED
    BY <1>1, <1>2 DEF IInv, RecordInv, Record, Result

\* In every run a step works only after its dependencies: the dispatch waits for them,
\* finishStep settles a failure before the next pass, and a resume takes over no result
\* that failed or was skipped for a failure.
THEOREM StepsFollowDependencies ==
    Spec => []DependenciesFirst
  <1>1. IInv => DependenciesFirst
    BY DependencySucceeded DEF DependenciesFirst
  <1> QED
    BY <1>1, Invariance, PTL

\* A step that works finds the outputs of its dependencies: finishStep stores an output
\* before it marks the step executed, and a resume rebuilds what it retains.
THEOREM StepsFindTheirInputs ==
    Spec => []InputsAreThere
  <1>1. IInv => InputsAreThere
    <2>1. SUFFICES ASSUME IInv, NEW s \in Step, pc[s] = "working", NEW d \in DependsOn[s],
                          state.steps[d] \in {"completed", "relaunch"},
                          \A e \in Step \ {d} : OutputVar[e] # OutputVar[d]
                   PROVE  state.vars[OutputVar[d]] = d
      BY DEF InputsAreThere
    <2>2. d \in Step /\ d \in executed
      BY <2>1, DependencySucceeded, PipelineAssumption DEF PipelineAssumption
    <2> QED
      BY <2>1, <2>2 DEF IInv, RecordInv, Unshared
  <1> QED
    BY <1>1, Invariance, PTL

\* A state file that says completed has a result of every step: only the end of Run sets
\* that status, after the last step, and a copy of one state is all that is ever written.
THEOREM CompletedFileIsDone ==
    Spec => []CompletedMeansDone
  <1>1. IInv => CompletedMeansDone
    BY DEF IInv, FileInv, Sound, AllDone, CompletedMeansDone
  <1> QED
    BY <1>1, Invariance, PTL

-----------------------------------------------------------------------------
(***************************************************************************)
(* When a run may cut its background processes off.                        *)
(***************************************************************************)

\* Until a run ends, only a fatal error or a cancellation cuts its steps off; what is
\* killed was cut off, and a watcher gives up only where the run cannot complete.
CutInv ==
    /\ cut /\ phase \in Busy \cup {"opening"} => fatal \/ cancelled
    /\ \A s \in Step :
        /\ sidecar[s] = "killed" => cut
        /\ sidecar[s] = "unmarked" => (fatal \/ cancelled) /\ state.status # "completed"

\* Steps that kill nothing, give nothing up and leave the status alone.
LEMMA CutFrame ==
    ASSUME CutInv, state'.status = state.status,
           fatal \/ cancelled => fatal' \/ cancelled', cut => cut',
           cut' /\ phase' \in Busy \cup {"opening"} =>
               (cut /\ phase \in Busy \cup {"opening"}) \/ fatal' \/ cancelled',
           \A s \in Step : sidecar'[s] \in {sidecar[s], "none", "running", "flagged"}
    PROVE  CutInv'
  <1>1. cut' /\ phase' \in Busy \cup {"opening"} => fatal' \/ cancelled'
    BY DEF CutInv
  <1>2. ASSUME NEW s \in Step
        PROVE  /\ sidecar'[s] = "killed" => cut'
               /\ sidecar'[s] = "unmarked" => (fatal' \/ cancelled') /\ state'.status # "completed"
    BY DEF CutInv
  <1> QED
    BY <1>1, <1>2 DEF CutInv, Busy

\* The run's own goroutine cuts off what runs when it sees a fatal error, and when it is
\* done: then every step has its record.
LEMMA SchedulerCuts ==
    ASSUME IInv, CutInv, Scheduler \/ Cancel
    PROVE  CutInv'
  <1>1. state \in State /\ sidecar \in [Step -> {"none", "running", "killed", "flagged", "unmarked"}]
    BY DEF IInv, TypeOK
  <1>2. CASE Cancel
    BY <1>2, CutFrame DEF Cancel, background
  <1>3. CASE snapshotState(Main)
    BY <1>3, CutFrame DEF snapshotState, scheduler, background
  <1>4. CASE SaveState(Main)
    <2>1. /\ phase' = AfterSave[phase] /\ phase \in {"opening", "recorded", "closing"}
          /\ UNCHANGED <<state, fatal, cancelled, cut>>
      BY <1>4 DEF SaveState, IInv, SchedulerInv, graph
    <2>2. phase' \in Busy \cup {"opening"} => phase \in Busy \cup {"opening"}
      BY <2>1 DEF AfterSave, Busy
    <2>3. \A s \in Step : sidecar'[s] \in {sidecar[s], "none"}
      BY <1>4 DEF SaveState
    <2> QED
      BY <2>1, <2>2, <2>3, CutFrame
  <1>5. CASE Dispatch
    BY <1>5, CutFrame DEF Dispatch, background, Busy
  <1>6. CASE CutOff
    BY <1>6, CutFrame DEF CutOff, background, Busy
  <1>7. CASE \E s \in Step : Receive(s)
    <2>1. state'.status = state.status
      BY <1>1, <1>7 DEF Receive, State
    <2>2. phase \in Busy /\ UNCHANGED <<fatal, cancelled, cut, sidecar>>
      BY <1>7 DEF Receive, background, Busy
    <2> QED
      BY <2>1, <2>2, CutFrame
  <1>8. CASE StoreOutput
    <2>1. state'.status = state.status
      BY <1>1, <1>8 DEF StoreOutput, State
    <2>2. phase \in Busy /\ UNCHANGED <<fatal, cancelled, cut, sidecar>>
      BY <1>8 DEF StoreOutput, background, Busy
    <2> QED
      BY <2>1, <2>2, CutFrame
  <1>9. CASE Settle
    BY <1>9, CutFrame DEF Settle, background, Busy
  <1>10. CASE Finish
    <2>1. /\ state'.status = Outcome /\ cut' = TRUE /\ phase' = "closing"
          /\ UNCHANGED <<fatal, cancelled, sidecar>>
          /\ fatal \/ ~cancelled
      BY <1>1, <1>10 DEF Finish, State, background
    <2>2. fatal => Outcome # "completed"
      BY DEF Outcome
    <2>3. ASSUME NEW s \in Step, sidecar'[s] = "unmarked"
          PROVE  (fatal' \/ cancelled') /\ state'.status # "completed"
      BY <2>1, <2>2, <2>3 DEF CutInv
    <2> QED
      BY <2>1, <2>3 DEF CutInv, Busy
  <1>11. CASE Return
    BY <1>11, CutFrame DEF Return, background, Busy
  <1> QED
    BY <1>2, <1>3, <1>4, <1>5, <1>6, <1>7, <1>8, <1>9, <1>10, <1>11 DEF Scheduler

\* A step's goroutine may start a background process, and its watcher sees it end.  A
\* record that is not there is one that the scheduler has yet to receive, in a run that
\* was cut off before its end.
LEMMA StepsAreCut ==
    ASSUME IInv, CutInv, NEW s \in Step, Worker(s) \/ Watcher(s) \/ SidecarExits(s)
    PROVE  CutInv'
  <1>1. state \in State /\ sidecar \in [Step -> {"none", "running", "killed", "flagged", "unmarked"}]
    BY DEF IInv, TypeOK
  <1>2. ASSUME NEW t \in Thread, t # Main, snapshotState(t) \/ SaveState(t) PROVE CutInv'
    <2>1. UNCHANGED <<state, phase, fatal, cancelled, cut>>
      BY <1>2 DEF snapshotState, SaveState, scheduler
    <2>2. \A u \in Step : sidecar'[u] \in {sidecar[u], "none"}
      BY <1>2 DEF snapshotState, SaveState, background
    <2> QED
      BY <2>1, <2>2, CutFrame
  <1>3. CASE snapshotState(WorkerOf(s)) \/ SaveState(WorkerOf(s))
    BY <1>2, <1>3, ThreadsDiffer
  <1>4. CASE snapshotState(WatcherOf(s)) \/ SaveState(WatcherOf(s))
    BY <1>2, <1>4, ThreadsDiffer
  <1>5. CASE \/ markStepInFlight(s) \/ SkipForDependency(s) \/ EvaluateWhen(s)
             \/ Work(s) \/ Complete(s) \/ FailAttempt(s) \/ Fail(s) \/ BeCancelled(s)
    <2>1. state'.status = state.status /\ UNCHANGED <<phase, fatal, cancelled, cut>>
      BY <1>1, <1>5 DEF markStepInFlight, SkipForDependency, EvaluateWhen, Work, Complete, FailAttempt,
                        Fail, BeCancelled, Deliver, State, scheduler
    <2>2. \A u \in Step : sidecar'[u] \in {sidecar[u], "running"}
      BY <1>1, <1>5 DEF markStepInFlight, SkipForDependency, EvaluateWhen, Work, Complete, FailAttempt,
                        Fail, BeCancelled, background
    <2> QED
      BY <2>1, <2>2, CutFrame
  <1>6. CASE SidecarExits(s)
    <2>1. UNCHANGED <<state, phase, fatal, cancelled, cut>> /\ \A u \in Step : sidecar'[u] \in {sidecar[u], "none"}
      BY <1>1, <1>6 DEF SidecarExits, scheduler
    <2> QED
      BY <2>1, CutFrame
  <1>7. CASE SidecarKilled(s)
    <2>1. UNCHANGED <<state, phase, fatal, cancelled, cut>> /\ cut
      BY <1>7 DEF SidecarKilled, scheduler
    <2>2. \A u \in Step : sidecar'[u] \in {sidecar[u], "killed"}
      BY <1>1, <1>7 DEF SidecarKilled
    <2> QED
      BY <2>1, <2>2 DEF CutInv, Busy
  <1>8. CASE markFireAndForgetCancelled(s)
    <2>1. state'.status = state.status /\ UNCHANGED <<phase, fatal, cancelled, cut>>
      BY <1>1, <1>8 DEF markFireAndForgetCancelled, State, scheduler
    <2>2. \A u \in Step : sidecar'[u] \in {sidecar[u], "flagged"}
      BY <1>1, <1>8 DEF markFireAndForgetCancelled
    <2> QED
      BY <2>1, <2>2, CutFrame
  <1>9. CASE GiveUp(s)
    <2>1. /\ UNCHANGED <<state, phase, fatal, cancelled, cut>>
          /\ sidecar[s] = "killed" /\ state.steps[s] = "none"
      BY <1>9 DEF GiveUp, ResultIsThere, scheduler
    <2>2. \A u \in Step : u # s => sidecar'[u] = sidecar[u]
      BY <1>1, <1>9 DEF GiveUp
    <2>3. pc[s] = "done"
      BY <2>1 DEF IInv, StepInv, SidecarInv
    <2>4. phase \in Busy /\ state.status = "running"
      BY <2>3 DEF IInv, StepInv, InFlightInv, SchedulerInv
    <2>5. fatal \/ cancelled
      BY <2>1, <2>4 DEF CutInv
    <2>6. sidecar'[s] = "unmarked"
      BY <1>1, <1>9 DEF GiveUp
    <2>7. ASSUME NEW u \in Step
          PROVE  /\ sidecar'[u] = "killed" => cut'
                 /\ sidecar'[u] = "unmarked" => (fatal' \/ cancelled') /\ state'.status # "completed"
      BY <2>1, <2>2, <2>4, <2>5, <2>6 DEF CutInv
    <2> QED
      BY <2>1, <2>5, <2>7 DEF CutInv, Busy
  <1> QED
    BY <1>3, <1>4, <1>5, <1>6, <1>7, <1>8, <1>9 DEF Worker, Watcher

\* A background process that a finished run has killed is marked for the next one: Run
\* returns after the watchers, and a watcher ends after its mark, or gives up, in a run
\* that was cut off while a result was still on its way to the scheduler.
THEOREM KilledSidecarsAreMarked ==
    Spec => []SidecarsAreMarked
  <1>1. Init => CutInv
    BY DEF Init, CutInv
  <1>2. IInv /\ CutInv /\ [Next]_vars => CutInv'
    <2>1. SUFFICES ASSUME IInv, CutInv, [Next]_vars PROVE CutInv'
      OBVIOUS
    <2>2. CASE Run \/ Resume \/ Crash
      <3>1. cut' = FALSE /\ sidecar' = [s \in Step |-> "none"]
        BY <2>2 DEF Run, Resume, Crash, FreshProcess
      <3> QED
        BY <3>1 DEF CutInv
    <2>3. CASE Scheduler \/ Cancel
      BY <2>1, <2>3, SchedulerCuts
    <2>4. ASSUME NEW s \in Step, Worker(s) \/ Watcher(s) \/ SidecarExits(s) PROVE CutInv'
      BY <2>1, <2>4, StepsAreCut
    <2>5. CASE UNCHANGED vars
      BY <2>1, <2>5, CutFrame DEF vars, scheduler, background
    <2> QED
      BY <2>1, <2>2, <2>3, <2>4, <2>5 DEF Next
  <1>3. IInv /\ CutInv => SidecarsAreMarked
    <2>1. SUFFICES ASSUME IInv, CutInv, phase = "ended", NEW s \in killed
                   PROVE  state.steps[s] = "relaunch" \/ (sidecar[s] = "unmarked" /\ state.status # "completed")
      BY DEF SidecarsAreMarked
    <2>2. s \in Step
      BY <2>1, PipelineAssumption DEF PipelineAssumption, IInv, TypeOK
    <2> QED
      BY <2>1, <2>2 DEF IInv, SchedulerInv, StepInv, SidecarInv, Idle, CutInv
  <1> QED
    BY <1>1, <1>2, <1>3, Invariance, PTL DEF Spec

-----------------------------------------------------------------------------
\* Only a save changes the file, and it writes the one copy in hand.
LEMMA FileChanges ==
    ASSUME IInv, [Next]_vars
    PROVE  file' = file \/ \E t \in Thread : saving[t] # NoState /\ file' = saving[t]
  <1>1. ASSUME NEW t \in Thread, SaveState(t)
        PROVE  file' = file \/ (saving[t] # NoState /\ file' = saving[t])
    BY <1>1 DEF SaveState
  <1>2. ASSUME ~ \E t \in Thread : SaveState(t) PROVE file' = file
    <2>1. CASE Run \/ Resume \/ Crash \/ Cancel
      BY <2>1 DEF Run, Resume, Crash, Cancel, persistence
    <2>2. CASE Scheduler
      BY <1>2, <2>2 DEF Scheduler, Thread, snapshotState, Dispatch, CutOff, Receive, StoreOutput, Settle,
                        Finish, Return, persistence
    <2>3. ASSUME NEW s \in Step, Worker(s) PROVE file' = file
      BY <1>2, <2>3 DEF Worker, Thread, snapshotState, markStepInFlight, SkipForDependency, EvaluateWhen,
                        Work, Complete, FailAttempt, Fail, BeCancelled, Deliver, persistence
    <2>4. ASSUME NEW s \in Step, Watcher(s) \/ SidecarExits(s) PROVE file' = file
      BY <1>2, <2>4 DEF Watcher, Thread, snapshotState, SidecarKilled, SidecarExits,
                        markFireAndForgetCancelled, GiveUp, persistence
    <2>5. CASE UNCHANGED vars
      BY <2>5 DEF vars, persistence
    <2> QED
      BY <2>1, <2>2, <2>3, <2>4, <2>5 DEF Next
  <1> QED
    BY <1>1, <1>2

\* Only an attempt puts a goroutine to work.
LEMMA WorkStarts ==
    ASSUME IInv, [Next]_vars, NEW s \in Step, pc'[s] = "working", pc[s] # "working"
    PROVE  pc[s] \in {"ready", "delay"}
  <1>1. pc \in [Step -> {"idle", "start", "marked", "ready", "working", "delay", "done"}]
    BY DEF IInv, TypeOK
  <1>2. CASE Run \/ Resume \/ Crash \/ Cancel
    BY <1>2 DEF Run, Resume, Crash, Cancel, FreshProcess, worker
  <1>3. ASSUME NEW t \in Thread, snapshotState(t) \/ SaveState(t)
        PROVE  pc[s] \in {"ready", "delay"}
    BY <1>3 DEF snapshotState, SaveState, worker
  <1>4. CASE Dispatch \/ CutOff \/ StoreOutput \/ Settle \/ Finish \/ Return
    BY <1>4 DEF Dispatch, CutOff, StoreOutput, Settle, Finish, Return, worker
  <1>5. ASSUME NEW u \in Step, Receive(u)
        PROVE  pc[s] \in {"ready", "delay"}
    BY <1>1, <1>5 DEF Receive
  <1>6. CASE Scheduler
    BY <1>3, <1>4, <1>5, <1>6 DEF Scheduler, Thread
  <1>7. ASSUME NEW u \in Step, Work(u)
        PROVE  pc[s] \in {"ready", "delay"}
    BY <1>1, <1>7 DEF Work
  <1>8. ASSUME NEW u \in Step, NEW q, q # "working", pc' = [pc EXCEPT ![u] = q]
        PROVE  pc[s] \in {"ready", "delay"}
    BY <1>1, <1>8
  <1>9. ASSUME NEW u \in Step, Worker(u)
        PROVE  pc[s] \in {"ready", "delay"}
    <2>1. CASE snapshotState(WorkerOf(u)) \/ SaveState(WorkerOf(u))
      BY <1>3, <2>1 DEF Thread
    <2>2. CASE Work(u)
      BY <1>7, <2>2
    <2>3. CASE markStepInFlight(u) \/ FailAttempt(u)
      BY <1>8, <2>3 DEF markStepInFlight, FailAttempt
    <2>4. CASE SkipForDependency(u) \/ EvaluateWhen(u) \/ Complete(u) \/ Fail(u) \/ BeCancelled(u)
      <3>1. pc' = [pc EXCEPT ![u] = "done"]
        BY <2>4 DEF SkipForDependency, EvaluateWhen, Complete, Fail, BeCancelled, Deliver
      <3> QED
        BY <1>8, <3>1
    <2> QED
      BY <1>9, <2>1, <2>2, <2>3, <2>4 DEF Worker
  <1>10. ASSUME NEW u \in Step, Watcher(u) \/ SidecarExits(u)
         PROVE  pc[s] \in {"ready", "delay"}
    <2>1. CASE snapshotState(WatcherOf(u)) \/ SaveState(WatcherOf(u))
      BY <1>3, <2>1 DEF Thread
    <2>2. CASE SidecarKilled(u) \/ SidecarExits(u) \/ markFireAndForgetCancelled(u) \/ GiveUp(u)
      BY <2>2 DEF SidecarKilled, SidecarExits, markFireAndForgetCancelled, GiveUp, worker
    <2> QED
      BY <1>10, <2>1, <2>2 DEF Watcher
  <1>11. CASE UNCHANGED vars
    BY <1>11 DEF vars, worker
  <1> QED
    BY <1>2, <1>6, <1>9, <1>10, <1>11 DEF Next

\* What the state file says is finished stays finished and is not done again: the file is
\* behind the copy being written, the copy behind the state, and a step that is finished
\* in the state is not in flight.
THEOREM FinishedWorkIsKept ==
    Spec => FinishedStaysFinished
  <1>1. IInv /\ [Next]_vars =>
            [\A s \in Step : file # NoState /\ file.steps[s] \in {"completed", "skipped"} =>
                /\ file' # NoState /\ file'.steps[s] \in {file.steps[s], "relaunch"}
                /\ pc'[s] = "working" => pc[s] = "working"]_vars
    <2>1. SUFFICES ASSUME IInv, [Next]_vars, NEW s \in Step, file # NoState,
                          file.steps[s] \in {"completed", "skipped"}
                   PROVE  /\ file' # NoState /\ file'.steps[s] \in {file.steps[s], "relaunch"}
                          /\ pc'[s] = "working" => pc[s] = "working"
      OBVIOUS
    <2>2. file' # NoState /\ file'.steps[s] \in {file.steps[s], "relaunch"}
      <3>1. CASE file' = file
        BY <2>1, <3>1
      <3>2. ASSUME NEW t \in Thread, saving[t] # NoState, file' = saving[t]
            PROVE  file' # NoState /\ file'.steps[s] \in {file.steps[s], "relaunch"}
        BY <2>1, <3>2 DEF IInv, FileInv, Keeps
      <3> QED
        BY <2>1, <3>1, <3>2, FileChanges
    <2>3. ASSUME pc'[s] = "working", pc[s] # "working" PROVE FALSE
      <3>1. pc[s] \in {"ready", "delay"}
        BY <2>1, <2>3, WorkStarts
      <3>2. phase \in Busy /\ state.steps[s] = "none"
        BY <2>1, <3>1, NothingBehind
      <3>3. Keeps(file, state)
        BY <2>1, <3>2 DEF IInv, FileInv, Busy
      <3> QED
        BY <2>1, <3>2, <3>3 DEF Keeps
    <2> QED
      BY <2>2, <2>3
  <1> QED
    BY <1>1, Invariance, PTL DEF Spec, FinishedStaysFinished

================================================================================
