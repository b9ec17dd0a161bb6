------------------------------ MODULE PipelineRun ------------------------------
(***************************************************************************)
(* One run of a workflow by the pipeline executor                          *)
(* (internal/pipeline): the scheduler starts steps when their dependencies *)
(* are done, steps work in goroutines of their own, every goroutine saves  *)
(* the whole state of the run under one mutex, and a run that died, failed *)
(* or was cancelled is resumed from its state file by another process.     *)
(***************************************************************************)
EXTENDS Naturals, FiniteSets

CONSTANTS
    Step,           \* the top-level steps
    DependsOn,      \* depends_on: [Step -> SUBSET Step], without a cycle
    OnError,        \* resolveErrorAction: [Step -> {"fail", "continue", "retry"}]
    RetryCount,     \* retries of a step whose action is "retry"
    Detached,       \* steps with wait: none, which leave a process running
    Conditional,    \* steps with a when condition
    Recovering,     \* steps with an on_failure action or recovery
    Variable,       \* names of output variables
    OutputVar,      \* output_var: [Step -> Variable]
    MaxParallel,    \* settings.limits.max_parallel_steps
    MaxRuns,        \* bound: starts and resumes
    NoStep, NoState

ASSUME PipelineAssumption ==
    /\ DependsOn \in [Step -> SUBSET Step]
    /\ OnError \in [Step -> {"fail", "continue", "retry"}]
    /\ RetryCount \in Nat /\ MaxParallel \in Nat \ {0} /\ MaxRuns \in Nat
    /\ Detached \cup Conditional \cup Recovering \subseteq Step
    /\ OutputVar \in [Step -> Variable]
    /\ NoStep \notin Step

VARIABLES
    file,           \* the state file of the run
    state,          \* e.state
    executed,       \* graph.executed
    failed,         \* graph.failed
    saving,         \* the copy that a goroutine is writing, under persistMu
    phase,          \* where the goroutine of Run or Resume is
    receiving,      \* the step whose completion finishStep folds in
    fatal,          \* fatalErr # nil
    cancelled,      \* the context of the run is cancelled or timed out
    cut,            \* stepCtx is cancelled
    pc,             \* where the goroutine of a step is
    result,         \* what it will hand to the scheduler
    attempts,
    sidecar,        \* the background process of a detached step and its watcher
    killed,         \* history: background processes that this run has killed
    runs

persistence == <<file, saving>>
graph == <<executed, failed>>
scheduler == <<phase, receiving, fatal, cancelled, cut>>
worker == <<pc, result, attempts>>
background == <<sidecar, killed>>
vars == <<persistence, state, graph, scheduler, worker, background, runs>>

-----------------------------------------------------------------------------
\* What a step's record says; "none" is a step without one, "relaunch" one that is
\* completed with RerunOnResume, "dependency" one skipped for a failed dependency.
Result == {"completed", "failed", "cancelled", "skipped", "dependency"}
Record == Result \cup {"none", "relaunch"}

\* ExecutionState; a variable holds the output of the step that wrote it last.
State == [status : {"running", "completed", "failed", "cancelled"},
          steps : [Step -> Record], inFlight : SUBSET Step,
          vars : [Variable -> Step \cup {NoStep}]]

FreshState == [status |-> "running", steps |-> [s \in Step |-> "none"], inFlight |-> {},
               vars |-> [v \in Variable |-> NoStep]]

\* Who saves: the scheduler, a step's goroutine, the watcher of its background process.
Main == <<"main", NoStep>>
WorkerOf(s) == <<"worker", s>>
WatcherOf(s) == <<"watcher", s>>
Thread == {Main} \cup {WorkerOf(s) : s \in Step} \cup {WatcherOf(s) : s \in Step}

TypeOK ==
    /\ file \in State \cup {NoState} /\ state \in State
    /\ executed \subseteq Step /\ failed \subseteq Step
    /\ saving \in [Thread -> State \cup {NoState}]
    /\ phase \in {"off", "opening", "scan", "wait", "received", "recorded", "settling",
                  "closing", "leaving", "ended"}
    /\ receiving \in Step \cup {NoStep}
    /\ {fatal, cancelled, cut} \subseteq BOOLEAN
    /\ pc \in [Step -> {"idle", "start", "marked", "ready", "working", "delay", "done"}]
    /\ result \in [Step -> Result \cup {"none"}]
    /\ attempts \in [Step -> 0..RetryCount + 1]
    /\ sidecar \in [Step -> {"none", "running", "killed", "flagged", "unmarked"}]
    /\ killed \subseteq Detached
    /\ runs \in 0..MaxRuns

\* No process.
Idle == phase \in {"off", "ended"}

\* What a new process starts with, whatever the one before it was doing.
FreshProcess(p) ==
    /\ failed' = {} /\ saving' = [t \in Thread |-> NoState]
    /\ phase' = p /\ receiving' = NoStep
    /\ fatal' = FALSE /\ cancelled' = FALSE /\ cut' = FALSE
    /\ pc' = [s \in Step |-> "idle"] /\ result' = [s \in Step |-> "none"]
    /\ attempts' = [s \in Step |-> 0]
    /\ sidecar' = [s \in Step |-> "none"] /\ killed' = {}

Init ==
    /\ file = NoState /\ state = FreshState
    /\ executed = {} /\ failed = {} /\ saving = [t \in Thread |-> NoState]
    /\ phase = "off" /\ receiving = NoStep
    /\ fatal = FALSE /\ cancelled = FALSE /\ cut = FALSE
    /\ pc = [s \in Step |-> "idle"] /\ result = [s \in Step |-> "none"]
    /\ attempts = [s \in Step |-> 0]
    /\ sidecar = [s \in Step |-> "none"] /\ killed = {} /\ runs = 0

-----------------------------------------------------------------------------
(***************************************************************************)
(* Run, Resume, and the end of the process.                                *)
(***************************************************************************)
Run ==
    /\ Idle /\ file = NoState /\ runs < MaxRuns
    /\ state' = FreshState /\ executed' = {}
    /\ FreshProcess("opening")
    /\ runs' = runs + 1
    /\ UNCHANGED file

\* Mutant: a cancelled step counts as done.
KeepsCancelled(r) == r \in {"failed", "dependency", "relaunch"}

\* shouldRerunStep
Reruns(r) == r \in {"failed", "cancelled", "dependency", "relaunch"}

\* Steps whose result a resume keeps.
Retained == {s \in Step : file.steps[s] # "none" /\ ~ Reruns(file.steps[s])}

\* What a variable may hold after a resume: rerun steps have theirs cleared, retained
\* ones write theirs again, in the order of a map.
Restored(v) ==
    LET writers == {s \in Retained : OutputVar[s] = v}
        cleared == {s \in Step : OutputVar[s] = v /\ (s \in file.inFlight \/ Reruns(file.steps[s]))}
    IN  IF writers # {} THEN writers ELSE IF cleared # {} THEN {NoStep} ELSE {file.vars[v]}

\* The command refuses a completed run.  applyResumeState marks what it retains as
\* executed, and forgets the results of all that was in flight.
Resume ==
    /\ Idle /\ file # NoState /\ file.status # "completed" /\ runs < MaxRuns
    /\ \E restored \in [Variable -> Step \cup {NoStep}] :
          /\ \A v \in Variable : restored[v] \in Restored(v)
          /\ state' = [status |-> "running", inFlight |-> {}, vars |-> restored,
                       steps |-> [s \in Step |-> IF s \in Retained \ file.inFlight
                                                 THEN file.steps[s] ELSE "none"]]
    /\ executed' = Retained
    /\ FreshProcess("opening")
    /\ runs' = runs + 1
    /\ UNCHANGED file

\* The process dies at any moment.
Crash ==
    /\ ~Idle
    /\ state' = FreshState /\ executed' = {}
    /\ FreshProcess("off")
    /\ UNCHANGED <<file, runs>>

\* Cancel, or the global timeout.
Cancel ==
    /\ phase \in {"opening", "scan", "wait", "received", "recorded", "settling"} /\ ~cancelled
    /\ cancelled' = TRUE /\ cut' = TRUE
    /\ UNCHANGED <<persistence, state, graph, phase, receiving, fatal, worker, background, runs>>

-----------------------------------------------------------------------------
(***************************************************************************)
(* persistState: one goroutine at a time copies the state and writes the   *)
(* copy; it goes on whether or not the file could be written.              *)
(***************************************************************************)
WantsSave(t) ==
    \/ t = Main /\ phase \in {"opening", "recorded", "closing"}
    \/ \E s \in Step : \/ t = WorkerOf(s) /\ pc[s] = "marked"
                       \/ t = WatcherOf(s) /\ sidecar[s] = "flagged"

\* Mutant: the state is copied before the mutex is taken.
CopiesFirst == TRUE

\* persistMu is free.
MayCopy == \A t \in Thread : saving[t] = NoState

snapshotState(t) ==
    /\ WantsSave(t) /\ saving[t] = NoState /\ MayCopy
    /\ saving' = [saving EXCEPT ![t] = state]
    /\ UNCHANGED <<file, state, graph, scheduler, worker, background, runs>>

AfterSave == [opening |-> "scan", recorded |-> "settling", closing |-> "leaving"]

SaveState(t) ==
    /\ saving[t] # NoState /\ saving' = [saving EXCEPT ![t] = NoState]
    /\ file' \in {saving[t], file}
    /\ phase' = IF t = Main THEN AfterSave[phase] ELSE phase
    /\ pc' = [s \in Step |-> IF t = WorkerOf(s) THEN "ready" ELSE pc[s]]
    /\ sidecar' = [s \in Step |-> IF t = WatcherOf(s) THEN "none" ELSE sidecar[s]]
    /\ UNCHANGED <<state, graph, receiving, fatal, cancelled, cut, result, attempts, killed, runs>>

persistState == \E t \in Thread : snapshotState(t) \/ SaveState(t)

-----------------------------------------------------------------------------
(***************************************************************************)
(* executeWorkflow, the goroutine that alone changes the graph.            *)
(***************************************************************************)
InFlight == {s \in Step : pc[s] # "idle"}

\* Mutant: a step whose dependency failed is never ready.
ReadyWithoutFailed ==
    {s \in Step \ executed : DependsOn[s] \subseteq executed /\ DependsOn[s] \cap failed = {}}

\* GetReadySteps: executed grows one step at a time, and with it the counters of its
\* dependents fall.
Ready == {s \in Step \ executed : DependsOn[s] \subseteq executed}

HasFailedDependency(s) == DependsOn[s] \cap failed # {}

\* One pass over the ready steps: as many as may run are started.
Dispatch ==
    /\ phase = "scan" /\ ~cancelled
    /\ \E S \in SUBSET (Ready \ InFlight) :
          /\ Cardinality(InFlight \cup S) <= MaxParallel
          /\ S = Ready \ InFlight \/ Cardinality(InFlight \cup S) = MaxParallel
          /\ S \cup InFlight # {}
          /\ pc' = [s \in Step |-> IF s \in S THEN "start" ELSE pc[s]]
    /\ phase' = "wait"
    /\ UNCHANGED <<persistence, state, graph, receiving, fatal, cancelled, cut, result, attempts,
                   background, runs>>

\* The scheduler sees the cancelled context at its next pass.
CutOff ==
    /\ phase = "scan" /\ cancelled
    /\ fatal' = TRUE /\ cut' = TRUE /\ phase' = "wait"
    /\ UNCHANGED <<persistence, state, graph, receiving, cancelled, worker, background, runs>>

\* waitOne, and the first step of finishStep.
Receive(s) ==
    /\ phase = "wait" /\ pc[s] = "done"
    /\ state' = [state EXCEPT !.steps[s] = result[s]]
    /\ pc' = [pc EXCEPT ![s] = "idle"] /\ result' = [result EXCEPT ![s] = "none"]
    /\ receiving' = s /\ phase' = "received"
    /\ UNCHANGED <<persistence, graph, fatal, cancelled, cut, attempts, background, runs>>

\* Mutant: the output is stored when the step's process exits.
StoredLater(s) == state.steps[s] \in {"completed", "relaunch"} /\ s \notin Detached

\* The watcher of its process may have marked the record by now.
Stored(s) == state.steps[s] \in {"completed", "relaunch"}

\* The output of a completed step is stored before its dependents become ready.
StoreOutput ==
    /\ phase = "received"
    /\ state' = [state EXCEPT !.vars = IF Stored(receiving)
                     THEN [@ EXCEPT ![OutputVar[receiving]] = receiving] ELSE @]
    /\ executed' = executed \cup {receiving}
    /\ phase' = "recorded"
    /\ UNCHANGED <<persistence, failed, receiving, fatal, cancelled, cut, worker, background, runs>>

\* Mutant: a skipped step has not failed.
OnlyFailuresCount(s) == state.steps[s] = "failed"

\* A step that was skipped for its dependencies makes its own dependents skip.
CountsAsFailed(s) ==
    \/ state.steps[s] = "failed"
    \/ state.steps[s] \in {"skipped", "dependency"} /\ HasFailedDependency(s)

EndsRun(s) ==
    \/ state.steps[s] = "failed" /\ OnError[s] # "continue"
    \/ state.steps[s] = "cancelled"

\* The rest of finishStep; after a fatal error the steps in flight are drained.
Settle ==
    /\ phase = "settling"
    /\ failed' = IF CountsAsFailed(receiving) THEN failed \cup {receiving} ELSE failed
    /\ fatal' = (fatal \/ EndsRun(receiving))
    /\ cut' = (cut \/ EndsRun(receiving))
    /\ phase' = IF fatal' THEN "wait" ELSE "scan"
    /\ receiving' = NoStep
    /\ UNCHANGED <<persistence, state, executed, cancelled, worker, background, runs>>

Outcome == IF ~fatal THEN "completed" ELSE IF cancelled THEN "cancelled" ELSE "failed"

\* executeWorkflow returns, its deferred cancel reaches what still runs, and the run
\* gets its last status.
Finish ==
    /\ InFlight = {}
    /\ \/ phase = "scan" /\ ~cancelled /\ executed = Step
       \/ phase = "wait" /\ fatal
    /\ state' = [state EXCEPT !.status = Outcome]
    /\ cut' = TRUE /\ phase' = "closing"
    /\ UNCHANGED <<persistence, graph, receiving, fatal, cancelled, worker, background, runs>>

\* Mutant: nobody waits for the watchers.
ReturnsAtOnce == TRUE

MayReturn == \A s \in Step : sidecar[s] \in {"none", "unmarked"}

\* backgroundCommandWG.Wait: Run returns after the watchers.
Return ==
    /\ phase = "leaving" /\ MayReturn
    /\ phase' = "ended"
    /\ UNCHANGED <<persistence, state, graph, receiving, fatal, cancelled, cut, worker, background,
                   runs>>

-----------------------------------------------------------------------------
(***************************************************************************)
(* executeStep, in a goroutine of its own.                                 *)
(***************************************************************************)
markStepInFlight(s) ==
    /\ pc[s] = "start"
    /\ pc' = [pc EXCEPT ![s] = "marked"]
    /\ state' = [state EXCEPT !.inFlight = @ \cup {s}]
    /\ UNCHANGED <<persistence, graph, scheduler, result, attempts, background, runs>>

\* The result is on its way to the scheduler; the deferred clearStepInFlight precedes it.
Deliver(s, r) ==
    /\ pc' = [pc EXCEPT ![s] = "done"] /\ result' = [result EXCEPT ![s] = r]
    /\ attempts' = [attempts EXCEPT ![s] = 0]
    /\ state' = [state EXCEPT !.inFlight = @ \ {s}]
    /\ UNCHANGED <<persistence, graph, scheduler, killed, runs>>

SkipForDependency(s) ==
    /\ pc[s] = "ready" /\ HasFailedDependency(s)
    /\ Deliver(s, "dependency")
    /\ UNCHANGED sidecar

MayWork(s) == ~HasFailedDependency(s)

\* The when condition is false, or cannot be evaluated.
EvaluateWhen(s) ==
    /\ s \in Conditional /\ pc[s] = "ready" /\ MayWork(s)
    /\ \E r \in {"skipped", "failed"} : Deliver(s, r)
    /\ UNCHANGED sidecar

\* An attempt: the prompt is sent, the command started.
Work(s) ==
    /\ \/ pc[s] = "ready" /\ MayWork(s)
       \/ pc[s] = "delay"
    /\ pc' = [pc EXCEPT ![s] = "working"]
    /\ attempts' = [attempts EXCEPT ![s] = @ + 1]
    /\ UNCHANGED <<persistence, state, graph, scheduler, result, background, runs>>

\* A detached step is completed as soon as its process runs.
Complete(s) ==
    /\ pc[s] = "working"
    /\ Deliver(s, "completed")
    /\ sidecar' = IF s \in Detached THEN [sidecar EXCEPT ![s] = "running"] ELSE sidecar

\* Mutant: the first attempt is not counted.
AttemptsAndRetries(s) == IF OnError[s] = "retry" THEN RetryCount + 2 ELSE 1

MaxAttempts(s) == IF OnError[s] = "retry" THEN RetryCount + 1 ELSE 1

FailAttempt(s) ==
    /\ pc[s] = "working" /\ attempts[s] < MaxAttempts(s)
    /\ pc' = [pc EXCEPT ![s] = "delay"]
    /\ UNCHANGED <<persistence, state, graph, scheduler, result, attempts, background, runs>>

\* The last attempt failed; an on_failure action may turn the failure into a skip, a
\* recovery into a completion.
Fail(s) ==
    /\ pc[s] = "working" /\ attempts[s] >= MaxAttempts(s)
    /\ \E r \in {"failed"} \cup (IF s \in Recovering THEN {"skipped", "completed"} ELSE {}) :
          Deliver(s, r)
    /\ UNCHANGED sidecar

BeCancelled(s) ==
    /\ pc[s] \in {"working", "delay"} /\ cut
    /\ Deliver(s, "cancelled")
    /\ UNCHANGED sidecar

-----------------------------------------------------------------------------
(***************************************************************************)
(* The watcher of a background process.                                    *)
(***************************************************************************)
SidecarExits(s) ==
    /\ sidecar[s] = "running"
    /\ sidecar' = [sidecar EXCEPT ![s] = "none"]
    /\ UNCHANGED <<persistence, state, graph, scheduler, worker, killed, runs>>

SidecarKilled(s) ==
    /\ sidecar[s] = "running" /\ cut
    /\ sidecar' = [sidecar EXCEPT ![s] = "killed"] /\ killed' = killed \cup {s}
    /\ UNCHANGED <<persistence, state, graph, scheduler, worker, runs>>

\* The scheduler's record of the step, for which the watcher looks again and again.
ResultIsThere(s) == state.steps[s] # "none"

markFireAndForgetCancelled(s) ==
    /\ sidecar[s] = "killed" /\ ResultIsThere(s)
    /\ state' = [state EXCEPT !.steps[s] = IF @ = "completed" THEN "relaunch" ELSE @]
    /\ sidecar' = [sidecar EXCEPT ![s] = "flagged"]
    /\ UNCHANGED <<persistence, graph, scheduler, worker, killed, runs>>

\* Its two seconds are over, at any moment before the record is there: the watcher ends
\* without a mark and without a save.
GiveUp(s) ==
    /\ sidecar[s] = "killed" /\ ~ResultIsThere(s)
    /\ sidecar' = [sidecar EXCEPT ![s] = "unmarked"]
    /\ UNCHANGED <<persistence, state, graph, scheduler, worker, killed, runs>>

-----------------------------------------------------------------------------
Scheduler ==
    \/ snapshotState(Main) \/ SaveState(Main)
    \/ Dispatch \/ CutOff \/ (\E s \in Step : Receive(s)) \/ StoreOutput \/ Settle \/ Finish \/ Return

Worker(s) ==
    \/ snapshotState(WorkerOf(s)) \/ SaveState(WorkerOf(s))
    \/ markStepInFlight(s) \/ SkipForDependency(s) \/ EvaluateWhen(s)
    \/ Work(s) \/ Complete(s) \/ FailAttempt(s) \/ Fail(s) \/ BeCancelled(s)

Watcher(s) ==
    \/ snapshotState(WatcherOf(s)) \/ SaveState(WatcherOf(s))
    \/ SidecarKilled(s) \/ markFireAndForgetCancelled(s) \/ GiveUp(s)

Next ==
    \/ Run \/ Resume \/ Crash \/ Cancel \/ Scheduler
    \/ \E s \in Step : Worker(s) \/ Watcher(s) \/ SidecarExits(s)

Spec == Init /\ [][Next]_vars

(***************************************************************************)
(* Every goroutine goes on: a step has a timeout, a killed process is      *)
(* waited for, and the mutex of the save is free again after each save.    *)
(***************************************************************************)
FairSpec ==
    /\ Spec
    /\ WF_vars(Scheduler)
    /\ \A s \in Step : WF_vars(Worker(s))
    /\ \A s \in Detached : WF_vars(Watcher(s))

-----------------------------------------------------------------------------
(***************************************************************************)
(* Properties.                                                             *)
(***************************************************************************)

\* A step works only when each of its dependencies has completed or was skipped by its
\* own condition, in a resumed run too, whose graph knows no failures of the run before.
DependenciesFirst ==
    \A s \in Step : pc[s] = "working" =>
        \A d \in DependsOn[s] : state.steps[d] \in {"completed", "relaunch", "skipped"}

\* A step that works finds the output of each completed dependency in its variable,
\* unless another step writes the same variable: outputs are stored before dependents
\* are unblocked, and rebuilt on resume.
InputsAreThere ==
    \A s \in Step : pc[s] = "working" =>
        \A d \in DependsOn[s] :
            /\ state.steps[d] \in {"completed", "relaunch"}
            /\ \A e \in Step \ {d} : OutputVar[e] # OutputVar[d]
            => state.vars[OutputVar[d]] = d

\* A run whose file says completed has a result of every step, whatever crashes and
\* resumes it went through: none is cancelled or failed against its policy, and none
\* skipped for a dependency that did not fail.
CompletedMeansDone ==
    file # NoState /\ file.status = "completed" =>
        \A s \in Step :
            /\ file.steps[s] \notin {"none", "cancelled"}
            /\ file.steps[s] = "failed" => OnError[s] = "continue"
            /\ file.steps[s] = "dependency" =>
                   \E d \in DependsOn[s] : file.steps[d] \in {"failed", "dependency"}

\* What the file says is finished stays so: no older copy overwrites a newer one, no
\* resume forgets it, and no run does the step again; only a killed background process
\* is marked to be run again.
FinishedStaysFinished ==
    [][\A s \in Step : file # NoState /\ file.steps[s] \in {"completed", "skipped"} =>
           /\ file' # NoState /\ file'.steps[s] \in {file.steps[s], "relaunch"}
           /\ pc'[s] = "working" => pc[s] = "working"]_vars

\* When a run has returned, each background process it killed is marked to be run again,
\* unless its watcher gave up on a record that the scheduler had yet to write; and that
\* happens only in a run that failed or was cancelled, none that completed lacks a mark.
SidecarsAreMarked ==
    phase = "ended" =>
        \A s \in killed : \/ state.steps[s] = "relaunch"
                          \/ sidecar[s] = "unmarked" /\ state.status # "completed"

\* A run ends: it drains its steps after a fatal error, and nothing waits for ever.
RunEnds == ~Idle ~> Idle

=================================================================================
