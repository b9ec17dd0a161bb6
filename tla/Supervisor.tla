------------------------------- MODULE Supervisor -------------------------------
(***************************************************************************)
(* The supervisor of daemon processes (internal/supervisor/supervisor.go). *)
(*                                                                         *)
(* Start launches a daemon and two goroutines: one waits for the process,  *)
(* the other probes its health on a ticker.  Either may report a failure,  *)
(* which backs off and calls Start again.  Shutdown terminates, kills and  *)
(* awaits every daemon in the map, under the lock that Start needs.        *)
(*                                                                         *)
(* A launch n of daemon d is a record of its own, and the map holds the    *)
(* last one; the goroutines of earlier launches may still be running.      *)
(***************************************************************************)
EXTENDS Integers, FiniteSets

CONSTANTS
    Daemon,
    Probed,         \* daemons with a health check
    MaxRestarts,
    Plans,          \* bound: how often a program may call Start for each daemon
    MaxLaunches,    \* bound: launches of each daemon
    NoDaemon

ASSUME SupervisorAssumption ==
    /\ Probed \subseteq Daemon /\ NoDaemon \notin Daemon
    /\ MaxRestarts \in Nat /\ Plans \subseteq [Daemon -> Nat]
    /\ MaxLaunches \in Nat \ {0}

Launch == Daemon \X (1..MaxLaunches)
Goroutine == {"wait", "monitor"}

VARIABLES
    last,       \* Daemon -> its last launch, the entry of the map; 0: never started
    state,      \* Launch -> state of the record
    restarts,   \* Launch -> Restarts of the record
    alive,      \* Launch -> does the process live?
    done,       \* Launch -> has waitForExit reaped it (the closed channel)?
    pc,         \* Launch -> Goroutine -> where the goroutine is
    pidFile,    \* Daemon -> launch named by the PID file, 0: no file
    plan,       \* Daemon -> calls of Start by the program in all
    calls,      \* Daemon -> those still to come
    shutdown,   \* [pc, todo, cur] of Shutdown; it holds lifecycleMu from "stopping" on
    replaced    \* history: unhealthy launches whose process lived when Start put another
                \* in the map

vars == <<last, state, restarts, alive, done, pc, pidFile, plan, calls, shutdown,
          replaced>>

Init == /\ last = [d \in Daemon |-> 0]
        /\ state = [i \in Launch |-> "none"]
        /\ restarts = [i \in Launch |-> 0]
        /\ alive = [i \in Launch |-> FALSE]
        /\ done = [i \in Launch |-> FALSE]
        /\ pc = [i \in Launch |-> [g \in Goroutine |-> "none"]]
        /\ pidFile = [d \in Daemon |-> 0]
        /\ plan \in Plans /\ calls = plan
        /\ shutdown = [pc |-> "no", todo |-> {}, cur |-> NoDaemon]
        /\ replaced = {}

Monitored == {"starting", "running", "unhealthy"}

Last(d) == <<d, last[d]>>
Launched(i) == i[2] <= last[i[1]]
StateOf(d) == IF last[d] = 0 THEN "none" ELSE state[Last(d)]
Stopped == shutdown.pc # "no"        \* s.stopped, and shutdownCh is closed
LockIsFree == shutdown.pc \in {"no", "returned"}

Goes(i, g, to) == pc' = [pc EXCEPT ![i][g] = to]
\* Where a goroutine goes on after handleDaemonFailure.
After(g) == IF g = "wait" THEN "over" ELSE "ticking"

-----------------------------------------------------------------------------
(* Start: one critical section, called by the program or after a failure.  *)

\* Mutant: the stopped flag is not looked at.
AcceptsAlways(d) == StateOf(d) \notin {"running", "starting"}

\* Neither shut down nor "already running".
Accepts(d) == ~Stopped /\ StateOf(d) \notin {"running", "starting"}

\* Mutant: every launch begins a count of its own.
CountAnew(d) == 0

\* Mutant: the count is kept whatever the state of the record.
CountAlways(d) == IF last[d] = 0 THEN 0 ELSE restarts[Last(d)]

\* The count of restarts is kept when the record in the map is restarting.
RestartCount(d) == IF StateOf(d) = "restarting" THEN restarts[Last(d)] ELSE 0

\* exec succeeds; `p` is where the goroutine that called Start goes on.
Launches(d, p) ==
    LET i == <<d, last[d] + 1>> IN
    /\ last[d] < MaxLaunches
    /\ replaced' = IF StateOf(d) = "unhealthy" /\ alive[Last(d)]
                   THEN replaced \cup {Last(d)} ELSE replaced
    /\ last' = [last EXCEPT ![d] = @ + 1]
    /\ state' = [state EXCEPT ![i] = "starting"]
    /\ restarts' = [restarts EXCEPT ![i] = RestartCount(d)]
    /\ alive' = [alive EXCEPT ![i] = TRUE]
    /\ pidFile' \in {pidFile, [pidFile EXCEPT ![d] = i[2]]}    \* a failed write is logged
    /\ pc' = [p EXCEPT ![i] = [wait |-> "waiting", monitor |-> "ticking"]]
    /\ UNCHANGED <<done, plan, shutdown>>

\* No binary, no port, no log file, no fork: an error, and nothing changes.
Refuses(p) ==
    /\ pc' = p
    /\ UNCHANGED <<last, state, restarts, alive, done, pidFile, plan, shutdown, replaced>>

Start(d) ==
    /\ calls[d] > 0 /\ LockIsFree
    /\ calls' = [calls EXCEPT ![d] = @ - 1]
    /\ (Accepts(d) /\ Launches(d, pc)) \/ Refuses(pc)

Restart(i, g) ==
    /\ pc[i][g] = "launching" /\ LockIsFree
    /\ LET p == [pc EXCEPT ![i][g] = After(g)]
       IN  (Accepts(i[1]) /\ Launches(i[1], p)) \/ Refuses(p)
    /\ UNCHANGED calls

-----------------------------------------------------------------------------
(* The process, waitForExit and monitorDaemon.                             *)

MapUnchanged == UNCHANGED <<last, pidFile, plan, calls, replaced>>

\* A crash, or the end that SIGTERM asks for.
Dies(i) ==
    /\ alive[i]
    /\ alive' = [alive EXCEPT ![i] = FALSE]
    /\ UNCHANGED <<state, restarts, done, pc, shutdown>> /\ MapUnchanged

\* Mutant: the channel is closed after the test for a stop of our own.
ClosedByFailure(i) == IF state[i] = "stopping" THEN done ELSE [done EXCEPT ![i] = TRUE]

Closed(i) == [done EXCEPT ![i] = TRUE]

\* Wait returns, and done is closed before anything else.  The state is read
\* next; handleDaemonFailure reads it again, and decides.
Reap(i) ==
    /\ pc[i]["wait"] = "waiting" /\ ~alive[i]
    /\ done' = Closed(i)
    /\ Goes(i, "wait", "reporting")
    /\ UNCHANGED <<state, restarts, alive, shutdown>> /\ MapUnchanged

MonitorUnchanged == UNCHANGED <<restarts, alive, done, shutdown>> /\ MapUnchanged

\* A tick reads the state; without a health check it looks at done.  A monitor
\* that returned (its record is not monitored any more, or shutdownCh is closed)
\* is one that does not tick again.
Tick(i) ==
    /\ pc[i]["monitor"] = "ticking" /\ state[i] \in Monitored
    /\ IF i[1] \in Probed THEN Goes(i, "monitor", "probing")
                         ELSE done[i] /\ Goes(i, "monitor", "reporting")
    /\ UNCHANGED state /\ MonitorUnchanged

\* Mutant: the state that the tick read is still believed.
ProbedAlways(s, healthy) == IF healthy THEN "running" ELSE s

\* The answer meets the state of now, not the one the tick read.
AfterProbe(s, healthy) ==
    IF healthy /\ s \in {"starting", "unhealthy"} THEN "running"
    ELSE IF ~healthy /\ s \in {"starting", "running"} THEN "unhealthy" ELSE s

\* The probe ran without a lock; a failure counts when the time-out has passed.
ProbeEnds(i) ==
    /\ pc[i]["monitor"] = "probing"
    /\ Goes(i, "monitor", "ticking")
    /\ \/ \E healthy \in BOOLEAN : state' = [state EXCEPT ![i] = AfterProbe(@, healthy)]
       \/ UNCHANGED state
    /\ MonitorUnchanged

-----------------------------------------------------------------------------
(* handleDaemonFailure, called by either goroutine of a launch.            *)

\* Mutant: an unhealthy daemon was given up already.
NoiseOfUnhealthy == {"stopping", "stopped", "failed", "restarting", "unhealthy"}

\* States in which a report of failure is ignored.
Noise == {"stopping", "stopped", "failed", "restarting"}

HandleFailure(i, g) ==
    /\ pc[i][g] = "reporting"
    /\ IF state[i] \in Noise
       THEN Goes(i, g, After(g)) /\ UNCHANGED <<state, restarts>>
       ELSE /\ restarts' = [restarts EXCEPT ![i] = @ + 1]
            /\ state' = [state EXCEPT ![i] = "failed"]
            /\ Goes(i, g, IF restarts[i] + 1 > MaxRestarts THEN After(g) ELSE "backoff")
    /\ UNCHANGED <<alive, done, shutdown>> /\ MapUnchanged

\* The select between shutdownCh and the backoff, which may both be ready.
BackoffCut(i, g) ==
    /\ pc[i][g] = "backoff" /\ Stopped
    /\ Goes(i, g, After(g))
    /\ UNCHANGED state /\ MonitorUnchanged

BackoffEnds(i, g) ==
    /\ pc[i][g] = "backoff"
    /\ IF state[i] \in {"stopping", "stopped"}
       THEN Goes(i, g, After(g)) /\ UNCHANGED state
       ELSE Goes(i, g, "launching") /\ state' = [state EXCEPT ![i] = "restarting"]
    /\ MonitorUnchanged

-----------------------------------------------------------------------------
(* Shutdown and stopDaemon.                                                *)

ShutdownUnchanged == UNCHANGED <<restarts, done, pc, last, plan, calls, replaced>>

\* stopped, close(shutdownCh), and a copy of the map.
Shutdown ==
    /\ shutdown.pc = "no"
    /\ shutdown' = [pc |-> "stopping", todo |-> {d \in Daemon : last[d] > 0}, cur |-> NoDaemon]
    /\ UNCHANGED <<state, alive, pidFile>> /\ ShutdownUnchanged

StopDaemon(d) ==
    /\ shutdown.pc = "stopping" /\ shutdown.cur = NoDaemon /\ d \in shutdown.todo
    /\ state' = [state EXCEPT ![Last(d)] = "stopping"]
    /\ shutdown' = [pc |-> "terminating", todo |-> shutdown.todo \ {d}, cur |-> d]
    /\ UNCHANGED <<alive, pidFile>> /\ ShutdownUnchanged

\* Two seconds have passed since SIGTERM.
ForceKill ==
    /\ shutdown.pc = "terminating" /\ ~done[Last(shutdown.cur)]
    /\ shutdown' = [shutdown EXCEPT !.pc = "killed"]
    /\ alive' = [alive EXCEPT ![Last(shutdown.cur)] = FALSE]
    /\ UNCHANGED <<state, pidFile>> /\ ShutdownUnchanged

DaemonStopped ==
    /\ shutdown.pc \in {"terminating", "killed"} /\ done[Last(shutdown.cur)]
    /\ shutdown' = [shutdown EXCEPT !.pc = "stopping", !.cur = NoDaemon]
    /\ pidFile' = [pidFile EXCEPT ![shutdown.cur] = 0]
    /\ state' = [state EXCEPT ![Last(shutdown.cur)] = "stopped"]
    /\ UNCHANGED alive /\ ShutdownUnchanged

ShutdownReturns ==
    /\ shutdown.pc = "stopping" /\ shutdown.cur = NoDaemon /\ shutdown.todo = {}
    /\ shutdown' = [shutdown EXCEPT !.pc = "returned"]
    /\ UNCHANGED <<state, alive, pidFile>> /\ ShutdownUnchanged

-----------------------------------------------------------------------------
FailureStep(i, g) == HandleFailure(i, g) \/ BackoffCut(i, g) \/ BackoffEnds(i, g) \/ Restart(i, g)
MonitorStep(i) == Tick(i) \/ ProbeEnds(i)
ShutdownStep == (\E d \in Daemon : StopDaemon(d)) \/ ForceKill \/ DaemonStopped \/ ShutdownReturns

Next == \/ \E d \in Daemon : Start(d)
        \/ \E i \in Launch : Dies(i) \/ Reap(i) \/ MonitorStep(i)
        \/ \E i \in Launch, g \in Goroutine : FailureStep(i, g)
        \/ Shutdown \/ ShutdownStep

\* Goroutines run and back off for a minute at most; Shutdown goes on once it
\* has begun.  Nothing makes a process die.
Fairness == /\ \A i \in Launch : WF_vars(Reap(i))
            /\ \A i \in Launch, g \in Goroutine : WF_vars(FailureStep(i, g))
            /\ WF_vars(ShutdownStep)

Spec == Init /\ [][Next]_vars /\ Fairness

-----------------------------------------------------------------------------
(* Properties.                                                             *)

TypeOK ==
    /\ last \in [Daemon -> 0..MaxLaunches]
    /\ state \in [Launch -> Monitored \cup Noise \cup {"none"}]
    /\ restarts \in [Launch -> 0..(MaxRestarts + 1)]
    /\ alive \in [Launch -> BOOLEAN] /\ done \in [Launch -> BOOLEAN]
    /\ pc \in [Launch -> [Goroutine -> {"none", "waiting", "ticking", "probing", "reporting",
                                        "backoff", "launching", "over"}]]
    /\ pidFile \in [Daemon -> 0..MaxLaunches]
    /\ plan \in Plans /\ calls \in [Daemon -> Nat]
    /\ \A d \in Daemon : calls[d] <= plan[d]
    /\ shutdown \in [pc   : {"no", "stopping", "terminating", "killed", "returned"},
                     todo : SUBSET Daemon, cur : Daemon \cup {NoDaemon}]
    /\ replaced \subseteq Launch

(* When Shutdown has returned no process is left, whatever failure was being *)
(* handled meanwhile, and no PID file names one.  The exception is a process *)
(* that a call of Start pushed out of the map while it was unhealthy.       *)
NothingOutlivesShutdown ==
    shutdown.pc = "returned" =>
        /\ \A i \in Launch : alive[i] => i \in replaced
        /\ \A d \in Daemon : pidFile[d] = 0

(* A daemon that the program starts once is launched MaxRestarts times more  *)
(* at most, and never while its previous process lives: two goroutines that  *)
(* report one exit do not spend the budget twice or begin it anew.           *)
RestartsAreBounded ==
    \A d \in Daemon : plan[d] <= 1 =>
        /\ last[d] <= 1 + MaxRestarts
        /\ \A n \in 1..last[d] : alive[<<d, n>>] => n = last[d]

(* A record that failed or was stopped is never "running" or "unhealthy"     *)
(* again, although probes and failure reports act on what they read before;  *)
(* and no failure is recorded for a daemon that is being stopped.            *)
Rank(s) == IF s \in Monitored THEN 1
           ELSE CASE s = "failed" -> 2 [] s = "restarting" -> 3 [] s = "stopping" -> 4
                  [] s = "stopped" -> 5 [] OTHER -> 0
RecordsDoNotRevive == [][\A i \in Launch : Rank(state'[i]) >= Rank(state[i])]_vars

\* Start was called for the relaunch, and returned an error.
Refused(i) == state[i] = "restarting" /\ \A g \in Goroutine : pc[i][g] # "launching"

(* A daemon that exits is launched again, unless its budget is spent, Start  *)
(* refused to relaunch it, or the supervisor was shut down.  A Start that    *)
(* fails once leaves the record "restarting" for good.                       *)
ExitIsAnswered ==
    \A i \in Launch :
        done[i] /\ last[i[1]] = i[2]
            ~> \/ last[i[1]] > i[2] \/ Stopped
               \/ state[i] = "failed" /\ restarts[i] > MaxRestarts
               \/ Refused(i)

(* Shutdown comes to its end: a goroutine that waits for the lock it holds   *)
(* never keeps it from seeing the exit it waits for.                         *)
ShutdownEnds == Stopped ~> shutdown.pc = "returned"
=================================================================================
