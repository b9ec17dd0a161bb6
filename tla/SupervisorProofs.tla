---------------------------- MODULE SupervisorProofs ----------------------------
(***************************************************************************)
(* Proofs about Supervisor, for any number of daemons, restarts and        *)
(* launches.  The invariant says, of each launch, what its goroutines may  *)
(* still do (RecordInv); of Shutdown, which daemons it has dealt with and  *)
(* which it has still to stop (ShutdownInv, ToStopInv); and of a daemon    *)
(* that the program starts once, that its launches form one chain in which *)
(* only the last one can be launched again (ChainInv).                     *)
(***************************************************************************)
EXTENDS Supervisor, TLAPS

PcValue == {"none", "waiting", "ticking", "probing", "reporting", "backoff", "launching", "over"}
Relaunching == {"backoff", "launching"}
Ended == {"failed", "restarting"}

\* What was never launched has left no trace.
Fresh(i) == i[2] > last[i[1]] =>
    /\ state[i] = "none" /\ restarts[i] = 0
    /\ ~alive[i] /\ ~done[i]
    /\ \A g \in Goroutine : pc[i][g] = "none"

\* Only a reaped launch is reported, has failed or is launched again.
Reaped(i) ==
    /\ done[i] => ~alive[i]
    /\ state[i] \in Ended => done[i]
    /\ \A g \in Goroutine : pc[i][g] \in Relaunching \cup {"reporting"} => done[i]

\* A goroutine that will launch again has budget, and its record is out of use.
WithinBudget(i) ==
    /\ state[i] \in Monitored \cup {"restarting"} => restarts[i] <= MaxRestarts
    /\ \A g \in Goroutine :
        /\ pc[i][g] \in Relaunching => state[i] \in Noise /\ restarts[i] <= MaxRestarts
        /\ pc[i][g] = "launching" => state[i] # "failed"

InMap(i) ==
    /\ i[2] <= last[i[1]] => state[i] # "none"
    /\ state[i] \in {"stopping", "stopped"} => shutdown.pc # "no"
    /\ alive[i] /\ i[2] < last[i[1]] => i \in replaced

RecordInv == \A i \in Launch : Fresh(i) /\ Reaped(i) /\ WithinBudget(i) /\ InMap(i)

\* Shutdown has yet to stop a daemon, is stopping it, or has seen it reaped.
ShutdownInv ==
    /\ shutdown.pc \in {"terminating", "killed"} <=> shutdown.cur # NoDaemon
    /\ shutdown.cur # NoDaemon => last[shutdown.cur] > 0
    /\ \A d \in shutdown.todo : last[d] > 0
    /\ shutdown.pc = "returned" => shutdown.todo = {}
    /\ \A d \in Daemon :
        /\ pidFile[d] > 0 => last[d] > 0
        /\ shutdown.pc # "no" /\ last[d] > 0 =>
               \/ d \in shutdown.todo \/ d = shutdown.cur
               \/ done[Last(d)] /\ pidFile[d] = 0

\* What Shutdown has yet to stop was not stopped before.
Stopping == {"stopping", "stopped"}
ToStopInv == shutdown.pc # "no" =>
    /\ shutdown.cur \notin shutdown.todo
    /\ \A d \in shutdown.todo : state[Last(d)] \notin Stopping

\* The launches of a daemon that the program starts once.
Chain(d) ==
    /\ last[d] <= 1 + MaxRestarts
    /\ last[d] > 0 => /\ state[Last(d)] \in Monitored => restarts[Last(d)] = last[d] - 1
                      /\ state[Last(d)] \in Ended => restarts[Last(d)] = last[d]
    /\ \A i \in Launch : i[1] = d =>
        /\ i[2] < last[d] => /\ ~alive[i] /\ state[i] \in Noise
                             /\ \A g \in Goroutine : pc[i][g] \notin Relaunching
        /\ \A g, h \in Goroutine :
               pc[i][g] \in Relaunching /\ pc[i][h] \in Relaunching => g = h

ChainInv == \A d \in Daemon :
    /\ last[d] > 0 => calls[d] < plan[d]
    /\ plan[d] <= 1 => Chain(d)

IInv == TypeOK /\ RecordInv /\ ShutdownInv /\ ToStopInv /\ ChainInv

-----------------------------------------------------------------------------
\* The last launch of a daemon is a launch.
LEMMA LastIsLaunch ==
    ASSUME TypeOK, NEW d \in Daemon, last[d] > 0
    PROVE  Last(d) \in Launch /\ Last(d)[1] = d /\ Last(d)[2] = last[d]
  BY SupervisorAssumption DEF TypeOK, Last, Launch

\* A launch is a daemon and a number.
LEMMA LaunchIsPair ==
    ASSUME NEW i \in Launch
    PROVE  i[1] \in Daemon /\ i[2] \in 1..MaxLaunches /\ i = <<i[1], i[2]>>
  BY DEF Launch

\* The launch with the number of the last one is the last one.
LEMMA NumberIsLast ==
    ASSUME NEW i \in Launch, i[2] = last[i[1]]
    PROVE  i = Last(i[1])
  BY LaunchIsPair DEF Last

(* The invariant holds when nothing has been started.                        *)
THEOREM InitInvariant == Init => IInv
<1> SUFFICES ASSUME Init PROVE IInv
  OBVIOUS
<1> USE SupervisorAssumption DEF Init
<1>1. plan \in [Daemon -> Nat] /\ calls = plan /\ \A d \in Daemon : last[d] = 0
  OBVIOUS
<1>2. TypeOK
  BY <1>1 DEF TypeOK, Launch, Goroutine, Monitored, Noise
<1>3. RecordInv
  BY LaunchIsPair DEF RecordInv, Fresh, Reaped, WithinBudget, InMap, Monitored, Noise, Ended,
     Relaunching, Goroutine
<1>4. ShutdownInv /\ ToStopInv
  BY DEF ShutdownInv, ToStopInv
<1>5. ChainInv
  <2> SUFFICES ASSUME NEW d \in Daemon PROVE Chain(d)
    BY <1>1 DEF ChainInv
  <2> QED
    BY LaunchIsPair DEF Chain, Relaunching, Goroutine
<1> QED
  BY <1>2, <1>3, <1>4, <1>5 DEF IInv

-----------------------------------------------------------------------------
(* Steps in which goroutines only stop doing what they did.                *)

Quieter(p) ==
    /\ p \in [Launch -> [Goroutine -> PcValue]]
    /\ \A i \in Launch, g \in Goroutine :
           p[i][g] = pc[i][g] \/ (pc[i][g] # "none" /\ p[i][g] \in {"over", "ticking"})

\* One goroutine moves, and it moves to where it goes on after a failure.
LEMMA AfterIsQuieter ==
    ASSUME TypeOK, NEW i \in Launch, NEW g \in Goroutine, pc[i][g] # "none"
    PROVE  Quieter([pc EXCEPT ![i][g] = After(g)])
  BY DEF TypeOK, Quieter, After, PcValue

\* A call of Start is made, or not.
FewerCalls == /\ plan' = plan /\ calls' \in [Daemon -> Nat]
              /\ \A d \in Daemon : calls'[d] <= calls[d]

\* How often a program calls Start is a number for each daemon.
LEMMA PlanIsNat ==
    ASSUME TypeOK
    PROVE  plan \in [Daemon -> Nat]
  BY SupervisorAssumption DEF TypeOK

\* Nothing changes but that goroutines get quieter, and calls are made.
LEMMA QuietStep ==
    ASSUME IInv, Quieter(pc'), FewerCalls,
           UNCHANGED <<last, state, restarts, alive, done, pidFile, shutdown, replaced>>
    PROVE  IInv'
<1>1. TypeOK'
  <2>1. \A d \in Daemon : calls'[d] <= plan[d]
    BY PlanIsNat DEF IInv, FewerCalls, TypeOK
  <2> QED
    BY <2>1 DEF IInv, TypeOK, Quieter, FewerCalls, PcValue
<1>2. RecordInv'
  <2> SUFFICES ASSUME NEW i \in Launch
               PROVE (Fresh(i) /\ Reaped(i) /\ WithinBudget(i) /\ InMap(i))'
    BY DEF RecordInv
  <2>1. Fresh(i) /\ Reaped(i) /\ WithinBudget(i) /\ InMap(i)
    BY DEF IInv, RecordInv
  <2>2. Fresh(i)'
    BY <2>1 DEF Fresh, Quieter
  <2>3. Reaped(i)'
    BY <2>1 DEF Reaped, Quieter, Relaunching
  <2>4. WithinBudget(i)'
    BY <2>1 DEF WithinBudget, Quieter, Relaunching
  <2>5. InMap(i)'
    BY <2>1 DEF InMap
  <2> QED
    BY <2>2, <2>3, <2>4, <2>5
<1>3. ShutdownInv' /\ ToStopInv'
  BY DEF IInv, ShutdownInv, ToStopInv, Last
<1>4. ChainInv'
  <2> SUFFICES ASSUME NEW d \in Daemon
               PROVE  (last[d] > 0 => calls[d] < plan[d])' /\ (plan[d] <= 1 => Chain(d))'
    BY DEF ChainInv
  <2>1. (last[d] > 0 => calls[d] < plan[d]) /\ (plan[d] <= 1 => Chain(d))
    BY DEF IInv, ChainInv
  <2>2. (last[d] > 0 => calls[d] < plan[d])'
    BY <2>1, PlanIsNat DEF FewerCalls, IInv, TypeOK
  <2>3. ASSUME Chain(d) PROVE Chain(d)'
    BY <2>3 DEF Chain, Quieter, Relaunching, Last
  <2> QED
    BY <2>1, <2>2, <2>3 DEF FewerCalls
<1> QED
  BY <1>1, <1>2, <1>3, <1>4 DEF IInv
-----------------------------------------------------------------------------
(* A launch.                                                               *)

\* What Start puts in the map, and the chain it goes on with.
LEMMA LaunchStep ==
    ASSUME IInv, NEW d \in Daemon, NEW p, Accepts(d), Launches(d, p), Quieter(p), FewerCalls,
           calls'[d] < plan[d],
           plan[d] <= 1 =>
               \/ last[d] = 0
               \/ /\ state[Last(d)] = "restarting" /\ restarts[Last(d)] <= MaxRestarts
                  /\ \A g \in Goroutine : p[Last(d)][g] \notin Relaunching
    PROVE  IInv'
<1> DEFINE new == <<d, last[d] + 1>>
           count == RestartCount(d)
<1>1. /\ new \in Launch /\ new[1] = d /\ new[2] = last[d] + 1
      /\ last' = [last EXCEPT ![d] = last[d] + 1] /\ last[d] \in Nat /\ last[d] < MaxLaunches
  BY SupervisorAssumption DEF Launches, Launch, IInv, TypeOK
<1>2. /\ state' = [state EXCEPT ![new] = "starting"]
      /\ restarts' = [restarts EXCEPT ![new] = count]
      /\ alive' = [alive EXCEPT ![new] = TRUE]
      /\ pc' = [p EXCEPT ![new] = [wait |-> "waiting", monitor |-> "ticking"]]
      /\ done' = done /\ plan' = plan /\ shutdown' = shutdown
      /\ pidFile' = pidFile \/ pidFile' = [pidFile EXCEPT ![d] = new[2]]
  BY <1>1 DEF Launches
<1>3. /\ ~Stopped
      /\ last[d] > 0 => state[Last(d)] \notin {"running", "starting", "stopping", "stopped", "none"}
  <2>1. ~Stopped /\ StateOf(d) \notin {"running", "starting"}
    BY DEF Accepts
  <2>2. ASSUME last[d] > 0
        PROVE  state[Last(d)] \notin {"running", "starting", "stopping", "stopped", "none"}
    <3>1. Last(d) \in Launch /\ Last(d)[1] = d /\ Last(d)[2] = last[d] /\ last[d] \in Nat
      BY <1>1, <2>2, LastIsLaunch DEF IInv
    <3>2. InMap(Last(d))
      BY <3>1 DEF IInv, RecordInv
    <3>3. StateOf(d) = state[Last(d)]
      BY <2>2, <3>1 DEF StateOf
    <3> QED
      BY <2>1, <3>1, <3>2, <3>3 DEF InMap, Stopped
  <2> QED
    BY <2>1, <2>2
<1>4. count \in 0..MaxRestarts
  BY LastIsLaunch, SupervisorAssumption DEF RestartCount, StateOf, IInv, RecordInv, WithinBudget, TypeOK
<1>5. /\ replaced \subseteq replaced' /\ replaced' \subseteq Launch
      /\ last[d] > 0 /\ alive[Last(d)] => Last(d) \in replaced'
  BY <1>3, LastIsLaunch DEF Launches, IInv, TypeOK, RecordInv, Reaped, Ended, StateOf, Noise, Monitored
<1> HIDE DEF new, count
<1>6. TypeOK'
  <2>1. /\ last' \in [Daemon -> 0..MaxLaunches] /\ pidFile' \in [Daemon -> 0..MaxLaunches]
        /\ state' \in [Launch -> Monitored \cup Noise \cup {"none"}]
        /\ restarts' \in [Launch -> 0..(MaxRestarts + 1)]
        /\ alive' \in [Launch -> BOOLEAN]
    <3>1. last' \in [Daemon -> 0..MaxLaunches] /\ pidFile' \in [Daemon -> 0..MaxLaunches]
      BY <1>1, <1>2, SupervisorAssumption DEF IInv, TypeOK
    <3>2. state' \in [Launch -> Monitored \cup Noise \cup {"none"}]
      BY <1>1, <1>2 DEF IInv, TypeOK, Monitored
    <3>3. restarts' \in [Launch -> 0..(MaxRestarts + 1)]
      BY <1>1, <1>2, <1>4, SupervisorAssumption DEF IInv, TypeOK
    <3>4. alive' \in [Launch -> BOOLEAN]
      BY <1>1, <1>2 DEF IInv, TypeOK
    <3> QED BY <3>1, <3>2, <3>3, <3>4
  <2>2. pc' \in [Launch -> [Goroutine -> PcValue]]
    BY <1>1, <1>2 DEF Quieter, PcValue, Goroutine
  <2>3. calls' \in [Daemon -> Nat] /\ \A e \in Daemon : calls'[e] <= plan[e]
    BY PlanIsNat DEF FewerCalls, IInv, TypeOK
  <2> QED
    BY <1>2, <1>5, <2>1, <2>2, <2>3 DEF IInv, TypeOK, PcValue
<1>7. RecordInv'
  <2> SUFFICES ASSUME NEW i \in Launch
               PROVE (Fresh(i) /\ Reaped(i) /\ WithinBudget(i) /\ InMap(i))'
    BY DEF RecordInv
  <2>1. Fresh(i) /\ Reaped(i) /\ WithinBudget(i) /\ InMap(i)
    BY DEF IInv, RecordInv
  <2>2. CASE i = new
    <3>1. ~done[i] /\ last'[d] = i[2] /\ i[1] = d
      BY <1>1, <2>1, <2>2 DEF Fresh, IInv, TypeOK
    <3>2. /\ state'[i] = "starting" /\ restarts'[i] = count /\ alive'[i] = TRUE
          /\ \A g \in Goroutine : pc'[i][g] \in {"waiting", "ticking"}
      BY <1>1, <1>2, <2>2 DEF IInv, TypeOK, Quieter, Goroutine
    <3> QED
      BY <1>1, <1>2, <1>4, <3>1, <3>2 DEF Fresh, Reaped, WithinBudget, InMap, Ended, Relaunching,
         Noise, Monitored
  <2>3. CASE i # new
    <3>1. /\ state'[i] = state[i] /\ restarts'[i] = restarts[i] /\ alive'[i] = alive[i]
          /\ pc'[i] = p[i] /\ done' = done
      BY <1>1, <1>2, <2>3 DEF IInv, TypeOK, Quieter
    <3>2. i[2] \in Nat /\ last[i[1]] \in Nat /\ last'[i[1]] \in {last[i[1]], last[i[1]] + 1}
      BY <1>1, LaunchIsPair DEF IInv, TypeOK
    <3>3. i[2] <= last'[i[1]] => i[2] <= last[i[1]]
      <4>1. i[1] = d => i[2] # last[d] + 1
        BY <2>3, LaunchIsPair DEF new
      <4>2. i[1] # d => last'[i[1]] = last[i[1]]
        BY <1>1, LaunchIsPair DEF IInv, TypeOK
      <4>3. i[1] = d => last'[i[1]] = last[d] + 1
        BY <1>1, LaunchIsPair DEF IInv, TypeOK
      <4> QED
        BY <3>2, <4>1, <4>2, <4>3
    <3>4. i[2] < last'[i[1]] => i[2] < last[i[1]] \/ (i = Last(d) /\ last[d] > 0)
      <4>1. i[1] # d => last'[i[1]] = last[i[1]]
        BY <1>1, LaunchIsPair DEF IInv, TypeOK
      <4>2. i[1] = d => last'[d] = last[d] + 1 /\ i[2] \in Nat /\ i[2] > 0
        BY <1>1, LaunchIsPair DEF IInv, TypeOK
      <4>3. i[1] = d /\ i[2] = last[d] => i = Last(d)
        BY NumberIsLast
      <4>4. CASE i[1] = d
        <5>1. last[d] \in Nat
          BY <1>1
        <5>2. ASSUME i[2] < last'[d] PROVE i[2] < last[d] \/ i[2] = last[d]
          BY <4>2, <4>4, <5>1, <5>2
        <5> QED
          BY <4>2, <4>3, <4>4, <5>2
      <4>5. CASE i[1] # d
        BY <4>1, <4>5
      <4> QED
        BY <4>4, <4>5
    <3>5. Fresh(i)'
      <4>1. i[2] > last'[i[1]] => i[2] > last[i[1]]
        BY <3>2
      <4> QED
        BY <2>1, <3>1, <4>1 DEF Fresh, Quieter
    <3>6. Reaped(i)'
      BY <1>2, <2>1, <3>1 DEF Reaped, Quieter, Relaunching
    <3>7. WithinBudget(i)'
      BY <2>1, <3>1 DEF WithinBudget, Quieter, Relaunching
    <3>8. InMap(i)'
      <4>1. (i[2] <= last[i[1]] => state[i] # "none")'
        BY <2>1, <3>1, <3>3 DEF InMap
      <4>2. (state[i] \in {"stopping", "stopped"} => shutdown.pc # "no")'
        BY <1>2, <2>1, <3>1 DEF InMap
      <4>3. (alive[i] /\ i[2] < last[i[1]] => i \in replaced)'
        BY <1>5, <2>1, <3>1, <3>4 DEF InMap
      <4> QED
        BY <4>1, <4>2, <4>3 DEF InMap
    <3> QED
      BY <3>5, <3>6, <3>7, <3>8
  <2> QED
    BY <2>2, <2>3
<1>8. ShutdownInv'
  <2>1. \A e \in Daemon : (last[e] > 0 => last'[e] > 0) /\ (pidFile'[e] > 0 => last'[e] > 0)
    BY <1>1, <1>2 DEF IInv, TypeOK, ShutdownInv
  <2> QED
    BY <1>2, <1>3, <2>1, SupervisorAssumption DEF IInv, ShutdownInv, TypeOK, Stopped
<1>10. ToStopInv'
  BY <1>2, <1>3 DEF ToStopInv, Stopped
<1>9. ChainInv'
  <2> SUFFICES ASSUME NEW e \in Daemon
               PROVE  (last[e] > 0 => calls[e] < plan[e])' /\ (plan[e] <= 1 => Chain(e))'
    BY DEF ChainInv
  <2>1. (last[e] > 0 => calls[e] < plan[e]) /\ (plan[e] <= 1 => Chain(e))
    BY DEF IInv, ChainInv
  <2>2. (last[e] > 0 => calls[e] < plan[e])'
    BY <1>1, <1>2, <2>1, PlanIsNat DEF FewerCalls, IInv, TypeOK
  <2>3. ASSUME e # d, Chain(e) PROVE Chain(e)'
    <3>1. last'[e] = last[e] /\ \A i \in Launch : i[1] = e => i # new
      BY <1>1, <2>3 DEF IInv, TypeOK
    <3>2. \A i \in Launch : i[1] = e =>
            /\ state'[i] = state[i] /\ restarts'[i] = restarts[i] /\ alive'[i] = alive[i]
            /\ pc'[i] = p[i]
      <4> SUFFICES ASSUME NEW i \in Launch, i # new
                   PROVE  /\ state'[i] = state[i] /\ restarts'[i] = restarts[i]
                          /\ alive'[i] = alive[i] /\ pc'[i] = p[i]
        BY <3>1
      <4> QED
        BY <1>1, <1>2 DEF IInv, TypeOK, Quieter
    <3>3. last[e] > 0 => /\ Last(e) \in Launch /\ Last(e)[1] = e /\ Last(e)' = Last(e)
                         /\ restarts'[Last(e)] = restarts[Last(e)] /\ state'[Last(e)] = state[Last(e)]
      BY <3>1, <3>2, LastIsLaunch DEF Last, IInv
    <3>4. \A i \in Launch, g \in Goroutine : i[1] = e /\ pc'[i][g] \in Relaunching
                                             => pc[i][g] \in Relaunching
      BY <3>2 DEF Quieter, Relaunching
    <3>5. /\ last'[e] <= 1 + MaxRestarts
          /\ last'[e] > 0 => /\ state'[Last(e)'] \in Monitored => restarts'[Last(e)'] = last'[e] - 1
                             /\ state'[Last(e)'] \in Ended => restarts'[Last(e)'] = last'[e]
      BY <2>3, <3>1, <3>3 DEF Chain
    <3>6. \A i \in Launch : i[1] = e =>
            /\ i[2] < last'[e] => /\ ~alive'[i] /\ state'[i] \in Noise
                                  /\ \A g \in Goroutine : pc'[i][g] \notin Relaunching
            /\ \A g, h \in Goroutine :
                   pc'[i][g] \in Relaunching /\ pc'[i][h] \in Relaunching => g = h
      BY <2>3, <3>1, <3>2, <3>4 DEF Chain
    <3> QED
      BY <3>5, <3>6 DEF Chain
  <2>4. ASSUME e = d, plan[d] <= 1, Chain(d) PROVE Chain(d)'
    <3>1. /\ last'[d] = last[d] + 1 /\ Last(d)' = new /\ last[d] \in Nat
          /\ state'[new] = "starting" /\ restarts'[new] = count /\ alive'[new] = TRUE
          /\ \A g \in Goroutine : pc'[new][g] \notin Relaunching
      BY <1>1, <1>2 DEF IInv, TypeOK, Quieter, Goroutine, Relaunching, Last, new
    <3>2. count = last[d] /\ last[d] <= MaxRestarts
      <4>1. CASE last[d] = 0
        BY <4>1, SupervisorAssumption DEF count, RestartCount, StateOf
      <4>2. CASE last[d] # 0
        BY <2>4, <4>2, <3>1 DEF count, RestartCount, StateOf, Chain, Ended
      <4> QED
        BY <4>1, <4>2
    <3>3. ASSUME NEW i \in Launch, i[1] = d, i # new
          PROVE  /\ i[2] < last'[d] =>
                       /\ ~alive'[i] /\ state'[i] \in Noise
                       /\ \A g \in Goroutine : pc'[i][g] \notin Relaunching
                 /\ \A g, h \in Goroutine :
                       pc'[i][g] \in Relaunching /\ pc'[i][h] \in Relaunching => g = h
      <4>1. state'[i] = state[i] /\ alive'[i] = alive[i] /\ pc'[i] = p[i]
        BY <1>1, <1>2, <3>3 DEF IInv, TypeOK, Quieter
      <4>2. i[2] < last'[d] => i[2] < last[d] \/ (i = Last(d) /\ last[d] > 0)
        <5>1. i[2] \in Nat /\ i[2] > 0
          BY LaunchIsPair
        <5>2. i[2] = last[d] => i = Last(d)
          BY <3>3, NumberIsLast
        <5> QED
          BY <3>1, <5>1, <5>2
      <4>3. CASE i = Last(d) /\ last[d] > 0
        <5>1. /\ state[i] = "restarting" /\ ~alive[i]
              /\ \A g \in Goroutine : p[i][g] \notin Relaunching
          BY <2>4, <4>3, <3>1 DEF IInv, RecordInv, Reaped, Ended
        <5> QED
          BY <5>1, <4>1 DEF Noise
      <4>4. CASE ~(i = Last(d) /\ last[d] > 0)
        BY <2>4, <3>3, <4>1, <4>2, <4>4 DEF Chain, Quieter, Relaunching
      <4> QED
        BY <4>3, <4>4
    <3>4. ASSUME NEW i \in Launch, i[1] = d, i = new
          PROVE  ~(i[2] < last'[d])
      BY <1>1, <3>1, <3>4
    <3> QED
      BY <3>1, <3>2, <3>3, <3>4, SupervisorAssumption DEF Chain, Monitored, Ended
  <2> QED
    BY <1>2, <2>1, <2>2, <2>3, <2>4
<1> QED
  BY <1>6, <1>7, <1>8, <1>9, <1>10 DEF IInv
-----------------------------------------------------------------------------
(* Steps that change the record and the goroutines of one launch.          *)

Rec(i) == Fresh(i) /\ Reaped(i) /\ WithinBudget(i) /\ InMap(i)

\* The part of Chain that speaks of one launch.
ChainRec(i) ==
    /\ i[2] = last[i[1]] => /\ state[i] \in Monitored => restarts[i] = i[2] - 1
                            /\ state[i] \in Ended => restarts[i] = i[2]
    /\ i[2] < last[i[1]] => /\ ~alive[i] /\ state[i] \in Noise
                            /\ \A g \in Goroutine : pc[i][g] \notin Relaunching
    /\ \A g, h \in Goroutine : pc[i][g] \in Relaunching /\ pc[i][h] \in Relaunching => g = h

\* What the chain of a daemon started once says of each of its launches.
LEMMA ChainOfRecords ==
    ASSUME IInv, NEW i \in Launch, plan[i[1]] <= 1
    PROVE  ChainRec(i)
<1>1. i[1] \in Daemon /\ Chain(i[1])
  BY LaunchIsPair DEF IInv, ChainInv
<1>2. i[2] = last[i[1]] => i = Last(i[1]) /\ last[i[1]] > 0
  BY LaunchIsPair, NumberIsLast
<1> QED
  BY <1>1, <1>2 DEF Chain, ChainRec

OthersUnchanged(i) ==
    \A j \in Launch : j # i =>
        /\ state'[j] = state[j] /\ restarts'[j] = restarts[j] /\ alive'[j] = alive[j]
        /\ done'[j] = done[j] /\ pc'[j] = pc[j]

\* A step of one launch keeps the invariant if what it leaves of that launch
\* is right: the parts that speak of others and of Shutdown do not see it.
LEMMA RecordStep ==
    ASSUME IInv, NEW i \in Launch, TypeOK', OthersUnchanged(i),
           UNCHANGED <<last, pidFile, plan, calls, shutdown, replaced>>,
           Rec(i)', done[i] => done'[i], state'[i] = state[i] \/ state'[i] \notin Stopping,
           plan[i[1]] <= 1 => ChainRec(i)'
    PROVE  IInv'
<1>1. RecordInv'
  <2> SUFFICES ASSUME NEW j \in Launch PROVE Rec(j)'
    BY DEF RecordInv, Rec
  <2>1. CASE j = i
    BY <2>1
  <2>2. CASE j # i
    <3>1. Rec(j)
      BY DEF IInv, RecordInv, Rec
    <3> QED
      BY <2>2, <3>1 DEF OthersUnchanged, Rec, Fresh, Reaped, WithinBudget, InMap
  <2> QED
    BY <2>1, <2>2
<1>2. ShutdownInv'
  <2>1. \A d \in Daemon : last[d] > 0 /\ done[Last(d)] => done'[Last(d)]
    BY LastIsLaunch DEF OthersUnchanged, IInv
  <2> QED
    BY <2>1 DEF IInv, ShutdownInv, Last
<1>4. ToStopInv'
  <2>1. \A d \in shutdown.todo : last[d] > 0 /\ Last(d) \in Launch
    BY LastIsLaunch DEF IInv, ShutdownInv, TypeOK
  <2> QED
    BY <2>1 DEF IInv, ToStopInv, OthersUnchanged, Last
<1>3. ChainInv'
  <2> SUFFICES ASSUME NEW d \in Daemon, plan[d] <= 1 PROVE Chain(d)'
    BY DEF IInv, ChainInv
  <2>1. Chain(d)
    BY DEF IInv, ChainInv
  <2>2. \A j \in Launch : j[1] = d => ChainRec(j)'
    <3> SUFFICES ASSUME NEW j \in Launch, j[1] = d PROVE ChainRec(j)'
      OBVIOUS
    <3>1. ChainRec(j)
      BY ChainOfRecords
    <3> QED
      BY <3>1 DEF ChainRec, OthersUnchanged
  <2>3. last[d] > 0 => Last(d) \in Launch /\ Last(d)[1] = d /\ Last(d)[2] = last[d]
    BY LastIsLaunch DEF IInv
  <2>4. (last[d] > 0 => /\ state[Last(d)] \in Monitored => restarts[Last(d)] = last[d] - 1
                        /\ state[Last(d)] \in Ended => restarts[Last(d)] = last[d])'
    BY <2>2, <2>3 DEF ChainRec, Last
  <2>5. (\A j \in Launch : j[1] = d =>
            /\ j[2] < last[d] => /\ ~alive[j] /\ state[j] \in Noise
                                 /\ \A g \in Goroutine : pc[j][g] \notin Relaunching
            /\ \A g, h \in Goroutine :
                   pc[j][g] \in Relaunching /\ pc[j][h] \in Relaunching => g = h)'
    BY <2>2 DEF ChainRec
  <2> QED
    BY <2>1, <2>4, <2>5 DEF Chain
<1> QED
  BY <1>1, <1>2, <1>3, <1>4 DEF IInv
\* What the invariant says of one launch.
LEMMA OfLaunch ==
    ASSUME IInv, NEW i \in Launch
    PROVE  /\ Rec(i) /\ (plan[i[1]] <= 1 => ChainRec(i))
           /\ state[i] \in Monitored \cup Noise \cup {"none"} /\ restarts[i] \in 0..(MaxRestarts + 1)
           /\ alive[i] \in BOOLEAN /\ done[i] \in BOOLEAN
           /\ \A g \in Goroutine : pc[i][g] \in PcValue
           /\ i[1] \in Daemon /\ i[2] \in Nat /\ last[i[1]] \in Nat
           /\ (state[i] # "none" \/ (\E g \in Goroutine : pc[i][g] # "none") => i[2] <= last[i[1]])
<1>1. Rec(i) /\ (plan[i[1]] <= 1 => ChainRec(i))
  BY ChainOfRecords DEF IInv, RecordInv, Rec
<1>2. i[1] \in Daemon /\ i[2] \in Nat /\ last[i[1]] \in Nat
  BY LaunchIsPair DEF IInv, TypeOK
<1>3. (state[i] # "none" \/ \E g \in Goroutine : pc[i][g] # "none") => i[2] <= last[i[1]]
  BY <1>1, <1>2 DEF Rec, Fresh
<1> QED
  BY <1>1, <1>2, <1>3 DEF IInv, TypeOK, PcValue

\* A process dies.
LEMMA DiesStep ==
    ASSUME IInv, NEW i \in Launch, Dies(i)
    PROVE  IInv'
<1>1. OthersUnchanged(i) /\ TypeOK'
  BY DEF Dies, MapUnchanged, OthersUnchanged, IInv, TypeOK
<1>2. /\ alive'[i] = FALSE
      /\ UNCHANGED <<last, state, restarts, done, pc, pidFile, plan, calls, shutdown, replaced>>
  BY DEF Dies, MapUnchanged, IInv, TypeOK
<1>3. Rec(i)'
  BY <1>2, OfLaunch DEF Rec, Fresh, Reaped, WithinBudget, InMap
<1>4. plan[i[1]] <= 1 => ChainRec(i)'
  BY <1>2, OfLaunch DEF ChainRec
<1> QED
  BY <1>1, <1>2, <1>3, <1>4, RecordStep DEF Stopping, Monitored

\* waitForExit reaps it, and goes on to report.
LEMMA ReapStep ==
    ASSUME IInv, NEW i \in Launch, Reap(i)
    PROVE  IInv'
<1>1. OthersUnchanged(i) /\ TypeOK'
  BY DEF Reap, Closed, Goes, MapUnchanged, OthersUnchanged, IInv, TypeOK, Goroutine
<1>2. /\ ~alive[i] /\ done'[i] = TRUE /\ pc[i]["wait"] = "waiting"
      /\ pc'[i]["wait"] = "reporting" /\ pc'[i]["monitor"] = pc[i]["monitor"]
      /\ UNCHANGED <<last, state, restarts, alive, pidFile, plan, calls, shutdown, replaced>>
  BY DEF Reap, Closed, Goes, MapUnchanged, IInv, TypeOK, Goroutine
<1>3. Rec(i)'
  BY <1>2, OfLaunch DEF Rec, Fresh, Reaped, WithinBudget, InMap, Goroutine, Relaunching
<1>4. plan[i[1]] <= 1 => ChainRec(i)'
  BY <1>2, OfLaunch DEF ChainRec, Goroutine, Relaunching
<1> QED
  BY <1>1, <1>2, <1>3, <1>4, RecordStep DEF Stopping, Monitored

\* A monitor ticks or probes: only its place and the state may change, and the
\* state stays on its side of Monitored.
LEMMA MonitorStepKeeps ==
    ASSUME IInv, NEW i \in Launch, MonitorStep(i)
    PROVE  IInv'
<1> DEFINE Keeps ==
    /\ OthersUnchanged(i)
    /\ UNCHANGED <<last, restarts, alive, done, pidFile, plan, calls, shutdown, replaced>>
    /\ pc'[i]["wait"] = pc[i]["wait"] /\ pc[i]["monitor"] # "none"
    /\ pc'[i]["monitor"] \in {"ticking", "probing"} \/ (pc'[i]["monitor"] = "reporting" /\ done[i])
    /\ state'[i] = state[i] \/ {state[i], state'[i]} \subseteq Monitored
    /\ TypeOK'
<1>1. Keeps
  <2>1. CASE Tick(i)
    <3>1. state' = state /\ UNCHANGED <<last, restarts, alive, done, pidFile, plan, calls, shutdown, replaced>>
      BY <2>1 DEF Tick, MonitorUnchanged, MapUnchanged
    <3>2. PICK to \in {"probing", "reporting"} : pc' = [pc EXCEPT ![i]["monitor"] = to]
                                              /\ (to = "reporting" => done[i])
      BY <2>1 DEF Tick, Goes
    <3>3. pc[i]["monitor"] = "ticking"
      BY <2>1 DEF Tick
    <3> QED
      BY <3>1, <3>2, <3>3 DEF OthersUnchanged, IInv, TypeOK, Goroutine
  <2>2. CASE ProbeEnds(i)
    <3>1. UNCHANGED <<last, restarts, alive, done, pidFile, plan, calls, shutdown, replaced>>
      BY <2>2 DEF ProbeEnds, MonitorUnchanged, MapUnchanged
    <3>2. pc' = [pc EXCEPT ![i]["monitor"] = "ticking"] /\ pc[i]["monitor"] = "probing"
      BY <2>2 DEF ProbeEnds, Goes
    <3>3. PICK s : state' = [state EXCEPT ![i] = s]
                   /\ (s = state[i] \/ {state[i], s} \subseteq Monitored)
      BY <2>2 DEF ProbeEnds, AfterProbe, Monitored, IInv, TypeOK
    <3>4. s \in Monitored \cup Noise \cup {"none"}
      BY <3>3 DEF IInv, TypeOK
    <3>5. OthersUnchanged(i) /\ TypeOK'
      BY <3>1, <3>2, <3>3, <3>4 DEF OthersUnchanged, IInv, TypeOK, Goroutine
    <3>6. state'[i] = s /\ pc'[i]["wait"] = pc[i]["wait"] /\ pc'[i]["monitor"] = "ticking"
      BY <3>2, <3>3 DEF IInv, TypeOK, Goroutine
    <3> QED
      BY <3>1, <3>2, <3>3, <3>5, <3>6
  <2> QED
    BY <2>1, <2>2 DEF MonitorStep
<1>3. Rec(i)'
  BY <1>1, OfLaunch DEF Rec, Fresh, Reaped, WithinBudget, InMap, Goroutine, Relaunching, Monitored, Noise,
     Ended
<1>4. plan[i[1]] <= 1 => ChainRec(i)'
  BY <1>1, OfLaunch DEF ChainRec, Goroutine, Relaunching, Monitored, Noise, Ended
<1> QED
  BY <1>1, <1>3, <1>4, RecordStep DEF Stopping, Monitored
-----------------------------------------------------------------------------
(* handleDaemonFailure.                                                    *)

\* A goroutine that has nothing more to do leaves everything as it is.
LEMMA AfterStep ==
    ASSUME IInv, NEW i \in Launch, NEW g \in Goroutine, pc[i][g] # "none",
           pc' = [pc EXCEPT ![i][g] = After(g)],
           UNCHANGED <<last, state, restarts, alive, done, pidFile, plan, calls, shutdown, replaced>>
    PROVE  IInv'
<1>1. Quieter(pc')
  BY AfterIsQuieter DEF IInv
<1>2. FewerCalls
  BY DEF FewerCalls, IInv, TypeOK
<1> QED
  BY <1>1, <1>2, QuietStep

\* handleDaemonFailure: the first report counts, the others are noise.
LEMMA HandleFailureStep ==
    ASSUME IInv, NEW i \in Launch, NEW g \in Goroutine, HandleFailure(i, g)
    PROVE  IInv'
<1>1. /\ pc[i][g] = "reporting"
      /\ UNCHANGED <<last, alive, done, pidFile, plan, calls, shutdown, replaced>>
  BY DEF HandleFailure, MapUnchanged
<1>2. CASE state[i] \in Noise
  BY <1>1, <1>2, AfterStep DEF HandleFailure, Goes
<1>3. CASE state[i] \notin Noise
  <2> DEFINE to == IF restarts[i] + 1 > MaxRestarts THEN After(g) ELSE "backoff"
  <2>1. /\ restarts' = [restarts EXCEPT ![i] = restarts[i] + 1]
        /\ state' = [state EXCEPT ![i] = "failed"]
        /\ pc' = [pc EXCEPT ![i][g] = to]
    BY <1>3 DEF HandleFailure, Goes, IInv, TypeOK
  <2>2. /\ to \in {"over", "ticking", "backoff"} /\ (to = "backoff" => restarts[i] + 1 <= MaxRestarts)
    BY SupervisorAssumption, OfLaunch DEF After
  <2> HIDE DEF to
  <2>3. done[i] /\ ~alive[i] /\ i[2] <= last[i[1]] /\ state[i] \in Monitored
    BY <1>1, <1>3, OfLaunch DEF Rec, Reaped, InMap
  <2>4. restarts[i] \in 0..MaxRestarts
    BY <2>3, OfLaunch, SupervisorAssumption DEF Rec, WithinBudget
  <2>5. \A h \in Goroutine : pc[i][h] \notin Relaunching
    BY <2>3, OfLaunch DEF Rec, WithinBudget, Noise, Monitored
  <2>6. OthersUnchanged(i)
    BY <1>1, <2>1 DEF OthersUnchanged, IInv, TypeOK
  <2>7. TypeOK'
    BY <1>1, <2>1, <2>2, <2>4, SupervisorAssumption DEF IInv, TypeOK, Noise
  <2>8. /\ state'[i] = "failed" /\ restarts'[i] = restarts[i] + 1
        /\ pc'[i][g] = to /\ \A h \in Goroutine : h # g => pc'[i][h] = pc[i][h]
    BY <2>1 DEF IInv, TypeOK
  <2>9. Rec(i)'
    BY <1>1, <2>2, <2>3, <2>4, <2>5, <2>8, OfLaunch DEF Rec, Fresh, Reaped, WithinBudget, InMap, Relaunching,
       Monitored, Noise
  <2>10. plan[i[1]] <= 1 => ChainRec(i)'
    BY <1>1, <2>2, <2>3, <2>4, <2>5, <2>8, OfLaunch DEF ChainRec, Relaunching, Monitored, Noise, Ended
  <2> QED
    BY <1>1, <2>6, <2>7, <2>8, <2>9, <2>10, RecordStep DEF Stopping
<1> QED
  BY <1>2, <1>3

\* The backoff ends, or is cut short by Shutdown.
LEMMA BackoffStep ==
    ASSUME IInv, NEW i \in Launch, NEW g \in Goroutine, BackoffCut(i, g) \/ BackoffEnds(i, g)
    PROVE  IInv'
<1>1. /\ pc[i][g] = "backoff"
      /\ UNCHANGED <<last, restarts, alive, done, pidFile, plan, calls, shutdown, replaced>>
  BY DEF BackoffCut, BackoffEnds, MonitorUnchanged, MapUnchanged
<1>2. CASE state' = state /\ pc' = [pc EXCEPT ![i][g] = After(g)]
  BY <1>1, <1>2, AfterStep
<1>3. CASE /\ state[i] \notin {"stopping", "stopped"}
           /\ state' = [state EXCEPT ![i] = "restarting"] /\ pc' = [pc EXCEPT ![i][g] = "launching"]
  <2>1. done[i] /\ ~alive[i] /\ i[2] <= last[i[1]] /\ restarts[i] <= MaxRestarts
    BY <1>1, OfLaunch DEF Rec, Reaped, WithinBudget, Relaunching
  <2>2. state[i] \in Ended
    BY <1>1, <1>3, OfLaunch DEF Rec, WithinBudget, Relaunching, Noise, Ended
  <2>3. OthersUnchanged(i) /\ TypeOK'
    BY <1>1, <1>3 DEF OthersUnchanged, IInv, TypeOK, Noise
  <2>4. /\ state'[i] = "restarting"
        /\ pc'[i][g] = "launching" /\ \A h \in Goroutine : h # g => pc'[i][h] = pc[i][h]
    BY <1>3 DEF IInv, TypeOK
  <2>5. Rec(i)'
    BY <1>1, <2>1, <2>2, <2>4, OfLaunch DEF Rec, Fresh, Reaped, WithinBudget, InMap, Relaunching,
       Monitored, Noise, Ended
  <2>6. plan[i[1]] <= 1 => ChainRec(i)'
    BY <1>1, <2>1, <2>2, <2>4, OfLaunch DEF ChainRec, Relaunching, Monitored, Noise, Ended
  <2> QED
    BY <1>1, <2>1, <2>3, <2>4, <2>5, <2>6, RecordStep DEF Stopping
<1> QED
  BY <1>2, <1>3 DEF BackoffCut, BackoffEnds, Goes

-----------------------------------------------------------------------------
(* Start, by the program or by a goroutine.                                *)

\* The program calls Start.
LEMMA StartStep ==
    ASSUME IInv, NEW d \in Daemon, Start(d)
    PROVE  IInv'
<1>1. calls[d] > 0 /\ calls' = [calls EXCEPT ![d] = calls[d] - 1] /\ plan' = plan
  BY DEF Start, Launches, Refuses
<1>2. FewerCalls /\ calls'[d] < plan[d]
  BY <1>1, PlanIsNat DEF FewerCalls, IInv, TypeOK
<1>3. Quieter(pc)
  BY DEF Quieter, IInv, TypeOK, PcValue
<1>4. CASE Refuses(pc)
  BY <1>2, <1>3, <1>4, QuietStep DEF Refuses
<1>5. CASE Accepts(d) /\ Launches(d, pc)
  <2>1. plan[d] <= 1 => last[d] = 0
    BY <1>1, PlanIsNat DEF IInv, ChainInv, TypeOK
  <2> QED
    BY <1>2, <1>3, <1>5, <2>1, LaunchStep
<1> QED
  BY <1>4, <1>5 DEF Start

\* A failure handler calls Start.
LEMMA RestartStep ==
    ASSUME IInv, NEW i \in Launch, NEW g \in Goroutine, Restart(i, g)
    PROVE  IInv'
<1> DEFINE p == [pc EXCEPT ![i][g] = After(g)]
           d == i[1]
<1>1. pc[i][g] = "launching" /\ calls' = calls /\ d \in Daemon
  BY LaunchIsPair DEF Restart
<1>2. Quieter(p)
  BY <1>1, AfterIsQuieter DEF IInv
<1>3. CASE Refuses(p)
  BY <1>1, <1>3, AfterStep DEF Refuses
<1>4. CASE Accepts(d) /\ Launches(d, p)
  <2>1. FewerCalls
    BY <1>1, <1>4 DEF FewerCalls, Launches, IInv, TypeOK
  <2>2. i[2] <= last[d] /\ last[d] > 0
    BY <1>1, OfLaunch, LaunchIsPair
  <2>3. calls'[d] < plan[d]
    BY <1>1, <2>2 DEF IInv, ChainInv
  <2>4. ASSUME plan[d] <= 1
        PROVE  /\ state[Last(d)] = "restarting" /\ restarts[Last(d)] <= MaxRestarts
               /\ \A h \in Goroutine : p[Last(d)][h] \notin Relaunching
    <3>1. ChainRec(i) /\ Rec(i)
      BY <2>4, OfLaunch
    <3>2. i = Last(d)
      BY <1>1, <2>2, <3>1, OfLaunch, NumberIsLast DEF ChainRec, Relaunching
    <3>3. state[i] = "restarting" /\ restarts[i] <= MaxRestarts
      BY <1>1, <1>4, <3>1 DEF Rec, WithinBudget, InMap, Relaunching, Noise, Accepts, Stopped
    <3>4. \A h \in Goroutine : h # g => pc[i][h] \notin Relaunching
      BY <1>1, <3>1 DEF ChainRec, Relaunching
    <3>5. \A h \in Goroutine : p[i][h] = IF h = g THEN After(g) ELSE pc[i][h]
      BY DEF IInv, TypeOK
    <3>6. After(g) \notin Relaunching
      BY DEF After, Relaunching
    <3> QED
      BY <3>2, <3>3, <3>4, <3>5, <3>6
  <2> QED
    BY <1>1, <1>2, <1>4, <2>1, <2>3, <2>4, LaunchStep
<1> QED
  BY <1>3, <1>4 DEF Restart
-----------------------------------------------------------------------------
(* Shutdown.                                                               *)

\* Records may be marked, and processes may die; nothing else happens to a launch.
LEMMA MarkedRecords ==
    ASSUME IInv, shutdown'.pc # "no",
           UNCHANGED <<restarts, done, pc, last, plan, calls, replaced>>,
           \A i \in Launch :
               /\ state'[i] = state[i] \/ (state'[i] \in {"stopping", "stopped"} /\ state[i] # "none")
               /\ alive'[i] = alive[i] \/ alive'[i] = FALSE
    PROVE  RecordInv' /\ ChainInv'
<1>1. RecordInv'
  <2> SUFFICES ASSUME NEW i \in Launch PROVE Rec(i)'
    BY DEF RecordInv, Rec
  <2>1. Rec(i) /\ i[2] \in Nat /\ last[i[1]] \in Nat /\ (state[i] # "none" => i[2] <= last[i[1]])
    BY OfLaunch
  <2>2. CASE state'[i] = state[i]
    BY <2>1, <2>2 DEF Rec, Fresh, Reaped, WithinBudget, InMap
  <2>3. CASE state'[i] \in {"stopping", "stopped"} /\ state[i] # "none"
    BY <2>1, <2>3 DEF Rec, Fresh, Reaped, WithinBudget, InMap, Monitored, Ended, Noise, Relaunching
  <2> QED
    BY <2>2, <2>3
<1>2. ChainInv'
  <2> SUFFICES ASSUME NEW d \in Daemon, plan[d] <= 1 PROVE Chain(d)'
    BY DEF IInv, ChainInv
  <2>1. Chain(d)
    BY DEF IInv, ChainInv
  <2>2. last[d] > 0 => Last(d) \in Launch
    BY LastIsLaunch DEF IInv
  <2>3. (last[d] > 0 => /\ state[Last(d)] \in Monitored => restarts[Last(d)] = last[d] - 1
                        /\ state[Last(d)] \in Ended => restarts[Last(d)] = last[d])'
    BY <2>1, <2>2 DEF Chain, Last, Monitored, Ended
  <2>4. (\A i \in Launch : i[1] = d =>
            /\ i[2] < last[d] => /\ ~alive[i] /\ state[i] \in Noise
                                 /\ \A g \in Goroutine : pc[i][g] \notin Relaunching
            /\ \A g, h \in Goroutine :
                   pc[i][g] \in Relaunching /\ pc[i][h] \in Relaunching => g = h)'
    BY <2>1 DEF Chain, Noise
  <2> QED
    BY <2>1, <2>3, <2>4 DEF Chain
<1> QED
  BY <1>1, <1>2

\* Shutdown copies the map: every daemon in it is still to be stopped.
LEMMA ShutdownBegins ==
    ASSUME IInv, Shutdown
    PROVE  IInv'
<1>1. /\ shutdown' = [pc |-> "stopping", todo |-> {d \in Daemon : last[d] > 0}, cur |-> NoDaemon]
      /\ UNCHANGED <<state, alive, pidFile, restarts, done, pc, last, plan, calls, replaced>>
  BY DEF Shutdown, ShutdownUnchanged
<1>2. TypeOK'
  BY <1>1 DEF IInv, TypeOK
<1>3. RecordInv' /\ ChainInv'
  BY <1>1, MarkedRecords
<1>4. ShutdownInv'
  BY <1>1 DEF IInv, ShutdownInv
<1>5. ToStopInv'
  <2>1. shutdown.pc = "no"
    BY DEF Shutdown
  <2>2. \A d \in Daemon : last[d] > 0 => state[Last(d)] \notin Stopping
    BY <2>1, LastIsLaunch DEF IInv, RecordInv, InMap, Stopping
  <2> QED
    BY <1>1, <2>2, SupervisorAssumption DEF ToStopInv, Last
<1> QED
  BY <1>2, <1>3, <1>4, <1>5 DEF IInv

\* stopDaemon marks the record of one of them.
LEMMA StopDaemonStep ==
    ASSUME IInv, NEW d \in Daemon, StopDaemon(d)
    PROVE  IInv'
<1>1. /\ shutdown' = [pc |-> "terminating", todo |-> shutdown.todo \ {d}, cur |-> d]
      /\ shutdown.pc = "stopping" /\ shutdown.cur = NoDaemon /\ d \in shutdown.todo
      /\ state' = [state EXCEPT ![Last(d)] = "stopping"]
      /\ UNCHANGED <<alive, pidFile, restarts, done, pc, last, plan, calls, replaced>>
  BY DEF StopDaemon, ShutdownUnchanged
<1>2. last[d] > 0 /\ d # NoDaemon
  BY <1>1, SupervisorAssumption DEF IInv, ShutdownInv
<1>3. Last(d) \in Launch /\ state[Last(d)] # "none"
  BY <1>2, LastIsLaunch, OfLaunch DEF Rec, InMap, IInv, TypeOK
<1>4. TypeOK'
  BY <1>1, <1>3 DEF IInv, TypeOK, Noise
<1>5. RecordInv' /\ ChainInv'
  BY <1>1, <1>3, MarkedRecords DEF IInv, TypeOK
<1>6. ShutdownInv'
  <2>1. /\ shutdown'.pc = "terminating" /\ shutdown'.cur = d
        /\ shutdown'.todo = shutdown.todo \ {d}
    BY <1>1
  <2>2. \A e \in Daemon :
          /\ pidFile[e] > 0 => last[e] > 0
          /\ last[e] > 0 => e \in shutdown.todo \/ (done[Last(e)] /\ pidFile[e] = 0)
    BY <1>1, SupervisorAssumption DEF IInv, ShutdownInv
  <2>3. \A e \in shutdown.todo : last[e] > 0
    BY DEF IInv, ShutdownInv
  <2>4. UNCHANGED <<last, pidFile, done>>
    BY <1>1
  <2> QED
    BY <1>2, <2>1, <2>2, <2>3, <2>4 DEF ShutdownInv, Last
<1>7. ToStopInv'
  <2>1. ASSUME NEW e \in shutdown.todo \ {d}
        PROVE  state'[Last(e)] = state[Last(e)] /\ Last(e)' = Last(e)
    BY <1>1 DEF IInv, TypeOK, Last
  <2> QED
    BY <1>1, <2>1 DEF IInv, ToStopInv
<1> QED
  BY <1>4, <1>5, <1>6, <1>7 DEF IInv

\* SIGKILL changes nothing but that the process is dead.
LEMMA ForceKillStep ==
    ASSUME IInv, ForceKill
    PROVE  IInv'
<1>1. /\ shutdown' = [shutdown EXCEPT !.pc = "killed"] /\ shutdown.pc = "terminating"
      /\ alive' = [alive EXCEPT ![Last(shutdown.cur)] = FALSE]
      /\ UNCHANGED <<state, pidFile, restarts, done, pc, last, plan, calls, replaced>>
  BY DEF ForceKill, ShutdownUnchanged
<1>2. TypeOK'
  BY <1>1 DEF IInv, TypeOK
<1>3. shutdown'.pc = "killed" /\ shutdown'.todo = shutdown.todo /\ shutdown'.cur = shutdown.cur
  BY <1>1 DEF IInv, TypeOK
<1>4. RecordInv' /\ ChainInv'
  BY <1>1, <1>3, MarkedRecords DEF IInv, TypeOK
<1>5. ShutdownInv' /\ ToStopInv'
  BY <1>1, <1>3 DEF IInv, ShutdownInv, ToStopInv, Last
<1> QED
  BY <1>2, <1>4, <1>5 DEF IInv

\* The exit was seen: the PID file goes, and the daemon is dealt with.
LEMMA DaemonStoppedStep ==
    ASSUME IInv, DaemonStopped
    PROVE  IInv'
<1> DEFINE d == shutdown.cur
<1>1. /\ shutdown' = [shutdown EXCEPT !.pc = "stopping", !.cur = NoDaemon]
      /\ shutdown.pc \in {"terminating", "killed"} /\ done[Last(d)]
      /\ pidFile' = [pidFile EXCEPT ![d] = 0]
      /\ state' = [state EXCEPT ![Last(d)] = "stopped"]
      /\ UNCHANGED <<alive, restarts, done, pc, last, plan, calls, replaced>>
  BY DEF DaemonStopped, ShutdownUnchanged
<1>2. d \in Daemon /\ last[d] > 0
  BY <1>1, SupervisorAssumption DEF IInv, ShutdownInv, TypeOK
<1>3. Last(d) \in Launch /\ state[Last(d)] # "none"
  BY <1>2, LastIsLaunch, OfLaunch DEF Rec, InMap, IInv, TypeOK
<1>4. shutdown'.pc = "stopping" /\ shutdown'.todo = shutdown.todo /\ shutdown'.cur = NoDaemon
  BY <1>1 DEF IInv, TypeOK
<1>5. TypeOK'
  <2>1. /\ state' \in [Launch -> Monitored \cup Noise \cup {"none"}]
        /\ pidFile' \in [Daemon -> 0..MaxLaunches]
    BY <1>1, <1>2, <1>3, SupervisorAssumption DEF IInv, TypeOK, Noise
  <2>2. shutdown' \in [pc   : {"no", "stopping", "terminating", "killed", "returned"},
                       todo : SUBSET Daemon, cur : Daemon \cup {NoDaemon}]
    BY <1>1 DEF IInv, TypeOK
  <2> QED
    BY <1>1, <2>1, <2>2 DEF IInv, TypeOK
<1>6. RecordInv' /\ ChainInv'
  BY <1>1, <1>3, <1>4, MarkedRecords DEF IInv, TypeOK
<1>7. ShutdownInv'
  <2>1. pidFile'[d] = 0 /\ \A e \in Daemon : e # d => pidFile'[e] = pidFile[e]
    BY <1>1, <1>2 DEF IInv, TypeOK
  <2> QED
    BY <1>1, <1>2, <1>4, <2>1 DEF IInv, ShutdownInv, Last
<1>8. ToStopInv'
  <2>1. d \notin shutdown.todo /\ NoDaemon \notin shutdown.todo
    BY <1>1, SupervisorAssumption DEF IInv, ToStopInv, TypeOK
  <2>2. ASSUME NEW e \in shutdown.todo
        PROVE  state'[Last(e)] = state[Last(e)] /\ Last(e)' = Last(e)
    BY <1>1, <2>1 DEF IInv, TypeOK, Last
  <2> QED
    BY <1>1, <1>4, <2>1, <2>2 DEF IInv, ToStopInv
<1> QED
  BY <1>5, <1>6, <1>7, <1>8 DEF IInv

\* Nothing is left to stop.
LEMMA ShutdownReturnsStep ==
    ASSUME IInv, ShutdownReturns
    PROVE  IInv'
<1>1. /\ shutdown' = [shutdown EXCEPT !.pc = "returned"]
      /\ shutdown.pc = "stopping" /\ shutdown.cur = NoDaemon /\ shutdown.todo = {}
      /\ UNCHANGED <<state, alive, pidFile, restarts, done, pc, last, plan, calls, replaced>>
  BY DEF ShutdownReturns, ShutdownUnchanged
<1>2. TypeOK'
  BY <1>1 DEF IInv, TypeOK
<1>3. shutdown'.pc = "returned" /\ shutdown'.todo = {} /\ shutdown'.cur = NoDaemon
  BY <1>1 DEF IInv, TypeOK
<1>4. RecordInv' /\ ChainInv'
  BY <1>1, <1>3, MarkedRecords
<1>5. ShutdownInv' /\ ToStopInv'
  BY <1>1, <1>3 DEF IInv, ShutdownInv, ToStopInv, Last
<1> QED
  BY <1>2, <1>4, <1>5 DEF IInv

-----------------------------------------------------------------------------
(* The theorems.                                                           *)

\* Every step keeps the invariant.
LEMMA NextKeepsInvariant == IInv /\ [Next]_vars => IInv'
<1> SUFFICES ASSUME IInv, [Next]_vars PROVE IInv'
  OBVIOUS
<1>1. ASSUME NEW d \in Daemon, Start(d) PROVE IInv'
  BY <1>1, StartStep
<1>2. ASSUME NEW i \in Launch, Dies(i) \/ Reap(i) \/ MonitorStep(i) PROVE IInv'
  BY <1>2, DiesStep, ReapStep, MonitorStepKeeps
<1>3. ASSUME NEW i \in Launch, NEW g \in Goroutine, FailureStep(i, g) PROVE IInv'
  BY <1>3, HandleFailureStep, BackoffStep, RestartStep DEF FailureStep
<1>4. CASE Shutdown \/ ShutdownStep
  BY <1>4, ShutdownBegins, StopDaemonStep, ForceKillStep, DaemonStoppedStep, ShutdownReturnsStep
     DEF ShutdownStep
<1>5. CASE UNCHANGED vars
  <2>1. Quieter(pc') /\ FewerCalls
    BY <1>5 DEF vars, Quieter, FewerCalls, IInv, TypeOK, PcValue
  <2> QED
    BY <1>5, <2>1, QuietStep DEF vars
<1> QED
  BY <1>1, <1>2, <1>3, <1>4, <1>5 DEF Next

(* The inductive invariant: what the goroutines of each launch may still do, *)
(* which daemons Shutdown has dealt with, and how launches follow each other. *)
THEOREM LaunchesInvariant == Spec => []IInv
<1>1. Init => IInv
  BY InitInvariant
<1>2. IInv /\ [Next]_vars => IInv'
  BY NextKeepsInvariant
<1> QED
  BY <1>1, <1>2, PTL DEF Spec

(* Types, and no count of restarts beyond the budget and one.                *)
THEOREM SupervisorTypes == Spec => []TypeOK
<1>1. IInv => TypeOK
  BY DEF IInv
<1> QED
  BY <1>1, LaunchesInvariant, PTL

(* When Shutdown has returned no process is left but those that a call of    *)
(* Start pushed out of the map, for any number of daemons and launches.      *)
THEOREM NothingOutlives == Spec => []NothingOutlivesShutdown
<1>1. IInv => NothingOutlivesShutdown
  <2> SUFFICES ASSUME IInv, shutdown.pc = "returned"
               PROVE  /\ \A i \in Launch : alive[i] => i \in replaced
                      /\ \A d \in Daemon : pidFile[d] = 0
    BY DEF NothingOutlivesShutdown
  <2>1. shutdown.todo = {} /\ shutdown.cur = NoDaemon
    BY DEF IInv, ShutdownInv
  <2>2. \A d \in Daemon : last[d] > 0 => done[Last(d)] /\ pidFile[d] = 0
    BY <2>1, SupervisorAssumption DEF IInv, ShutdownInv
  <2>3. ASSUME NEW d \in Daemon PROVE pidFile[d] = 0
    BY <2>2 DEF IInv, ShutdownInv, TypeOK
  <2>4. ASSUME NEW i \in Launch, alive[i] PROVE i \in replaced
    <3>1. Rec(i) /\ i[1] \in Daemon /\ i[2] \in Nat /\ i[2] > 0 /\ last[i[1]] \in Nat
      BY OfLaunch, LaunchIsPair
    <3>2. i[2] <= last[i[1]]
      BY <2>4, <3>1 DEF Rec, Fresh
    <3>3. i[2] # last[i[1]]
      BY <2>2, <2>4, <3>1, NumberIsLast DEF Rec, Reaped
    <3> QED
      BY <2>4, <3>1, <3>2, <3>3 DEF Rec, InMap
  <2> QED
    BY <2>3, <2>4
<1> QED
  BY <1>1, LaunchesInvariant, PTL

(* A daemon that is started once is launched MaxRestarts times more at most, *)
(* and never while its previous process lives.                               *)
THEOREM BoundedRestarts == Spec => []RestartsAreBounded
<1>1. IInv => RestartsAreBounded
  <2> SUFFICES ASSUME IInv, NEW d \in Daemon, plan[d] <= 1
               PROVE  /\ last[d] <= 1 + MaxRestarts
                      /\ \A n \in 1..last[d] : alive[<<d, n>>] => n = last[d]
    BY DEF RestartsAreBounded
  <2>1. Chain(d) /\ last[d] \in 0..MaxLaunches
    BY DEF IInv, ChainInv, TypeOK
  <2>2. ASSUME NEW n \in 1..last[d], n # last[d] PROVE ~alive[<<d, n>>]
    <3>1. <<d, n>> \in Launch /\ n < last[d]
      BY <2>1, <2>2, SupervisorAssumption DEF Launch
    <3> QED
      BY <2>1, <3>1 DEF Chain
  <2> QED
    BY <2>1, <2>2 DEF Chain
<1> QED
  BY <1>1, LaunchesInvariant, PTL

(* A record that failed or was stopped is never in use again, whatever its   *)
(* goroutines have read before.                                              *)
THEOREM NoRevival == Spec => RecordsDoNotRevive
<1>1. IInv /\ [Next]_vars => [\A i \in Launch : Rank(state'[i]) >= Rank(state[i])]_vars
  <2> SUFFICES ASSUME IInv, Next, NEW i \in Launch
               PROVE  Rank(state'[i]) >= Rank(state[i])
    OBVIOUS
  <2>1. Rank(state[i]) \in Nat
    BY DEF Rank
  <2>2. CASE state'[i] = state[i]
    BY <2>1, <2>2
  <2>3. CASE state'[i] # state[i]
    <3>1. ASSUME NEW d \in Daemon, NEW p, Accepts(d), Launches(d, p)
          PROVE  state[i] = "none"
      <4>1. state' = [state EXCEPT ![<<d, last[d] + 1>>] = "starting"] /\ last[d] \in Nat
        BY <3>1 DEF Launches, IInv, TypeOK
      <4>2. i = <<d, last[d] + 1>>
        BY <2>3, <4>1 DEF IInv, TypeOK
      <4> QED
        BY <4>1, <4>2, OfLaunch
    <3>2. ASSUME NEW j \in Launch, MonitorStep(j)
          PROVE  state[i] \in Monitored /\ state'[i] \in Monitored
      BY <2>3, <3>2 DEF MonitorStep, Tick, ProbeEnds, AfterProbe, Monitored, IInv, TypeOK
    <3>3. ASSUME NEW j \in Launch, NEW g \in Goroutine, HandleFailure(j, g)
          PROVE  state[i] \notin Noise /\ state'[i] = "failed"
      BY <2>3, <3>3 DEF HandleFailure, IInv, TypeOK
    <3>4. ASSUME NEW j \in Launch, NEW g \in Goroutine, BackoffCut(j, g) \/ BackoffEnds(j, g)
          PROVE  state[i] \notin {"stopping", "stopped"} /\ state'[i] = "restarting"
      BY <2>3, <3>4 DEF BackoffCut, BackoffEnds, MonitorUnchanged, IInv, TypeOK
    <3>5. ASSUME NEW d \in Daemon, StopDaemon(d)
          PROVE  state[i] # "stopped" /\ state'[i] = "stopping"
      <4>1. state' = [state EXCEPT ![Last(d)] = "stopping"]
        BY <3>5 DEF StopDaemon
      <4>2. state'[i] = "stopping" /\ i = Last(d)
        BY <2>3, <4>1 DEF IInv, TypeOK
      <4>3. state[Last(d)] \notin Stopping
        BY <3>5 DEF StopDaemon, IInv, ToStopInv
      <4> QED
        BY <4>2, <4>3 DEF Stopping
    <3>6. ASSUME DaemonStopped
          PROVE  state'[i] = "stopped"
      BY <2>3, <3>6 DEF DaemonStopped, IInv, TypeOK
    <3>7. /\ \A d \in Daemon : Start(d) => Accepts(d) /\ Launches(d, pc)
          /\ \A j \in Launch, g \in Goroutine :
                 Restart(j, g) => j[1] \in Daemon /\ \E p : Accepts(j[1]) /\ Launches(j[1], p)
      BY <2>3, LaunchIsPair DEF Start, Restart, Refuses
    <3>8. CASE state[i] = "none"
      <4>1. Rank(state'[i]) \in Nat /\ Rank(state[i]) = 0
        BY <3>8 DEF Rank, Monitored
      <4> QED
        BY <4>1
    <3>9. CASE \E j \in Launch : MonitorStep(j)
      BY <3>2, <3>9 DEF Rank
    <3>10. CASE \E j \in Launch, g \in Goroutine : HandleFailure(j, g)
      <4>1. state[i] \in Monitored \cup {"none"} /\ state'[i] = "failed"
        BY <3>3, <3>10 DEF IInv, TypeOK
      <4> QED
        BY <4>1 DEF Rank, Monitored
    <3>11. CASE \E j \in Launch, g \in Goroutine : BackoffCut(j, g) \/ BackoffEnds(j, g)
      <4>1. /\ state[i] \in Monitored \cup {"none", "failed", "restarting"}
            /\ state'[i] = "restarting"
        BY <3>4, <3>11 DEF IInv, TypeOK, Noise
      <4> QED
        BY <4>1 DEF Rank, Monitored
    <3>12. CASE \E d \in Daemon : StopDaemon(d)
      <4>1. /\ state[i] \in Monitored \cup {"none", "failed", "restarting", "stopping"}
            /\ state'[i] = "stopping"
        BY <3>5, <3>12 DEF IInv, TypeOK, Noise
      <4> QED
        BY <4>1 DEF Rank, Monitored
    <3>13. CASE DaemonStopped
      <4>1. state[i] \in Monitored \cup Noise \cup {"none"} /\ state'[i] = "stopped"
        BY <3>6, <3>13 DEF IInv, TypeOK
      <4> QED
        BY <4>1 DEF Rank, Monitored, Noise
    <3>14. \/ state[i] = "none"
           \/ \E j \in Launch : MonitorStep(j)
           \/ \E j \in Launch, g \in Goroutine :
                 HandleFailure(j, g) \/ BackoffCut(j, g) \/ BackoffEnds(j, g)
           \/ (\E d \in Daemon : StopDaemon(d)) \/ DaemonStopped
      <4>1. CASE \E d \in Daemon : Start(d)
        BY <3>1, <3>7, <4>1
      <4>2. CASE \E j \in Launch : Dies(j) \/ Reap(j) \/ MonitorStep(j)
        BY <2>3, <4>2 DEF Dies, Reap
      <4>3. CASE \E j \in Launch, g \in Goroutine : FailureStep(j, g)
        BY <3>1, <3>7, <4>3 DEF FailureStep
      <4>4. CASE Shutdown \/ ShutdownStep
        BY <2>3, <4>4 DEF Shutdown, ShutdownStep, ForceKill, ShutdownReturns
      <4> QED
        BY <4>1, <4>2, <4>3, <4>4 DEF Next
    <3> QED
      BY <3>8, <3>9, <3>10, <3>11, <3>12, <3>13, <3>14
  <2> QED
    BY <2>2, <2>3
<1> QED
  BY <1>1, LaunchesInvariant, PTL DEF Spec, RecordsDoNotRevive
=================================================================================
