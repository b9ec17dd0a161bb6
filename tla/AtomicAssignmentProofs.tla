------------------------- MODULE AtomicAssignmentProofs -------------------------
(***************************************************************************)
(* Proofs about AtomicAssignment, for any number of beads, panes,          *)
(* processes and attempts.  A step of Execute or of a cleanup trusts what  *)
(* an earlier step of the same process saw or wrote; the invariant says    *)
(* what that is at each step (LockInv to PaneInv, one process each), what  *)
(* the durable row of a bead promises of the tracker, of Agent Mail        *)
(* and of the panes (RowInv, TrackerInv, AttemptInv), and that no two      *)
(* rows share an attempt.                                                  *)
(***************************************************************************)
EXTENDS AtomicAssignment, TLAPS

Locked(p) == pc[p] \notin {"idle", "lock"}

PaneLocked(p) == Locked(p) /\ pc[p] # "admit" /\ job[p].kind \in ExecuteKind

NewKind == {"assign", "replace"}

\* Before its intent is written a new attempt is known to its process only.
Early(p) ==
    /\ pc[p] \in {"lock", "admit", "authorize", "intent", "begin", "release", "releaseDone"}
    /\ job[p].kind \in NewKind

Reserving == {"reserve", "reserveCall", "reserveDone"}
Sending == {"dispatchCall", "dispatchDone"}
Dispatching == {"dispatch"} \cup Sending
Executing == {"claim", "claimCall", "claimDone"} \cup Reserving \cup Dispatching
Releasing == {"release", "releaseDone", "unclaim", "unclaimDone", "complete"}

Now(p) == row[job[p].bead]

Own(p) == Now(p) # NoRow /\ Now(p).attempt = job[p].attempt

-----------------------------------------------------------------------------
\* Each step runs under its locks, and for the kinds of request that reach it.
LockInv(p) ==
    /\ pc[p] # "idle" => job[p] \in Job
    /\ Locked(p) => cleanup[job[p].bead] = p
    /\ PaneLocked(p) => target[job[p].pane] = p
    /\ pc[p] \in ExecuteStep => job[p].kind \in ExecuteKind
    /\ pc[p] \in CleanupStep => job[p].kind \notin {"assign", "recover"}
    /\ pc[p] \in {"unclaim", "unclaimDone", "complete"} => job[p].kind # "replace"
    /\ pc[p] = "unclaimDone" => job[p].kind = "retire"

\* The attempt of a request was handed out, and names one pane.
JobInv(p) == pc[p] # "idle" =>
    /\ job[p].attempt <= created
    /\ \A b \in Bead : row[b] # NoRow /\ row[b].attempt = job[p].attempt
                           => row[b].pane = job[p].pane

FreshInv(p) == Early(p) =>
    /\ delivered[job[p].attempt] = 0
    /\ \A b \in Bead : row[b] # NoRow => row[b].attempt # job[p].attempt
    /\ \A q \in Process \ {p} : pc[q] # "idle" => job[q].attempt # job[p].attempt

\* What admission found in the row is still there when the intent is written.
AdmittedInv(p) ==
    /\ pc[p] \in {"authorize", "intent"} =>
        /\ job[p].kind = "recover" => Own(p) /\ MayResume(Now(p))
        /\ job[p].kind = "replace" => Now(p) # NoRow
        /\ job[p].kind = "assign" /\ Now(p) # NoRow => ~MayHoldLeases(Now(p))
    /\ pc[p] = "intent" /\ job[p].kind = "replace" => Now(p).clear = "released"

\* Execute finds its own row, live, as its last step left it.
ExecuteInv(p) == pc[p] \in Executing =>
    /\ Own(p)
    /\ Now(p).clear = "none" /\ Now(p).status \in LiveStatus /\ Now(p).claim # "refused"
    /\ Now(p).dispatch = IF pc[p] \in Sending THEN "sending" ELSE "pending"
    /\ pc[p] \in Reserving \cup Dispatching => Now(p).claim = "claimed"
    /\ pc[p] \in {"reserveCall", "reserveDone"} => Now(p).resv = "reserving"
    /\ pc[p] \in Dispatching => Now(p).resv = "reserved"

\* A cleanup finds the row behind its barrier.
CleanupInv(p) ==
    /\ pc[p] \in Releasing => Now(p) # NoRow /\ Now(p).clear # "none"
    /\ pc[p] \in {"unclaim", "unclaimDone", "complete"} => Now(p).clear = "released"
    /\ pc[p] = "begin" /\ job[p].kind = "replace" => Now(p) # NoRow /\ Now(p).clear # "released"

\* What a call has done until its answer is recorded.
CallInv(p) ==
    /\ pc[p] = "reserveDone" /\ answer[p] = "none" => leases[job[p].attempt] = "none"
    /\ pc[p] = "releaseDone" => leases[Now(p).attempt] = "none"
    /\ pc[p] = "dispatchCall" => delivered[job[p].attempt] = 0
    /\ pc[p] = "dispatchDone" /\ answer[p] = "none" => delivered[job[p].attempt] = 0

\* From the claim to the prompt the bead is the actor's, unless somebody took it.
Held(p) == tracker[job[p].bead].who \in {Now(p).actor, Human}

ClaimInv(p) ==
    /\ pc[p] \in {"intent", "claim"} /\ Own(p) /\ Now(p).claim = "claimed" => Held(p)
    /\ pc[p] = "claimDone" /\ answer[p] = "granted" => Held(p)
    /\ pc[p] \in Reserving \cup {"dispatch", "dispatchCall"} => Held(p)
    /\ "block" \notin TrackerMoves /\ pc[p] \in {"unclaimDone", "complete"} =>
           tracker[job[p].bead].who # Now(p).actor

\* Nobody moved into the pane since admission.
PaneInv(p) ==
    PaneLocked(p) /\ pc[p] \in {"authorize", "begin", "release", "releaseDone", "intent"} =>
        \A c \in Bead : c # job[p].bead /\ Works(c) => row[c].pane # job[p].pane

ProcessInv(p) ==
    /\ LockInv(p) /\ JobInv(p) /\ FreshInv(p) /\ AdmittedInv(p) /\ ExecuteInv(p)
    /\ CleanupInv(p) /\ CallInv(p) /\ ClaimInv(p) /\ PaneInv(p)

\* An attempt that may have reached a pane is not sent again.
Spent(r) == r.dispatch # "pending" \/ r.clear # "none" \/ r.status = "ended"

\* What the row of a bead says of its prompt, its leases and its end.
RowInv(b) == row[b] # NoRow =>
    /\ row[b].attempt <= created
    /\ delivered[row[b].attempt] # 0 => Spent(row[b])
    /\ ~MayHoldLeases(row[b]) => leases[row[b].attempt] = "none"
    /\ row[b].clear = "released" => row[b].resv = "released"
    /\ row[b].clear # "none" => row[b].dispatch # "sending"
    /\ row[b].claimFree => row[b].clear # "none"

\* What the tracker says of the bead, as far as only ntm moves it.
TrackerInv(b) ==
    /\ "block" \notin TrackerMoves =>
        /\ tracker[b].status # "blocked"
        /\ tracker[b].who \in Attempt => row[b] # NoRow /\ row[b].actor = tracker[b].who
        /\ row[b] # NoRow /\ row[b].claimFree => tracker[b].who # row[b].actor
    /\ "take" \notin TrackerMoves =>
        /\ tracker[b].who # Human
        /\ row[b] # NoRow /\ row[b].claim = "claimed" /\ row[b].status \in LiveStatus
               /\ row[b].clear = "none"
             => tracker[b].who = row[b].actor

\* No key is in the rows of two beads.
UniqueInv ==
    \A b, c \in Bead : b # c /\ row[b] # NoRow /\ row[c] # NoRow => row[b].attempt # row[c].attempt

\* What a pane or Agent Mail has of a key, some row accounts for.
AttemptInv(k) ==
    /\ delivered[k] <= 1
    /\ k > created => delivered[k] = 0
    /\ leases[k] # "none" => \E b \in Bead : row[b] # NoRow /\ row[b].attempt = k

IInv ==
    /\ TypeOK
    /\ \A p \in Process : ProcessInv(p)
    /\ \A b \in Bead : RowInv(b) /\ TrackerInv(b)
    /\ \A k \in Attempt : AttemptInv(k)
    /\ UniqueInv
    /\ PaneExclusion

-----------------------------------------------------------------------------
(***************************************************************************)
(* What a step of p leaves to the others: their program points and locks,  *)
(* and all but the bead and the attempt that p has locked.                 *)
(***************************************************************************)
OthersStay(p) ==
    \A q \in Process \ {p} :
        /\ pc'[q] = pc[q] /\ job'[q] = job[q] /\ answer'[q] = answer[q]
        /\ \A b \in Bead : cleanup[b] = q => cleanup'[b] = q
        /\ \A x \in Pane : target[x] = q => target'[x] = q

SameAttempt(b) ==
    /\ row[b] # NoRow /\ row'[b] # NoRow
    /\ row'[b].attempt = row[b].attempt /\ row'[b].pane = row[b].pane
    /\ row'[b].status \in LiveStatus \/ row'[b].dispatch = "sending" => Works(b)

Dropped(b) == row[b] # NoRow => leases'[row[b].attempt] = "none"

NewGeneration(p) ==
    /\ pc[p] = "intent" /\ Early(p)
    /\ row'[job[p].bead] = NewRow(job[p])

WorldFrame(p) ==
    /\ created' = created
    /\ pc'[p] # "idle" => job'[p] = job[p]
    /\ \A c \in Bead \ {job[p].bead} : row'[c] = row[c] /\ tracker'[c] = tracker[c]
    /\ \/ SameAttempt(job[p].bead)
       \/ row'[job[p].bead] = NoRow /\ Dropped(job[p].bead)
       \/ NewGeneration(p) /\ Dropped(job[p].bead)
    /\ \A k \in Attempt : delivered'[k] # delivered[k] \/ leases'[k] # leases[k] =>
           Now(p) # NoRow /\ k = Now(p).attempt
    /\ \A k \in Attempt : delivered'[k] <= 1

\* The two halves of the type invariant: what the processes do, and the world.
ControlOK ==
    /\ cleanup \in [Bead -> Process \cup {NoOne}]
    /\ target \in [Pane -> Process \cup {NoOne}]
    /\ job \in [Process -> Job \cup {NoJob}]
    /\ pc \in [Process -> {"idle", "lock"} \cup ExecuteStep \cup CleanupStep]
    /\ answer \in [Process -> {"", "granted", "refused", "unknown", "none", "partial", "full", "sent"}]

DataOK ==
    /\ row \in [Bead -> Row \cup {NoRow}]
    /\ created \in 0..MaxAttempt
    /\ delivered \in [Attempt -> Nat]
    /\ tracker \in [Bead -> [status : {"open", "in_progress", "blocked", "closed"},
                             who    : Attempt \cup {Nobody, Human}]]
    /\ leases \in [Attempt -> {"none", "partial", "full"}]

\* Attempts are numbers.
LEMMA AttemptIsNat ==
    ASSUME TypeOK
    PROVE  created \in Nat /\ Attempt \subseteq Nat /\ MaxAttempt \in Nat
  <1>1. MaxAttempt \in Nat
    BY AtomicAssumption DEF AtomicAssumption
  <1>2. created \in 0..MaxAttempt
    BY DEF TypeOK
  <1>3. QED
    BY <1>1, <1>2 DEF Attempt

\* A row has an attempt.
LEMMA RowHasAttempt ==
    ASSUME TypeOK, NEW b \in Bead, row[b] # NoRow
    PROVE  row[b] \in Row /\ row[b].attempt \in Attempt
  <1>1. row[b] \in Row
    BY DEF TypeOK
  <1>2. QED
    BY <1>1 DEF Row

\* Two processes that hold locks hold those of different beads and panes.
LEMMA LocksDiffer ==
    ASSUME NEW p \in Process, NEW q \in Process, p # q, LockInv(p), LockInv(q)
    PROVE  /\ Locked(p) /\ Locked(q) => job[p].bead # job[q].bead
           /\ PaneLocked(p) /\ PaneLocked(q) => job[p].pane # job[q].pane
  BY DEF LockInv

\* A process that holds nothing is owed nothing.
LEMMA IdleProcess ==
    ASSUME NEW p \in Process, pc[p] = "idle"
    PROVE  ProcessInv(p)
  BY DEF ProcessInv, LockInv, JobInv, FreshInv, AdmittedInv, ExecuteInv, CleanupInv, CallInv,
         ClaimInv, PaneInv, Early, Locked, PaneLocked, ExecuteStep, CleanupStep, Executing,
         Releasing, Reserving, Dispatching, Sending

\* Who returns gives up its locks, its request and what it was told.
LEMMA ReturnFrees ==
    ASSUME TypeOK, NEW p \in Process, Return(p)
    PROVE  /\ OthersStay(p) /\ ProcessInv(p)'
           /\ ControlOK' /\ pc'[p] = "idle"
  <1>1. /\ pc' = [pc EXCEPT ![p] = "idle"] /\ job' = [job EXCEPT ![p] = NoJob]
        /\ answer' = [answer EXCEPT ![p] = ""]
        /\ cleanup' = FreeBead(p) /\ target' = FreePane(p)
    BY DEF Return, Goto
  <1>2. cleanup' \in [Bead -> Process \cup {NoOne}] /\ target' \in [Pane -> Process \cup {NoOne}]
    BY <1>1 DEF TypeOK, FreeBead, FreePane
  <1>3. /\ job' \in [Process -> Job \cup {NoJob}]
        /\ pc' \in [Process -> {"idle", "lock"} \cup ExecuteStep \cup CleanupStep]
        /\ answer' \in [Process -> {"", "granted", "refused", "unknown", "none", "partial",
                                    "full", "sent"}]
    BY <1>1 DEF TypeOK
  <1>4. OthersStay(p)
    <2>1. SUFFICES ASSUME NEW q \in Process \ {p}
                   PROVE  /\ pc'[q] = pc[q] /\ job'[q] = job[q] /\ answer'[q] = answer[q]
                          /\ \A b \in Bead : cleanup[b] = q => cleanup'[b] = q
                          /\ \A x \in Pane : target[x] = q => target'[x] = q
      BY DEF OthersStay
    <2>2. pc'[q] = pc[q] /\ job'[q] = job[q] /\ answer'[q] = answer[q]
      BY <1>1 DEF TypeOK
    <2>3. QED
      BY <1>1, <2>2 DEF FreeBead, FreePane
  <1>5. pc'[p] = "idle"
    BY <1>1 DEF TypeOK
  <1>6. ProcessInv(p)'
    BY <1>5 DEF ProcessInv, LockInv, JobInv, FreshInv, AdmittedInv, ExecuteInv, CleanupInv, CallInv,
         ClaimInv, PaneInv, Early, Locked, PaneLocked, ExecuteStep, CleanupStep, Executing,
         Releasing, Reserving, Dispatching, Sending
  <1>7. QED
    BY <1>2, <1>3, <1>4, <1>5, <1>6 DEF ControlOK

\* A step of p under its locks is no business of another process.
LEMMA OthersKeep ==
    ASSUME IInv, NEW p \in Process, Locked(p), OthersStay(p), WorldFrame(p),
           NEW q \in Process, q # p
    PROVE  ProcessInv(q)'
  <1>1. /\ pc'[q] = pc[q] /\ job'[q] = job[q] /\ answer'[q] = answer[q]
        /\ (Locked(q) <=> Locked(q)') /\ (PaneLocked(q) <=> PaneLocked(q)') /\ (Early(q) <=> Early(q)')
    BY DEF OthersStay, Locked, PaneLocked, Early
  <1>2. LockInv(q) /\ LockInv(p) /\ JobInv(q) /\ FreshInv(q) /\ FreshInv(p) /\ JobInv(p)
    BY DEF IInv, ProcessInv
  <1>3. /\ pc[q] # "idle" => job[q].bead \in Bead /\ job[q].pane \in Pane /\ job[q].attempt \in Attempt
        /\ job[p].bead \in Bead /\ job[p].pane \in Pane /\ job[p].attempt \in Attempt
        /\ pc[p] # "idle" /\ PaneLocked(p) => target[job[p].pane] = p
    BY <1>2 DEF LockInv, Job, Locked
  <1>4. LockInv(q)'
    BY <1>1, <1>2, <1>3 DEF LockInv, OthersStay, Locked, PaneLocked
  <1>5. Locked(q) => job[q].bead # job[p].bead
    BY <1>2, LocksDiffer
  <1>6. Locked(q) => /\ Now(q)' = Now(q) /\ (Own(q) <=> Own(q)') /\ (Held(q) <=> Held(q)')
                     /\ tracker'[job[q].bead] = tracker[job[q].bead]
    BY <1>1, <1>3, <1>5 DEF WorldFrame, Now, Own, Held, Locked
  <1>7. \A b \in Bead : row'[b] # NoRow =>
           \/ row'[b] = row[b]
           \/ row[b] # NoRow /\ b = job[p].bead /\ row'[b].attempt = row[b].attempt
                /\ row'[b].pane = row[b].pane /\ (Works(b)' => Works(b))
           \/ b = job[p].bead /\ NewGeneration(p) /\ row'[b].attempt = job[p].attempt
                /\ row'[b].pane = job[p].pane
    <2>1. \A b \in Bead : b = job[p].bead \/ row'[b] = row[b]
      BY DEF WorldFrame
    <2>2. NewGeneration(p) => row'[job[p].bead].attempt = job[p].attempt
                              /\ row'[job[p].bead].pane = job[p].pane
      BY DEF NewGeneration, NewRow
    <2>3. \/ row'[job[p].bead] = NoRow
          \/ SameAttempt(job[p].bead)
          \/ NewGeneration(p)
      BY DEF WorldFrame
    <2>4. QED
      BY <2>1, <2>2, <2>3 DEF SameAttempt, Works
  <1>8. JobInv(q)'
    <2>1. SUFFICES ASSUME pc[q] # "idle", NEW b \in Bead, row'[b] # NoRow,
                          row'[b].attempt = job[q].attempt
                   PROVE  row'[b].pane = job[q].pane
      BY <1>1, <1>2 DEF JobInv, WorldFrame
    <2>2. ~ NewGeneration(p) \/ job[p].attempt # job[q].attempt
      BY <1>2, <2>1 DEF FreshInv, NewGeneration
    <2>3. QED
      BY <1>2, <1>7, <2>1, <2>2 DEF JobInv
  <1>9. FreshInv(q)'
    <2>1. SUFFICES ASSUME Early(q) PROVE FreshInv(q)'
      BY <1>1 DEF FreshInv
    <2>2. pc[q] # "idle" /\ job[q].attempt \in Attempt
      BY <1>3, <2>1 DEF Early
    <2>3. delivered'[job[q].attempt] = 0
      BY <1>2, <1>3, <2>1, <2>2 DEF FreshInv, WorldFrame, Now
    <2>4. \A b \in Bead : row'[b] # NoRow => row'[b].attempt # job[q].attempt
      BY <1>2, <1>7, <2>1 DEF FreshInv, NewGeneration
    <2>5. QED
      BY <1>1, <1>2, <2>1, <2>3, <2>4 DEF FreshInv, OthersStay, Locked, WorldFrame
  <1>10. AdmittedInv(q)' /\ ExecuteInv(q)' /\ CleanupInv(q)'
    BY <1>1, <1>6 DEF IInv, ProcessInv, AdmittedInv, ExecuteInv, CleanupInv, Locked, Executing,
       Releasing, Reserving, Dispatching, Sending
  <1>11. CallInv(q)'
    <2>1. /\ pc[q] \in {"reserveDone", "dispatchCall", "dispatchDone"} => Own(q)
          /\ pc[q] = "releaseDone" => Now(q) # NoRow
      BY DEF IInv, ProcessInv, ExecuteInv, CleanupInv, Executing, Releasing, Reserving, Dispatching, Sending
    <2>2. Locked(q) /\ Now(q) # NoRow => Now(q).attempt \in Attempt /\ ~ (Now(p) # NoRow /\ Now(p).attempt = Now(q).attempt)
      <3>1. TypeOK /\ UniqueInv
        BY DEF IInv
      <3>2. Now(q) = row[job[q].bead] /\ Now(p) = row[job[p].bead]
        BY DEF Now
      <3>3. QED
        BY <1>3, <1>5, <3>1, <3>2, RowHasAttempt DEF UniqueInv, Locked
    <2>3. Locked(q) /\ Now(q) # NoRow => /\ leases'[Now(q).attempt] = leases[Now(q).attempt]
                                         /\ delivered'[Now(q).attempt] = delivered[Now(q).attempt]
      BY <2>2 DEF WorldFrame
    <2>4. QED
      BY <1>1, <1>6, <2>1, <2>3 DEF IInv, ProcessInv, CallInv, Own, Locked
  <1>12. ClaimInv(q)'
    BY <1>1, <1>6 DEF IInv, ProcessInv, ClaimInv, Locked, Reserving
  <1>13. PaneInv(q)'
    <2>1. SUFFICES ASSUME PaneLocked(q), pc[q] \in {"authorize", "begin", "release", "releaseDone", "intent"},
                          NEW c \in Bead, c # job[q].bead, Works(c)'
                   PROVE  row'[c].pane # job[q].pane
      BY <1>1 DEF PaneInv
    <2>2. NewGeneration(p) => PaneLocked(p)
      BY <1>2 DEF NewGeneration, PaneLocked, LockInv, ExecuteStep
    <2>3. NewGeneration(p) => job[p].pane # job[q].pane
      BY <1>2, <2>1, <2>2, LocksDiffer
    <2>4. row'[c] # NoRow /\ (row'[c] = row[c] => Works(c))
      BY <2>1 DEF Works
    <2>5. QED
      BY <1>7, <2>1, <2>3, <2>4 DEF IInv, ProcessInv, PaneInv
  <1>14. QED
    BY <1>4, <1>8, <1>9, <1>10, <1>11, <1>12, <1>13 DEF ProcessInv

\* The rows of the other beads keep what they promise.
LEMMA OtherRowsKeep ==
    ASSUME IInv, NEW p \in Process, Locked(p), WorldFrame(p), job[p].bead \in Bead,
           NEW c \in Bead, c # job[p].bead
    PROVE  RowInv(c)' /\ TrackerInv(c)'
  <1>1. row'[c] = row[c] /\ tracker'[c] = tracker[c] /\ created' = created
    BY DEF WorldFrame
  <1>2. row[c] # NoRow => /\ row[c].attempt \in Attempt
                          /\ ~ (Now(p) # NoRow /\ Now(p).attempt = row[c].attempt)
    <2>1. TypeOK /\ UniqueInv
      BY DEF IInv
    <2>2. Now(p) = row[job[p].bead]
      BY DEF Now
    <2>3. QED
      BY <2>1, <2>2, RowHasAttempt DEF UniqueInv
  <1>3. row[c] # NoRow => /\ delivered'[row[c].attempt] = delivered[row[c].attempt]
                          /\ leases'[row[c].attempt] = leases[row[c].attempt]
    BY <1>2 DEF WorldFrame
  <1>4. RowInv(c) /\ TrackerInv(c)
    BY DEF IInv
  <1>5. RowInv(c)'
    BY <1>1, <1>3, <1>4 DEF RowInv
  <1>6. QED
    BY <1>1, <1>4, <1>5 DEF TrackerInv

\* What the locks of p are for: its steps keep the rows apart.
LEMMA RowsStayApart ==
    ASSUME IInv, NEW p \in Process, Locked(p), WorldFrame(p), job[p].bead \in Bead
    PROVE  /\ UniqueInv' /\ PaneExclusion'
           /\ \A k \in Attempt : AttemptInv(k)'
  <1> DEFINE b == job[p].bead
  <1>1. ProcessInv(p) /\ pc[p] # "idle"
    BY DEF IInv, Locked
  <1>2. \A c \in Bead : c = b \/ row'[c] = row[c]
    BY DEF WorldFrame
  <1>3. \/ row'[b] = NoRow
        \/ SameAttempt(b)
        \/ NewGeneration(p) /\ row'[b].attempt = job[p].attempt /\ row'[b].pane = job[p].pane
    BY DEF WorldFrame, NewGeneration, NewRow
  <1>4. NewGeneration(p) => /\ \A c \in Bead : row[c] # NoRow => row[c].attempt # job[p].attempt
                            /\ \A c \in Bead : c # b /\ Works(c) => row[c].pane # job[p].pane
    BY <1>1 DEF NewGeneration, ProcessInv, FreshInv, PaneInv, PaneLocked, Locked, LockInv, ExecuteStep
  <1>5. UniqueInv'
    <2>1. SUFFICES ASSUME NEW c \in Bead, c # b, row'[b] # NoRow, row[c] # NoRow
                   PROVE  row'[b].attempt # row[c].attempt
      BY <1>2 DEF UniqueInv, IInv
    <2>2. QED
      BY <1>3, <1>4, <2>1 DEF IInv, UniqueInv, SameAttempt
  <1>6. PaneExclusion'
    <2>1. SUFFICES ASSUME NEW c \in Bead, c # b, Works(c),
                          row'[b] # NoRow, row'[b].status \in LiveStatus \/ row'[b].dispatch = "sending"
                   PROVE  row'[b].pane # row[c].pane
      BY <1>2 DEF PaneExclusion, Works, IInv
    <2>2. QED
      BY <1>3, <1>4, <2>1 DEF IInv, PaneExclusion, SameAttempt
  <1>7. ASSUME NEW k \in Attempt PROVE AttemptInv(k)'
    <2>1. AttemptInv(k) /\ (row[b] # NoRow => row[b].attempt <= created) /\ row[b] \in Row \cup {NoRow}
      BY DEF IInv, RowInv, TypeOK
    <2>2. delivered'[k] <= 1 /\ (k > created' => delivered'[k] = 0)
      BY <2>1, AttemptIsNat DEF IInv, AttemptInv, WorldFrame, Now, Row
    <2>3. ASSUME leases'[k] # "none" PROVE \E c \in Bead : row'[c] # NoRow /\ row'[c].attempt = k
      <3>1. PICK c \in Bead : row[c] # NoRow /\ row[c].attempt = k
        BY <2>1, <2>3 DEF AttemptInv, WorldFrame, Now
      <3>2. c = b => SameAttempt(b)
        BY <2>3, <3>1 DEF WorldFrame, Dropped
      <3>3. QED
        BY <1>2, <3>1, <3>2 DEF SameAttempt
    <2>4. QED
      BY <2>2, <2>3 DEF AttemptInv
  <1>8. QED
    BY <1>5, <1>6, <1>7

\* So a step of p has only its own bead and its own next step to answer for.
LEMMA StepPreserves ==
    ASSUME IInv, TypeOK', NEW p \in Process, Locked(p), OthersStay(p), WorldFrame(p),
           job[p].bead \in Bead, ProcessInv(p)',
           NEW b, b = job[p].bead, RowInv(b)', TrackerInv(b)'
    PROVE  IInv'
  <1>1. \A q \in Process : ProcessInv(q)'
    BY OthersKeep
  <1>2. \A c \in Bead : RowInv(c)' /\ TrackerInv(c)'
    BY OtherRowsKeep
  <1>3. QED
    BY <1>1, <1>2, RowsStayApart DEF IInv

\* A step that touches no row, tracker, lease or pane, be it of a request.
LEMMA SilentPreserves ==
    ASSUME IInv, TypeOK', NEW p \in Process, OthersStay(p), UNCHANGED <<row, external>>,
           created' \in {created, created + 1}, ProcessInv(p)',
           \A q \in Process \ {p} : Early(q) /\ pc'[p] # "idle" => job'[p].attempt # job[q].attempt
    PROVE  IInv'
  <1> USE DEF external
  <1>1. created \in Nat /\ created' \in Nat /\ created <= created' /\ Attempt \subseteq Nat
    BY AttemptIsNat DEF IInv
  <1>2. ASSUME NEW q \in Process \ {p} PROVE ProcessInv(q)'
    <2>1. /\ pc'[q] = pc[q] /\ job'[q] = job[q] /\ answer'[q] = answer[q]
          /\ (Locked(q) <=> Locked(q)') /\ (PaneLocked(q) <=> PaneLocked(q)') /\ (Early(q) <=> Early(q)')
          /\ Now(q)' = Now(q) /\ (Own(q) <=> Own(q)') /\ (Held(q) <=> Held(q)')
      BY <1>2 DEF OthersStay, Locked, PaneLocked, Early, Now, Own, Held
    <2>2. ProcessInv(q)
      BY <1>2 DEF IInv
    <2>3. LockInv(q)'
      BY <1>2, <2>1, <2>2 DEF ProcessInv, LockInv, OthersStay, Locked, Job, PaneLocked
    <2>4. JobInv(q)'
      BY <1>1, <2>1, <2>2 DEF ProcessInv, JobInv, LockInv, Job, Attempt
    <2>5. FreshInv(q)'
      BY <1>2, <2>1, <2>2 DEF ProcessInv, FreshInv, OthersStay
    <2>6. AdmittedInv(q)' /\ ExecuteInv(q)' /\ CleanupInv(q)' /\ CallInv(q)' /\ ClaimInv(q)'
      BY <2>1, <2>2 DEF ProcessInv, AdmittedInv, ExecuteInv, CleanupInv, CallInv, ClaimInv
    <2>7. PaneInv(q)'
      BY <2>1, <2>2 DEF ProcessInv, PaneInv, Works
    <2>8. QED
      BY <2>3, <2>4, <2>5, <2>6, <2>7 DEF ProcessInv
  <1>3. ASSUME NEW b \in Bead PROVE RowInv(b)' /\ TrackerInv(b)'
    <2>1. RowInv(b) /\ TrackerInv(b) /\ (row[b] # NoRow => row[b].attempt \in Nat)
      BY <1>1 DEF IInv, TypeOK, Row
    <2>2. RowInv(b)'
      BY <1>1, <2>1 DEF RowInv
    <2>3. QED
      BY <2>1, <2>2 DEF TrackerInv
  <1>4. ASSUME NEW k \in Attempt PROVE AttemptInv(k)'
    BY <1>1 DEF IInv, AttemptInv
  <1>5. UniqueInv' /\ PaneExclusion'
    BY DEF IInv, UniqueInv, PaneExclusion, Works
  <1>6. QED
    BY <1>2, <1>3, <1>4, <1>5 DEF IInv

-----------------------------------------------------------------------------
\* A step that goes on changes nothing of the process but its program point.
LEMMA ContinueMoves ==
    ASSUME TypeOK, NEW p \in Process, NEW step \in ExecuteStep \cup CleanupStep, Continue(p, step)
    PROVE  /\ OthersStay(p) /\ ControlOK'
           /\ pc'[p] = step /\ UNCHANGED <<locks, job, answer>>
  <1>1. pc' = [pc EXCEPT ![p] = step] /\ UNCHANGED <<cleanup, target, job, answer>>
    BY DEF Continue, Goto, locks
  <1>2. QED
    BY <1>1 DEF TypeOK, ControlOK, OthersStay, locks

\* An external call leaves its answer with its caller; rows and locks stay.
LEMMA AnswerMoves ==
    ASSUME TypeOK, NEW p \in Process, NEW step \in ExecuteStep \cup CleanupStep,
           NEW reply \in {"granted", "refused", "unknown", "none", "partial", "full", "sent"},
           Answer(p, reply, step)
    PROVE  /\ OthersStay(p) /\ ControlOK'
           /\ pc'[p] = step /\ answer'[p] = reply /\ UNCHANGED <<row, created, locks, job>>
  <1>1. /\ pc' = [pc EXCEPT ![p] = step] /\ answer' = [answer EXCEPT ![p] = reply]
        /\ UNCHANGED <<row, created, cleanup, target, job>>
    BY DEF Answer, Goto, locks
  <1>2. QED
    BY <1>1 DEF TypeOK, ControlOK, OthersStay, locks

\* A check lets its process go on, or sends it home.
LEMMA ProceedMoves ==
    ASSUME TypeOK, NEW p \in Process, NEW step \in ExecuteStep \cup CleanupStep, NEW ok,
           ProceedIf(p, ok, step)
    PROVE  /\ OthersStay(p) /\ ControlOK'
           /\ \/ ok /\ pc'[p] = step /\ answer'[p] = "" /\ UNCHANGED <<locks, job>>
              \/ ~ok /\ pc'[p] = "idle" /\ ProcessInv(p)'
  <1>1. CASE ok
    <2>1. /\ pc' = [pc EXCEPT ![p] = step] /\ answer' = [answer EXCEPT ![p] = ""]
          /\ UNCHANGED <<cleanup, target, job>>
      BY <1>1 DEF ProceedIf, Goto, locks
    <2>2. QED
      BY <1>1, <2>1 DEF TypeOK, ControlOK, OthersStay, locks
  <1>2. CASE ~ok
    BY <1>2, ReturnFrees DEF ProceedIf
  <1>3. QED
    BY <1>1, <1>2

-----------------------------------------------------------------------------
(***************************************************************************)
(* Requests, locks and admission touch no row.                             *)
(***************************************************************************)
LEMMA AskMoves ==
    ASSUME TypeOK, NEW p \in Process, NEW j \in Job, Ask(p, j)
    PROVE  /\ OthersStay(p) /\ ControlOK'
           /\ pc'[p] = "lock" /\ job'[p] = j /\ pc[p] = "idle" /\ UNCHANGED <<row, external>>
  <1>1. /\ pc[p] = "idle" /\ pc' = [pc EXCEPT ![p] = "lock"] /\ job' = [job EXCEPT ![p] = j]
        /\ UNCHANGED <<row, external, cleanup, target, answer>>
    BY DEF Ask, Goto, locks
  <1>2. QED
    BY <1>1 DEF TypeOK, ControlOK, OthersStay, Job

\* A request for a row, and one for a new attempt.
LEMMA AskPreserves ==
    ASSUME IInv, NEW p \in Process, NEW j \in Job, Ask(p, j),
           \/ /\ created' = created /\ j.kind \notin NewKind
              /\ row[j.bead] # NoRow /\ j.attempt = row[j.bead].attempt /\ j.pane = row[j.bead].pane
           \/ /\ created' = created + 1 /\ created < MaxAttempt /\ j.attempt = created'
    PROVE  IInv'
  <1>1. TypeOK /\ created \in Nat /\ Attempt \subseteq Nat /\ MaxAttempt \in Nat
    BY AttemptIsNat DEF IInv
  <1>2. /\ OthersStay(p) /\ ControlOK' /\ pc'[p] = "lock" /\ job'[p] = j
        /\ UNCHANGED <<row, delivered, tracker, leases>>
    BY <1>1, AskMoves DEF external
  <1>3. TypeOK'
    <2>1. created \in 0..MaxAttempt
      BY <1>1 DEF TypeOK
    <2>2. created' \in 0..MaxAttempt
      BY <1>1, <2>1
    <2>3. QED
      BY <1>1, <1>2, <2>2 DEF TypeOK, ControlOK
  <1>4. j.bead \in Bead /\ j.attempt \in Attempt
    BY DEF Job
  <1>5. \A b \in Bead : row[b] # NoRow => row[b].attempt \in Nat /\ row[b].attempt <= created
    BY <1>1 DEF IInv, RowInv, TypeOK, Row
  <1>6. \A q \in Process : pc[q] # "idle" => job[q].attempt \in Nat /\ job[q].attempt <= created
    BY <1>1 DEF IInv, ProcessInv, JobInv, LockInv, Job
  <1>7. \A q \in Process \ {p} : Early(q) => job[q].attempt # j.attempt
    BY <1>1, <1>4, <1>5, <1>6 DEF IInv, ProcessInv, FreshInv, Early
  <1>8. LockInv(p)' /\ AdmittedInv(p)' /\ ExecuteInv(p)' /\ CleanupInv(p)' /\ CallInv(p)'
        /\ ClaimInv(p)' /\ PaneInv(p)'
    BY <1>2 DEF LockInv, AdmittedInv, ExecuteInv, CleanupInv, CallInv, ClaimInv, PaneInv, Locked,
       PaneLocked, ExecuteStep, CleanupStep, Executing, Releasing, Reserving, Dispatching, Sending
  <1>9. JobInv(p)'
    BY <1>1, <1>2, <1>4, <1>5 DEF JobInv, IInv, UniqueInv
  <1>10. FreshInv(p)'
    <2>1. SUFFICES ASSUME j.kind \in NewKind
                   PROVE  /\ delivered[j.attempt] = 0
                          /\ \A b \in Bead : row[b] # NoRow => row[b].attempt # j.attempt
                          /\ \A q \in Process \ {p} : pc[q] # "idle" => job[q].attempt # j.attempt
      BY <1>2 DEF FreshInv, Early, OthersStay
    <2>2. QED
      BY <1>1, <1>4, <1>5, <1>6, <2>1 DEF IInv, AttemptInv
  <1>11. ProcessInv(p)'
    BY <1>8, <1>9, <1>10 DEF ProcessInv
  <1>12. QED
    BY <1>2, <1>3, <1>7, <1>11, SilentPreserves DEF external

\* The requests: assignment and replacement, recovery, clear, retirement.
LEMMA RequestPreserves ==
    ASSUME IInv, NEW p \in Process, Request(p)
    PROVE  IInv'
  <1>1. TypeOK /\ created \in Nat /\ MaxAttempt \in Nat
    BY AttemptIsNat DEF IInv
  <1>2. CASE RequestAttempt(p)
    <2>1. PICK k \in {"assign", "replace"}, b \in Bead, x \in Pane :
             Ask(p, [kind |-> k, bead |-> b, attempt |-> created', pane |-> x])
      BY <1>2 DEF RequestAttempt
    <2>2. created < MaxAttempt /\ created' = created + 1 /\ created' \in Attempt
      BY <1>1, <1>2 DEF RequestAttempt, Attempt
    <2>3. [kind |-> k, bead |-> b, attempt |-> created', pane |-> x] \in Job
      BY <2>2 DEF Job, ExecuteKind
    <2>4. QED
      BY <2>1, <2>2, <2>3, AskPreserves
  <1>3. CASE ~ RequestAttempt(p)
    <2>1. PICK k \in {"recover", "retire"} \cup ClearKind, b \in Bead :
             /\ row[b] # NoRow
             /\ Ask(p, [kind |-> k, bead |-> b, attempt |-> row[b].attempt, pane |-> row[b].pane])
      BY <1>3 DEF Request, RequestRecovery, RequestClear, RequestRetirement
    <2>2. [kind |-> k, bead |-> b, attempt |-> row[b].attempt, pane |-> row[b].pane] \in Job
      BY <1>1, <2>1 DEF Job, ExecuteKind, TypeOK, Row
    <2>3. created' = created
      BY <1>3 DEF Request, RequestRecovery, RequestClear, RequestRetirement
    <2>4. QED
      BY <2>1, <2>2, <2>3, AskPreserves DEF NewKind, ClearKind
  <1>4. QED
    BY <1>2, <1>3

\* Locks that go back, at an end, an error or a kill, break no promise.
LEMMA ReturnPreserves ==
    ASSUME IInv, NEW p \in Process, Return(p), UNCHANGED <<row, created, external>>
    PROVE  IInv'
  <1>1. TypeOK /\ OthersStay(p) /\ ProcessInv(p)' /\ ControlOK' /\ pc'[p] = "idle"
    BY ReturnFrees DEF IInv
  <1>2. TypeOK'
    BY <1>1 DEF TypeOK, ControlOK, external
  <1>3. QED
    BY <1>1, <1>2, SilentPreserves DEF external

\* Waiting for the locks of the bead.
LEMMA LockBeadPreserves ==
    ASSUME IInv, NEW p \in Process, LockBead(p)
    PROVE  IInv'
  <1>1. TypeOK /\ ProcessInv(p) /\ pc[p] = "lock" /\ job[p] \in Job
    BY DEF IInv, LockBead, ProcessInv, LockInv
  <1>2. job[p].bead \in Bead /\ job[p].kind \in ExecuteKind \cup ClearKind \cup {"retire"}
    BY <1>1 DEF Job
  <1>3. /\ cleanup' = [cleanup EXCEPT ![job[p].bead] = p] /\ cleanup[job[p].bead] = NoOne
        /\ pc' = [pc EXCEPT ![p] = IF job[p].kind \in ExecuteKind THEN "admit" ELSE "begin"]
        /\ UNCHANGED <<row, created, delivered, tracker, leases, target, job, answer>>
    BY DEF LockBead, Goto, external
  <1>4. OthersStay(p)
    BY <1>1, <1>2, <1>3, AtomicAssumption DEF TypeOK, OthersStay, AtomicAssumption
  <1>5. TypeOK'
    BY <1>1, <1>2, <1>3 DEF TypeOK, ExecuteStep, CleanupStep
  <1>6. \/ pc'[p] = "admit" /\ job[p].kind \in ExecuteKind
        \/ pc'[p] = "begin" /\ job[p].kind \notin ExecuteKind
    BY <1>1, <1>3 DEF TypeOK
  <1>7. LockInv(p)'
    BY <1>1, <1>2, <1>3, <1>6 DEF TypeOK, LockInv, Locked, PaneLocked, ExecuteStep, CleanupStep, ExecuteKind
  <1>8. JobInv(p)' /\ FreshInv(p)'
    BY <1>1, <1>3, <1>4 DEF ProcessInv, JobInv, FreshInv, Early, OthersStay
  <1>9. AdmittedInv(p)' /\ ExecuteInv(p)' /\ CleanupInv(p)' /\ CallInv(p)' /\ ClaimInv(p)' /\ PaneInv(p)'
    BY <1>3, <1>6 DEF AdmittedInv, ExecuteInv, CleanupInv, CallInv, ClaimInv, PaneInv, PaneLocked,
       Executing, Releasing, Reserving, Dispatching, Sending, ExecuteKind
  <1>10. ProcessInv(p)'
    BY <1>7, <1>8, <1>9 DEF ProcessInv
  <1>11. \A q \in Process \ {p} : Early(q) => job'[p].attempt # job[q].attempt
    BY <1>1, <1>3 DEF IInv, ProcessInv, FreshInv, Early
  <1>12. QED
    BY <1>3, <1>4, <1>5, <1>10, <1>11, SilentPreserves DEF external

\* The pane is free of other work, and the row may be taken up, succeeded or replaced.
LEMMA AdmitPreserves ==
    ASSUME IInv, NEW p \in Process, Admit(p)
    PROVE  IInv'
  <1> DEFINE j == job[p]
             prior == row[j.bead]
  <1>1. TypeOK /\ ProcessInv(p) /\ pc[p] = "admit" /\ j \in Job /\ Locked(p)
        /\ UNCHANGED <<row, created, external>>
    BY DEF IInv, Admit, ProcessInv, LockInv, Locked
  <1>2. j.bead \in Bead /\ j.pane \in Pane /\ j.kind \in ExecuteKind
    BY <1>1 DEF Job, ProcessInv, LockInv, ExecuteStep
  <1>3. CASE ~ Acceptable(j)
    BY <1>1, <1>3, ReturnPreserves DEF Admit
  <1>4. CASE Acceptable(j)
    <2>1. /\ target' = [target EXCEPT ![j.pane] = p] /\ target[j.pane] = NoOne
          /\ pc' = [pc EXCEPT ![p] = "authorize"]
          /\ UNCHANGED <<row, created, delivered, tracker, leases, cleanup, job, answer>>
      BY <1>1, <1>4 DEF Admit, Goto, external
    <2>2. OthersStay(p)
      BY <1>1, <1>2, <2>1, AtomicAssumption DEF TypeOK, OthersStay, AtomicAssumption
    <2>3. TypeOK'
      BY <1>1, <1>2, <2>1 DEF TypeOK, ExecuteStep
    <2>4. pc'[p] = "authorize" /\ job' = job
      BY <1>1, <2>1 DEF TypeOK
    <2>5. LockInv(p)'
      BY <1>1, <1>2, <2>1, <2>4 DEF TypeOK, ProcessInv, LockInv, Locked, PaneLocked, ExecuteStep, CleanupStep
    <2>6. JobInv(p)' /\ FreshInv(p)'
      BY <1>1, <2>1, <2>2, <2>4 DEF ProcessInv, JobInv, FreshInv, Early, OthersStay
    <2>7. AdmittedInv(p)'
      <3>1. j.kind \in NewKind /\ prior # NoRow => prior.attempt # j.attempt
        BY <1>1, <1>2 DEF ProcessInv, FreshInv, Early
      <3>2. /\ j.kind = "recover" => prior # NoRow /\ prior.attempt = j.attempt /\ MayResume(prior)
            /\ j.kind = "replace" => prior # NoRow
            /\ j.kind = "assign" /\ prior # NoRow => ~ MayHoldLeases(prior)
        BY <1>4, <3>1 DEF Acceptable, MaySucceed, Unresolved, MayHoldLeases, NewKind
      <3>3. QED
        BY <2>1, <2>4, <3>2 DEF AdmittedInv, Own, Now, MayResume, MayHoldLeases
    <2>8. ExecuteInv(p)' /\ CleanupInv(p)' /\ CallInv(p)' /\ ClaimInv(p)'
      BY <2>1, <2>4 DEF ExecuteInv, CleanupInv, CallInv, ClaimInv, Executing, Releasing, Reserving,
         Dispatching, Sending
    <2>9. PaneInv(p)'
      BY <1>4, <2>1, <2>4 DEF Acceptable, Occupied, InUse, Works, PaneInv
    <2>10. ProcessInv(p)'
      BY <2>5, <2>6, <2>7, <2>8, <2>9 DEF ProcessInv
    <2>11. \A q \in Process \ {p} : Early(q) => job'[p].attempt # job[q].attempt
      BY <1>1, <2>1 DEF IInv, ProcessInv, FreshInv, Early
    <2>12. QED
      BY <2>1, <2>2, <2>3, <2>10, <2>11, SilentPreserves DEF external
  <1>5. QED
    BY <1>3, <1>4

\* The tracker is asked about what admission saw.
LEMMA AuthorizePreserves ==
    ASSUME IInv, NEW p \in Process, Authorize(p)
    PROVE  IInv'
  <1> DEFINE j == job[p]
             prior == row[j.bead]
             step == IF Replacing(j) /\ prior.clear # "released" THEN "begin" ELSE "intent"
  <1>1. TypeOK /\ ProcessInv(p) /\ pc[p] = "authorize" /\ j \in Job /\ Locked(p)
        /\ UNCHANGED <<row, created, external>>
    BY DEF IInv, Authorize, ProcessInv, LockInv, Locked
  <1>2. j.bead \in Bead /\ j.kind \in ExecuteKind
    BY <1>1 DEF Job, ProcessInv, LockInv, ExecuteStep
  <1>3. CASE ~ Authorized(j)
    BY <1>1, <1>3, ReturnPreserves DEF Authorize
  <1>4. CASE Authorized(j)
    <2>1. Continue(p, step)
      BY <1>1, <1>4 DEF Authorize
    <2>2. /\ OthersStay(p) /\ ControlOK' /\ pc'[p] = step
          /\ UNCHANGED <<row, created, delivered, tracker, leases, cleanup, target, job, answer>>
      BY <1>1, <2>1, ContinueMoves DEF ExecuteStep, CleanupStep, locks, external
    <2>3. TypeOK'
      BY <1>1, <2>2 DEF TypeOK, ControlOK
    <2>4. step = "begin" => j.kind = "replace" /\ prior.clear # "released"
      BY DEF Replacing
    <2>5. LockInv(p)'
      BY <1>1, <1>2, <2>2, <2>4 DEF ProcessInv, LockInv, Locked, PaneLocked, ExecuteStep, CleanupStep
    <2>6. JobInv(p)' /\ FreshInv(p)' /\ PaneInv(p)'
      BY <1>1, <2>2 DEF ProcessInv, JobInv, FreshInv, Early, OthersStay, PaneInv, PaneLocked, Locked, Works
    <2>7. j.kind = "replace" => prior # NoRow /\ prior.attempt # j.attempt
      BY <1>1, <1>2 DEF ProcessInv, AdmittedInv, FreshInv, Early, NewKind, Now
    <2>8. AdmittedInv(p)' /\ CleanupInv(p)'
      BY <1>1, <2>2, <2>4, <2>7 DEF ProcessInv, AdmittedInv, CleanupInv, Own, Now, Replacing, Releasing
    <2>9. ExecuteInv(p)' /\ CallInv(p)'
      BY <2>2 DEF ExecuteInv, CallInv, Executing, Reserving, Dispatching, Sending
    <2>10. ClaimInv(p)'
      <3>1. prior # NoRow /\ prior.attempt = j.attempt /\ prior.claim = "claimed" =>
                tracker[j.bead].who = prior.actor
        BY <1>4 DEF Authorized, ClaimActor
      <3>2. QED
        BY <2>2, <3>1 DEF ClaimInv, Own, Now, Held, Reserving
    <2>11. ProcessInv(p)'
      BY <2>5, <2>6, <2>8, <2>9, <2>10 DEF ProcessInv
    <2>12. \A q \in Process \ {p} : Early(q) => job'[p].attempt # job[q].attempt
      BY <1>1, <2>2 DEF IInv, ProcessInv, FreshInv, Early
    <2>13. QED
      BY <2>2, <2>3, <2>11, <2>12, SilentPreserves DEF external
  <1>5. QED
    BY <1>3, <1>4

-----------------------------------------------------------------------------
(***************************************************************************)
(* Execute.                                                                *)
(***************************************************************************)
\* What a process knows under its locks.
LEMMA AtWork ==
    ASSUME IInv, NEW p \in Process, Locked(p)
    PROVE  /\ TypeOK /\ ProcessInv(p) /\ job[p] \in Job
           /\ job[p].bead \in Bead /\ job[p].attempt \in Attempt /\ job[p].pane \in Pane
           /\ RowInv(job[p].bead) /\ TrackerInv(job[p].bead)
           /\ row[job[p].bead] \in Row \cup {NoRow}
  BY DEF IInv, ProcessInv, LockInv, Locked, Job, TypeOK

\* A new row, under the key that only p knows.
LEMMA NewRowPreserves ==
    ASSUME IInv, NEW p \in Process, RecordIntent(p), ~ Own(p)
    PROVE  IInv'
  <1> DEFINE j == job[p]
             b == j.bead
  <1>1. /\ Locked(p) /\ pc[p] = "intent" /\ Continue(p, "claim")
        /\ row' = [row EXCEPT ![b] = NewRow(j)] /\ UNCHANGED <<created, delivered, tracker, leases>>
    BY DEF RecordIntent, Locked, Own, Now, Set, external
  <1>2. /\ TypeOK /\ ProcessInv(p) /\ j \in Job /\ b \in Bead /\ j.attempt \in Attempt /\ j.pane \in Pane
        /\ RowInv(b) /\ TrackerInv(b) /\ row[b] \in Row \cup {NoRow}
    BY <1>1, AtWork
  <1>3. OthersStay(p) /\ ControlOK' /\ pc'[p] = "claim" /\ UNCHANGED <<cleanup, target, job, answer>>
    BY <1>1, <1>2, ContinueMoves DEF ExecuteStep, locks
  <1>4. j.kind \in NewKind /\ Early(p)
    BY <1>1, <1>2 DEF ProcessInv, LockInv, AdmittedInv, ExecuteStep, ExecuteKind, NewKind, Early
  <1>5. /\ NewRow(j) \in Row /\ NewRow(j) # NoRow /\ row'[b] = NewRow(j)
        /\ \A c \in Bead \ {b} : row'[c] = row[c]
    <2>1. ClaimActor(j) \in Attempt
      BY <1>2 DEF ClaimActor, Row
    <2>2. NewRow(j) \in Row
      BY <1>2, <2>1 DEF NewRow, Row, LiveStatus
    <2>3. QED
      BY <1>1, <1>2, <2>2, NoRowAssumption DEF TypeOK, NoRowAssumption
  <1>6. TypeOK'
    BY <1>1, <1>2, <1>3, <1>5 DEF TypeOK, ControlOK
  <1>7. Dropped(b)
    BY <1>1, <1>2, <1>4 DEF Dropped, RowInv, ProcessInv, AdmittedInv, NewKind, Now, MayHoldLeases
  <1>8. WorldFrame(p)
    <2>1. \A k \in Attempt : delivered[k] <= 1
      BY DEF IInv, AttemptInv
    <2>2. NewGeneration(p)
      BY <1>1, <1>4, <1>5 DEF NewGeneration
    <2>3. QED
      BY <1>1, <1>3, <1>5, <1>7, <2>1, <2>2 DEF WorldFrame
  <1>9. /\ delivered[j.attempt] = 0 /\ leases[j.attempt] = "none" /\ j.attempt <= created
        /\ \A c \in Bead : row[c] # NoRow => row[c].attempt # j.attempt
    BY <1>1, <1>2, <1>4 DEF ProcessInv, FreshInv, JobInv, IInv, AttemptInv
  <1>10. ProcessInv(p)'
    <2>1. LockInv(p)'
      BY <1>1, <1>2, <1>3 DEF ProcessInv, LockInv, Locked, PaneLocked, ExecuteStep, CleanupStep
    <2>2. JobInv(p)'
      BY <1>1, <1>3, <1>5, <1>9 DEF JobInv, NewRow
    <2>3. FreshInv(p)' /\ AdmittedInv(p)' /\ CleanupInv(p)' /\ CallInv(p)' /\ PaneInv(p)'
      BY <1>3 DEF FreshInv, AdmittedInv, CleanupInv, CallInv, PaneInv, Early, Releasing
    <2>4. ExecuteInv(p)'
      BY <1>3, <1>5 DEF ExecuteInv, Own, Now, NewRow, LiveStatus, Reserving, Dispatching, Sending
    <2>5. ClaimInv(p)'
      BY <1>3, <1>5 DEF ClaimInv, Now, NewRow, Reserving
    <2>6. QED
      BY <2>1, <2>2, <2>3, <2>4, <2>5 DEF ProcessInv
  <1>11. RowInv(b)'
    <2>1. /\ row'[b].attempt = j.attempt /\ row'[b].clear = "none" /\ ~ row'[b].claimFree
          /\ row'[b].resv = "pending"
      BY <1>5 DEF NewRow
    <2>2. QED
      BY <1>1, <1>3, <1>9, <2>1 DEF RowInv
  <1>12. TrackerInv(b)'
    <2>1. /\ row'[b].actor = (IF row[b] = NoRow THEN j.attempt ELSE row[b].actor)
          /\ row'[b].claim = "pending" /\ ~ row'[b].claimFree /\ row'[b] # NoRow
      BY <1>5 DEF NewRow, ClaimActor
    <2>2. tracker' = tracker /\ TrackerInv(b)
      BY <1>1, <1>2
    <2>3. QED
      BY <1>3, <2>1, <2>2 DEF TrackerInv
  <1>13. QED
    BY <1>1, <1>2, <1>3, <1>6, <1>8, <1>10, <1>11, <1>12, StepPreserves

\* A step of Execute acts on its own row, its bead's claim and its attempt.
LEMMA ExecuteFrame ==
    ASSUME IInv, NEW p \in Process, pc[p] \in Executing, NEW r \in Row,
           row' = [row EXCEPT ![job[p].bead] = r],
           r.attempt = Now(p).attempt, r.pane = Now(p).pane,
           created' = created, DataOK',
           \A c \in Bead \ {job[p].bead} : tracker'[c] = tracker[c],
           \A k \in Attempt : delivered'[k] # delivered[k] \/ leases'[k] # leases[k] =>
              k = job[p].attempt,
           \A k \in Attempt : delivered'[k] <= 1,
           OthersStay(p), ControlOK',
           \/ pc'[p] = "idle" /\ ProcessInv(p)'
           \/ /\ pc'[p] \in Executing /\ UNCHANGED <<cleanup, target, job>>
              /\ ExecuteInv(p)' /\ CallInv(p)' /\ ClaimInv(p)',
           NEW b, b = job[p].bead, RowInv(b)', TrackerInv(b)'
    PROVE  IInv'
  <1>1. Locked(p) /\ Own(p)
    BY DEF IInv, ProcessInv, ExecuteInv, Executing, Reserving, Dispatching, Sending, Locked
  <1>2. /\ TypeOK /\ ProcessInv(p) /\ job[p] \in Job /\ b \in Bead /\ row[b] \in Row /\ row[b] # NoRow
    BY <1>1, AtWork DEF Own, Now
  <1>3. r # NoRow /\ row'[b] = r /\ \A c \in Bead \ {b} : row'[c] = row[c]
    BY <1>2, NoRowAssumption DEF TypeOK, NoRowAssumption
  <1>4. TypeOK'
    BY DEF TypeOK, ControlOK, DataOK
  <1>5. row[b].status \in LiveStatus
    BY <1>2 DEF ProcessInv, ExecuteInv, Now
  <1>6. WorldFrame(p)
    <2>1. Now(p) # NoRow /\ Now(p).attempt = job[p].attempt
      BY <1>1 DEF Own
    <2>2. SameAttempt(b)
      BY <1>2, <1>3, <1>5 DEF SameAttempt, Works, Now
    <2>3. pc'[p] # "idle" => job'[p] = job[p]
      OBVIOUS
    <2>4. QED
      BY <1>3, <2>1, <2>2, <2>3 DEF WorldFrame
  <1>7. ProcessInv(p)'
    <2>1. SUFFICES ASSUME pc'[p] \in Executing, UNCHANGED <<cleanup, target, job>>,
                          ExecuteInv(p)', CallInv(p)', ClaimInv(p)'
                   PROVE  ProcessInv(p)'
      OBVIOUS
    <2>2. LockInv(p)'
      BY <1>1, <1>2, <2>1 DEF ProcessInv, LockInv, Locked, PaneLocked, Executing, Reserving, Dispatching,
         Sending, ExecuteStep, CleanupStep
    <2>3. JobInv(p)'
      BY <1>1, <1>2, <1>3, <2>1 DEF ProcessInv, JobInv, Locked, Now
    <2>4. FreshInv(p)' /\ AdmittedInv(p)' /\ CleanupInv(p)' /\ PaneInv(p)'
      BY <2>1 DEF FreshInv, AdmittedInv, CleanupInv, PaneInv, Early, Releasing, Executing, Reserving,
         Dispatching, Sending
    <2>5. QED
      BY <2>1, <2>2, <2>3, <2>4 DEF ProcessInv
  <1>8. QED
    BY <1>1, <1>2, <1>4, <1>6, <1>7, StepPreserves

\* The steps of Execute that write the row, whatever the tracker says.
LEMMA ExecuteRowFrame ==
    ASSUME IInv, NEW p \in Process, pc[p] \in Executing, NEW r \in Row,
           row' = [row EXCEPT ![job[p].bead] = r],
           r.attempt = Now(p).attempt, r.pane = Now(p).pane,
           UNCHANGED <<created, tracker, delivered, leases>>,
           OthersStay(p), ControlOK',
           \/ pc'[p] = "idle" /\ ProcessInv(p)'
           \/ /\ pc'[p] \in Executing /\ UNCHANGED <<cleanup, target, job>>
              /\ ExecuteInv(p)' /\ CallInv(p)' /\ ClaimInv(p)',
           NEW b, b = job[p].bead, RowInv(b)', TrackerInv(b)'
    PROVE  IInv'
  <1>1. Locked(p)
    BY DEF Executing, Reserving, Dispatching, Sending, Locked
  <1>2. TypeOK /\ job[p].bead \in Bead
    BY <1>1, AtWork
  <1>3. DataOK'
    BY <1>2 DEF TypeOK, DataOK
  <1>4. \A k \in Attempt : delivered'[k] <= 1
    BY DEF IInv, AttemptInv
  <1>5. QED
    BY <1>3, <1>4, ExecuteFrame

\* What a step of Execute finds when it begins.
LEMMA AtExecute ==
    ASSUME IInv, NEW p \in Process, pc[p] \in Executing, NEW b, b = job[p].bead
    PROVE  /\ TypeOK /\ Locked(p) /\ b \in Bead
           /\ row[b] \in Row /\ row[b] # NoRow
           /\ job[p].attempt \in Attempt /\ row[b].attempt = job[p].attempt
           /\ RowInv(b) /\ TrackerInv(b)
           /\ ExecuteInv(p) /\ CallInv(p) /\ ClaimInv(p) /\ Now(p) = row[b]
           /\ row[b].clear = "none" /\ row[b].status \in LiveStatus /\ ~ row[b].claimFree
           /\ pc[p] \notin Sending => row[b].dispatch = "pending" /\ delivered[row[b].attempt] = 0
  <1>1. Locked(p)
    BY DEF Executing, Reserving, Dispatching, Sending, Locked
  <1>2. ExecuteInv(p) /\ CallInv(p) /\ ClaimInv(p)
    BY DEF IInv, ProcessInv
  <1>3. /\ TypeOK /\ job[p].attempt \in Attempt /\ b \in Bead /\ RowInv(b) /\ TrackerInv(b)
        /\ row[b] \in Row \cup {NoRow}
    BY <1>1, AtWork
  <1>4. row[b] # NoRow /\ row[b].attempt = job[p].attempt /\ row[b].clear = "none"
        /\ row[b].status \in LiveStatus /\ (pc[p] \notin Sending => row[b].dispatch = "pending")
    BY <1>2 DEF ExecuteInv, Own, Now
  <1>5. ~ row[b].claimFree /\ (pc[p] \notin Sending => delivered[row[b].attempt] = 0)
    BY <1>3, <1>4 DEF RowInv, Spent, LiveStatus
  <1>6. QED
    BY <1>1, <1>2, <1>3, <1>4, <1>5 DEF Now

\* A recovery finds its intent written.
LEMMA RecordIntentPreserves ==
    ASSUME IInv, NEW p \in Process, RecordIntent(p)
    PROVE  IInv'
  <1>1. CASE ~ Own(p)
    BY <1>1, NewRowPreserves
  <1>2. CASE Own(p)
    <2>1. /\ Locked(p) /\ pc[p] = "intent" /\ Continue(p, "claim")
          /\ UNCHANGED <<row, created, delivered, tracker, leases>>
      BY <1>2 DEF RecordIntent, Locked, Own, Now, external
    <2>2. /\ TypeOK /\ ProcessInv(p) /\ job[p].bead \in Bead
      BY <2>1, AtWork
    <2>3. OthersStay(p) /\ ControlOK' /\ pc'[p] = "claim" /\ UNCHANGED <<cleanup, target, job, answer>>
      BY <2>1, <2>2, ContinueMoves DEF ExecuteStep, locks
    <2>4. job[p].kind = "recover"
      BY <1>2, <2>1, <2>2 DEF ProcessInv, LockInv, FreshInv, Early, NewKind, ExecuteStep, ExecuteKind, Own, Now
    <2>5. TypeOK'
      BY <2>1, <2>2, <2>3 DEF TypeOK, ControlOK
    <2>6. ProcessInv(p)'
      <3>1. LockInv(p)' /\ JobInv(p)'
        BY <2>1, <2>2, <2>3 DEF ProcessInv, LockInv, JobInv, Locked, PaneLocked, ExecuteStep, CleanupStep
      <3>2. FreshInv(p)' /\ AdmittedInv(p)' /\ CleanupInv(p)' /\ CallInv(p)' /\ PaneInv(p)'
        BY <2>3 DEF FreshInv, AdmittedInv, CleanupInv, CallInv, PaneInv, Early, Releasing
      <3>3. ExecuteInv(p)'
        BY <2>1, <2>2, <2>3, <2>4 DEF ProcessInv, AdmittedInv, MayResume, ExecuteInv, Own, Now, Reserving,
           Dispatching, Sending
      <3>4. ClaimInv(p)'
        BY <2>1, <2>2, <2>3 DEF ProcessInv, ClaimInv, Own, Now, Held, Reserving
      <3>5. QED
        BY <3>1, <3>2, <3>3, <3>4 DEF ProcessInv
    <2>7. \A q \in Process \ {p} : Early(q) => job'[p].attempt # job[q].attempt
      BY <2>1, <2>3 DEF IInv, ProcessInv, FreshInv, Locked
    <2>8. QED
      BY <2>1, <2>3, <2>5, <2>6, <2>7, SilentPreserves DEF external
  <1>3. QED
    BY <1>1, <1>2

\* The claim barrier goes up.
LEMMA StartClaimPreserves ==
    ASSUME IInv, NEW p \in Process, StartClaim(p)
    PROVE  IInv'
  <1>1. PICK b : b = job[p].bead
    OBVIOUS
  <1>2. pc[p] = "claim" /\ pc[p] \in Executing /\ UNCHANGED <<created, delivered, tracker, leases>>
    BY DEF StartClaim, Executing, external
  <1>3. /\ TypeOK /\ b \in Bead /\ row[b] \in Row /\ row[b] # NoRow
        /\ RowInv(b) /\ TrackerInv(b) /\ ExecuteInv(p) /\ ClaimInv(p) /\ Now(p) = row[b]
        /\ row[b].clear = "none" /\ ~ row[b].claimFree /\ delivered[row[b].attempt] = 0
    BY <1>1, <1>2, AtExecute DEF Sending
  <1>4. CASE row[b].claim = "claimed"
    <2>1. /\ row' = [row EXCEPT ![b] = row[b]] /\ row' = row
          /\ OthersStay(p) /\ ControlOK' /\ pc'[p] = "reserve" /\ UNCHANGED <<cleanup, target, job, answer>>
      BY <1>1, <1>3, <1>4, ContinueMoves DEF StartClaim, ExecuteStep, locks, TypeOK
    <2>2. RowInv(b)' /\ TrackerInv(b)'
      BY <1>2, <1>3, <2>1 DEF RowInv, TrackerInv
    <2>3. ExecuteInv(p)' /\ CallInv(p)'
      BY <1>2, <1>3, <1>4, <2>1 DEF ExecuteInv, CallInv, Executing, Own, Now, Reserving, Dispatching, Sending
    <2>4. ClaimInv(p)'
      BY <1>1, <1>2, <1>3, <1>4, <2>1 DEF ExecuteInv, ClaimInv, Held, Now
    <2>5. QED
      BY <1>1, <1>2, <1>3, <2>1, <2>2, <2>3, <2>4, ExecuteRowFrame DEF Executing, Reserving
  <1>5. CASE row[b].claim # "claimed"
    <2>1. PICK r : r = [row[b] EXCEPT !.status = "claiming", !.claim = "claiming"]
      OBVIOUS
    <2>2. /\ row' = [row EXCEPT ![b] = r]
          /\ OthersStay(p) /\ ControlOK' /\ pc'[p] = "claimCall" /\ UNCHANGED <<cleanup, target, job, answer>>
      BY <1>1, <1>3, <1>5, <2>1, ContinueMoves DEF StartClaim, Set, ExecuteStep, locks
    <2>3. /\ r \in Row /\ r # NoRow
          /\ r.attempt = row[b].attempt /\ r.pane = row[b].pane /\ r.actor = row[b].actor
          /\ r.status = "claiming" /\ r.claim = "claiming" /\ r.clear = row[b].clear
          /\ r.dispatch = row[b].dispatch /\ r.resv = row[b].resv /\ r.claimFree = row[b].claimFree
      BY <1>3, <2>1, NoRowAssumption DEF Row, LiveStatus, NoRowAssumption
    <2>4. row'[b] = r /\ Now(p)' = r
      BY <1>1, <1>3, <2>2 DEF TypeOK, Now
    <2>5. RowInv(b)'
      BY <1>2, <1>3, <2>3, <2>4 DEF RowInv, MayHoldLeases
    <2>6. TrackerInv(b)'
      BY <1>2, <1>3, <2>3, <2>4 DEF TrackerInv
    <2>7. ExecuteInv(p)' /\ CallInv(p)' /\ ClaimInv(p)'
      BY <1>2, <1>3, <2>2, <2>3, <2>4 DEF ExecuteInv, CallInv, ClaimInv, Executing, Own, Reserving,
         Dispatching, Sending, LiveStatus
    <2>8. pc'[p] \in Executing
      BY <2>2 DEF Executing
    <2>9. QED
      BY <1>1, <1>2, <1>3, <2>2, <2>3, <2>5, <2>6, <2>7, <2>8, ExecuteRowFrame
  <1>6. QED
    BY <1>4, <1>5

\* A claim is recorded as the tracker answered; an unknown answer keeps it open.
LEMMA RecordClaimPreserves ==
    ASSUME IInv, NEW p \in Process, RecordClaim(p)
    PROVE  IInv'
  <1>1. PICK b : b = job[p].bead
    OBVIOUS
  <1>2. PICK r : r = ClaimAnswered(row[b], answer[p])
    OBVIOUS
  <1>3. pc[p] = "claimDone" /\ pc[p] \in Executing /\ UNCHANGED <<created, delivered, tracker, leases>>
    BY DEF RecordClaim, Executing, external
  <1>4. /\ TypeOK /\ b \in Bead /\ row[b] \in Row /\ row[b] # NoRow
        /\ RowInv(b) /\ TrackerInv(b) /\ ExecuteInv(p) /\ ClaimInv(p) /\ Now(p) = row[b]
        /\ row[b].clear = "none" /\ row[b].status \in LiveStatus /\ row[b].dispatch = "pending"
        /\ ~ row[b].claimFree /\ delivered[row[b].attempt] = 0
    BY <1>1, <1>3, AtExecute DEF Sending
  <1>5. /\ row' = [row EXCEPT ![b] = r]
        /\ OthersStay(p) /\ ControlOK'
        /\ \/ answer[p] = "granted" /\ pc'[p] = "reserve" /\ UNCHANGED <<cleanup, target, job>>
           \/ pc'[p] = "idle" /\ ProcessInv(p)'
    BY <1>1, <1>2, <1>4, ProceedMoves DEF RecordClaim, Set, ExecuteStep, locks
  <1>6. /\ r \in Row /\ r # NoRow
        /\ r.attempt = row[b].attempt /\ r.pane = row[b].pane /\ r.actor = row[b].actor
        /\ r.clear = row[b].clear /\ r.dispatch = row[b].dispatch /\ r.resv = row[b].resv
        /\ r.claimFree = row[b].claimFree
        /\ r.claim = "claimed" => answer[p] = "granted" \/ row[b].claim = "claimed"
        /\ answer[p] = "granted" => r.claim = "claimed" /\ r.status = "claimed"
    <2>1. r = CASE answer[p] = "granted" -> [row[b] EXCEPT !.status = "claimed", !.claim = "claimed"]
                [] answer[p] = "refused" -> [row[b] EXCEPT !.status = "ended", !.claim = "refused"]
                [] OTHER -> [row[b] EXCEPT !.claim = "unknown"]
      BY <1>2 DEF ClaimAnswered
    <2>2. CASE answer[p] = "granted"
      BY <1>4, <2>1, <2>2, NoRowAssumption, ZenonT(60) DEF Row, LiveStatus, NoRowAssumption
    <2>3. CASE answer[p] = "refused"
      BY <1>4, <2>1, <2>3, NoRowAssumption, ZenonT(60) DEF Row, LiveStatus, NoRowAssumption
    <2>4. CASE answer[p] \notin {"granted", "refused"}
      BY <1>4, <2>1, <2>4, NoRowAssumption, ZenonT(60) DEF Row, LiveStatus, NoRowAssumption
    <2>5. QED
      BY <2>2, <2>3, <2>4
  <1>7. row'[b] = r
    BY <1>4, <1>5 DEF TypeOK
  <1>8. RowInv(b)'
    BY <1>3, <1>4, <1>6, <1>7 DEF RowInv, MayHoldLeases
  <1>9. TrackerInv(b)'
    BY <1>1, <1>3, <1>4, <1>6, <1>7 DEF TrackerInv, ClaimInv, Held
  <1>10. ASSUME answer[p] = "granted", pc'[p] = "reserve", UNCHANGED <<cleanup, target, job>>
         PROVE  ExecuteInv(p)' /\ CallInv(p)' /\ ClaimInv(p)'
    <2>1. Now(p)' = r /\ (Held(p)' <=> Held(p))
      BY <1>1, <1>3, <1>4, <1>6, <1>7, <1>10 DEF Now, Held
    <2>2. QED
      BY <1>3, <1>4, <1>6, <1>10, <2>1 DEF ExecuteInv, CallInv, ClaimInv, Own, Reserving, Dispatching,
         Sending, LiveStatus
  <1>11. QED
    BY <1>1, <1>3, <1>4, <1>5, <1>6, <1>8, <1>9, <1>10, ExecuteRowFrame DEF Executing, Reserving

Becomes(b, r, status, resv, dispatch) ==
    /\ r \in Row /\ r # NoRow
    /\ r.attempt = row[b].attempt /\ r.pane = row[b].pane /\ r.actor = row[b].actor
    /\ r.claim = row[b].claim /\ r.clear = row[b].clear /\ r.claimFree = row[b].claimFree
    /\ r.status = status /\ r.resv = resv /\ r.dispatch = dispatch

\* What a step of the reservation or the dispatch makes of the row.
LEMMA ReservationStep ==
    ASSUME IInv, NEW p \in Process, pc[p] \in Reserving \cup Dispatching, NEW b, b = job[p].bead,
           UNCHANGED <<created, delivered, tracker, leases>>,
           NEW r, row' = [row EXCEPT ![b] = r],
           NEW resv, NEW dispatch, NEW status \in LiveStatus,
           Becomes(b, r, status, resv, dispatch),
           resv \in {"failed", "pending", "released"} => leases[job[p].attempt] = "none",
           dispatch = "pending" => delivered[job[p].attempt] = 0,
           OthersStay(p), ControlOK',
           NEW step \in Executing,
           \/ pc'[p] = "idle" /\ ProcessInv(p)'
           \/ /\ pc'[p] = step /\ UNCHANGED <<cleanup, target, job>>
              /\ dispatch = IF step \in Sending THEN "sending" ELSE "pending"
              /\ step \in {"reserveCall", "reserveDone"} => resv = "reserving"
              /\ step \in Dispatching => resv = "reserved"
              /\ step \in {"reserve", "reserveCall", "dispatch", "dispatchCall"}
              /\ pc[p] # "dispatchDone"
              /\ step = "dispatchCall" => delivered[job[p].attempt] = 0
    PROVE  IInv'
  <1>1. pc[p] \in Executing
    BY DEF Executing
  <1>2. /\ TypeOK /\ b \in Bead /\ row[b] \in Row /\ row[b] # NoRow /\ row[b].attempt = job[p].attempt
        /\ RowInv(b) /\ TrackerInv(b) /\ ExecuteInv(p) /\ ClaimInv(p) /\ Now(p) = row[b]
        /\ row[b].clear = "none" /\ ~ row[b].claimFree
    BY <1>1, AtExecute
  <1>3. /\ r \in Row /\ r # NoRow
        /\ r.attempt = row[b].attempt /\ r.pane = row[b].pane /\ r.actor = row[b].actor
        /\ r.claim = row[b].claim /\ r.clear = row[b].clear /\ r.claimFree = row[b].claimFree
        /\ r.resv = resv /\ r.dispatch = dispatch /\ r.status = status
    BY DEF Becomes
  <1>4. row'[b] = r
    BY <1>2 DEF TypeOK
  <1>5. row[b].claim = "claimed" /\ row[b].status \in LiveStatus
    BY <1>1, <1>2 DEF ExecuteInv
  <1>6. RowInv(b)'
    <2>1. r.resv \in {"pending", "reserving", "reserved", "partial", "unknown", "failed", "released"}
      BY <1>3 DEF Row
    <2>2. ~ MayHoldLeases(r) => leases[row[b].attempt] = "none"
      BY <1>2, <1>3, <2>1 DEF MayHoldLeases
    <2>3. QED
      BY <1>2, <1>3, <1>4, <2>2 DEF RowInv, Spent
  <1>7. TrackerInv(b)'
    BY <1>2, <1>3, <1>4, <1>5 DEF TrackerInv
  <1>8. ASSUME pc'[p] = step, UNCHANGED <<cleanup, target, job>>,
               dispatch = IF step \in Sending THEN "sending" ELSE "pending",
               step \in {"reserveCall", "reserveDone"} => resv = "reserving",
               step \in Dispatching => resv = "reserved",
               step \in {"reserve", "reserveCall", "dispatch", "dispatchCall"},
               pc[p] # "dispatchDone",
               step = "dispatchCall" => delivered[job[p].attempt] = 0
        PROVE  ExecuteInv(p)' /\ CallInv(p)' /\ ClaimInv(p)'
    <2>1. Now(p)' = r /\ (Held(p)' <=> Held(p)) /\ Own(p)' /\ job'[p] = job[p]
      BY <1>2, <1>3, <1>4, <1>8 DEF Now, Held, Own
    <2>2. ExecuteInv(p)'
      BY <1>2, <1>3, <1>5, <1>8, <2>1 DEF ExecuteInv
    <2>3. CallInv(p)'
      BY <1>8, <2>1 DEF CallInv
    <2>4. Held(p)
      BY <1>2, <1>8 DEF ClaimInv, Dispatching, Sending, Reserving
    <2>5. ClaimInv(p)'
      BY <1>8, <2>1, <2>4 DEF ClaimInv, Reserving
    <2>6. QED
      BY <2>2, <2>3, <2>5
  <1>9. QED
    BY <1>1, <1>2, <1>3, <1>6, <1>7, <1>8, ExecuteRowFrame

\* A good lease is used; a lapsed one is recorded as partial.
LEMMA UseReservationPreserves ==
    ASSUME IInv, NEW p \in Process, UseReservation(p)
    PROVE  IInv'
  <1>1. PICK b : b = job[p].bead
    OBVIOUS
  <1>2. PICK good : good = (row[b].resv = "reserved" /\ leases[job[p].attempt] = "full")
    OBVIOUS
  <1>3. pc[p] = "reserve" /\ pc[p] \in Reserving \cup Dispatching /\ pc[p] \in Executing
        /\ UNCHANGED <<created, delivered, tracker, leases>>
        /\ row[b].resv \in {"reserved", "partial"}
    BY <1>1 DEF UseReservation, Executing, Reserving, external
  <1>4. /\ TypeOK /\ b \in Bead /\ row[b] \in Row /\ row[b] # NoRow /\ row[b].attempt = job[p].attempt
        /\ row[b].dispatch = "pending" /\ row[b].status \in LiveStatus /\ delivered[job[p].attempt] = 0
    BY <1>1, <1>3, AtExecute DEF Sending
  <1>5. PICK r : r = IF good THEN row[b] ELSE [row[b] EXCEPT !.resv = "partial"]
    OBVIOUS
  <1>6. Becomes(b, r, row[b].status, IF good THEN "reserved" ELSE "partial", "pending")
    BY <1>2, <1>4, <1>5, NoRowAssumption DEF Becomes, Row, NoRowAssumption
  <1>7. row' = [row EXCEPT ![b] = r]
    <2>2. CASE row[b].resv = "partial"
      <3>1. row' = row
        BY <1>1, <2>2 DEF UseReservation
      <3>2. r = row[b]
        BY <1>4, <1>5, <2>2 DEF Row
      <3>3. QED
        BY <1>4, <3>1, <3>2 DEF TypeOK
    <2>3. CASE row[b].resv = "reserved"
      BY <1>1, <1>2, <1>4, <1>5, <2>3 DEF UseReservation, Set, TypeOK
    <2>4. QED
      BY <1>3, <2>2, <2>3
  <1>8. /\ OthersStay(p) /\ ControlOK'
        /\ \/ good /\ pc'[p] = "dispatch" /\ UNCHANGED <<cleanup, target, job>>
           \/ pc'[p] = "idle" /\ ProcessInv(p)'
    BY <1>1, <1>2, <1>4, ProceedMoves DEF UseReservation, ExecuteStep, locks
  <1>9. QED
    BY <1>1, <1>3, <1>4, <1>6, <1>7, <1>8, ReservationStep DEF Executing, Dispatching, Sending

\* What Agent Mail holds decides: a lease is not reserved again, nor forgotten.
LEMMA ReconcileReservationPreserves ==
    ASSUME IInv, NEW p \in Process, ReconcileReservation(p)
    PROVE  IInv'
  <1>1. PICK b : b = job[p].bead
    OBVIOUS
  <1>2. pc[p] = "reserve" /\ pc[p] \in Reserving \cup Dispatching /\ pc[p] \in Executing
        /\ UNCHANGED <<created, delivered, tracker, leases>>
    BY DEF ReconcileReservation, Executing, Reserving, external
  <1>3. /\ TypeOK /\ b \in Bead /\ row[b] \in Row /\ row[b] # NoRow /\ row[b].attempt = job[p].attempt
        /\ row[b].dispatch = "pending" /\ row[b].status \in LiveStatus /\ delivered[job[p].attempt] = 0
    BY <1>1, <1>2, AtExecute DEF Sending
  <1>4. PICK outcome \in {"unknown", "reserved", "partial", "failed"} :
           /\ row' = [row EXCEPT ![b] = [row[b] EXCEPT !.resv = outcome]]
           /\ outcome = "failed" => leases[job[p].attempt] \notin {"full", "partial"}
           /\ \/ Return(p)
              \/ outcome \in {"reserved", "failed"}
                   /\ ProceedIf(p, TRUE, IF outcome = "reserved" THEN "dispatch" ELSE "reserve")
    <2> DEFINE found == leases[job[p].attempt]
               result == CASE found = "full"    -> "reserved"
                           [] found = "partial" -> "partial"
                           [] OTHER             -> "failed"
    <2>1. result \in {"reserved", "partial", "failed"}
          /\ (result = "failed" => found \notin {"full", "partial"})
      OBVIOUS
    <2>2. CASE Set(b, [row[b] EXCEPT !.resv = "unknown"]) /\ Return(p)
      BY <2>2 DEF Set
    <2>3. CASE /\ Set(b, [row[b] EXCEPT !.resv = result])
               /\ ProceedIf(p, result # "partial", IF result = "reserved" THEN "dispatch" ELSE "reserve")
      <3> HIDE DEF result
      <3>1. row' = [row EXCEPT ![b] = [row[b] EXCEPT !.resv = result]]
        BY <2>3 DEF Set
      <3>2. Return(p) \/ (result # "partial" /\ ProceedIf(p, TRUE, IF result = "reserved" THEN "dispatch" ELSE "reserve"))
        BY <2>3 DEF ProceedIf
      <3>3. QED
        BY <2>1, <3>1, <3>2
    <2>4. QED
      BY <1>1, <2>2, <2>3 DEF ReconcileReservation
  <1>5. PICK r : r = [row[b] EXCEPT !.resv = outcome]
    OBVIOUS
  <1>6. Becomes(b, r, row[b].status, outcome, "pending")
    BY <1>3, <1>5, NoRowAssumption, ZenonT(60) DEF Becomes, Row, NoRowAssumption
  <1>7. outcome = "failed" => leases[job[p].attempt] = "none"
    BY <1>1, <1>2, <1>4, AtExecute DEF TypeOK
  <1>8. PICK step : step = IF outcome = "reserved" THEN "dispatch" ELSE "reserve"
    OBVIOUS
  <1>9. step \in {"dispatch", "reserve"} /\ step \in Executing /\ step \notin Sending
        /\ (step \in Dispatching => outcome = "reserved")
    BY <1>8 DEF Executing, Reserving, Dispatching, Sending
  <1>10. /\ OthersStay(p) /\ ControlOK'
         /\ \/ pc'[p] = step /\ UNCHANGED <<cleanup, target, job>>
            \/ pc'[p] = "idle" /\ ProcessInv(p)'
    BY <1>3, <1>4, <1>8, <1>9, ProceedMoves, ReturnFrees DEF ExecuteStep, locks
  <1>11. row' = [row EXCEPT ![b] = r] /\ (outcome \in {"failed", "pending", "released"} =>
                                              leases[job[p].attempt] = "none")
    BY <1>4, <1>5, <1>7
  <1>12. /\ "pending" = IF step \in Sending THEN "sending" ELSE "pending"
         /\ step \in {"reserveCall", "reserveDone"} => outcome = "reserving"
         /\ step \in {"reserve", "reserveCall", "dispatch", "dispatchCall"}
         /\ pc[p] # "dispatchDone"
    BY <1>2, <1>9
  <1>13. QED
    BY <1>1, <1>2, <1>3, <1>6, <1>9, <1>10, <1>11, <1>12, ReservationStep, ZenonT(60)

\* The reservation barrier goes up.
LEMMA StartReservationPreserves ==
    ASSUME IInv, NEW p \in Process, StartReservation(p)
    PROVE  IInv'
  <1>1. PICK b : b = job[p].bead
    OBVIOUS
  <1>2. PICK r : r = [row[b] EXCEPT !.resv = "reserving"]
    OBVIOUS
  <1>3. pc[p] = "reserve" /\ pc[p] \in Reserving \cup Dispatching /\ pc[p] \in Executing
        /\ UNCHANGED <<created, delivered, tracker, leases>> /\ row' = [row EXCEPT ![b] = r]
    BY <1>1, <1>2 DEF StartReservation, Executing, Reserving, external, Set
  <1>4. /\ TypeOK /\ b \in Bead /\ row[b] \in Row
        /\ row[b].dispatch = "pending" /\ row[b].status \in LiveStatus
        /\ row[b].attempt = job[p].attempt /\ delivered[row[b].attempt] = 0
    BY <1>1, <1>3, AtExecute DEF Sending
  <1>5. Becomes(b, r, row[b].status, "reserving", "pending")
    BY <1>2, <1>4, NoRowAssumption, ZenonT(60) DEF Becomes, Row, NoRowAssumption
  <1>6. OthersStay(p) /\ ControlOK' /\ pc'[p] = "reserveCall" /\ UNCHANGED <<cleanup, target, job>>
    BY <1>4, ContinueMoves DEF StartReservation, ExecuteStep, locks
  <1>7. QED
    BY <1>1, <1>3, <1>4, <1>5, <1>6, ReservationStep, ZenonT(60) DEF Executing, Reserving, Dispatching, Sending

\* Only an answer "none" makes the row forget its leases.
LEMMA RecordReservationPreserves ==
    ASSUME IInv, NEW p \in Process, RecordReservation(p)
    PROVE  IInv'
  <1>1. PICK b : b = job[p].bead
    OBVIOUS
  <1>2. PICK resv : resv = CASE answer[p] = "full"    -> "reserved"
                             [] answer[p] = "partial" -> "partial"
                             [] answer[p] = "none"    -> "failed"
                             [] OTHER                 -> "unknown"
    OBVIOUS
  <1>3. PICK r : r = [row[b] EXCEPT !.resv = resv]
    OBVIOUS
  <1>4. pc[p] = "reserveDone" /\ pc[p] \in Reserving \cup Dispatching /\ pc[p] \in Executing
        /\ UNCHANGED <<created, delivered, tracker, leases>> /\ row' = [row EXCEPT ![b] = r]
    BY <1>1, <1>2, <1>3 DEF RecordReservation, ReservationAnswered, Executing, Reserving, external, Set
  <1>5. /\ TypeOK /\ b \in Bead /\ row[b] \in Row
        /\ row[b].dispatch = "pending" /\ row[b].status \in LiveStatus
        /\ row[b].attempt = job[p].attempt /\ delivered[row[b].attempt] = 0
        /\ CallInv(p)
    BY <1>1, <1>4, AtExecute DEF Sending
  <1>6. /\ resv \in {"reserved", "partial", "failed", "unknown"}
        /\ resv = "failed" => leases[job[p].attempt] = "none"
        /\ answer[p] = "full" => resv = "reserved"
    BY <1>2, <1>4, <1>5 DEF CallInv
  <1>7. Becomes(b, r, row[b].status, resv, "pending")
    BY <1>3, <1>5, <1>6, NoRowAssumption, ZenonT(60) DEF Becomes, Row, NoRowAssumption
  <1>8. /\ OthersStay(p) /\ ControlOK'
        /\ \/ answer[p] = "full" /\ pc'[p] = "dispatch" /\ UNCHANGED <<cleanup, target, job>>
           \/ pc'[p] = "idle" /\ ProcessInv(p)'
    BY <1>5, ProceedMoves DEF RecordReservation, ExecuteStep, locks
  <1>9. /\ "dispatch" \in Executing /\ "dispatch" \notin Sending
        /\ resv \in {"failed", "pending", "released"} => leases[job[p].attempt] = "none"
    BY <1>6 DEF Executing, Dispatching, Sending
  <1>10. QED
    BY <1>1, <1>4, <1>5, <1>6, <1>7, <1>8, <1>9, ReservationStep, ZenonT(60)

\* The barrier goes up for an attempt that was never sent.
LEMMA StartDispatchPreserves ==
    ASSUME IInv, NEW p \in Process, StartDispatch(p)
    PROVE  IInv'
  <1>1. PICK b : b = job[p].bead
    OBVIOUS
  <1>2. PICK r : r = [row[b] EXCEPT !.dispatch = "sending"]
    OBVIOUS
  <1>3. pc[p] = "dispatch" /\ pc[p] \in Reserving \cup Dispatching /\ pc[p] \in Executing
        /\ UNCHANGED <<created, delivered, tracker, leases>> /\ row' = [row EXCEPT ![b] = r]
    BY <1>1, <1>2 DEF StartDispatch, Executing, Dispatching, external, Set
  <1>4. /\ TypeOK /\ b \in Bead /\ row[b] \in Row /\ row[b].status \in LiveStatus
        /\ row[b].attempt = job[p].attempt /\ delivered[row[b].attempt] = 0
        /\ ExecuteInv(p) /\ Now(p) = row[b]
    BY <1>1, <1>3, AtExecute DEF Sending
  <1>5. row[b].resv = "reserved"
    BY <1>3, <1>4 DEF ExecuteInv, Dispatching
  <1>6. Becomes(b, r, row[b].status, "reserved", "sending")
    BY <1>2, <1>4, <1>5, NoRowAssumption DEF Becomes, Row, NoRowAssumption
  <1>7. OthersStay(p) /\ ControlOK' /\ pc'[p] = "dispatchCall" /\ UNCHANGED <<cleanup, target, job>>
    BY <1>4, ContinueMoves DEF StartDispatch, ExecuteStep, locks
  <1>8. "dispatchCall" \in Executing /\ "dispatchCall" \in Sending
    BY DEF Executing, Dispatching, Sending
  <1>9. QED
    BY <1>1, <1>3, <1>4, <1>6, <1>7, <1>8, ReservationStep

\* Only the answer that nothing was sent takes the barrier down.
LEMMA RecordDispatchPreserves ==
    ASSUME IInv, NEW p \in Process, RecordDispatch(p)
    PROVE  IInv'
  <1>1. PICK b : b = job[p].bead
    OBVIOUS
  <1>2. PICK r : r = DispatchAnswered(row[b], answer[p])
    OBVIOUS
  <1>3. pc[p] = "dispatchDone" /\ pc[p] \in Reserving \cup Dispatching /\ pc[p] \in Executing
        /\ UNCHANGED <<created, delivered, tracker, leases>> /\ row' = [row EXCEPT ![b] = r]
    BY <1>1, <1>2 DEF RecordDispatch, Executing, Dispatching, Sending, external, Set
  <1>4. /\ TypeOK /\ b \in Bead /\ row[b] \in Row /\ row[b].status \in LiveStatus
        /\ row[b].attempt = job[p].attempt /\ ExecuteInv(p) /\ CallInv(p) /\ Now(p) = row[b]
    BY <1>1, <1>3, AtExecute
  <1>5. row[b].resv = "reserved" /\ row[b].dispatch = "sending"
    BY <1>3, <1>4 DEF ExecuteInv, Dispatching, Sending
  <1>6. OthersStay(p) /\ ControlOK' /\ pc'[p] = "idle" /\ ProcessInv(p)'
    BY <1>4, ReturnFrees DEF RecordDispatch
  <1>7. CASE answer[p] = "sent"
    <2>1. Becomes(b, r, "assigned", "reserved", "sent")
      BY <1>2, <1>4, <1>5, <1>7, NoRowAssumption DEF DispatchAnswered, Becomes, Row, LiveStatus, NoRowAssumption
    <2>2. "assigned" \in LiveStatus
      BY DEF LiveStatus
    <2>3. QED
      BY <1>1, <1>3, <1>6, <2>1, <2>2, ReservationStep
  <1>8. CASE answer[p] = "none"
    <2>1. Becomes(b, r, row[b].status, "reserved", "pending")
      BY <1>2, <1>4, <1>5, <1>8, NoRowAssumption DEF DispatchAnswered, Becomes, Row, NoRowAssumption
    <2>2. delivered[job[p].attempt] = 0
      BY <1>3, <1>4, <1>8 DEF CallInv
    <2>3. QED
      BY <1>1, <1>3, <1>4, <1>6, <2>1, <2>2, ReservationStep
  <1>9. CASE answer[p] \notin {"sent", "none"}
    <2>1. Becomes(b, r, row[b].status, "reserved", "sending")
      BY <1>2, <1>4, <1>5, <1>9, NoRowAssumption DEF DispatchAnswered, Becomes, Row, NoRowAssumption
    <2>2. QED
      BY <1>1, <1>3, <1>4, <1>6, <2>1, ReservationStep
  <1>10. QED
    BY <1>7, <1>8, <1>9

\* A call leaves the rows alone.
LEMMA CallPreserves ==
    ASSUME IInv, NEW p \in Process, pc[p] \in Executing, NEW b, b = job[p].bead,
           UNCHANGED <<row, created, cleanup, target, job>>, DataOK', ControlOK', OthersStay(p),
           \A c \in Bead \ {b} : tracker'[c] = tracker[c],
           \A k \in Attempt : delivered'[k] # delivered[k] \/ leases'[k] # leases[k] =>
              k = job[p].attempt,
           \A k \in Attempt : delivered'[k] <= 1,
           pc'[p] \in Executing, ExecuteInv(p)', CallInv(p)', ClaimInv(p)',
           RowInv(b)', TrackerInv(b)'
    PROVE  IInv'
  <1>1. TypeOK /\ b \in Bead /\ row[b] \in Row /\ Now(p) = row[b]
    BY AtExecute
  <1>2. row' = [row EXCEPT ![job[p].bead] = row[b]]
    BY <1>1 DEF TypeOK
  <1>3. QED
    BY <1>1, <1>2, ExecuteFrame

\* The tracker gives the bead to the actor, or refuses, or nobody learns which.
LEMMA ClaimPreserves ==
    ASSUME IInv, NEW p \in Process, Claim(p)
    PROVE  IInv'
  <1>1. PICK b : b = job[p].bead
    OBVIOUS
  <1>2. pc[p] = "claimCall" /\ pc[p] \in Executing /\ UNCHANGED <<delivered, leases>>
    BY DEF Claim, Executing
  <1>3. /\ TypeOK /\ b \in Bead /\ row[b] \in Row /\ row[b] # NoRow
        /\ RowInv(b) /\ TrackerInv(b) /\ ExecuteInv(p) /\ Now(p) = row[b]
        /\ ~ row[b].claimFree
    BY <1>1, <1>2, AtExecute
  <1>4. PICK reply \in {"granted", "unknown", "refused"} :
           /\ Answer(p, reply, "claimDone")
           /\ \/ tracker' = [tracker EXCEPT ![b] = [status |-> "in_progress", who |-> row[b].actor]]
              \/ tracker' = tracker /\ reply # "granted"
    BY <1>1 DEF Claim
  <1>5. /\ OthersStay(p) /\ ControlOK' /\ pc'[p] = "claimDone" /\ answer'[p] = reply
        /\ UNCHANGED <<row, created, cleanup, target, job>>
    BY <1>3, <1>4, AnswerMoves DEF ExecuteStep, locks
  <1>6. tracker' \in [Bead -> [status : {"open", "in_progress", "blocked", "closed"},
                              who    : Attempt \cup {Nobody, Human}]]
    <2>1. [status |-> "in_progress", who |-> row[b].actor] \in
             [status : {"open", "in_progress", "blocked", "closed"}, who : Attempt \cup {Nobody, Human}]
      BY <1>3 DEF Row
    <2>2. QED
      BY <1>3, <1>4, <2>1 DEF TypeOK
  <1>7. /\ \A c \in Bead \ {b} : tracker'[c] = tracker[c]
        /\ tracker'[b] = tracker[b] \/ tracker'[b] = [status |-> "in_progress", who |-> row[b].actor]
        /\ reply = "granted" => tracker'[b] = [status |-> "in_progress", who |-> row[b].actor]
    BY <1>3, <1>4 DEF TypeOK
  <1>8. DataOK'
    BY <1>2, <1>3, <1>5, <1>6 DEF DataOK, TypeOK
  <1>9. RowInv(b)'
    BY <1>2, <1>3, <1>5 DEF RowInv
  <1>10. TrackerInv(b)'
    <2>1. row[b].actor \in Attempt /\ Human \notin Attempt
      BY <1>3, AtomicAssumption DEF Row, AtomicAssumption, Attempt
    <2>2. QED
      BY <1>3, <1>5, <1>7, <2>1 DEF TrackerInv
  <1>11. ExecuteInv(p)' /\ CallInv(p)'
    BY <1>2, <1>3, <1>5 DEF ExecuteInv, CallInv, Own, Now, Reserving, Dispatching, Sending, Executing
  <1>12. ClaimInv(p)'
    BY <1>1, <1>5, <1>7 DEF ClaimInv, Held, Now, Reserving
  <1>13. \A k \in Attempt : delivered[k] <= 1
    BY DEF IInv, AttemptInv
  <1>14. "claimDone" \in Executing
    BY DEF Executing
  <1>15. QED
    BY <1>1, <1>2, <1>5, <1>7, <1>8, <1>9, <1>10, <1>11, <1>12, <1>13, <1>14, CallPreserves

\* Agent Mail grants all, some or none of the leases, or its answer is lost.
LEMMA ReservePreserves ==
    ASSUME IInv, NEW p \in Process, Reserve(p)
    PROVE  IInv'
  <1>1. PICK b : b = job[p].bead
    OBVIOUS
  <1>2. pc[p] = "reserveCall" /\ pc[p] \in Executing /\ UNCHANGED <<delivered, tracker>>
    BY DEF Reserve, Executing, Reserving
  <1>3. /\ TypeOK /\ b \in Bead /\ row[b] \in Row /\ row[b] # NoRow
        /\ job[p].attempt \in Attempt /\ row[b].attempt = job[p].attempt
        /\ RowInv(b) /\ TrackerInv(b) /\ ExecuteInv(p) /\ ClaimInv(p) /\ Now(p) = row[b]
    BY <1>1, <1>2, AtExecute
  <1>4. PICK granted \in {"none", "partial", "full"}, reply \in {"none", "partial", "full", "unknown"} :
           /\ leases' = [leases EXCEPT ![job[p].attempt] = granted]
           /\ reply \in {granted, "unknown"} /\ Answer(p, reply, "reserveDone")
    BY DEF Reserve
  <1>5. /\ OthersStay(p) /\ ControlOK' /\ pc'[p] = "reserveDone" /\ answer'[p] = reply
        /\ UNCHANGED <<row, created, cleanup, target, job>>
    BY <1>3, <1>4, AnswerMoves DEF ExecuteStep, locks
  <1>6. /\ \A k \in Attempt : leases'[k] # leases[k] => k = job[p].attempt
        /\ reply = "none" => leases'[job[p].attempt] = "none"
        /\ leases' \in [Attempt -> {"none", "partial", "full"}]
    BY <1>3, <1>4 DEF TypeOK
  <1>7. DataOK'
    BY <1>2, <1>3, <1>5, <1>6 DEF DataOK, TypeOK
  <1>8. ExecuteInv(p)'
    BY <1>2, <1>3, <1>5 DEF ExecuteInv, Own, Now, Reserving, Dispatching, Sending, Executing
  <1>9. row[b].resv = "reserving"
    BY <1>2, <1>3 DEF ExecuteInv, Executing, Reserving
  <1>10. RowInv(b)' /\ TrackerInv(b)'
    BY <1>2, <1>3, <1>5, <1>9 DEF RowInv, TrackerInv, MayHoldLeases
  <1>11. CallInv(p)' /\ ClaimInv(p)'
    BY <1>1, <1>2, <1>3, <1>5, <1>6 DEF CallInv, ClaimInv, Held, Now, Reserving
  <1>12. \A k \in Attempt : delivered[k] <= 1
    BY DEF IInv, AttemptInv
  <1>13. "reserveDone" \in Executing
    BY DEF Executing, Reserving
  <1>14. QED
    BY <1>1, <1>2, <1>5, <1>6, <1>7, <1>8, <1>10, <1>11, <1>12, <1>13, CallPreserves

\* The prompt: never one that was typed before.
LEMMA DispatchPreserves ==
    ASSUME IInv, NEW p \in Process, Dispatch(p)
    PROVE  IInv'
  <1>1. PICK b : b = job[p].bead
    OBVIOUS
  <1>2. pc[p] = "dispatchCall" /\ pc[p] \in Executing /\ UNCHANGED <<tracker, leases>>
    BY DEF Dispatch, Executing, Dispatching, Sending
  <1>3. /\ TypeOK /\ b \in Bead /\ row[b] \in Row /\ row[b] # NoRow
        /\ job[p].attempt \in Attempt /\ row[b].attempt = job[p].attempt
        /\ RowInv(b) /\ TrackerInv(b) /\ ExecuteInv(p) /\ CallInv(p) /\ Now(p) = row[b]
    BY <1>1, <1>2, AtExecute
  <1>4. PICK reply \in {"sent", "unknown", "none"} :
           /\ Answer(p, reply, "dispatchDone")
           /\ \/ delivered' = [delivered EXCEPT ![job[p].attempt] = @ + 1] /\ reply # "none"
              \/ delivered' = delivered
    BY DEF Dispatch
  <1>5. /\ OthersStay(p) /\ ControlOK' /\ pc'[p] = "dispatchDone" /\ answer'[p] = reply
        /\ UNCHANGED <<row, created, cleanup, target, job>>
    BY <1>3, <1>4, AnswerMoves DEF ExecuteStep, locks
  <1>6. delivered[job[p].attempt] = 0 /\ \A k \in Attempt : delivered[k] <= 1 /\ delivered[k] \in Nat
    BY <1>2, <1>3 DEF CallInv, IInv, AttemptInv, TypeOK
  <1>7. /\ \A k \in Attempt : delivered'[k] # delivered[k] => k = job[p].attempt
        /\ \A k \in Attempt : delivered'[k] <= 1
        /\ reply = "none" => delivered'[job[p].attempt] = 0
        /\ delivered' \in [Attempt -> Nat]
    <2>1. delivered \in [Attempt -> Nat]
      BY <1>3 DEF TypeOK
    <2>2. CASE delivered' = delivered
      BY <1>6, <2>1, <2>2
    <2>3. CASE delivered' = [delivered EXCEPT ![job[p].attempt] = @ + 1] /\ reply # "none"
      BY <1>3, <1>6, <2>1, <2>3
    <2>4. QED
      BY <1>4, <2>2, <2>3
  <1>8. DataOK'
    BY <1>2, <1>3, <1>5, <1>7 DEF DataOK, TypeOK
  <1>9. ExecuteInv(p)' /\ row[b].dispatch = "sending"
    BY <1>2, <1>3, <1>5 DEF ExecuteInv, Own, Now, Reserving, Dispatching, Sending, Executing
  <1>10. RowInv(b)' /\ TrackerInv(b)'
    BY <1>2, <1>3, <1>5, <1>9 DEF RowInv, TrackerInv, Spent
  <1>11. CallInv(p)' /\ ClaimInv(p)'
    BY <1>5, <1>7 DEF CallInv, ClaimInv, Reserving
  <1>12. "dispatchDone" \in Executing
    BY DEF Executing, Dispatching, Sending
  <1>13. QED
    BY <1>1, <1>2, <1>5, <1>7, <1>8, <1>9, <1>10, <1>11, <1>12, CallPreserves

-----------------------------------------------------------------------------
(***************************************************************************)
(* Giving leases and claim back.                                           *)
(***************************************************************************)
\* A step of a cleanup keeps the attempt of its row until it drops the row, and
\* what a replacement was admitted for.
LEMMA CleanupFrame ==
    ASSUME IInv, NEW p \in Process, pc[p] \in CleanupStep, NEW b, b = job[p].bead,
           UNCHANGED <<created, delivered>>, TypeOK', OthersStay(p),
           \A c \in Bead \ {b} : row'[c] = row[c] /\ tracker'[c] = tracker[c],
           SameAttempt(b) \/ (row'[b] = NoRow /\ Dropped(b)),
           \A k \in Attempt : leases'[k] # leases[k] => row[b] # NoRow /\ k = row[b].attempt,
           \/ pc'[p] = "idle" /\ ProcessInv(p)'
           \/ /\ UNCHANGED <<cleanup, target, job>>
              /\ pc'[p] \in (CleanupStep \ {"begin"}) \cup {"intent"}
              /\ pc'[p] \in {"unclaim", "unclaimDone", "complete"} => job[p].kind # "replace"
              /\ pc'[p] = "unclaimDone" => job[p].kind = "retire"
              /\ pc'[p] = "intent" => /\ job[p].kind = "replace" /\ pc[p] = "releaseDone"
                                      /\ row'[b] # NoRow /\ row'[b].clear = "released"
              /\ CleanupInv(p)' /\ CallInv(p)'
              /\ "block" \notin TrackerMoves /\ pc'[p] \in {"unclaimDone", "complete"} =>
                    tracker'[b].who # row'[b].actor,
           RowInv(b)', TrackerInv(b)'
    PROVE  IInv'
  <1>1. Locked(p) /\ pc[p] # "admit" /\ pc[p] # "idle"
    BY DEF CleanupStep, Locked
  <1>2. TypeOK /\ ProcessInv(p) /\ job[p] \in Job /\ b \in Bead /\ job[p].attempt \in Attempt
    BY <1>1, AtWork
  <1>3. WorldFrame(p)
    <2>1. \A k \in Attempt : delivered[k] <= 1
      BY DEF IInv, AttemptInv
    <2>2. pc'[p] # "idle" => job'[p] = job[p]
      OBVIOUS
    <2>3. QED
      BY <2>1, <2>2 DEF WorldFrame, Now
  <1>4. CASE pc'[p] = "idle" /\ ProcessInv(p)'
    BY <1>1, <1>2, <1>3, <1>4, StepPreserves
  <1>5. CASE pc'[p] # "idle"
    <2>1. /\ job' = job /\ cleanup' = cleanup /\ target' = target
          /\ pc'[p] \in {"release", "releaseDone", "unclaim", "unclaimDone", "complete", "intent"}
          /\ pc'[p] = "intent" => pc[p] = "releaseDone" /\ job[p].kind = "replace"
          /\ job'[p] = job[p]
      BY <1>5 DEF CleanupStep
    <2>2. LockInv(p)'
      <3>1. LockInv(p)
        BY <1>2 DEF ProcessInv
      <3>2. /\ job[p] \in Job /\ cleanup[job[p].bead] = p /\ job[p].kind \notin {"assign", "recover"}
            /\ job[p].kind \in ExecuteKind => target[job[p].pane] = p
        BY <1>1, <1>2, <3>1 DEF LockInv, PaneLocked
      <3>3. QED
        BY <1>5, <2>1, <3>2 DEF LockInv, PaneLocked, ExecuteStep, ExecuteKind
    <2>3. \A c \in Bead : row'[c] # NoRow => /\ row[c] # NoRow /\ row'[c].attempt = row[c].attempt
                                            /\ row'[c].pane = row[c].pane
      BY DEF SameAttempt
    <2>4. JobInv(p)'
      BY <1>1, <1>2, <2>1, <2>3 DEF ProcessInv, JobInv
    <2>5. FreshInv(p)'
      <3>1. SUFFICES ASSUME Early(p)' PROVE FreshInv(p)'
        BY DEF FreshInv
      <3>2. Early(p)
        <4>1. job[p].kind = "replace"
          BY <1>2, <2>1, <3>1 DEF Early, NewKind, ProcessInv, LockInv
        <4>2. pc[p] \in {"begin", "release", "releaseDone"}
          BY <1>2, <4>1 DEF ProcessInv, LockInv, CleanupStep
        <4>3. QED
          BY <4>1, <4>2 DEF Early, NewKind
      <3>3. QED
        BY <1>2, <2>1, <2>3, <3>2 DEF ProcessInv, FreshInv, OthersStay
    <2>6. AdmittedInv(p)'
      BY <1>2, <2>1, <1>5 DEF AdmittedInv, Now
    <2>7. ExecuteInv(p)'
      BY <2>1 DEF ExecuteInv, Executing, Reserving, Dispatching, Sending
    <2>8. ClaimInv(p)'
      <3>1. pc'[p] = "intent" => ~ Own(p)'
        <4>1. SUFFICES ASSUME pc'[p] = "intent" PROVE ~ Own(p)'
          OBVIOUS
        <4>2. Early(p)'
          BY <2>1, <4>1 DEF Early, NewKind
        <4>3. QED
          BY <1>2, <2>1, <2>5, <4>2 DEF FreshInv, Own, Now
      <3>2. QED
        BY <1>5, <2>1, <3>1 DEF ClaimInv, Now, Reserving
    <2>9. PaneInv(p)'
      <3>1. SUFFICES ASSUME PaneLocked(p)', pc'[p] \in {"authorize", "begin", "release", "releaseDone", "intent"},
                            NEW c \in Bead, c # b, Works(c)'
                     PROVE  row'[c].pane # job[p].pane
        BY <2>1 DEF PaneInv
      <3>2. job[p].kind = "replace" /\ PaneLocked(p)
        BY <1>1, <1>2, <2>1, <3>1 DEF ProcessInv, LockInv, PaneLocked, ExecuteKind
      <3>3. pc[p] \in {"begin", "release", "releaseDone"}
        BY <1>2, <3>2 DEF ProcessInv, LockInv, CleanupStep
      <3>4. Works(c)
        BY <3>1 DEF Works
      <3>5. QED
        BY <1>2, <3>1, <3>2, <3>3, <3>4 DEF ProcessInv, PaneInv
    <2>10. ProcessInv(p)'
      BY <1>5, <2>2, <2>4, <2>5, <2>6, <2>7, <2>8, <2>9 DEF ProcessInv
    <2>11. QED
      BY <1>1, <1>2, <1>3, <2>10, StepPreserves
  <1>6. QED
    BY <1>4, <1>5 DEF CleanupStep

\* What a step of a cleanup finds when it begins.
LEMMA AtCleanup ==
    ASSUME IInv, NEW p \in Process, pc[p] \in CleanupStep, NEW b, b = job[p].bead
    PROVE  /\ TypeOK /\ job[p] \in Job /\ b \in Bead
           /\ row[b] \in Row \cup {NoRow} /\ RowInv(b) /\ TrackerInv(b) /\ Now(p) = row[b]
           /\ LockInv(p) /\ CleanupInv(p) /\ CallInv(p) /\ ClaimInv(p)
           /\ pc[p] # "begin" => row[b] # NoRow /\ row[b].clear # "none"
  <1>1. Locked(p)
    BY DEF CleanupStep, Locked
  <1>2. LockInv(p) /\ CleanupInv(p) /\ CallInv(p) /\ ClaimInv(p)
    BY DEF IInv, ProcessInv
  <1>3. pc[p] # "begin" => row[b] # NoRow /\ row[b].clear # "none"
    BY <1>2 DEF CleanupInv, CleanupStep, Releasing, Now
  <1>4. QED
    BY <1>1, <1>2, <1>3, AtWork DEF Now

\* The barrier of a cleanup goes up, and stays if it was up.
LEMMA BeginCleanupPreserves ==
    ASSUME IInv, NEW p \in Process, BeginCleanup(p)
    PROVE  IInv'
  <1>1. PICK b : b = job[p].bead
    OBVIOUS
  <1>2. pc[p] = "begin" /\ pc[p] \in CleanupStep /\ UNCHANGED <<created, delivered, tracker, leases>>
    BY DEF BeginCleanup, CleanupStep, external
  <1>3. /\ TypeOK /\ job[p] \in Job /\ b \in Bead
        /\ row[b] \in Row \cup {NoRow} /\ RowInv(b) /\ TrackerInv(b) /\ Now(p) = row[b]
        /\ LockInv(p) /\ CleanupInv(p)
    BY <1>1, <1>2, AtCleanup
  <1>4. CASE ~ MayBegin(job[p])
    BY <1>2, <1>4, ReturnPreserves DEF BeginCleanup, external
  <1>5. CASE MayBegin(job[p])
    <2>1. PICK r : r = Begun(job[p], row[b])
      OBVIOUS
    <2>2. row[b] # NoRow /\ row[b] \in Row
      BY <1>1, <1>3, <1>5 DEF MayBegin
    <2>3. /\ r \in Row /\ r # NoRow
          /\ r.attempt = row[b].attempt /\ r.pane = row[b].pane /\ r.actor = row[b].actor
          /\ r.claim = row[b].claim /\ r.resv = row[b].resv /\ r.status = row[b].status
          /\ r.claimFree = row[b].claimFree /\ r.clear # "none" /\ r.dispatch # "sending"
          /\ r.clear = "released" => row[b].clear = "released"
          /\ row[b].clear = "released" => r.clear = "released"
      <3>1. CASE row[b].clear # "none"
        BY <1>3, <2>1, <2>2, <3>1 DEF Begun, RowInv
      <3>2. CASE row[b].clear = "none"
        <4>1. r = [row[b] EXCEPT !.clear = "releasing",
                                 !.dispatch = IF @ = "sending" THEN "pending" ELSE @,
                                 !.ending = (job[p].kind = "retire")]
          BY <2>1, <3>2 DEF Begun
        <4>2. QED
          BY <2>2, <3>2, <4>1, NoRowAssumption, ZenonT(60) DEF Row, NoRowAssumption
      <3>3. QED
        BY <3>1, <3>2
    <2>4. PICK step : step = IF row[b].clear = "released" THEN "unclaim" ELSE "release"
      OBVIOUS
    <2>5. /\ row' = [row EXCEPT ![b] = r]
          /\ OthersStay(p) /\ ControlOK' /\ pc'[p] = step /\ UNCHANGED <<cleanup, target, job, answer>>
      BY <1>1, <1>3, <1>5, <2>1, <2>4, ContinueMoves DEF BeginCleanup, Set, CleanupStep, locks
    <2>6. row'[b] = r /\ \A c \in Bead \ {b} : row'[c] = row[c]
      BY <1>3, <2>5 DEF TypeOK
    <2>7. TypeOK'
      BY <1>2, <1>3, <2>3, <2>5 DEF TypeOK, ControlOK
    <2>8. SameAttempt(b)
      BY <2>2, <2>3, <2>6 DEF SameAttempt, Works
    <2>9. RowInv(b)'
      BY <1>2, <1>3, <2>2, <2>3, <2>5, <2>6 DEF RowInv, Spent, MayHoldLeases
    <2>10. TrackerInv(b)'
      BY <1>2, <1>3, <2>2, <2>3, <2>6 DEF TrackerInv
    <2>11. CleanupInv(p)' /\ CallInv(p)'
      BY <1>1, <2>3, <2>4, <2>5, <2>6 DEF CleanupInv, CallInv, Now, Releasing
    <2>12. step \in {"unclaim", "release"} /\ (step = "unclaim" => job[p].kind # "replace")
      BY <1>2, <1>3, <2>4 DEF CleanupInv
    <2>13. QED
      BY <1>1, <1>2, <1>3, <2>5, <2>6, <2>7, <2>8, <2>9, <2>10, <2>11, <2>12, CleanupFrame DEF CleanupStep
  <1>6. QED
    BY <1>4, <1>5

\* Agent Mail holds nothing more for the row's attempt.
LEMMA ReleaseLeasesPreserves ==
    ASSUME IInv, NEW p \in Process, ReleaseLeases(p)
    PROVE  IInv'
  <1>1. PICK b : b = job[p].bead
    OBVIOUS
  <1>2. pc[p] = "release" /\ pc[p] \in CleanupStep /\ UNCHANGED <<row, created, delivered, tracker>>
    BY DEF ReleaseLeases, CleanupStep
  <1>3. /\ TypeOK /\ job[p] \in Job /\ b \in Bead
        /\ row[b] \in Row /\ row[b] # NoRow /\ row[b].clear # "none"
        /\ RowInv(b) /\ TrackerInv(b) /\ Now(p) = row[b]
    BY <1>1, <1>2, AtCleanup
  <1>4. OthersStay(p) /\ ControlOK' /\ pc'[p] = "releaseDone" /\ UNCHANGED <<cleanup, target, job, answer>>
    BY <1>3, ContinueMoves DEF ReleaseLeases, CleanupStep, locks
  <1>5. row[b].attempt \in Attempt
    BY <1>3 DEF Row
  <1>6. /\ leases' \in [Attempt -> {"none", "partial", "full"}]
        /\ leases'[row[b].attempt] = "none"
        /\ \A k \in Attempt : leases'[k] # leases[k] => k = row[b].attempt
    <2>1. leases' = IF MayHoldLeases(row[b]) THEN [leases EXCEPT ![row[b].attempt] = "none"] ELSE leases
      BY <1>1 DEF ReleaseLeases
    <2>2. QED
      BY <1>3, <1>5, <2>1 DEF TypeOK, RowInv
  <1>7. TypeOK'
    BY <1>2, <1>3, <1>4, <1>6 DEF TypeOK, ControlOK
  <1>8. SameAttempt(b)
    BY <1>2, <1>3 DEF SameAttempt, Works
  <1>9. RowInv(b)' /\ TrackerInv(b)'
    BY <1>2, <1>3, <1>6 DEF RowInv, TrackerInv
  <1>10. CleanupInv(p)' /\ CallInv(p)'
    BY <1>1, <1>2, <1>3, <1>4, <1>6 DEF CleanupInv, CallInv, Now, Releasing
  <1>11. QED
    BY <1>1, <1>2, <1>3, <1>4, <1>6, <1>7, <1>8, <1>9, <1>10, CleanupFrame DEF CleanupStep

\* The row forgets its leases, which Agent Mail no longer holds.
LEMMA RecordLeasesReleasedPreserves ==
    ASSUME IInv, NEW p \in Process, RecordLeasesReleased(p)
    PROVE  IInv'
  <1>1. PICK b : b = job[p].bead
    OBVIOUS
  <1>2. PICK r : r = LeasesReleased(row[b])
    OBVIOUS
  <1>3. PICK step : step = IF job[p].kind = "replace" THEN "intent" ELSE "unclaim"
    OBVIOUS
  <1>4. pc[p] = "releaseDone" /\ pc[p] \in CleanupStep /\ UNCHANGED <<created, delivered, tracker, leases>>
    BY DEF RecordLeasesReleased, CleanupStep, external
  <1>5. /\ TypeOK /\ job[p] \in Job /\ b \in Bead
        /\ row[b] \in Row /\ row[b] # NoRow /\ row[b].clear # "none"
        /\ RowInv(b) /\ TrackerInv(b) /\ CallInv(p) /\ Now(p) = row[b]
    BY <1>1, <1>4, AtCleanup
  <1>6. leases[row[b].attempt] = "none"
    BY <1>4, <1>5 DEF CallInv
  <1>7. /\ r \in Row /\ r # NoRow
        /\ r.attempt = row[b].attempt /\ r.pane = row[b].pane /\ r.actor = row[b].actor
        /\ r.claim = row[b].claim /\ r.status = row[b].status /\ r.dispatch = row[b].dispatch
        /\ r.claimFree = row[b].claimFree /\ r.clear = "released" /\ r.resv = "released"
    BY <1>2, <1>5, NoRowAssumption DEF LeasesReleased, Row, NoRowAssumption
  <1>8. /\ row' = [row EXCEPT ![b] = r]
        /\ OthersStay(p) /\ ControlOK' /\ pc'[p] = step /\ UNCHANGED <<cleanup, target, job, answer>>
    BY <1>1, <1>2, <1>3, <1>5, ContinueMoves DEF RecordLeasesReleased, Set, CleanupStep, ExecuteStep, locks
  <1>9. row'[b] = r /\ \A c \in Bead \ {b} : row'[c] = row[c]
    BY <1>5, <1>8 DEF TypeOK
  <1>10. TypeOK'
    BY <1>4, <1>5, <1>7, <1>8 DEF TypeOK, ControlOK
  <1>11. SameAttempt(b)
    BY <1>5, <1>7, <1>9 DEF SameAttempt, Works
  <1>12. RowInv(b)'
    BY <1>4, <1>5, <1>6, <1>7, <1>9 DEF RowInv, Spent
  <1>13. TrackerInv(b)'
    BY <1>4, <1>5, <1>7, <1>9 DEF TrackerInv
  <1>14. CleanupInv(p)' /\ CallInv(p)'
    BY <1>1, <1>3, <1>7, <1>8, <1>9 DEF CleanupInv, CallInv, Now, Releasing
  <1>15. QED
    BY <1>1, <1>3, <1>4, <1>5, <1>7, <1>8, <1>9, <1>10, <1>11, <1>12, <1>13, <1>14, CleanupFrame DEF CleanupStep

\* The tracker no longer names the actor, unless the bead is blocked.
LEMMA ReleaseClaimPreserves ==
    ASSUME IInv, NEW p \in Process, ReleaseClaim(p)
    PROVE  IInv'
  <1>1. PICK b : b = job[p].bead
    OBVIOUS
  <1>2. PICK step : step = IF job[p].kind = "retire" THEN "unclaimDone" ELSE "complete"
    OBVIOUS
  <1>3. pc[p] = "unclaim" /\ pc[p] \in CleanupStep /\ UNCHANGED <<row, created, delivered, leases>>
    BY DEF ReleaseClaim, CleanupStep
  <1>4. /\ TypeOK /\ job[p] \in Job /\ b \in Bead
        /\ row[b] \in Row /\ row[b] # NoRow /\ row[b].clear # "none"
        /\ RowInv(b) /\ TrackerInv(b) /\ CleanupInv(p) /\ LockInv(p) /\ Now(p) = row[b]
    BY <1>1, <1>3, AtCleanup
  <1>5. row[b].clear = "released" /\ job[p].kind # "replace"
    BY <1>3, <1>4 DEF CleanupInv, LockInv
  <1>6. OthersStay(p) /\ ControlOK' /\ pc'[p] = step /\ UNCHANGED <<cleanup, target, job, answer>>
    BY <1>2, <1>4, ContinueMoves DEF ReleaseClaim, CleanupStep, locks
  <1>7. PICK now : now = Unclaimed(b, row[b].actor)
    OBVIOUS
  <1>8. /\ now \in [status : {"open", "in_progress", "blocked", "closed"}, who : Attempt \cup {Nobody, Human}]
        /\ now = tracker[b] \/ (now.who = Nobody /\ now.status \in {"open", "closed"})
        /\ tracker[b].status # "blocked" => now.who # row[b].actor
    <2>1. row[b].actor \in Attempt /\ Nobody \notin Attempt
      BY <1>4, AtomicAssumption DEF Row, AtomicAssumption, Attempt
    <2>2. tracker[b] \in [status : {"open", "in_progress", "blocked", "closed"}, who : Attempt \cup {Nobody, Human}]
      BY <1>4 DEF TypeOK
    <2>3. CASE tracker[b].who # row[b].actor \/ tracker[b].status = "blocked"
      BY <1>7, <2>2, <2>3 DEF Unclaimed
    <2>4. CASE tracker[b].who = row[b].actor /\ tracker[b].status # "blocked"
      <3>1. now = [who |-> Nobody, status |-> IF tracker[b].status = "closed" THEN "closed" ELSE "open"]
        BY <1>7, <2>4 DEF Unclaimed
      <3>2. QED
        BY <2>1, <3>1
    <2>5. QED
      BY <2>3, <2>4
  <1>9. (tracker' = tracker /\ row[b].claimFree) \/ tracker' = [tracker EXCEPT ![b] = now]
    BY <1>1, <1>7 DEF ReleaseClaim
  <1>10. /\ \A c \in Bead \ {b} : tracker'[c] = tracker[c]
         /\ \/ tracker'[b] = tracker[b] /\ row[b].claimFree
            \/ tracker'[b] = now
    BY <1>4, <1>9 DEF TypeOK
  <1>11. TypeOK'
    BY <1>3, <1>4, <1>6, <1>8, <1>9 DEF TypeOK, ControlOK
  <1>12. SameAttempt(b) /\ RowInv(b)'
    BY <1>3, <1>4 DEF SameAttempt, Works, RowInv
  <1>13. "block" \notin TrackerMoves => tracker'[b].who # row[b].actor
    BY <1>4, <1>8, <1>10 DEF TrackerInv
  <1>14. TrackerInv(b)'
    <2>1. Nobody \notin Attempt /\ Nobody # Human
      BY AtomicAssumption DEF AtomicAssumption, Attempt
    <2>2. tracker'[b] = tracker[b] \/ (tracker'[b].who = Nobody /\ tracker'[b].status \in {"open", "closed"})
      BY <1>8, <1>10
    <2>3. QED
      BY <1>3, <1>4, <1>13, <2>1, <2>2 DEF TrackerInv
  <1>15. CleanupInv(p)' /\ CallInv(p)'
    BY <1>1, <1>2, <1>3, <1>4, <1>5, <1>6 DEF CleanupInv, CallInv, Now, Releasing
  <1>16. QED
    BY <1>1, <1>2, <1>3, <1>4, <1>5, <1>6, <1>10, <1>11, <1>12, <1>13, <1>14, <1>15, CleanupFrame DEF CleanupStep

\* The row of an end records that its claim is given back.
LEMMA RecordTerminalClaimReleasedPreserves ==
    ASSUME IInv, NEW p \in Process, RecordTerminalClaimReleased(p)
    PROVE  IInv'
  <1>1. PICK b : b = job[p].bead
    OBVIOUS
  <1>2. PICK r : r = [row[b] EXCEPT !.claimFree = TRUE]
    OBVIOUS
  <1>3. pc[p] = "unclaimDone" /\ pc[p] \in CleanupStep /\ UNCHANGED <<created, delivered, tracker, leases>>
    BY DEF RecordTerminalClaimReleased, CleanupStep, external
  <1>4. /\ TypeOK /\ job[p] \in Job /\ b \in Bead
        /\ row[b] \in Row /\ row[b] # NoRow /\ row[b].clear # "none"
        /\ RowInv(b) /\ TrackerInv(b) /\ CleanupInv(p) /\ ClaimInv(p) /\ LockInv(p) /\ Now(p) = row[b]
    BY <1>1, <1>3, AtCleanup
  <1>5. /\ row[b].clear = "released" /\ job[p].kind = "retire"
        /\ "block" \notin TrackerMoves => tracker[b].who # row[b].actor
    BY <1>1, <1>3, <1>4 DEF CleanupInv, ClaimInv, LockInv
  <1>6. /\ r \in Row /\ r # NoRow
        /\ r.attempt = row[b].attempt /\ r.pane = row[b].pane /\ r.actor = row[b].actor
        /\ r.claim = row[b].claim /\ r.status = row[b].status /\ r.dispatch = row[b].dispatch
        /\ r.clear = row[b].clear /\ r.resv = row[b].resv
    BY <1>2, <1>4, NoRowAssumption DEF Row, NoRowAssumption
  <1>7. /\ row' = [row EXCEPT ![b] = r]
        /\ OthersStay(p) /\ ControlOK' /\ pc'[p] = "complete" /\ UNCHANGED <<cleanup, target, job, answer>>
    BY <1>1, <1>2, <1>4, ContinueMoves DEF RecordTerminalClaimReleased, Set, CleanupStep, locks
  <1>8. row'[b] = r /\ \A c \in Bead \ {b} : row'[c] = row[c]
    BY <1>4, <1>7 DEF TypeOK
  <1>9. TypeOK'
    BY <1>3, <1>4, <1>6, <1>7 DEF TypeOK, ControlOK
  <1>10. SameAttempt(b)
    BY <1>4, <1>6, <1>8 DEF SameAttempt, Works
  <1>11. RowInv(b)'
    BY <1>3, <1>4, <1>6, <1>8 DEF RowInv, Spent, MayHoldLeases
  <1>12. TrackerInv(b)'
    BY <1>3, <1>4, <1>5, <1>6, <1>8 DEF TrackerInv
  <1>13. CleanupInv(p)' /\ CallInv(p)'
    BY <1>1, <1>4, <1>5, <1>6, <1>7, <1>8 DEF CleanupInv, CallInv, Now, Releasing
  <1>14. QED
    BY <1>1, <1>3, <1>4, <1>5, <1>6, <1>7, <1>8, <1>9, <1>10, <1>11, <1>12, <1>13, CleanupFrame DEF CleanupStep

\* A row goes, or ends, when nothing outside is held in its name.
LEMMA CompletePreserves ==
    ASSUME IInv, NEW p \in Process, Complete(p)
    PROVE  IInv'
  <1>1. PICK b : b = job[p].bead
    OBVIOUS
  <1>2. pc[p] = "complete" /\ pc[p] \in CleanupStep /\ UNCHANGED <<created, delivered, tracker, leases>>
    BY DEF Complete, CleanupStep, external
  <1>3. /\ TypeOK /\ job[p] \in Job /\ b \in Bead
        /\ row[b] \in Row /\ row[b] # NoRow /\ row[b].clear # "none"
        /\ RowInv(b) /\ TrackerInv(b) /\ CleanupInv(p) /\ ClaimInv(p) /\ Now(p) = row[b]
    BY <1>1, <1>2, AtCleanup
  <1>4. /\ row[b].clear = "released" /\ leases[row[b].attempt] = "none"
        /\ "block" \notin TrackerMoves => tracker[b].who # row[b].actor
    BY <1>1, <1>2, <1>3 DEF CleanupInv, ClaimInv, RowInv, MayHoldLeases
  <1>5. OthersStay(p) /\ ControlOK' /\ pc'[p] = "idle" /\ ProcessInv(p)'
    BY <1>3, ReturnFrees DEF Complete
  <1>6. CASE job[p].kind = "retire"
    <2>1. PICK r : r = Retired(row[b])
      OBVIOUS
    <2>2. /\ r \in Row /\ r # NoRow
          /\ r.attempt = row[b].attempt /\ r.pane = row[b].pane /\ r.actor = row[b].actor
          /\ r.dispatch = row[b].dispatch /\ r.status = "ended" /\ r.clear = "none" /\ ~ r.claimFree
          /\ r.resv = "released"
      BY <1>3, <2>1, NoRowAssumption DEF Retired, Row, NoRowAssumption
    <2>3. row' = [row EXCEPT ![b] = r]
      BY <1>1, <1>6, <2>1 DEF Complete, Set
    <2>4. row'[b] = r /\ \A c \in Bead \ {b} : row'[c] = row[c]
      BY <1>3, <2>3 DEF TypeOK
    <2>5. TypeOK'
      BY <1>2, <1>3, <1>5, <2>2, <2>3 DEF TypeOK, ControlOK
    <2>6. SameAttempt(b)
      BY <1>3, <2>2, <2>4 DEF SameAttempt, Works, LiveStatus, RowInv
    <2>7. RowInv(b)'
      BY <1>2, <1>3, <1>4, <2>2, <2>4 DEF RowInv, Spent
    <2>8. TrackerInv(b)'
      BY <1>2, <1>3, <2>2, <2>4 DEF TrackerInv, LiveStatus
    <2>9. QED
      BY <1>1, <1>2, <1>5, <2>4, <2>5, <2>6, <2>7, <2>8, CleanupFrame
  <1>7. CASE job[p].kind # "retire"
    <2>1. row' = [row EXCEPT ![b] = NoRow]
      BY <1>1, <1>7 DEF Complete, Set
    <2>2. row'[b] = NoRow /\ \A c \in Bead \ {b} : row'[c] = row[c]
      BY <1>3, <2>1 DEF TypeOK
    <2>3. TypeOK'
      BY <1>2, <1>3, <1>5, <2>1 DEF TypeOK, ControlOK
    <2>4. Dropped(b) /\ RowInv(b)'
      BY <1>2, <1>4, <2>2 DEF Dropped, RowInv
    <2>5. TrackerInv(b)'
      BY <1>2, <1>3, <1>4, <2>2 DEF TrackerInv
    <2>6. QED
      BY <1>1, <1>2, <1>5, <2>2, <2>3, <2>4, <2>5, CleanupFrame
  <1>8. QED
    BY <1>6, <1>7

-----------------------------------------------------------------------------
(***************************************************************************)
(* The detector and the world.                                             *)
(***************************************************************************)
\* The detector keeps off a bead that Execute works on; to a cleanup that has only
\* its lock, nothing was promised yet.
LEMMA DetectorPreserves ==
    ASSUME IInv, NEW b \in Bead, ~ Operating(b), UNCHANGED rest,
           NEW r \in Row, row' = [row EXCEPT ![b] = r],
           row[b] # NoRow, row[b].clear = "none",
           r.attempt = row[b].attempt, r.pane = row[b].pane, r.actor = row[b].actor,
           r.claim = row[b].claim, r.resv = row[b].resv, r.dispatch = row[b].dispatch,
           r.claimFree = row[b].claimFree, r.status \in LiveStatus, row[b].status \in LiveStatus,
           r.clear # "released", r.clear # "none" => r.dispatch # "sending",
           r.clear = "none" => (r.status = "ended" <=> row[b].status = "ended")
    PROVE  IInv'
  <1>1. UNCHANGED <<created, delivered, tracker, leases, cleanup, target, job, pc, answer>>
    BY DEF rest, external, locks
  <1>2. TypeOK /\ r # NoRow
    BY NoRowAssumption DEF IInv, NoRowAssumption
  <1>3. row'[b] = r /\ \A c \in Bead \ {b} : row'[c] = row[c]
    BY <1>2 DEF TypeOK
  <1>4. TypeOK'
    BY <1>1, <1>2 DEF TypeOK
  <1>5. \A c \in Bead : /\ row'[c] # NoRow <=> row[c] # NoRow
                        /\ row[c] # NoRow => row'[c].attempt = row[c].attempt /\ row'[c].pane = row[c].pane
    BY <1>2, <1>3
  <1>6. \A c \in Bead : Works(c)' => Works(c)
    BY <1>2, <1>3 DEF Works
  <1>7. ASSUME NEW p \in Process PROVE ProcessInv(p)'
    <2>1. ProcessInv(p) /\ Locked(p)' = Locked(p) /\ PaneLocked(p)' = PaneLocked(p) /\ Early(p)' = Early(p)
      BY <1>1, <1>7 DEF IInv, Locked, PaneLocked, Early
    <2>2. LockInv(p)'
      BY <1>1, <2>1 DEF ProcessInv, LockInv
    <2>3. JobInv(p)' /\ FreshInv(p)'
      BY <1>1, <1>5, <2>1 DEF ProcessInv, JobInv, FreshInv
    <2>4. PaneInv(p)'
      BY <1>1, <1>5, <1>6, <2>1 DEF ProcessInv, PaneInv, Works
    <2>5. CASE Locked(p) /\ job[p].bead = b
      <3>1. job[p].kind \notin ExecuteKind
        BY <1>7, <2>1, <2>5 DEF ProcessInv, LockInv, Operating
      <3>2. pc[p] \notin ExecuteStep /\ pc[p] \in CleanupStep
        BY <1>2, <1>7, <2>1, <2>5, <3>1 DEF ProcessInv, LockInv, Locked, TypeOK
      <3>3. pc[p] = "begin"
        BY <2>1, <2>5, <3>2 DEF ProcessInv, CleanupInv, CleanupStep, Releasing, Now
      <3>4. AdmittedInv(p)' /\ ExecuteInv(p)' /\ CleanupInv(p)' /\ CallInv(p)' /\ ClaimInv(p)'
        BY <1>1, <3>1, <3>3 DEF AdmittedInv, ExecuteInv, CleanupInv, CallInv, ClaimInv, Executing, Releasing,
           Reserving, Dispatching, Sending, ExecuteKind
      <3>5. QED
        BY <2>2, <2>3, <2>4, <3>4 DEF ProcessInv
    <2>6. CASE Locked(p) /\ job[p].bead # b
      <3>1. Now(p)' = Now(p)
        BY <1>1, <1>3, <2>1, <2>6 DEF Now, ProcessInv, LockInv, Job, Locked
      <3>2. AdmittedInv(p)' /\ ExecuteInv(p)' /\ CleanupInv(p)' /\ CallInv(p)' /\ ClaimInv(p)'
        BY <1>1, <2>1, <3>1 DEF ProcessInv, AdmittedInv, ExecuteInv, CleanupInv, CallInv, ClaimInv, Own, Held
      <3>3. QED
        BY <2>2, <2>3, <2>4, <3>2 DEF ProcessInv
    <2>7. CASE ~ Locked(p)
      <3>1. AdmittedInv(p)' /\ ExecuteInv(p)' /\ CleanupInv(p)' /\ CallInv(p)' /\ ClaimInv(p)'
        BY <1>1, <2>7 DEF AdmittedInv, ExecuteInv, CleanupInv, CallInv, ClaimInv, Executing, Releasing,
           Reserving, Dispatching, Sending, Locked
      <3>2. QED
        BY <2>2, <2>3, <2>4, <3>1 DEF ProcessInv
    <2>8. QED
      BY <2>5, <2>6, <2>7
  <1>8. ASSUME NEW c \in Bead PROVE RowInv(c)' /\ TrackerInv(c)'
    <2>1. RowInv(c) /\ TrackerInv(c)
      BY <1>8 DEF IInv
    <2>2. CASE c # b
      BY <1>1, <1>3, <1>8, <2>1, <2>2 DEF RowInv, TrackerInv
    <2>3. CASE c = b
      <3>1. RowInv(b)'
        BY <1>1, <1>2, <1>3, <2>1, <2>3 DEF RowInv, Spent, MayHoldLeases
      <3>2. TrackerInv(b)'
        BY <1>1, <1>2, <1>3, <2>1, <2>3 DEF TrackerInv
      <3>3. QED
        BY <2>3, <3>1, <3>2
    <2>4. QED
      BY <2>2, <2>3
  <1>9. UniqueInv' /\ PaneExclusion'
    BY <1>5, <1>6 DEF IInv, UniqueInv, PaneExclusion, Works
  <1>10. ASSUME NEW k \in Attempt PROVE AttemptInv(k)'
    <2>1. AttemptInv(k)
      BY <1>10 DEF IInv
    <2>2. QED
      BY <1>1, <1>5, <2>1 DEF AttemptInv
  <1>11. QED
    BY <1>4, <1>7, <1>8, <1>9, <1>10 DEF IInv

\* A watch loop sees the agent at work.
LEMMA MarkWorkingPreserves ==
    ASSUME IInv, NEW b \in Bead, MarkWorking(b)
    PROVE  IInv'
  <1>1. PICK r : r = [row[b] EXCEPT !.status = "working"]
    OBVIOUS
  <1>2. /\ row[b] # NoRow /\ row[b].status = "assigned" /\ row[b].clear = "none" /\ ~ Operating(b)
        /\ row' = [row EXCEPT ![b] = r] /\ UNCHANGED rest /\ row[b] \in Row
    BY <1>1 DEF MarkWorking, Set, IInv, TypeOK
  <1>3. /\ r \in Row
        /\ r.attempt = row[b].attempt /\ r.pane = row[b].pane /\ r.actor = row[b].actor
        /\ r.claim = row[b].claim /\ r.resv = row[b].resv /\ r.dispatch = row[b].dispatch
        /\ r.claimFree = row[b].claimFree /\ r.clear = "none" /\ r.status = "working"
    BY <1>1, <1>2 DEF Row, LiveStatus
  <1>4. {"assigned", "working"} \subseteq LiveStatus
    BY DEF LiveStatus
  <1>5. QED
    BY <1>2, <1>3, <1>4, DetectorPreserves

\* A detector puts up the terminal barrier.
LEMMA DetectEndPreserves ==
    ASSUME IInv, NEW b \in Bead, DetectEnd(b)
    PROVE  IInv'
  <1>1. PICK r : r = [row[b] EXCEPT !.clear = "releasing", !.ending = TRUE]
    OBVIOUS
  <1>2. /\ row[b] # NoRow /\ row[b].status \in {"assigned", "working"} /\ row[b].clear = "none"
        /\ row[b].dispatch # "sending" /\ ~ Operating(b)
        /\ row' = [row EXCEPT ![b] = r] /\ UNCHANGED rest /\ row[b] \in Row
    BY <1>1 DEF DetectEnd, Set, IInv, TypeOK
  <1>3. /\ r \in Row
        /\ r.attempt = row[b].attempt /\ r.pane = row[b].pane /\ r.actor = row[b].actor
        /\ r.claim = row[b].claim /\ r.resv = row[b].resv /\ r.dispatch = row[b].dispatch
        /\ r.claimFree = row[b].claimFree /\ r.clear = "releasing" /\ r.status = row[b].status
    BY <1>1, <1>2 DEF Row
  <1>4. row[b].status \in LiveStatus
    BY <1>2 DEF LiveStatus
  <1>5. QED
    BY <1>2, <1>3, <1>4, DetectorPreserves

\* Others may close, reopen, block or take a bead; they never give it to an actor.
LEMMA TrackerMovePreserves ==
    ASSUME IInv, NEW b \in Bead, TrackerMove(b)
    PROVE  IInv'
  <1>1. UNCHANGED <<row, created, delivered, leases, cleanup, target, job, pc, answer>>
    BY DEF TrackerMove, locks
  <1>2. TypeOK /\ Human \notin Attempt /\ Nobody \notin Attempt
    BY AtomicAssumption DEF IInv, AtomicAssumption, Attempt
  <1>3. PICK status \in {"open", "in_progress", "blocked", "closed"}, who \in {tracker[b].who, Human} :
           /\ tracker' = [tracker EXCEPT ![b] = [status |-> status, who |-> who]]
           /\ status = "blocked" => "block" \in TrackerMoves
           /\ who # tracker[b].who => "take" \in TrackerMoves /\ who = Human
    <2>1. PICK move \in TrackerMoves :
             tracker' = [tracker EXCEPT ![b] = [status |-> StatusAfter(move),
                             who |-> IF move = "take" THEN Human ELSE tracker[b].who]]
      BY DEF TrackerMove
    <2>2. move \in {"close", "reopen", "block", "take"}
      BY AtomicAssumption DEF AtomicAssumption
    <2>3. /\ StatusAfter(move) \in {"open", "in_progress", "blocked", "closed"}
          /\ StatusAfter(move) = "blocked" => move = "block"
      BY <2>2 DEF StatusAfter
    <2>4. QED
      BY <2>1, <2>3
  <1>4. /\ \A c \in Bead \ {b} : tracker'[c] = tracker[c]
        /\ tracker'[b].status = status /\ tracker'[b].who = who
        /\ \A c \in Bead : tracker'[c].who = tracker[c].who \/ (tracker'[c].who = Human /\ "take" \in TrackerMoves)
    BY <1>2, <1>3 DEF TypeOK
  <1>5. TypeOK'
    <2>1. [status |-> status, who |-> who] \in [status : {"open", "in_progress", "blocked", "closed"},
                                                who    : Attempt \cup {Nobody, Human}]
      BY <1>2 DEF TypeOK
    <2>2. QED
      BY <1>1, <1>2, <1>3, <2>1 DEF TypeOK
  <1>6. ASSUME NEW p \in Process PROVE ProcessInv(p)'
    <2>1. ProcessInv(p)
      BY <1>6 DEF IInv
    <2>2. LockInv(p)' /\ JobInv(p)' /\ FreshInv(p)' /\ AdmittedInv(p)' /\ ExecuteInv(p)' /\ CleanupInv(p)'
          /\ CallInv(p)' /\ PaneInv(p)'
      BY <1>1, <2>1 DEF ProcessInv, LockInv, JobInv, FreshInv, AdmittedInv, ExecuteInv, CleanupInv, CallInv,
         PaneInv, Locked, PaneLocked, Early, Own, Now, Works
    <2>3. ClaimInv(p)'
      <3>1. pc[p] # "idle" => job[p].bead \in Bead
        BY <2>1 DEF ProcessInv, LockInv, Job
      <3>2. pc[p] # "idle" => (Held(p) => Held(p)')
        BY <1>1, <1>4, <3>1 DEF Held, Now
      <3>3. pc[p] \in {"unclaimDone", "complete"} => Now(p) # NoRow /\ Now(p).actor \in Attempt
        BY <1>2, <2>1, <3>1 DEF ProcessInv, CleanupInv, Releasing, Now, TypeOK, Row
      <3>4. QED
        BY <1>1, <1>2, <1>4, <2>1, <3>1, <3>2, <3>3 DEF ProcessInv, ClaimInv, Own, Now, Reserving
    <2>4. QED
      BY <2>2, <2>3 DEF ProcessInv
  <1>7. ASSUME NEW c \in Bead PROVE RowInv(c)' /\ TrackerInv(c)'
    <2>1. RowInv(c) /\ TrackerInv(c) /\ (row[c] # NoRow => row[c].actor \in Attempt)
      BY <1>2, <1>7 DEF IInv, TypeOK, Row
    <2>2. RowInv(c)'
      BY <1>1, <2>1 DEF RowInv
    <2>3. TrackerInv(c)'
      BY <1>1, <1>2, <1>3, <1>4, <1>7, <2>1 DEF TrackerInv
    <2>4. QED
      BY <2>2, <2>3
  <1>8. UniqueInv' /\ PaneExclusion' /\ \A k \in Attempt : AttemptInv(k)'
    BY <1>1 DEF IInv, UniqueInv, PaneExclusion, AttemptInv, Works
  <1>9. QED
    BY <1>5, <1>6, <1>7, <1>8 DEF IInv

\* A lease that runs out is as good as one given back.
LEMMA LeaseLapsesPreserves ==
    ASSUME IInv, NEW k \in Attempt, LeaseLapses(k)
    PROVE  IInv'
  <1>1. UNCHANGED <<row, created, delivered, tracker, cleanup, target, job, pc, answer>>
        /\ leases' = [leases EXCEPT ![k] = "none"]
    BY DEF LeaseLapses, locks
  <1>2. TypeOK /\ leases \in [Attempt -> {"none", "partial", "full"}]
    BY DEF IInv, TypeOK
  <1>3. \A i \in Attempt : leases'[i] = leases[i] \/ leases'[i] = "none"
    BY <1>1, <1>2
  <1>4. TypeOK'
    BY <1>1, <1>2 DEF TypeOK
  <1>5. ASSUME NEW p \in Process PROVE ProcessInv(p)'
    <2>1. ProcessInv(p)
      BY <1>5 DEF IInv
    <2>2. LockInv(p)' /\ JobInv(p)' /\ FreshInv(p)' /\ AdmittedInv(p)' /\ ExecuteInv(p)' /\ CleanupInv(p)'
          /\ ClaimInv(p)' /\ PaneInv(p)'
      BY <1>1, <2>1 DEF ProcessInv, LockInv, JobInv, FreshInv, AdmittedInv, ExecuteInv, CleanupInv, ClaimInv,
         PaneInv, Locked, PaneLocked, Early, Own, Now, Held, Works
    <2>3. CallInv(p)'
      <3>1. pc[p] # "idle" => job[p].attempt \in Attempt /\ job[p].bead \in Bead
        BY <2>1 DEF ProcessInv, LockInv, Job
      <3>2. pc[p] = "releaseDone" => Now(p).attempt \in Attempt
        BY <1>2, <2>1, <3>1 DEF ProcessInv, CleanupInv, Releasing, Now, TypeOK, Row
      <3>3. QED
        BY <1>1, <1>3, <2>1, <3>1, <3>2 DEF ProcessInv, CallInv, Now
    <2>4. QED
      BY <2>2, <2>3 DEF ProcessInv
  <1>6. ASSUME NEW b \in Bead PROVE RowInv(b)' /\ TrackerInv(b)'
    <2>1. RowInv(b) /\ TrackerInv(b) /\ (row[b] # NoRow => row[b].attempt \in Attempt)
      BY <1>2, <1>6 DEF IInv, TypeOK, Row
    <2>2. QED
      BY <1>1, <1>3, <2>1 DEF RowInv, TrackerInv
  <1>7. UniqueInv' /\ PaneExclusion'
    BY <1>1 DEF IInv, UniqueInv, PaneExclusion, Works
  <1>8. ASSUME NEW i \in Attempt PROVE AttemptInv(i)'
    BY <1>1, <1>3, <1>8 DEF IInv, AttemptInv
  <1>9. QED
    BY <1>4, <1>5, <1>6, <1>7, <1>8 DEF IInv

-----------------------------------------------------------------------------
\* At the start nobody has asked for anything.
LEMMA InitIInv == Init => IInv
  <1> SUFFICES ASSUME Init PROVE IInv
    OBVIOUS
  <1>1. TypeOK
    <2>1. 0 \in 0..MaxAttempt
      BY AtomicAssumption DEF AtomicAssumption
    <2>2. row \in [Bead -> Row \cup {NoRow}] /\ created \in 0..MaxAttempt
          /\ delivered \in [Attempt -> Nat] /\ leases \in [Attempt -> {"none", "partial", "full"}]
      BY <2>1 DEF Init
    <2>3. tracker \in [Bead -> [status : {"open", "in_progress", "blocked", "closed"},
                               who    : Attempt \cup {Nobody, Human}]]
      BY DEF Init
    <2>4. ControlOK
      BY DEF Init, ControlOK
    <2>5. QED
      BY <2>2, <2>3, <2>4 DEF TypeOK, ControlOK
  <1>2. \A p \in Process : ProcessInv(p)
    BY IdleProcess DEF Init
  <1>3. \A b \in Bead : row[b] = NoRow
    BY DEF Init
  <1>4. ASSUME NEW b \in Bead PROVE RowInv(b) /\ TrackerInv(b)
    BY <1>3, <1>4, AtomicAssumption DEF Init, RowInv, TrackerInv, AtomicAssumption, Attempt
  <1>5. ASSUME NEW k \in Attempt PROVE AttemptInv(k)
    <2>1. delivered[k] = 0 /\ leases[k] = "none"
      BY <1>5 DEF Init
    <2>2. QED
      BY <2>1 DEF AttemptInv
  <1>6. UniqueInv /\ PaneExclusion
    BY <1>3 DEF UniqueInv, PaneExclusion, Works
  <1>7. QED
    BY <1>1, <1>2, <1>4, <1>5, <1>6 DEF IInv

\* Every step between the locks and the return.
LEMMA WorkPreserves ==
    ASSUME IInv, NEW p \in Process, Work(p)
    PROVE  IInv'
  BY AuthorizePreserves, RecordIntentPreserves, StartClaimPreserves, ClaimPreserves,
     RecordClaimPreserves, UseReservationPreserves, ReconcileReservationPreserves,
     StartReservationPreserves, ReservePreserves, RecordReservationPreserves,
     StartDispatchPreserves, DispatchPreserves, RecordDispatchPreserves, BeginCleanupPreserves,
     ReleaseLeasesPreserves, RecordLeasesReleasedPreserves, ReleaseClaimPreserves,
     RecordTerminalClaimReleasedPreserves, CompletePreserves
  DEF Work

\* The invariant is inductive.
LEMMA NextIInv == IInv /\ [Next]_vars => IInv'
  <1> SUFFICES ASSUME IInv, [Next]_vars PROVE IInv'
    OBVIOUS
  <1>1. ASSUME NEW p \in Process, Request(p) \/ LockBead(p) \/ Admit(p) \/ Work(p) PROVE IInv'
    BY <1>1, RequestPreserves, LockBeadPreserves, AdmitPreserves, WorkPreserves
  <1>2. ASSUME NEW p \in Process, Stop(p) PROVE IInv'
    BY <1>2, ReturnPreserves DEF Stop
  <1>3. ASSUME NEW b \in Bead, MarkWorking(b) \/ DetectEnd(b) \/ TrackerMove(b) PROVE IInv'
    BY <1>3, MarkWorkingPreserves, DetectEndPreserves, TrackerMovePreserves
  <1>4. ASSUME NEW k \in Attempt, LeaseLapses(k) PROVE IInv'
    BY <1>4, LeaseLapsesPreserves
  <1>5. CASE UNCHANGED vars
    <2>1. UNCHANGED <<row, created, delivered, tracker, leases, cleanup, target, job, pc, answer>>
      BY <1>5 DEF vars, external, locks
    <2>2. TypeOK' /\ UniqueInv' /\ PaneExclusion'
      BY <2>1 DEF IInv, TypeOK, UniqueInv, PaneExclusion, Works
    <2>3. ASSUME NEW p \in Process PROVE ProcessInv(p)'
      BY <2>1, <2>3 DEF IInv, ProcessInv, LockInv, JobInv, FreshInv, AdmittedInv, ExecuteInv, CleanupInv, CallInv,
         ClaimInv, PaneInv, Locked, PaneLocked, Early, Own, Now, Held, Works
    <2>4. ASSUME NEW b \in Bead PROVE RowInv(b)' /\ TrackerInv(b)'
      BY <2>1, <2>4 DEF IInv, RowInv, TrackerInv
    <2>5. ASSUME NEW k \in Attempt PROVE AttemptInv(k)'
      BY <2>1, <2>5 DEF IInv, AttemptInv
    <2>6. QED
      BY <2>2, <2>3, <2>4, <2>5 DEF IInv
  <1>6. QED
    BY <1>1, <1>2, <1>3, <1>4, <1>5 DEF Next

\* The inductive invariant holds of AtomicAssignment: under its locks no process is
\* surprised by the row, the tracker, Agent Mail or the panes, whatever others do.
THEOREM Invariance == Spec => []IInv
  BY InitIInv, NextIInv, PTL DEF Spec

-----------------------------------------------------------------------------
(***************************************************************************)
(* What a step may do.                                                     *)
(***************************************************************************)
\* Only a live row that nobody ends is worked on; another row loses its attempt,
\* keeps its barrier, or is ended by the process that gave all back.
LEMMA RowStep ==
    ASSUME IInv, [Next]_vars, NEW b \in Bead, row[b] # NoRow, row'[b] # NoRow, row'[b] # row[b],
           row'[b].attempt = row[b].attempt
    PROVE  \/ row[b].clear = "none" /\ row[b].status \in LiveStatus
           \/ row'[b].clear # "none" /\ (row[b].clear = "released" => row'[b].clear = "released")
           \/ /\ row'[b].status = "ended"
              /\ \E p \in Process : pc[p] = "complete" /\ job[p].bead = b
  <1>1. TypeOK /\ row[b] \in Row
    BY DEF IInv, TypeOK
  <1>2. CASE \E c \in Bead : MarkWorking(c) \/ DetectEnd(c)
    <2>1. PICK c \in Bead : MarkWorking(c) \/ DetectEnd(c)
      BY <1>2
    <2>2. row[c].clear = "none" /\ row[c].status \in LiveStatus
      BY <2>1 DEF MarkWorking, DetectEnd, LiveStatus
    <2>3. c = b
      BY <1>1, <2>1 DEF MarkWorking, DetectEnd, Set, TypeOK
    <2>4. QED
      BY <2>2, <2>3
  <1>3. CASE \E p \in Process : Work(p)
    <2>1. PICK p \in Process : Work(p)
      BY <1>3
    <2>2. Locked(p) /\ ProcessInv(p) /\ job[p].bead \in Bead
      <3>1. pc[p] \notin {"idle", "lock"}
        BY <2>1 DEF Work, Authorize, RecordIntent, StartClaim, Claim, RecordClaim, UseReservation,
           ReconcileReservation, StartReservation, Reserve, RecordReservation, StartDispatch, Dispatch,
           RecordDispatch, BeginCleanup, ReleaseLeases, RecordLeasesReleased, ReleaseClaim,
           RecordTerminalClaimReleased, Complete
      <3>2. QED
        BY <3>1, AtWork DEF Locked
    <2>3. PICK c : c = job[p].bead
      OBVIOUS
    <2>4. CASE pc[p] \in Executing
      <3>1. row[c].clear = "none" /\ row[c].status \in LiveStatus
        BY <2>2, <2>3, <2>4 DEF ProcessInv, ExecuteInv, Now
      <3>2. row'[b] = row[b] \/ b = c
        BY <1>1, <2>1, <2>2, <2>3, <2>4 DEF Work, Authorize, RecordIntent, StartClaim, Claim, RecordClaim, UseReservation,
           ReconcileReservation, StartReservation, Reserve, RecordReservation, StartDispatch, Dispatch,
           RecordDispatch, BeginCleanup, ReleaseLeases, RecordLeasesReleased, ReleaseClaim,
           RecordTerminalClaimReleased, Complete, Answer, Set, TypeOK
      <3>3. QED
        BY <3>1, <3>2
    <2>5. CASE Authorize(p)
      BY <2>5 DEF Authorize
    <2>6. CASE RecordIntent(p)
      <3>1. row' = row \/ (row' = [row EXCEPT ![c] = NewRow(job[p])]
                            /\ (row[c] = NoRow \/ row[c].attempt # job[p].attempt))
        BY <2>3, <2>6 DEF RecordIntent, Set
      <3>2. b = c /\ row'[b] = NewRow(job[p])
        BY <1>1, <2>2, <2>3, <3>1 DEF TypeOK
      <3>3. NewRow(job[p]).attempt = job[p].attempt
        BY DEF NewRow
      <3>4. QED
        BY <3>1, <3>2, <3>3
    <2>7. CASE BeginCleanup(p) \/ RecordLeasesReleased(p) \/ RecordTerminalClaimReleased(p)
      <3>1. \/ row' = row
            \/ row' = [row EXCEPT ![c] = Begun(job[p], row[c])]
            \/ row' = [row EXCEPT ![c] = LeasesReleased(row[c])]
            \/ (row' = [row EXCEPT ![c] = [row[c] EXCEPT !.claimFree = TRUE]] /\ row[c].clear # "none")
        BY <2>2, <2>3, <2>7 DEF BeginCleanup, RecordLeasesReleased, RecordTerminalClaimReleased, Set,
           ProcessInv, CleanupInv, Releasing, Now
      <3>2. /\ b = c
            /\ \/ row'[b] = Begun(job[p], row[b]) \/ row'[b] = LeasesReleased(row[b])
               \/ row'[b] = [row[b] EXCEPT !.claimFree = TRUE] /\ row[b].clear # "none"
        <4>1. ASSUME NEW r, row' = [row EXCEPT ![c] = r] PROVE b = c /\ row'[b] = r
          BY <1>1, <2>2, <2>3, <4>1 DEF TypeOK
        <4>2. QED
          BY <3>1, <4>1
      <3>3. /\ Begun(job[p], row[b]).clear # "none"
            /\ row[b].clear = "released" => Begun(job[p], row[b]).clear = "released"
        BY <1>1 DEF Begun, Row
      <3>4. LeasesReleased(row[b]).clear = "released"
        BY <1>1 DEF LeasesReleased, Row
      <3>5. [row[b] EXCEPT !.claimFree = TRUE].clear = row[b].clear
        BY <1>1 DEF Row
      <3>6. QED
        BY <3>2, <3>3, <3>4, <3>5
    <2>8. CASE ReleaseLeases(p) \/ ReleaseClaim(p)
      BY <2>8 DEF ReleaseLeases, ReleaseClaim
    <2>9. CASE Complete(p)
      <3>1. row' = [row EXCEPT ![c] = IF job[p].kind = "retire" THEN Retired(row[c]) ELSE NoRow]
            /\ pc[p] = "complete"
        BY <2>3, <2>9 DEF Complete, Set
      <3>2. b = c /\ row'[b] = Retired(row[b])
        BY <1>1, <2>2, <2>3, <3>1 DEF TypeOK
      <3>3. row'[b].status = "ended"
        BY <1>1, <3>2 DEF Retired, Row
      <3>4. QED
        BY <2>3, <3>1, <3>2, <3>3
    <2>10. QED
      <3>1. pc[p] \notin Executing => Authorize(p) \/ RecordIntent(p) \/ BeginCleanup(p) \/ ReleaseLeases(p)
               \/ RecordLeasesReleased(p) \/ ReleaseClaim(p) \/ RecordTerminalClaimReleased(p) \/ Complete(p)
        BY <2>1 DEF Work, StartClaim, Claim, RecordClaim, UseReservation,
           ReconcileReservation, StartReservation, Reserve, RecordReservation, StartDispatch, Dispatch,
           RecordDispatch, Executing, Reserving, Dispatching, Sending
      <3>2. QED
        BY <2>4, <2>5, <2>6, <2>7, <2>8, <2>9, <3>1
  <1>4. CASE \E p \in Process : Request(p) \/ LockBead(p) \/ Admit(p) \/ Stop(p)
    BY <1>4 DEF Request, RequestAttempt, RequestRecovery, RequestClear, RequestRetirement, Ask, LockBead,
       Admit, Stop
  <1>5. CASE (\E c \in Bead : TrackerMove(c)) \/ (\E k \in Attempt : LeaseLapses(k)) \/ UNCHANGED vars
    BY <1>5 DEF TrackerMove, LeaseLapses, vars
  <1>6. QED
    BY <1>2, <1>3, <1>4, <1>5 DEF Next

\* A prompt is typed by Dispatch and nothing else.
LEMMA DeliveryStep ==
    ASSUME [Next]_vars, NEW k \in Attempt, TypeOK, delivered'[k] # delivered[k]
    PROVE  \E p \in Process : Dispatch(p) /\ job[p].attempt = k
  <1>1. delivered' # delivered
    OBVIOUS
  <1>2. \E p \in Process : Dispatch(p)
    BY <1>1, ZenonT(60) DEF Next, vars, external, Request, RequestAttempt, RequestRecovery, RequestClear,
       RequestRetirement, Ask, LockBead, Admit, Stop, MarkWorking, DetectEnd, rest, TrackerMove, LeaseLapses,
       Work, Authorize, RecordIntent, StartClaim, Claim, RecordClaim, UseReservation,
       ReconcileReservation, StartReservation, Reserve, RecordReservation, StartDispatch,
       RecordDispatch, BeginCleanup, ReleaseLeases, RecordLeasesReleased, ReleaseClaim,
       RecordTerminalClaimReleased, Complete
  <1>3. QED
    BY <1>2, ZenonT(60) DEF Dispatch, TypeOK

-----------------------------------------------------------------------------
(***************************************************************************)
(* The theorems.                                                           *)
(***************************************************************************)
\* Every reachable state has the types that the model gives to the ledger, the
\* tracker, Agent Mail and the two kinds of lock.
THEOREM TypeCorrect == Spec => []TypeOK
  BY Invariance, PTL DEF IInv

\* However often Execute dies and its row is recovered, replaced, cleared or retired,
\* the prompt of one idempotency key is typed into a pane once at most.
THEOREM DeliveredOnce == Spec => []AtMostOneDelivery
  <1>1. IInv => AtMostOneDelivery
    BY DEF IInv, AttemptInv, AtMostOneDelivery
  <1>2. QED
    BY <1>1, Invariance, PTL

\* Two beads never work in one pane: what activeAssignmentForTarget saw under the
\* target lock still holds when the row is written, whatever other processes do.
THEOREM OneBeadPerPane == Spec => []PaneExclusion
  BY Invariance, PTL DEF IInv

\* Whatever Agent Mail holds for a key, the row of the key knows that it may: crashes,
\* lost answers and new generations leave no lease behind.
THEOREM LeasesAreKnown == Spec => []NoOrphanLease
  <1>1. IInv => NoOrphanLease
    BY DEF IInv, AttemptInv, RowInv, NoOrphanLease
  <1>2. QED
    BY <1>1, Invariance, PTL

\* As long as nobody blocks a bead in the tracker, a bead that one of ntm's actors
\* holds there has a row with that actor.
THEOREM ClaimsAreKnown ==
    ASSUME "block" \notin TrackerMoves
    PROVE  Spec => []NoOrphanClaim
  <1>1. IInv => NoOrphanClaim
    BY DEF IInv, TrackerInv, NoOrphanClaim
  <1>2. QED
    BY <1>1, Invariance, PTL

\* As long as nobody takes beads from ntm, the tracker confirms every live row that
\* says "claimed".
THEOREM ClaimsAreHeld ==
    ASSUME "take" \notin TrackerMoves
    PROVE  Spec => []ClaimIsHeld
  <1>1. IInv => ClaimIsHeld
    BY DEF IInv, TrackerInv, ClaimIsHeld
  <1>2. QED
    BY <1>1, Invariance, PTL

\* A prompt is sent for a row that is claimed, reserved and behind its barrier, of a
\* bead that the tracker gives to its actor or to somebody who took it.
THEOREM PromptsAreBacked == Spec => PromptIsBacked
  <1>1. IInv /\ [Next]_vars =>
          [\A k \in Attempt : delivered'[k] # delivered[k] =>
              \E b \in Bead :
                 /\ row[b] # NoRow
                 /\ row[b].attempt = k /\ row[b].claim = "claimed" /\ row[b].resv = "reserved"
                 /\ row[b].dispatch = "sending" /\ row[b].clear = "none"
                 /\ row[b].status \in LiveStatus
                 /\ tracker[b].who \in {row[b].actor, Human}]_vars
    <2>1. SUFFICES ASSUME IInv, [Next]_vars, NEW k \in Attempt, delivered'[k] # delivered[k]
                   PROVE  \E b \in Bead :
                             /\ row[b] # NoRow
                             /\ row[b].attempt = k /\ row[b].claim = "claimed" /\ row[b].resv = "reserved"
                             /\ row[b].dispatch = "sending" /\ row[b].clear = "none"
                             /\ row[b].status \in LiveStatus
                             /\ tracker[b].who \in {row[b].actor, Human}
      OBVIOUS
    <2>2. PICK p \in Process : Dispatch(p) /\ job[p].attempt = k
      BY <2>1, DeliveryStep DEF IInv
    <2>3. pc[p] = "dispatchCall" /\ pc[p] \in Executing
      BY <2>2 DEF Dispatch, Executing, Dispatching, Sending
    <2>4. PICK b : b = job[p].bead
      OBVIOUS
    <2>5. /\ b \in Bead /\ row[b] # NoRow /\ row[b].attempt = k
          /\ ExecuteInv(p) /\ ClaimInv(p) /\ Now(p) = row[b]
          /\ row[b].clear = "none" /\ row[b].status \in LiveStatus
      BY <2>1, <2>2, <2>3, <2>4, AtExecute
    <2>6. row[b].claim = "claimed" /\ row[b].resv = "reserved" /\ row[b].dispatch = "sending"
      BY <2>3, <2>5 DEF ExecuteInv, Dispatching, Sending
    <2>7. tracker[b].who \in {row[b].actor, Human}
      BY <2>3, <2>4, <2>5 DEF ClaimInv, Held
    <2>8. QED
      BY <2>5, <2>6, <2>7
  <1>2. QED
    BY <1>1, Invariance, PTL DEF Spec, PromptIsBacked

\* Once the end of an attempt has begun, or it has ended, no recovery that was on its
\* way makes its row live again.
THEOREM EndsAreFinal == Spec => EndingIsFinal
  <1>1. IInv /\ [Next]_vars =>
          [\A b \in Bead :
              LET r == row[b]
                  s == row'[b]
              IN  r # NoRow /\ s # NoRow /\ r # s /\ (r.clear # "none" \/ r.status = "ended")
                     => \/ s.attempt # r.attempt
                        \/ s.status = "ended"
                        \/ s.clear # "none"]_vars
    BY RowStep DEF LiveStatus
  <1>2. QED
    BY <1>1, Invariance, PTL DEF Spec, EndingIsFinal

\* As long as nobody blocks a bead in the tracker, CompleteTerminalReconciliation
\* retires a row only after its claim was given back.
THEOREM RetirementReleases ==
    ASSUME "block" \notin TrackerMoves
    PROVE  Spec => RetiredClaimIsReleased
  <1>1. IInv /\ [Next]_vars =>
          [\A b \in Bead :
              row[b] # NoRow /\ row'[b] # NoRow /\ row[b].clear = "released" /\ row'[b].clear = "none"
                 /\ row'[b].attempt = row[b].attempt
              => tracker[b].who # row[b].actor]_vars
    <2>1. SUFFICES ASSUME IInv, [Next]_vars, NEW b \in Bead, row[b] # NoRow, row'[b] # NoRow,
                          row[b].clear = "released", row'[b].clear = "none",
                          row'[b].attempt = row[b].attempt
                   PROVE  tracker[b].who # row[b].actor
      OBVIOUS
    <2>2. PICK p \in Process : pc[p] = "complete" /\ job[p].bead = b
      BY <2>1, RowStep
    <2>3. ClaimInv(p)
      BY <2>1 DEF IInv, ProcessInv
    <2>4. QED
      BY <2>2, <2>3 DEF ClaimInv, Now
  <1>2. QED
    BY <1>1, Invariance, PTL DEF Spec, RetiredClaimIsReleased

=================================================================================
