---------------------------- MODULE AtomicAssignment ----------------------------
(***************************************************************************)
(* AtomicCoordinator.Execute: giving a bead to the agent in a pane.        *)
(*                                                                         *)
(* Four systems have to agree and none can be rolled back: the ledger row  *)
(* of the bead, its claim in the tracker, the file leases of Agent Mail,   *)
(* and the prompt typed into the pane.  Execute writes a row before each   *)
(* call and after it, under a lock on the bead and a lock on the pane, so  *)
(* that a later run can go on where a dead process stopped.  The same rows *)
(* are ended by the detector and the coordinator (in steps, with the leases *)
(* and the claim given back first), cleared by hand, and replaced while    *)
(* the agent works.                                                        *)
(*                                                                         *)
(* A save is one step, by LedgerStore.  A process stops anywhere: killed,  *)
(* cancelled, or because a save or a call failed; what the failed call did *)
(* is then still there.  The tracker and Agent Mail may answer nothing     *)
(* although they acted.  Completion events are left to CompletionOutbox.   *)
(***************************************************************************)
EXTENDS AssignmentStatus, FiniteSets

CONSTANTS
    Bead, Pane,
    Process,        \* ntm processes and their goroutines that run an operation
    MaxAttempt,     \* bound: idempotency keys ever used
    TrackerMoves,   \* what others do in the tracker: subset of "close", "reopen", "block", "take"
    LeasesLapse,    \* may a lease run out?
    NoRow, NoJob, NoOne, Nobody, Human

ASSUME AtomicAssumption ==
    /\ MaxAttempt \in Nat
    /\ TrackerMoves \subseteq {"close", "reopen", "block", "take"}
    /\ LeasesLapse \in BOOLEAN
    /\ NoOne \notin Process
    /\ Nobody # Human /\ {Nobody, Human} \cap (1..MaxAttempt) = {}

\* An attempt is an idempotency key; a tracker actor is named after the first
\* attempt that used it.
Attempt == 1..MaxAttempt

\* A row of the ledger.  "ended" stands for the terminal statuses.
Row == [attempt   : Attempt,
        actor     : Attempt,                                   \* ClaimActor
        pane      : Pane,                                      \* OccupancyKey
        status    : LiveStatus \cup {"ended"},
        claim     : {"pending", "claiming", "claimed", "unknown", "refused"},
        resv      : {"pending", "reserving", "reserved", "partial", "unknown", "failed", "released"},
        dispatch  : {"pending", "sending", "sent"},
        clear     : {"none", "releasing", "released"},
        ending    : BOOLEAN,                                   \* PendingTerminalStatus is set
        claimFree : BOOLEAN]                                   \* TerminalClaimReleased

ASSUME NoRowAssumption == NoRow \notin Row

ExecuteKind == {"assign", "replace", "recover"}
ClearKind == {"clear", "forceClear"}

Job == [kind    : ExecuteKind \cup ClearKind \cup {"retire"},
        bead    : Bead,
        attempt : Attempt,      \* the new key, or that of the row observed before locking
        pane    : Pane]

ExecuteStep == {"admit", "authorize", "intent", "claim", "claimCall", "claimDone", "reserve",
                "reserveCall", "reserveDone", "dispatch", "dispatchCall", "dispatchDone"}
CleanupStep == {"begin", "release", "releaseDone", "unclaim", "unclaimDone", "complete"}

VARIABLES
    row,        \* row[b]: the durable row of b
    created,    \* attempts used so far
    delivered,  \* delivered[k]: prompts of attempt k that reached a pane (history)
    tracker,    \* tracker[b]: status and assignee of b in Beads
    leases,     \* leases[k]: what Agent Mail holds for attempt k
    cleanup,    \* cleanup[b]: holder of the external cleanup lock
    target,     \* target[x]: holder of the target operation lock
    job, pc, answer

external == <<delivered, tracker, leases>>
locks == <<cleanup, target>>
vars == <<row, created, external, locks, job, pc, answer>>

TypeOK ==
    /\ row \in [Bead -> Row \cup {NoRow}]
    /\ created \in 0..MaxAttempt
    /\ delivered \in [Attempt -> Nat]
    /\ tracker \in [Bead -> [status : {"open", "in_progress", "blocked", "closed"},
                             who    : Attempt \cup {Nobody, Human}]]
    /\ leases \in [Attempt -> {"none", "partial", "full"}]
    /\ cleanup \in [Bead -> Process \cup {NoOne}]
    /\ target \in [Pane -> Process \cup {NoOne}]
    /\ job \in [Process -> Job \cup {NoJob}]
    /\ pc \in [Process -> {"idle", "lock"} \cup ExecuteStep \cup CleanupStep]
    /\ answer \in [Process -> {"", "granted", "refused", "unknown", "none", "partial", "full", "sent"}]

Init ==
    /\ row = [b \in Bead |-> NoRow]
    /\ created = 0
    /\ delivered = [k \in Attempt |-> 0]
    /\ tracker = [b \in Bead |-> [status |-> "open", who |-> Nobody]]
    /\ leases = [k \in Attempt |-> "none"]
    /\ cleanup = [b \in Bead |-> NoOne]
    /\ target = [x \in Pane |-> NoOne]
    /\ job = [p \in Process |-> NoJob]
    /\ pc = [p \in Process |-> "idle"]
    /\ answer = [p \in Process |-> ""]

--------------------------------------------------------------------------------
(***************************************************************************)
(* Requests and locks.                                                     *)
(***************************************************************************)

\* activeAssignmentForTarget: does the row of b keep its pane?
InUse(b) ==
    /\ row[b] # NoRow
    /\ \/ row[b].status \in LiveStatus
       \/ row[b].dispatch = "sending"
       \/ row[b].clear # "none"

\* Execute holds the operation lock of its bead as long as the cleanup lock.
Operating(b) == \E p \in Process : cleanup[b] = p /\ job[p].kind \in ExecuteKind

Goto(p, step) == pc' = [pc EXCEPT ![p] = step]

Set(b, newRow) == row' = [row EXCEPT ![b] = newRow]

\* The deferred unlocks.
FreeBead(p) == [b \in Bead |-> IF cleanup[b] = p THEN NoOne ELSE cleanup[b]]

\* A mutation of FreePane: the pane's lock is kept.
KeepPane(p) == target

FreePane(p) == [x \in Pane |-> IF target[x] = p THEN NoOne ELSE target[x]]

Return(p) ==
    /\ cleanup' = FreeBead(p)
    /\ target' = FreePane(p)
    /\ job' = [job EXCEPT ![p] = NoJob]
    /\ answer' = [answer EXCEPT ![p] = ""]
    /\ Goto(p, "idle")

\* p goes on with a step that changes no lock and gets no answer.
Continue(p, step) == Goto(p, step) /\ UNCHANGED <<locks, job, answer>>

Ask(p, j) ==
    /\ pc[p] = "idle"
    /\ job' = [job EXCEPT ![p] = j]
    /\ Goto(p, "lock")
    /\ UNCHANGED <<row, external, locks, answer>>

RequestAttempt(p) ==
    /\ created < MaxAttempt
    /\ created' = created + 1
    /\ \E k \in {"assign", "replace"}, b \in Bead, x \in Pane :
          Ask(p, [kind |-> k, bead |-> b, attempt |-> created', pane |-> x])

\* A retry with the key of a row: RecoveredIntentSHA256 is set.
RequestRecovery(p) ==
    /\ \E b \in Bead :
          /\ row[b] # NoRow
          /\ Ask(p, [kind |-> "recover", bead |-> b, attempt |-> row[b].attempt, pane |-> row[b].pane])
    /\ UNCHANGED created

RequestClear(p) ==
    /\ \E k \in ClearKind, b \in Bead :
          /\ row[b] # NoRow
          /\ Ask(p, [kind |-> k, bead |-> b, attempt |-> row[b].attempt, pane |-> row[b].pane])
    /\ UNCHANGED created

\* reconcileTerminalAssignments of the coordinator, reconcilePendingTerminalAssignment.
RequestRetirement(p) ==
    /\ \E b \in Bead :
          /\ row[b] # NoRow
          /\ row[b].status \in LiveStatus
          /\ row[b].ending \/ tracker[b].status = "closed"
          /\ Ask(p, [kind |-> "retire", bead |-> b, attempt |-> row[b].attempt, pane |-> row[b].pane])
    /\ UNCHANGED created

\* AcquireExternalCleanupLock, and for Execute acquireAtomicBeadOperationLock.
LockBead(p) ==
    /\ pc[p] = "lock"
    /\ cleanup[job[p].bead] = NoOne
    /\ cleanup' = [cleanup EXCEPT ![job[p].bead] = p]
    /\ Goto(p, IF job[p].kind \in ExecuteKind THEN "admit" ELSE "begin")
    /\ UNCHANGED <<row, created, external, target, job, answer>>

--------------------------------------------------------------------------------
(***************************************************************************)
(* Execute: admission.  j is the job; its bead's row is `prior`.           *)
(***************************************************************************)

\* A mutation of Occupied: a pane is in use only once its prompt was sent.
OccupiedByWork(j) ==
    \E c \in Bead \ {j.bead} :
        row[c] # NoRow /\ row[c].pane = j.pane /\ row[c].status \in {"assigned", "working"}

Occupied(j) == \E c \in Bead \ {j.bead} : InUse(c) /\ row[c].pane = j.pane

\* Mutations of MayResume: each forgets one of its conditions.
ResumesSending(prior) ==
    prior.clear = "none" /\ prior.claim # "refused" /\ prior.status \in LiveStatus
ResumesCleared(prior) ==
    prior.claim # "refused" /\ prior.status \in LiveStatus /\ prior.dispatch = "pending"

\* Same key: the attempt may go on.
MayResume(prior) ==
    /\ prior.clear = "none"
    /\ prior.claim # "refused"
    /\ prior.status \in LiveStatus
    /\ prior.dispatch = "pending"

\* validateWorkingReplacementCandidate
MayReplace(prior) == prior.status = "working" /\ prior.dispatch # "sending"

\* assignmentHasUnresolvedReservation
Unresolved(prior) == prior.resv \in {"reserving", "unknown", "reserved", "partial"}

\* A terminal row of another key: a new generation of the bead.
MaySucceed(prior) ==
    /\ prior.clear = "none"
    /\ prior.status = "ended"
    /\ ~Unresolved(prior)

Acceptable(j) ==
    LET prior == row[j.bead]
    IN  /\ ~Occupied(j)
        /\ \/ prior = NoRow /\ j.kind = "assign"
           \/ /\ prior # NoRow
              /\ \/ prior.attempt = j.attempt /\ MayResume(prior)
                 \/ prior.attempt # j.attempt /\ j.kind = "replace" /\ MayReplace(prior)
                 \/ prior.attempt # j.attempt /\ j.kind = "assign" /\ MaySucceed(prior)

Replacing(j) == j.kind = "replace" /\ row[j.bead].attempt # j.attempt

\* StableClaimActor for the first attempt; every later one takes over its actor.
ClaimActor(j) == IF row[j.bead] = NoRow THEN j.attempt ELSE row[j.bead].actor

\* assignmentEligibilityAuthorizationRequest, workItemStatusAllowsNewGeneration,
\* authorizeWorkingReplacementRelease: what the tracker must say.
Authorized(j) ==
    LET prior == row[j.bead]
        now == tracker[j.bead]
        succeeds == prior # NoRow /\ prior.attempt # j.attempt /\ ~Replacing(j)
        mayBeUnclaimed == prior # NoRow /\ prior.attempt = j.attempt
                              /\ prior.claim \in {"pending", "claiming", "unknown"}
    IN  \/ now.status = "open" /\ now.who = Nobody
             /\ (prior = NoRow \/ succeeds \/ mayBeUnclaimed)
        \/ now.status = "open" /\ now.who = ClaimActor(j) /\ succeeds
        \/ now.status = "in_progress" /\ now.who = ClaimActor(j) /\ prior # NoRow

\* acquireAtomicTargetOperationLock, LoadStrict and the checks on the rows.
Admit(p) ==
    /\ pc[p] = "admit"
    /\ target[job[p].pane] = NoOne
    /\ IF Acceptable(job[p])
       THEN /\ target' = [target EXCEPT ![job[p].pane] = p]
            /\ Goto(p, "authorize")
            /\ UNCHANGED <<cleanup, job, answer>>
       ELSE Return(p)
    /\ UNCHANGED <<row, created, external>>

\* The tracker is read; the two reads of a replacement are one.
Authorize(p) ==
    /\ pc[p] = "authorize"
    /\ IF Authorized(job[p])
       THEN Continue(p, IF Replacing(job[p]) /\ row[job[p].bead].clear # "released"
                        THEN "begin" ELSE "intent")
       ELSE Return(p)
    /\ UNCHANGED <<row, created, external>>

NewRow(j) ==
    [attempt |-> j.attempt, actor |-> ClaimActor(j), pane |-> j.pane, status |-> "claiming",
     claim |-> "pending", resv |-> "pending", dispatch |-> "pending", clear |-> "none",
     ending |-> FALSE, claimFree |-> FALSE]

RecordIntent(p) ==
    LET j == job[p]
    IN  /\ pc[p] = "intent"
        /\ IF row[j.bead] # NoRow /\ row[j.bead].attempt = j.attempt
           THEN UNCHANGED row
           ELSE Set(j.bead, NewRow(j))
        /\ Continue(p, "claim")
        /\ UNCHANGED <<created, external>>

--------------------------------------------------------------------------------
(***************************************************************************)
(* Execute: claim, reservation and dispatch, each with its barrier, its    *)
(* call and its record.                                                    *)
(***************************************************************************)

StartClaim(p) ==
    LET b == job[p].bead
    IN  /\ pc[p] = "claim"
        /\ IF row[b].claim = "claimed"
           THEN UNCHANGED row /\ Continue(p, "reserve")
           ELSE /\ Set(b, [row[b] EXCEPT !.status = "claiming", !.claim = "claiming"])
                /\ Continue(p, "claimCall")
        /\ UNCHANGED <<created, external>>

\* claimBeadForAssignmentTransaction: the compare-and-set of the tracker.
Claimable(b) ==
    \/ tracker[b].status = "open" /\ tracker[b].who \in {Nobody, row[b].actor}
    \/ tracker[b].status = "in_progress" /\ tracker[b].who = row[b].actor

Answer(p, reply, step) ==
    /\ answer' = [answer EXCEPT ![p] = reply]
    /\ Goto(p, step)
    /\ UNCHANGED <<row, created, locks, job>>

Claim(p) ==
    LET b == job[p].bead
    IN  /\ pc[p] = "claimCall"
        /\ \/ /\ Claimable(b)
              /\ tracker' = [tracker EXCEPT ![b] = [status |-> "in_progress", who |-> row[b].actor]]
              /\ \E reply \in {"granted", "unknown"} : Answer(p, reply, "claimDone")
           \/ /\ ~Claimable(b)
              /\ Answer(p, "refused", "claimDone")
              /\ UNCHANGED tracker
           \/ /\ Answer(p, "unknown", "claimDone")
              /\ UNCHANGED tracker
        /\ UNCHANGED <<delivered, leases>>

\* Mutations of ClaimAnswered: the reply is stored as it is; no answer is a claim.
ClaimCopied(r, reply) == [r EXCEPT !.claim = reply]
UnknownIsClaimed(r, reply) == [r EXCEPT !.status = "claimed", !.claim = "claimed"]

\* RecordAtomicClaim, RecordAtomicClaimUncertain
ClaimAnswered(r, reply) ==
    CASE reply = "granted" -> [r EXCEPT !.status = "claimed", !.claim = "claimed"]
      [] reply = "refused" -> [r EXCEPT !.status = "ended", !.claim = "refused"]
      [] OTHER             -> [r EXCEPT !.claim = "unknown"]

\* Execute goes on when all went well and returns an error otherwise.
ProceedIf(p, ok, step) ==
    IF ok
    THEN /\ Goto(p, step)
         /\ answer' = [answer EXCEPT ![p] = ""]
         /\ UNCHANGED <<locks, job>>
    ELSE Return(p)

RecordClaim(p) ==
    LET b == job[p].bead
    IN  /\ pc[p] = "claimDone"
        /\ Set(b, ClaimAnswered(row[b], answer[p]))
        /\ ProceedIf(p, answer[p] = "granted", "reserve")
        /\ UNCHANGED <<created, external>>

\* The lease that the row records is used, if it is still good.
UseReservation(p) ==
    LET b == job[p].bead
        good == leases[job[p].attempt] = "full"
    IN  /\ pc[p] = "reserve"
        /\ row[b].resv \in {"reserved", "partial"}
        /\ IF row[b].resv = "reserved" /\ ~good
           THEN Set(b, [row[b] EXCEPT !.resv = "partial"])
           ELSE UNCHANGED row
        /\ ProceedIf(p, row[b].resv = "reserved" /\ good, "dispatch")
        /\ UNCHANGED <<created, external>>

\* ReconcileReservation after a call whose outcome is not known.
ReconcileReservation(p) ==
    LET b == job[p].bead
        found == leases[job[p].attempt]
        outcome == CASE found = "full"    -> "reserved"
                     [] found = "partial" -> "partial"
                     [] OTHER             -> "failed"
    IN  /\ pc[p] = "reserve"
        /\ row[b].resv \in {"reserving", "unknown"}
        /\ \/ /\ Set(b, [row[b] EXCEPT !.resv = "unknown"])
              /\ Return(p)
           \/ /\ Set(b, [row[b] EXCEPT !.resv = outcome])
              /\ ProceedIf(p, outcome # "partial",
                           IF outcome = "reserved" THEN "dispatch" ELSE "reserve")
        /\ UNCHANGED <<created, external>>

StartReservation(p) ==
    LET b == job[p].bead
    IN  /\ pc[p] = "reserve"
        /\ row[b].resv \in {"pending", "failed"}
        /\ Set(b, [row[b] EXCEPT !.resv = "reserving"])
        /\ Continue(p, "reserveCall")
        /\ UNCHANGED <<created, external>>

Reserve(p) ==
    /\ pc[p] = "reserveCall"
    /\ \E granted \in {"none", "partial", "full"} :
          /\ leases' = [leases EXCEPT ![job[p].attempt] = granted]
          /\ \E reply \in {granted, "unknown"} : Answer(p, reply, "reserveDone")
    /\ UNCHANGED <<delivered, tracker>>

\* A mutation of ReservationAnswered: an error means that nothing was reserved.
ErrorMeansNoLease(r, reply) ==
    [r EXCEPT !.resv = IF reply = "full" THEN "reserved" ELSE "failed"]

\* RecordAtomicReservation with classifyReservationFailure, classifyValidatedReservation
ReservationAnswered(r, reply) ==
    [r EXCEPT !.resv = CASE reply = "full"    -> "reserved"
                         [] reply = "partial" -> "partial"
                         [] reply = "none"    -> "failed"
                         [] OTHER             -> "unknown"]

RecordReservation(p) ==
    LET b == job[p].bead
    IN  /\ pc[p] = "reserveDone"
        /\ Set(b, ReservationAnswered(row[b], answer[p]))
        /\ ProceedIf(p, answer[p] = "full", "dispatch")
        /\ UNCHANGED <<created, external>>

StartDispatch(p) ==
    LET b == job[p].bead
    IN  /\ pc[p] = "dispatch"
        /\ Set(b, [row[b] EXCEPT !.dispatch = "sending"])
        /\ Continue(p, "dispatchCall")
        /\ UNCHANGED <<created, external>>

Dispatch(p) ==
    LET k == job[p].attempt
    IN  /\ pc[p] = "dispatchCall"
        /\ \/ /\ delivered' = [delivered EXCEPT ![k] = @ + 1]
              /\ \E reply \in {"sent", "unknown"} : Answer(p, reply, "dispatchDone")
           \/ /\ UNCHANGED delivered
              /\ \E reply \in {"none", "unknown"} : Answer(p, reply, "dispatchDone")
        /\ UNCHANGED <<tracker, leases>>

\* A mutation of DispatchAnswered: no answer is taken for "not sent".
UnknownIsUnsent(r, reply) ==
    IF reply = "sent" THEN [r EXCEPT !.status = "assigned", !.dispatch = "sent"]
    ELSE [r EXCEPT !.dispatch = "pending"]

\* RecordAtomicDispatchSent, RecordAtomicDispatchFailed
DispatchAnswered(r, reply) ==
    CASE reply = "sent" -> [r EXCEPT !.status = "assigned", !.dispatch = "sent"]
      [] reply = "none" -> [r EXCEPT !.dispatch = "pending"]
      [] OTHER          -> r

RecordDispatch(p) ==
    LET b == job[p].bead
    IN  /\ pc[p] = "dispatchDone"
        /\ Set(b, DispatchAnswered(row[b], answer[p]))
        /\ Return(p)
        /\ UNCHANGED <<created, external>>

--------------------------------------------------------------------------------
(***************************************************************************)
(* Giving leases and claim back: clearStoredAssignmentIfStatus,            *)
(* reconcileTerminalAssignment, releaseWorkingReplacement.                 *)
(***************************************************************************)

\* beginClearWithOperationLock and the refusals before and after it; a clear that
\* was asked for while the row was live goes on if it has ended since.
MayClear(j, r) ==
    /\ r.attempt = j.attempt
    /\ ~r.ending
    /\ r.dispatch = "sending" => j.kind = "forceClear"

\* beginTerminalReconciliationIfCurrent
MayRetire(j, r) ==
    /\ r.attempt = j.attempt
    /\ r.dispatch # "sending"
    /\ r.ending \/ (r.clear = "none" /\ r.status \in LiveStatus)

\* A replacement was admitted under the lock it still holds.
MayBegin(j) ==
    /\ row[j.bead] # NoRow
    /\ j.kind \in ClearKind => MayClear(j, row[j.bead])
    /\ j.kind = "retire" => MayRetire(j, row[j.bead])

Begun(j, r) ==
    IF r.clear # "none" THEN r
    ELSE [r EXCEPT !.clear = "releasing",
                   !.dispatch = IF @ = "sending" THEN "pending" ELSE @,
                   !.ending = (j.kind = "retire")]

BeginCleanup(p) ==
    LET j == job[p]
    IN  /\ pc[p] = "begin"
        /\ IF MayBegin(j)
           THEN /\ Set(j.bead, Begun(j, row[j.bead]))
                /\ Continue(p, IF row[j.bead].clear = "released" THEN "unclaim" ELSE "release")
           ELSE /\ UNCHANGED row
                /\ Return(p)
        /\ UNCHANGED <<created, external>>

\* releaseAssignmentReservationsForClear, releaseTerminalAssignmentReservations
MayHoldLeases(r) == r.resv \in {"reserving", "unknown", "reserved", "partial"}

ReleaseLeases(p) ==
    LET r == row[job[p].bead]
    IN  /\ pc[p] = "release"
        /\ leases' = IF MayHoldLeases(r) THEN [leases EXCEPT ![r.attempt] = "none"] ELSE leases
        /\ Continue(p, "releaseDone")
        /\ UNCHANGED <<row, created, delivered, tracker>>

\* A mutation of LeasesReleased: the claim is ticked off with the leases.
AllReleased(r) == [r EXCEPT !.clear = "released", !.resv = "released", !.claimFree = TRUE]

LeasesReleased(r) == [r EXCEPT !.clear = "released", !.resv = "released"]

\* RecordClearLeasesReleased
RecordLeasesReleased(p) ==
    LET b == job[p].bead
    IN  /\ pc[p] = "releaseDone"
        /\ Set(b, LeasesReleased(row[b]))
        /\ Continue(p, IF job[p].kind = "replace" THEN "intent" ELSE "unclaim")
        /\ UNCHANGED <<created, external>>

\* A mutation of Unclaimed: a closed bead keeps its assignee.
UnclaimedIfOpen(b, actor) ==
    IF tracker[b].who # actor \/ tracker[b].status \in {"blocked", "closed"} THEN tracker[b]
    ELSE [who |-> Nobody, status |-> "open"]

\* releaseBeadClaimTransaction: only the row's own claim, and not that of a
\* bead in a status it does not know.
Unclaimed(b, actor) ==
    LET now == tracker[b]
    IN  IF now.who # actor \/ now.status = "blocked" THEN now
        ELSE [who    |-> Nobody,
              status |-> IF now.status = "closed" THEN "closed" ELSE "open"]

ReleaseClaim(p) ==
    LET b == job[p].bead
    IN  /\ pc[p] = "unclaim"
        /\ tracker' = IF job[p].kind = "retire" /\ row[b].claimFree THEN tracker
                      ELSE [tracker EXCEPT ![b] = Unclaimed(b, row[b].actor)]
        /\ Continue(p, IF job[p].kind = "retire" THEN "unclaimDone" ELSE "complete")
        /\ UNCHANGED <<row, created, delivered, leases>>

RecordTerminalClaimReleased(p) ==
    LET b == job[p].bead
    IN  /\ pc[p] = "unclaimDone"
        /\ Set(b, [row[b] EXCEPT !.claimFree = TRUE])
        /\ Continue(p, "complete")
        /\ UNCHANGED <<created, external>>

\* CompleteTerminalReconciliation
Retired(r) ==
    [r EXCEPT !.status = "ended", !.resv = "released", !.clear = "none",
              !.ending = FALSE, !.claimFree = FALSE]

\* CompleteTerminalReconciliation, CompleteClear
Complete(p) ==
    LET b == job[p].bead
    IN  /\ pc[p] = "complete"
        /\ Set(b, IF job[p].kind = "retire" THEN Retired(row[b]) ELSE NoRow)
        /\ Return(p)
        /\ UNCHANGED <<created, external>>

--------------------------------------------------------------------------------
(***************************************************************************)
(* The detector (under the operation lock), and everybody else.            *)
(***************************************************************************)
rest == <<created, external, locks, job, pc, answer>>

\* MarkWorkingIfCurrent
MarkWorking(b) ==
    /\ row[b] # NoRow /\ row[b].status = "assigned" /\ row[b].clear = "none"
    /\ ~Operating(b)
    /\ Set(b, [row[b] EXCEPT !.status = "working"])
    /\ UNCHANGED rest

\* BeginTerminalReconciliationWithCompletionEventIfCurrent
DetectEnd(b) ==
    /\ row[b] # NoRow /\ row[b].status \in {"assigned", "working"} /\ row[b].clear = "none"
    /\ row[b].dispatch # "sending"
    /\ ~Operating(b)
    /\ Set(b, [row[b] EXCEPT !.clear = "releasing", !.ending = TRUE])
    /\ UNCHANGED rest

\* The process is killed, its context is cancelled, or a save or call fails.
Stop(p) ==
    /\ pc[p] # "idle"
    /\ Return(p)
    /\ UNCHANGED <<row, created, external>>

StatusAfter(move) ==
    CASE move = "close" -> "closed" [] move = "reopen" -> "open"
      [] move = "block" -> "blocked" [] move = "take" -> "in_progress"

\* Agents and people use the tracker without ntm; who takes a bead becomes its assignee.
TrackerMove(b) ==
    /\ \E move \in TrackerMoves :
          /\ move = "reopen" => tracker[b].status \in {"closed", "blocked"}
          /\ move = "block" => tracker[b].status \in {"open", "in_progress"}
          /\ tracker' = [tracker EXCEPT ![b] = [status |-> StatusAfter(move),
                              who |-> IF move = "take" THEN Human ELSE tracker[b].who]]
    /\ UNCHANGED <<row, created, delivered, leases, locks, job, pc, answer>>

LeaseLapses(k) ==
    /\ LeasesLapse
    /\ leases[k] # "none"
    /\ leases' = [leases EXCEPT ![k] = "none"]
    /\ UNCHANGED <<row, created, delivered, tracker, locks, job, pc, answer>>

Request(p) ==
    RequestAttempt(p) \/ RequestRecovery(p) \/ RequestClear(p) \/ RequestRetirement(p)

\* What p does once it holds its locks.
Work(p) ==
    \/ Authorize(p) \/ RecordIntent(p)
    \/ StartClaim(p) \/ Claim(p) \/ RecordClaim(p)
    \/ UseReservation(p) \/ ReconcileReservation(p)
    \/ StartReservation(p) \/ Reserve(p) \/ RecordReservation(p)
    \/ StartDispatch(p) \/ Dispatch(p) \/ RecordDispatch(p)
    \/ BeginCleanup(p) \/ ReleaseLeases(p) \/ RecordLeasesReleased(p)
    \/ ReleaseClaim(p) \/ RecordTerminalClaimReleased(p) \/ Complete(p)

Next ==
    \/ \E p \in Process : Request(p) \/ LockBead(p) \/ Admit(p) \/ Work(p) \/ Stop(p)
    \/ \E b \in Bead : MarkWorking(b) \/ DetectEnd(b) \/ TrackerMove(b)
    \/ \E k \in Attempt : LeaseLapses(k)

Spec == Init /\ [][Next]_vars

(***************************************************************************)
(* Calls have deadlines, so that a process that is not killed takes its    *)
(* next step; a lock is polled, and a poll finds it free when it is free   *)
(* often enough.  A process waits for one lock or works, so that one       *)
(* condition says both: work, once possible, stays so until p stops, and   *)
(* then p comes back only past a lock.                                     *)
(***************************************************************************)
FairSpec ==
    /\ Spec
    /\ \A p \in Process : SF_vars(LockBead(p) \/ Admit(p) \/ Work(p))

--------------------------------------------------------------------------------
(***************************************************************************)
(* Properties.                                                             *)
(***************************************************************************)

\* The prompt of one idempotency key is typed into a pane once at most, however
\* often its process dies and its row is recovered, replaced, cleared or retired.
AtMostOneDelivery == \A k \in Attempt : delivered[k] <= 1

\* Two beads never work in one pane: what activeAssignmentForTarget saw under the
\* target lock is still so when the prompt is sent and after it.  (An ended row that
\* is being cleared counts as in use for that check, but works no more.)
Works(b) == row[b] # NoRow /\ (row[b].status \in LiveStatus \/ row[b].dispatch = "sending")

PaneExclusion ==
    \A b, c \in Bead : b # c /\ Works(b) /\ Works(c) => row[b].pane # row[c].pane

\* Whatever Agent Mail holds for an attempt, the row of that attempt knows that it
\* may: no lease is left behind by a lost answer, a crash or a new generation.
NoOrphanLease ==
    \A k \in Attempt : leases[k] # "none" =>
        \E b \in Bead : row[b] # NoRow /\ row[b].attempt = k /\ MayHoldLeases(row[b])

\* A bead that the tracker gives to one of ntm's actors has a row with that actor,
\* so that some recovery, clear or retirement can still give it back.
NoOrphanClaim ==
    \A b \in Bead : tracker[b].who \in Attempt =>
        row[b] # NoRow /\ row[b].actor = tracker[b].who

\* As long as nobody takes beads from ntm, a live row that says "claimed" is right:
\* the tracker names its actor, until a clear or a retirement has begun.
ClaimIsHeld ==
    \A b \in Bead :
        row[b] # NoRow /\ row[b].claim = "claimed" /\ row[b].status \in LiveStatus
            /\ row[b].clear = "none"
        => tracker[b].who = row[b].actor

\* A prompt is delivered only for a row that is claimed, reserved, behind its
\* dispatch barrier and not being ended, while the tracker gives the bead to its
\* actor or to somebody who took it.
PromptIsBacked ==
    [][\A k \in Attempt : delivered'[k] # delivered[k] =>
          \E b \in Bead :
             /\ row[b] # NoRow
             /\ row[b].attempt = k /\ row[b].claim = "claimed" /\ row[b].resv = "reserved"
             /\ row[b].dispatch = "sending" /\ row[b].clear = "none"
             /\ row[b].status \in LiveStatus
             /\ tracker[b].who \in {row[b].actor, Human}]_vars

\* Once its end has begun an attempt only ends: no recovery that was on its way
\* takes the barrier away or makes the row live again.
EndingIsFinal ==
    [][\A b \in Bead :
          LET r == row[b]
              s == row'[b]
          IN  r # NoRow /\ s # NoRow /\ r # s /\ (r.clear # "none" \/ r.status = "ended")
                 => \/ s.attempt # r.attempt
                    \/ s.status = "ended"
                    \/ s.clear # "none"]_vars

\* CompleteTerminalReconciliation retires a row only after its claim was released.
RetiredClaimIsReleased ==
    [][\A b \in Bead :
          row[b] # NoRow /\ row'[b] # NoRow /\ row[b].clear = "released" /\ row'[b].clear = "none"
             /\ row'[b].attempt = row[b].attempt
          => tracker[b].who # row[b].actor]_vars

\* Every request comes to an end: the two locks are always taken in one order and
\* always given back.
RequestsReturn == \A p \in Process : pc[p] = "lock" ~> pc[p] = "idle"

\* How far the row of a bead is, for somebody who sees neither locks nor processes.
Stage(r) ==
    IF r.status = "ended" THEN "ended"
    ELSE IF r.clear # "none" THEN "ending"
    ELSE CASE r.dispatch = "pending" -> "preparing"
           [] r.dispatch = "sending" -> "sending"
           [] r.dispatch = "sent"    -> "working"

StageOf == [b \in Bead |-> IF row[b] = NoRow THEN "none" ELSE Stage(row[b])]
KeyOf == [b \in Bead |-> IF row[b] = NoRow THEN NoRow ELSE row[b].attempt]
PlaceOf == [b \in Bead |-> IF row[b] = NoRow THEN NoRow ELSE row[b].pane]

\* A new attempt before its intent is written.
Pending(p) ==
    /\ pc[p] \in {"lock", "admit", "authorize", "begin", "release", "releaseDone", "intent"}
    /\ job[p].kind \in {"assign", "replace"}

SpentKeys == {k \in 1..created : \A p \in Process : Pending(p) => job[p].attempt # k}

Handoff == INSTANCE BeadHandoff
               WITH Key <- Attempt, None <- NoRow, stage <- StageOf, key <- KeyOf,
                    place <- PlaceOf, spent <- SpentKeys, prompts <- delivered

\* Whatever processes, the tracker and Agent Mail do, and whoever of them stops, the
\* rows and the prompts are those of a hand-over without any of them: BeadHandoff.
BeadsAreHandedOver == Handoff!Spec

=================================================================================
