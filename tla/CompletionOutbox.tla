---------------------------- MODULE CompletionOutbox ----------------------------
(***************************************************************************)
(* Completion events: how the end of an assignment reaches the watch loop  *)
(* that plans the next one.                                                *)
(*                                                                         *)
(* A detector (internal/completion) that sees an assignment end writes a   *)
(* terminal barrier and a completion event into its ledger row.  The       *)
(* barrier is reconciled in steps (leases, tracker claim, terminal         *)
(* status).  Then any detector may take a lease on the event and put it in *)
(* the queue of its watch loop (internal/cli), which renews the lease,     *)
(* handles the event and acknowledges it.  Processes die, leases lapse     *)
(* while an event is queued or handled, and a save may report an error     *)
(* after it was applied.                                                   *)
(*                                                                         *)
(* Every operation on a row holds the bead's operation lock, starts from a *)
(* strict reload and ends in a save: it is one step here, by LedgerStore.  *)
(* The lock on a bead's external cleanup is held over several such steps.  *)
(***************************************************************************)
EXTENDS AssignmentStatus, FiniteSets, Sequences

CONSTANTS
    Bead,
    Consumer,       \* watch loop processes, each with a consumer token of its own
    Outcome,        \* bound: how attempts end
    Others,         \* who else cleans up: the coordinator's poll, `ntm assign --clear`
    MaxAttempt,     \* bound: attempts ever created
    Lease,          \* ticks of CompletionLeaseDuration
    QueueSize,      \* capacity of the channel between detector and watch loop
    MaxCrashes,     \* bound: processes that die
    DiskErrors,     \* may a save report an error?
    TimePasses,     \* may a lease lapse?
    Replacing,      \* are working assignments replaced (ntm assign --reassign)?
    NoRow, NoOne, NoEvent

ASSUME OutboxAssumption ==
    /\ MaxAttempt \in Nat /\ MaxCrashes \in Nat
    /\ Lease \in Nat \ {0} /\ QueueSize \in Nat \ {0}
    /\ DiskErrors \in BOOLEAN /\ TimePasses \in BOOLEAN /\ Replacing \in BOOLEAN
    /\ Outcome \subseteq TerminalOutcome
    /\ Others \subseteq {"coordinator", "clear"}
    /\ NoOne \notin Consumer

Attempt == 1..MaxAttempt

Event == [bead : Bead, attempt : Attempt, outcome : TerminalOutcome]

\* A row: the statuses before the end of an attempt are one, "working".
Row == [attempt   : Attempt,
        status    : {"working"} \cup Outcome,
        clear     : {"none", "releasing", "released"},   \* ClearState
        pending   : {"none"} \cup Outcome,       \* PendingTerminalStatus and -Reason
        claimFree : BOOLEAN,                             \* TerminalClaimReleased
        event     : {"none"} \cup Outcome,       \* PendingCompletionEventID
        token     : Consumer \cup {NoOne},               \* CompletionConsumerToken
        lease     : 0..Lease]                            \* ticks to CompletionLeaseExpiresAt

ASSUME NoRowAssumption == NoRow \notin Row

\* Who takes a bead's cleanup lock.
Holder == Consumer \cup Others

VARIABLES
    row,        \* row[b]: the durable row of b
    attempts,   \* attempts created so far
    cleanup,    \* cleanup[b]: holder of the external cleanup lock
    alive,      \* alive[c]: is the process running?
    seen,       \* seen[c][b]: the working attempt that c's scan saw, or 0
    recent,     \* recent[c][b]: attempt whose event c emitted in its dedup window, or 0
    claimed,    \* claimed[c]: event leased and not yet in the queue
    queue,      \* queue[c]: events on their way to c's watch loop
    phase,      \* phase[c]: what c's watch loop does
    current,    \* current[c]: with which event
    handled,    \* handled[c]: handledCompletionEvents of c
    crashes,    \* processes that died
    created,    \* every event ever written (history)
    done        \* every handler run that finished: <<consumer, event>>, and with NoOne
                \* every event that a replacement erased (history)

detector == <<seen, recent, claimed>>
watchLoop == <<phase, current, handled>>
vars == <<row, attempts, cleanup, alive, seen, recent, claimed, queue, phase, current, handled,
          crashes, created, done>>

TypeOK ==
    /\ row \in [Bead -> Row \cup {NoRow}]
    /\ attempts \in 0..MaxAttempt
    /\ cleanup \in [Bead -> Holder \cup {NoOne}]
    /\ alive \in [Consumer -> BOOLEAN]
    /\ seen \in [Consumer -> [Bead -> 0..MaxAttempt]]
    /\ recent \in [Consumer -> [Bead -> 0..MaxAttempt]]
    /\ claimed \in [Consumer -> Event \cup {NoEvent}]
    /\ queue \in [Consumer -> Seq(Event)]
    /\ \A c \in Consumer : Len(queue[c]) <= QueueSize
    /\ phase \in [Consumer -> {"idle", "handling", "acking"}]
    /\ current \in [Consumer -> Event \cup {NoEvent}]
    /\ handled \in [Consumer -> SUBSET Event]
    /\ crashes \in 0..MaxCrashes
    /\ created \in SUBSET Event
    /\ done \in SUBSET ((Consumer \cup {NoOne}) \X Event)

Init ==
    /\ row = [b \in Bead |-> NoRow]
    /\ attempts = 0
    /\ cleanup = [b \in Bead |-> NoOne]
    /\ alive = [c \in Consumer |-> TRUE]
    /\ seen = [c \in Consumer |-> [b \in Bead |-> 0]]
    /\ recent = [c \in Consumer |-> [b \in Bead |-> 0]]
    /\ claimed = [c \in Consumer |-> NoEvent]
    /\ queue = [c \in Consumer |-> <<>>]
    /\ phase = [c \in Consumer |-> "idle"]
    /\ current = [c \in Consumer |-> NoEvent]
    /\ handled = [c \in Consumer |-> {}]
    /\ crashes = 0
    /\ created = {}
    /\ done = {}

(***************************************************************************)
(* Rows and saves.                                                         *)
(***************************************************************************)

HasRow(b) == row[b] # NoRow

EventOf(b) == [bead |-> b, attempt |-> row[b].attempt, outcome |-> row[b].event]

\* The event e is in the outbox.
Pending(e) == /\ row[e.bead] # NoRow
              /\ row[e.bead].attempt = e.attempt
              /\ row[e.bead].event = e.outcome

\* saveLocked returns nil.
Saved(b, new) == row' = [row EXCEPT ![b] = new]

\* saveLocked returns an error: the row may be durable all the same.
SaveFailed(b, new) == DiskErrors /\ (Saved(b, new) \/ UNCHANGED row)

NewRow(a) == [attempt |-> a, status |-> "working", clear |-> "none", pending |-> "none",
              claimFree |-> FALSE, event |-> "none", token |-> NoOne, lease |-> 0]

(***************************************************************************)
(* Attempts begin and end outside the outbox.                              *)
(***************************************************************************)

\* A mutation of MayBeginAttempt: a terminal row may always be replaced.
MayReplaceEnded(r) == r.status \in Outcome /\ r.clear = "none"

\* RecordAtomicIntent refuses a bead in use or in cleanup, and a row whose
\* event is pending.
MayBeginAttempt(r) ==
    /\ r.status \in Outcome
    /\ r.clear = "none"
    /\ r.event = "none"

BeginAttempt(b) ==
    /\ cleanup[b] = NoOne
    /\ HasRow(b) => MayBeginAttempt(row[b])
    /\ attempts < MaxAttempt
    /\ attempts' = attempts + 1
    /\ Saved(b, NewRow(attempts'))
    /\ UNCHANGED <<cleanup, alive, detector, queue, watchLoop, crashes, created, done>>

\* Execute with ReplaceWorkingAssignment, which looks at the status and at the
\* clear state of the row it replaces.
ReplaceWorking(b) ==
    /\ Replacing
    /\ cleanup[b] = NoOne
    /\ HasRow(b) /\ row[b].status = "working"
    /\ attempts < MaxAttempt
    /\ attempts' = attempts + 1
    /\ Saved(b, NewRow(attempts'))
    /\ done' = IF row[b].event = "none" THEN done ELSE done \cup {<<NoOne, EventOf(b)>>}
    /\ UNCHANGED <<cleanup, alive, detector, queue, watchLoop, crashes, created>>

(***************************************************************************)
(* The detector finds that an attempt has ended.                           *)
(***************************************************************************)

\* The detector's goroutine is not held up by a full queue.
Scanning(c) == alive[c] /\ claimed[c] = NoEvent

\* checkAll reloads the ledger and lists the active rows.
Scan(c) ==
    /\ Scanning(c)
    /\ seen' = [seen EXCEPT ![c] = [b \in Bead |->
                    IF HasRow(b) /\ row[b].status = "working" /\ row[b].clear = "none"
                    THEN row[b].attempt ELSE 0]]
    /\ UNCHANGED <<row, attempts, cleanup, alive, recent, claimed, queue, watchLoop, crashes,
                   created, done>>

\* What BeginTerminalReconciliationWithCompletionEventIfCurrent makes of a row
\* of the attempt that the caller observed.
WithEvent(r, o) == [r EXCEPT !.event = o, !.token = NoOne, !.lease = 0]

WithBarrier(r, o) == [r EXCEPT !.clear = "releasing", !.pending = o, !.claimFree = FALSE,
                               !.event = "none", !.token = NoOne, !.lease = 0]

\* ensureCompletionEvent backfills the event of a barrier or of a row that
\* another process finished without one.
MayBackfill(r, o) ==
    /\ r.event = "none"
    /\ IF r.clear # "none" THEN r.pending = o ELSE r.status = o

BeginTerminalWithEvent(c, b, o) ==
    /\ Scanning(c)
    /\ HasRow(b)
    /\ seen[c][b] = row[b].attempt
    /\ seen' = [seen EXCEPT ![c][b] = 0]
    /\ LET new == IF row[b].clear = "none" /\ row[b].status = "working"
                  THEN WithEvent(WithBarrier(row[b], o), o)
                  ELSE WithEvent(row[b], o)
       IN  /\ \/ row[b].clear = "none" /\ row[b].status = "working"
              \/ MayBackfill(row[b], o)
           /\ Saved(b, new) \/ SaveFailed(b, new)
    /\ created' = IF row' # row THEN created \cup {EventOf(b)'} ELSE created
    /\ UNCHANGED <<attempts, cleanup, alive, recent, claimed, queue, watchLoop, crashes, done>>

(***************************************************************************)
(* Cleanup: the terminal barrier of a watch loop or of the coordinator,    *)
(* and the clear barrier of `ntm assign --clear`, under the cleanup lock.  *)
(***************************************************************************)

\* A watch loop resumes a terminal barrier, the coordinator takes any row that
\* is not over, and a clear refuses a terminal barrier.
BeginCleanup(h, b) ==
    /\ cleanup[b] = NoOne
    /\ HasRow(b)
    /\ CASE h \in Consumer     -> Scanning(h) /\ row[b].pending # "none"
         [] h = "coordinator" -> row[b].clear # "none" \/ row[b].status = "working"
         [] h = "clear"       -> row[b].pending = "none"
    /\ cleanup' = [cleanup EXCEPT ![b] = h]
    /\ UNCHANGED <<row, attempts, alive, detector, queue, watchLoop, crashes, created, done>>

\* A step on the row of b by the holder of its cleanup lock.
CleanupStep(h, b, new) ==
    /\ cleanup[b] = h
    /\ HasRow(b)
    /\ h \in Consumer => Scanning(h)
    /\ Saved(b, new) \/ SaveFailed(b, new)
    /\ UNCHANGED <<attempts, cleanup, alive, detector, queue, watchLoop, crashes, created, done>>

\* BeginTerminalReconciliationIfCurrent: a barrier without an event.
BeginTerminal(b, o) ==
    /\ CleanupStep("coordinator", b, WithBarrier(row[b], o))
    /\ row[b].clear = "none" /\ row[b].status = "working"

BeginClear(b) ==
    /\ CleanupStep("clear", b, [row[b] EXCEPT !.clear = "releasing"])
    /\ row[b].event = "none"
    /\ row[b].clear = "none"

\* RecordClearLeasesReleased, once the leases are released.
LeasesReleased(h, b) ==
    /\ CleanupStep(h, b, [row[b] EXCEPT !.clear = "released"])
    /\ row[b].clear = "releasing"
    /\ (h = "clear") = (row[b].pending = "none")

\* RecordTerminalClaimReleased, once the tracker's claim is released.
TerminalClaimReleased(h, b) ==
    /\ CleanupStep(h, b, [row[b] EXCEPT !.claimFree = TRUE])
    /\ h # "clear"
    /\ row[b].pending # "none" /\ row[b].clear = "released" /\ ~row[b].claimFree

CompleteTerminal(h, b) ==
    /\ CleanupStep(h, b, [row[b] EXCEPT !.status = row[b].pending, !.clear = "none",
                                        !.pending = "none", !.claimFree = FALSE])
    /\ h # "clear"
    /\ row[b].pending # "none" /\ row[b].clear = "released" /\ row[b].claimFree

CompleteClear(b) ==
    /\ CleanupStep("clear", b, NoRow)
    /\ row[b].pending = "none" /\ row[b].event = "none" /\ row[b].clear = "released"

\* The holder is through, or an error of the tracker, of the lease service or
\* of a save sends it back.
EndCleanup(b) ==
    /\ cleanup[b] # NoOne
    /\ cleanup' = [cleanup EXCEPT ![b] = NoOne]
    /\ UNCHANGED <<row, attempts, alive, detector, queue, watchLoop, crashes, created, done>>

(***************************************************************************)
(* The event is leased and queued.                                         *)
(***************************************************************************)

\* A mutation of MayClaim: the lease of a dead process is never taken over.
MayClaimOwn(r, c) == r.token \in {NoOne, c}

\* ClaimPendingCompletionEvent
MayClaim(r, c) == r.token \in {NoOne, c} \/ r.lease = 0

\* ownsLiveCompletionEventLease, and the same test in the renewal.
OwnsLiveLease(c, e) ==
    /\ Pending(e)
    /\ row[e.bead].token = c
    /\ row[e.bead].lease > 0

WithLease(r, c) == [r EXCEPT !.token = c, !.lease = Lease]

ClaimEvent(c, b) ==
    /\ Scanning(c)
    /\ HasRow(b)
    /\ row[b].event # "none" /\ row[b].status \in Outcome /\ row[b].clear = "none"
    /\ recent[c][b] # row[b].attempt
    /\ MayClaim(row[b], c)
    /\ \/ /\ IF row[b].token = c /\ row[b].lease > 0
             THEN UNCHANGED row
             ELSE Saved(b, WithLease(row[b], c))
          /\ claimed' = [claimed EXCEPT ![c] = EventOf(b)]
          /\ recent' = [recent EXCEPT ![c][b] = row[b].attempt]
       \/ /\ SaveFailed(b, WithLease(row[b], c))
          /\ UNCHANGED <<claimed, recent>>
    /\ UNCHANGED <<attempts, cleanup, alive, seen, queue, watchLoop, crashes, created, done>>

\* A mutation of HasRoom: the channel is not bounded.
AlwaysRoom(c) == TRUE

HasRoom(c) == Len(queue[c]) < QueueSize

Enqueue(c) ==
    /\ alive[c]
    /\ claimed[c] # NoEvent
    /\ HasRoom(c)
    /\ queue' = [queue EXCEPT ![c] = Append(@, claimed[c])]
    /\ claimed' = [claimed EXCEPT ![c] = NoEvent]
    /\ UNCHANGED <<row, attempts, cleanup, alive, seen, recent, watchLoop, crashes, created, done>>

\* The dedup window of an emitted event is over.
ForgetRecent(c, b) ==
    /\ alive[c]
    /\ recent[c][b] # 0
    /\ recent' = [recent EXCEPT ![c][b] = 0]
    /\ UNCHANGED <<row, attempts, cleanup, alive, seen, claimed, queue, watchLoop, crashes,
                   created, done>>

(***************************************************************************)
(* The watch loop handles the event: consumeCompletionEvent.               *)
(***************************************************************************)

\* An event that this process has handled before is only acknowledged.
TakeHandled(c) ==
    /\ alive[c] /\ phase[c] = "idle" /\ queue[c] # <<>>
    /\ Head(queue[c]) \in handled[c]
    /\ queue' = [queue EXCEPT ![c] = Tail(@)]
    /\ phase' = [phase EXCEPT ![c] = "acking"]
    /\ current' = [current EXCEPT ![c] = Head(queue[c])]
    /\ UNCHANGED <<row, attempts, cleanup, alive, detector, handled, crashes, created, done>>

\* Any other event is handled if the lease can still be renewed.
TakeNew(c) ==
    /\ alive[c] /\ phase[c] = "idle" /\ queue[c] # <<>>
    /\ LET e == Head(queue[c])
       IN  /\ e \notin handled[c]
           /\ OwnsLiveLease(c, e)
           /\ Saved(e.bead, WithLease(row[e.bead], c))
           /\ current' = [current EXCEPT ![c] = e]
    /\ queue' = [queue EXCEPT ![c] = Tail(@)]
    /\ phase' = [phase EXCEPT ![c] = "handling"]
    /\ UNCHANGED <<attempts, cleanup, alive, detector, handled, crashes, created, done>>

\* The lease was lost in the queue, or renewing it failed.
DropTaken(c) ==
    /\ alive[c] /\ phase[c] = "idle" /\ queue[c] # <<>>
    /\ LET e == Head(queue[c])
       IN  /\ e \notin handled[c]
           /\ IF OwnsLiveLease(c, e)
              THEN SaveFailed(e.bead, WithLease(row[e.bead], c))
              ELSE UNCHANGED row
    /\ queue' = [queue EXCEPT ![c] = Tail(@)]
    /\ UNCHANGED <<attempts, cleanup, alive, detector, watchLoop, crashes, created, done>>

\* maintainCompletionEventLease
KeepLease(c) ==
    /\ alive[c] /\ phase[c] = "handling"
    /\ OwnsLiveLease(c, current[c])
    /\ Saved(current[c].bead, WithLease(row[current[c].bead], c))
    /\ UNCHANGED <<attempts, cleanup, alive, detector, queue, watchLoop, crashes, created, done>>

Finished(c) == done' = done \cup {<<c, current[c]>>}

\* The lease was lost or its renewal failed: the handler is cancelled, perhaps
\* when its work is done.
HandlerCancelled(c) ==
    /\ alive[c] /\ phase[c] = "handling"
    /\ IF OwnsLiveLease(c, current[c])
       THEN SaveFailed(current[c].bead, WithLease(row[current[c].bead], c))
       ELSE UNCHANGED row
    /\ Finished(c) \/ UNCHANGED done
    /\ phase' = [phase EXCEPT ![c] = "idle"]
    /\ current' = [current EXCEPT ![c] = NoEvent]
    /\ UNCHANGED <<attempts, cleanup, alive, detector, queue, handled, crashes, created>>

HandlerSucceeds(c) ==
    /\ alive[c] /\ phase[c] = "handling"
    /\ Finished(c)
    /\ handled' = [handled EXCEPT ![c] = @ \cup {current[c]}]
    /\ phase' = [phase EXCEPT ![c] = "acking"]
    /\ UNCHANGED <<row, attempts, cleanup, alive, detector, queue, current, crashes, created>>

HandlerFails(c) ==
    /\ alive[c] /\ phase[c] = "handling"
    /\ phase' = [phase EXCEPT ![c] = "idle"]
    /\ current' = [current EXCEPT ![c] = NoEvent]
    /\ UNCHANGED <<row, attempts, cleanup, alive, detector, queue, handled, crashes, created, done>>

\* A mutation of Acknowledged: the consumer's lease is left in the row.
AcknowledgedEventOnly(r) == [r EXCEPT !.event = "none"]

Acknowledged(r) == [r EXCEPT !.event = "none", !.token = NoOne, !.lease = 0]

\* AcknowledgeCompletionEvent
Acknowledge(c) ==
    /\ alive[c] /\ phase[c] = "acking"
    /\ LET b == current[c].bead
       IN  IF OwnsLiveLease(c, current[c])
           THEN Saved(b, Acknowledged(row[b])) \/ SaveFailed(b, Acknowledged(row[b]))
           ELSE UNCHANGED row
    /\ phase' = [phase EXCEPT ![c] = "idle"]
    /\ current' = [current EXCEPT ![c] = NoEvent]
    /\ UNCHANGED <<attempts, cleanup, alive, detector, queue, handled, crashes, created, done>>

(***************************************************************************)
(* The environment.                                                        *)
(***************************************************************************)

\* A watch loop dies and is not restarted under the same token; one is left.
Crash(c) ==
    /\ alive[c] /\ crashes < MaxCrashes
    /\ \E d \in Consumer \ {c} : alive[d]
    /\ crashes' = crashes + 1
    /\ alive' = [alive EXCEPT ![c] = FALSE]
    /\ cleanup' = [b \in Bead |-> IF cleanup[b] = c THEN NoOne ELSE cleanup[b]]
    /\ seen' = [seen EXCEPT ![c] = [b \in Bead |-> 0]]
    /\ recent' = [recent EXCEPT ![c] = [b \in Bead |-> 0]]
    /\ claimed' = [claimed EXCEPT ![c] = NoEvent]
    /\ queue' = [queue EXCEPT ![c] = <<>>]
    /\ phase' = [phase EXCEPT ![c] = "idle"]
    /\ current' = [current EXCEPT ![c] = NoEvent]
    /\ handled' = [handled EXCEPT ![c] = {}]
    /\ UNCHANGED <<row, attempts, created, done>>

Tick ==
    /\ TimePasses
    /\ \E b \in Bead : HasRow(b) /\ row[b].lease > 0
    /\ row' = [b \in Bead |-> IF HasRow(b) /\ row[b].lease > 0
                              THEN [row[b] EXCEPT !.lease = @ - 1] ELSE row[b]]
    /\ UNCHANGED <<attempts, cleanup, alive, detector, queue, watchLoop, crashes, created, done>>

--------------------------------------------------------------------------------

Cleanup(b) ==
    \/ EndCleanup(b)
    \/ BeginClear(b)
    \/ CompleteClear(b)
    \/ \E o \in Outcome : BeginTerminal(b, o)
    \/ \E h \in Holder :
        \/ BeginCleanup(h, b)
        \/ LeasesReleased(h, b)
        \/ TerminalClaimReleased(h, b)
        \/ CompleteTerminal(h, b)

Detector(c) ==
    \/ Scan(c)
    \/ Enqueue(c)
    \/ \E b \in Bead :
        \/ ClaimEvent(c, b)
        \/ ForgetRecent(c, b)
        \/ \E o \in Outcome : BeginTerminalWithEvent(c, b, o)

WatchLoop(c) ==
    \/ TakeHandled(c)
    \/ TakeNew(c)
    \/ DropTaken(c)
    \/ KeepLease(c)
    \/ HandlerCancelled(c)
    \/ HandlerSucceeds(c)
    \/ HandlerFails(c)
    \/ Acknowledge(c)

Next ==
    \/ Tick
    \/ \E b \in Bead : BeginAttempt(b) \/ ReplaceWorking(b) \/ Cleanup(b)
    \/ \E c \in Consumer : Detector(c) \/ WatchLoop(c) \/ Crash(c)

Spec == Init /\ [][Next]_vars

(***************************************************************************)
(* Fairness.  Some watch loop is always running, it polls for ever, and a  *)
(* step that is retried does not fail every time: the tracker, the disk    *)
(* and the handler work again at some time.  Time passes, so that the      *)
(* lease of a dead process lapses; that of a living one, which is six poll *)
(* intervals long and renewed every third of its length, ceases to lapse.  *)
(***************************************************************************)
LivingLeaseLapses ==
    \E b \in Bead : /\ HasRow(b) /\ row[b].lease = 1 /\ alive[row[b].token]
                    /\ HasRow(b)' /\ row'[b].token = row[b].token /\ row'[b].lease = 0

\* The terminal barrier of b is carried a step further.
CleanupAdvances(b) ==
    /\ \E h \in Consumer : LeasesReleased(h, b) \/ TerminalClaimReleased(h, b)
                           \/ CompleteTerminal(h, b)
    /\ row'[b] # row[b]

Acknowledges(b) ==
    /\ \E c \in Consumer : Acknowledge(c)
    /\ HasRow(b) /\ row'[b] # row[b]

Fairness ==
    /\ WF_vars(Tick /\ ~LivingLeaseLapses)
    /\ <>[][~LivingLeaseLapses]_vars
    /\ WF_vars(\E c \in Consumer : Enqueue(c))
    /\ WF_vars(\E c \in Consumer : DropTaken(c))
    /\ SF_vars(\E c \in Consumer : TakeHandled(c) \/ TakeNew(c))
    /\ SF_vars(\E c \in Consumer : HandlerSucceeds(c))
    /\ WF_vars(\E c \in Consumer : Acknowledge(c))
    /\ \A b \in Bead :
        /\ WF_vars(EndCleanup(b))
        /\ WF_vars(\E c \in Consumer : ForgetRecent(c, b))
        /\ SF_vars(\E c \in Consumer : BeginCleanup(c, b))
        /\ SF_vars(CleanupAdvances(b))
        /\ SF_vars(\E c \in Consumer : ClaimEvent(c, b) /\ claimed'[c] # NoEvent)
        /\ SF_vars(Acknowledges(b))

FairSpec == Spec /\ Fairness

--------------------------------------------------------------------------------
(***************************************************************************)
(* Properties.                                                             *)
(***************************************************************************)

\* validateCompletionOutboxAssignment accepts the row: every reader refuses the
\* whole ledger of the session if it does not.
Acceptable(r) ==
    /\ r.event # "none" =>
           \/ r.status \in Outcome
           \/ r.clear # "none" /\ r.pending # "none"
    /\ r.token # NoOne => /\ r.event # "none"
                          /\ r.status \in Outcome
                          /\ r.clear = "none"

RowsAreAcceptable == \A b \in Bead : HasRow(b) => Acceptable(row[b])

HandledBy(who) == \A e \in created : Pending(e) \/ \E c \in who : <<c, e>> \in done

\* "a completion cannot be lost between terminal reconciliation and in-memory
\* delivery": an event stays in the outbox until a handler has finished it.
EventIsHandledBeforeItIsGone == HandledBy(Consumer)

\* The same, when the replacement of a working row that holds an event already is
\* left aside: nothing else loses an event, a crash, a lapsed lease, a failed save and
\* a second handling included.
EventIsHandledOrReplaced == HandledBy(Consumer \cup {NoOne})

\* Whoever dies and whatever fails, an event does not hold up its bead for
\* ever: a row with a pending event takes no new attempt.
OutboxDrains ==
    \A b \in Bead : (HasRow(b) /\ row[b].event # "none") ~> ~(HasRow(b) /\ row[b].event # "none")

=================================================================================
