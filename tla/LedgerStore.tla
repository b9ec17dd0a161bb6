------------------------------ MODULE LedgerStore ------------------------------
(***************************************************************************)
(* The durable assignment ledger of internal/assignment/store.go.          *)
(*                                                                         *)
(* Every ntm process keeps its own copy of the ledger in memory, together  *)
(* with the version it last read from disk (its baseline).  An operation   *)
(* edits the memory and saves it: under the store's file lock the save     *)
(* reads the newest durable version, merges the process's own changes into *)
(* it, publishes the result to the backup file and then to the primary     *)
(* file, and only then adopts it as its memory.  Any process may die or    *)
(* see an I/O error between any two of these steps.                        *)
(*                                                                         *)
(* A row keeps the fields on which merges are decided: the attempt it      *)
(* belongs to (idempotency key, or AssignedAt of a row without one), its   *)
(* status, its dispatch state, and one plain metadata field (RetryCount).  *)
(***************************************************************************)
EXTENDS AssignmentStatus, FiniteSets

CONSTANTS
    Store,          \* open AssignmentStore instances, one per process
    Bead,           \* work items
    MaxGeneration,  \* largest persistence generation (2^64 - 1 in the code)
    MaxAttempt,     \* bound: attempts ever created
    MaxRetries,     \* bound: RetryCount
    DiskErrors,     \* may a save fail with an I/O error and the process go on?
    NoRow, NoFile, NoStore, NoEvent

ASSUME MaxGenerationAssumption == MaxGeneration \in Nat \ {0}
ASSUME BoundsAssumption ==
    /\ MaxAttempt \in Nat
    /\ MaxRetries \in Nat
    /\ DiskErrors \in BOOLEAN
ASSUME NullAssumption ==
    /\ NoStore \notin Store

Dispatch == {"none", "pending", "sending", "sent"}

Row == [attempt  : 0..MaxAttempt,
        status   : Status,
        dispatch : Dispatch,
        retries  : 0..MaxRetries]

Ledger == [Bead -> Row \cup {NoRow}]

\* What a ledger file holds.
Snapshot == [gen     : 0..MaxGeneration,
             rows    : Ledger,
             cleared : [Bead -> Nat]]

EmptySnapshot == [gen     |-> 0,
                  rows    |-> [b \in Bead |-> NoRow],
                  cleared |-> [b \in Bead |-> 0]]

ASSUME NoRowAssumption == NoRow \notin Row
ASSUME NoFileAssumption == NoFile \notin Snapshot

VARIABLES
    primary, backup,   \* the two ledger files
    mem,               \* mem[p]: Assignments and ClearedGenerations of p
    base,              \* base[p]: the rows p last read or wrote
    repl,              \* repl[p]: beads p replaces as whole records
    pc,                \* pc[p]: how far p is in an operation
    undo,              \* undo[p]: what p's memory becomes if its save fails
    want,              \* want[p]: the event p emits once its save succeeded
    opLock,            \* opLock[b]: holder of the bead's operation lock
    sending,           \* sending[b]: has that holder written the dispatch barrier?
    attempts,          \* attempts created so far
    announced          \* the event emitted by the last step

files == <<primary, backup>>
locals == <<mem, base, repl, pc, undo, want>>
vars == <<primary, backup, mem, base, repl, pc, undo, want, opLock, sending, attempts, announced>>

(***************************************************************************)
(* Reading the files.                                                      *)
(***************************************************************************)

\* selectAssignmentSnapshot refuses the pair of files.
StrictError ==
    \/ primary = NoFile /\ backup # NoFile /\ backup.gen # 1
    \/ /\ primary # NoFile /\ backup # NoFile
       /\ \/ backup.gen > primary.gen + 1
          \/ backup.gen = primary.gen /\ backup # primary

\* The save that wrote the backup did not get to write the primary.
PromoteBackup ==
    /\ backup # NoFile
    /\ primary = NoFile \/ backup.gen > primary.gen

\* The version every strict reader sees.
Durable ==
    IF PromoteBackup THEN backup
    ELSE IF primary = NoFile THEN EmptySnapshot ELSE primary

\* A mutation of RecoveredPrimary: the promotion is forgotten.
PrimaryNotRecovered == primary

\* publishAssignmentPrimary completes an interrupted save.
RecoveredPrimary == IF PromoteBackup THEN backup ELSE primary

FileLockFree == \A p \in Store : pc[p] # "published"

(***************************************************************************)
(* Merging a process's changes into the newest durable version.            *)
(***************************************************************************)

Conflict(latest, baseline, current, replaced, b) ==
    \/ /\ baseline[b] # NoRow /\ current[b] = NoRow
       /\ latest[b] # NoRow /\ latest[b] # baseline[b]
    \/ /\ baseline[b] = NoRow /\ current[b] # NoRow
       /\ latest[b] # NoRow /\ latest[b] # current[b]
    \/ /\ baseline[b] # NoRow /\ current[b] # NoRow /\ current[b] # baseline[b]
       /\ IF b \in replaced
          THEN latest[b] # baseline[b]
          ELSE latest[b] # NoRow => latest[b].attempt # baseline[b].attempt

\* A mutation of MergeRow: the writer's whole row goes in.
MergeWholeRow(latest, baseline, current) ==
    [current EXCEPT !.status =
        IF ShouldApplyStatusDelta(baseline.status, latest.status, current.status)
        THEN current.status ELSE latest.status]

\* mergeAssignmentDelta: only what the caller changed is written over.
MergeRow(latest, baseline, current) ==
    LET Delta(l, b, c) == IF c # b THEN c ELSE l
    IN  [attempt  |-> Delta(latest.attempt, baseline.attempt, current.attempt),
         status   |-> IF /\ current.status # baseline.status
                         /\ ShouldApplyStatusDelta(baseline.status, latest.status, current.status)
                      THEN current.status ELSE latest.status,
         dispatch |-> Delta(latest.dispatch, baseline.dispatch, current.dispatch),
         retries  |-> Delta(latest.retries, baseline.retries, current.retries)]

Merge(latest, baseline, current, replaced) ==
    [b \in Bead |->
        IF current[b] = baseline[b] THEN latest[b]
        ELSE IF current[b] = NoRow THEN NoRow
        ELSE IF baseline[b] = NoRow \/ b \in replaced THEN current[b]
        ELSE MergeRow(latest[b], baseline[b], current[b])]

\* A mutation of MergeCleared: the last writer wins.
LastCleared(latest, current) == current

MergeCleared(latest, current) ==
    [b \in Bead |-> IF current[b] > latest[b] THEN current[b] ELSE latest[b]]

--------------------------------------------------------------------------------

Memory == [rows : Ledger, cleared : [Bead -> Nat]]
EmptyMemory == [rows |-> EmptySnapshot.rows, cleared |-> EmptySnapshot.cleared]

NoUndo == [mem |-> EmptyMemory, repl |-> {}]

Event == [bead : Bead, status : Status, confirmed : BOOLEAN]

TypeOK ==
    /\ primary \in Snapshot \cup {NoFile}
    /\ backup \in Snapshot \cup {NoFile}
    /\ mem \in [Store -> Memory]
    /\ base \in [Store -> Ledger]
    /\ repl \in [Store -> SUBSET Bead]
    /\ pc \in [Store -> {"down", "idle", "saving", "published"}]
    /\ undo \in [Store -> [mem : Memory, repl : SUBSET Bead]]
    /\ want \in [Store -> Event \cup {NoEvent}]
    /\ opLock \in [Bead -> Store \cup {NoStore}]
    /\ sending \in [Bead -> BOOLEAN]
    /\ attempts \in 0..MaxAttempt
    /\ announced \in Event \cup {NoEvent}

Init ==
    /\ primary = NoFile
    /\ backup = NoFile
    /\ mem = [p \in Store |-> EmptyMemory]
    /\ base = [p \in Store |-> EmptyMemory.rows]
    /\ repl = [p \in Store |-> {}]
    /\ pc = [p \in Store |-> "down"]
    /\ undo = [p \in Store |-> NoUndo]
    /\ want = [p \in Store |-> NoEvent]
    /\ opLock = [b \in Bead |-> NoStore]
    /\ sending = [b \in Bead |-> FALSE]
    /\ attempts = 0
    /\ announced = NoEvent

(***************************************************************************)
(* Loading.  A newer backup is promoted to the primary before it is read.  *)
(***************************************************************************)
ReadLedger(p) ==
    /\ FileLockFree
    /\ ~StrictError
    /\ primary' = RecoveredPrimary
    /\ UNCHANGED backup
    /\ IF primary' = NoFile
       THEN UNCHANGED <<mem, base, repl>>
       ELSE /\ mem' = [mem EXCEPT ![p] = [rows |-> primary'.rows, cleared |-> primary'.cleared]]
            /\ base' = [base EXCEPT ![p] = primary'.rows]
            /\ repl' = [repl EXCEPT ![p] = {}]

\* LoadStore / LoadStoreStrict by a new process, or Load by a running one.
Load(p) ==
    /\ pc[p] \in {"down", "idle"}
    /\ \A b \in Bead : opLock[b] # p
    /\ ReadLedger(p)
    /\ pc' = [pc EXCEPT ![p] = "idle"]
    /\ announced' = NoEvent
    /\ UNCHANGED <<undo, want, opLock, sending, attempts>>

\* acquireAtomicBeadOperationLock and the LoadStrict that follows it.
LockBead(p, b) ==
    /\ pc[p] = "idle"
    /\ opLock[b] = NoStore
    /\ \A c \in Bead : opLock[c] # p
    /\ opLock' = [opLock EXCEPT ![b] = p]
    /\ ReadLedger(p)
    /\ announced' = NoEvent
    /\ UNCHANGED <<pc, undo, want, sending, attempts>>

\* The deferred unlock of every caller, on success and on an error.
DropOperationLock(p) ==
    /\ opLock' = [b \in Bead |-> IF opLock[b] = p THEN NoStore ELSE opLock[b]]
    /\ sending' = [b \in Bead |-> sending[b] /\ opLock[b] # p]

UnlockBead(p, b) ==
    /\ pc[p] = "idle"
    /\ opLock[b] = p
    /\ DropOperationLock(p)
    /\ announced' = NoEvent
    /\ UNCHANGED <<primary, backup, locals, attempts>>

(***************************************************************************)
(* Operations.  Each one edits the memory of p and enters saveLocked.      *)
(***************************************************************************)

\* `restored`: is the memory put back if the save fails?
BeginSave(p, newMem, newRepl, restored, event) ==
    /\ pc' = [pc EXCEPT ![p] = "saving"]
    /\ mem' = [mem EXCEPT ![p] = newMem]
    /\ repl' = [repl EXCEPT ![p] = newRepl]
    /\ undo' = [undo EXCEPT ![p] =
                    IF restored THEN [mem |-> mem[p], repl |-> repl[p]]
                    ELSE [mem |-> newMem, repl |-> newRepl]]
    /\ want' = [want EXCEPT ![p] = event]
    /\ announced' = NoEvent
    /\ UNCHANGED <<primary, backup, base, opLock>>

WithRow(p, b, row) == [mem[p] EXCEPT !.rows[b] = row]

Confirmed(b, s) == [bead |-> b, status |-> s, confirmed |-> TRUE]

\* The callers that hold no operation lock hold none while they run.
Unguarded(p) == pc[p] = "idle" /\ \A b \in Bead : opLock[b] # p

Guarded(p, b) == pc[p] = "idle" /\ opLock[b] = p

NextAttempt == attempts < MaxAttempt /\ attempts' = attempts + 1

Save(p) ==
    /\ Unguarded(p)
    /\ BeginSave(p, mem[p], repl[p], FALSE, NoEvent)
    /\ UNCHANGED <<sending, attempts>>

Assign(p, b) ==
    /\ Unguarded(p)
    /\ NextAttempt
    /\ UNCHANGED sending
    /\ BeginSave(p,
           WithRow(p, b, [attempt |-> attempts', status |-> "assigned",
                          dispatch |-> "none", retries |-> 0]),
           IF mem[p].rows[b] # NoRow THEN repl[p] \cup {b} ELSE repl[p],
           FALSE, Confirmed(b, "assigned"))

\* UpdateStatus, and MarkWorking, MarkCompleted and MarkFailed.
UpdateStatus(p, b, s) ==
    /\ Unguarded(p)
    /\ mem[p].rows[b] # NoRow
    /\ IsValidTransition(mem[p].rows[b].status, s)
    /\ BeginSave(p, WithRow(p, b, [mem[p].rows[b] EXCEPT !.status = s]), repl[p],
                 FALSE, Confirmed(b, s))
    /\ UNCHANGED <<sending, attempts>>

\* Update of RetryCount.
Update(p, b) ==
    /\ Unguarded(p)
    /\ mem[p].rows[b] # NoRow
    /\ mem[p].rows[b].retries < MaxRetries
    /\ BeginSave(p, WithRow(p, b, [mem[p].rows[b] EXCEPT !.retries = @ + 1]), repl[p],
                 FALSE, NoEvent)
    /\ UNCHANGED <<sending, attempts>>

\* Reassign reports the row it persisted and emits no event.
Reassign(p, b) ==
    /\ Unguarded(p)
    /\ mem[p].rows[b] # NoRow
    /\ IsValidTransition(mem[p].rows[b].status, "reassigned")
    /\ NextAttempt
    /\ UNCHANGED sending
    /\ BeginSave(p,
           WithRow(p, b, [attempt |-> attempts', status |-> "assigned",
                          dispatch |-> "none", retries |-> mem[p].rows[b].retries]),
           repl[p] \cup {b}, FALSE, NoEvent)

\* Remove of one bead, Clear of all of them.
Remove(p, beads) ==
    /\ Unguarded(p)
    /\ beads \in {{b} : b \in Bead} \cup {Bead}
    /\ BeginSave(p,
           [mem[p] EXCEPT !.rows = [b \in Bead |-> IF b \in beads THEN NoRow ELSE @[b]]],
           repl[p], FALSE, NoEvent)
    /\ UNCHANGED <<sending, attempts>>

\* transitionIfCurrent: MarkWorkingIfCurrent, MarkCompletedIfCurrent, MarkFailedIfCurrent.
TransitionIfCurrent(p, b, s) ==
    /\ Guarded(p, b)
    /\ mem[p].rows[b] # NoRow
    /\ s \in {"working", "completed", "failed"}
    /\ IsValidTransition(mem[p].rows[b].status, s)
    /\ BeginSave(p, WithRow(p, b, [mem[p].rows[b] EXCEPT !.status = s]), repl[p] \cup {b},
                 TRUE, Confirmed(b, s))
    /\ UNCHANGED <<sending, attempts>>

\* CompleteClear, once the clear barrier is through.
CompleteClear(p, b) ==
    /\ Guarded(p, b)
    /\ mem[p].rows[b] # NoRow
    /\ BeginSave(p, [rows    |-> [mem[p].rows EXCEPT ![b] = NoRow],
                     cleared |-> [mem[p].cleared EXCEPT ![b] = @ + 1]],
                 repl[p], FALSE, NoEvent)
    /\ UNCHANGED <<sending, attempts>>

\* RecordAtomicIntent of a new attempt.  It may replace a row that is over, and
\* a row of Assign, which has no idempotency key and no dispatch state.
RecordAtomicIntent(p, b) ==
    /\ Guarded(p, b)
    /\ LET existing == mem[p].rows[b]
       IN  existing # NoRow => existing.dispatch = "none" \/ existing.status \notin LiveStatus
    /\ NextAttempt
    /\ UNCHANGED sending
    /\ BeginSave(p,
           WithRow(p, b, [attempt |-> attempts', status |-> "claiming",
                          dispatch |-> "pending", retries |-> 0]),
           IF mem[p].rows[b] # NoRow THEN repl[p] \cup {b} ELSE repl[p],
           TRUE, NoEvent)

\* RecordAtomicClaim
RecordAtomicClaim(p, b) ==
    /\ Guarded(p, b)
    /\ mem[p].rows[b] # NoRow
    /\ mem[p].rows[b].dispatch = "pending"
    /\ BeginSave(p, WithRow(p, b, [mem[p].rows[b] EXCEPT !.status = "claimed"]), repl[p],
                 FALSE, NoEvent)
    /\ UNCHANGED <<sending, attempts>>

\* RecordAtomicDispatchStarted: the barrier written before the prompt is sent.
RecordAtomicDispatchStarted(p, b) ==
    /\ Guarded(p, b)
    /\ mem[p].rows[b] # NoRow
    /\ mem[p].rows[b].dispatch = "pending"
    /\ BeginSave(p, WithRow(p, b, [mem[p].rows[b] EXCEPT !.dispatch = "sending"]), repl[p],
                 FALSE, NoEvent)
    /\ sending' = [sending EXCEPT ![b] = TRUE]
    /\ UNCHANGED attempts

\* RecordAtomicDispatchSent: the receipt of the prompt this holder sent.  Its event is made from the row in
\* memory before the save, not from the row that was persisted.
RecordAtomicDispatchSent(p, b) ==
    /\ Guarded(p, b)
    /\ mem[p].rows[b] # NoRow
    /\ sending[b]
    /\ mem[p].rows[b].dispatch = "sending"
    /\ BeginSave(p, WithRow(p, b, [mem[p].rows[b] EXCEPT !.dispatch = "sent", !.status = "assigned"]),
                 repl[p], TRUE, [bead |-> b, status |-> "assigned", confirmed |-> FALSE])
    /\ UNCHANGED <<sending, attempts>>

(***************************************************************************)
(* saveLocked.                                                             *)
(***************************************************************************)

\* The operation of p is over.
Forget(p) ==
    /\ undo' = [undo EXCEPT ![p] = NoUndo]
    /\ want' = [want EXCEPT ![p] = NoEvent]

\* A mutation of GenerationExhausted: the counter is never checked.
NeverExhausted == FALSE

\* "persistence generation exhausted"
GenerationExhausted == Durable.gen >= MaxGeneration

\* Another process changed what p meant to replace or remove: p adopts the
\* durable version and reports the conflict.
SaveConflict(p) ==
    /\ pc[p] = "saving"
    /\ FileLockFree
    /\ ~StrictError
    /\ \E b \in Bead : Conflict(Durable.rows, base[p], mem[p].rows, repl[p], b)
    /\ primary' = RecoveredPrimary
    /\ mem' = [mem EXCEPT ![p] = [rows |-> Durable.rows, cleared |-> Durable.cleared]]
    /\ base' = [base EXCEPT ![p] = Durable.rows]
    /\ repl' = [repl EXCEPT ![p] = {}]
    /\ pc' = [pc EXCEPT ![p] = "idle"]
    /\ announced' = NoEvent
    /\ Forget(p)
    /\ DropOperationLock(p)
    /\ UNCHANGED <<backup, attempts>>

MergedSnapshot(p) ==
    [gen     |-> Durable.gen + 1,
     rows    |-> Merge(Durable.rows, base[p], mem[p].rows, repl[p]),
     cleared |-> MergeCleared(Durable.cleared, mem[p].cleared)]

\* The merged ledger is in the backup, and the file lock is held.
PublishBackup(p) ==
    /\ pc[p] = "saving"
    /\ FileLockFree
    /\ ~StrictError
    /\ \A b \in Bead : ~Conflict(Durable.rows, base[p], mem[p].rows, repl[p], b)
    /\ ~GenerationExhausted
    /\ primary' = RecoveredPrimary
    /\ backup' = MergedSnapshot(p)
    /\ pc' = [pc EXCEPT ![p] = "published"]
    /\ announced' = NoEvent
    /\ UNCHANGED <<mem, base, repl, undo, want, opLock, sending, attempts>>

\* A mutation of EventAfterSave: the event is not checked against the row.
UncheckedEvent(event, rows) == event

\* confirmPersistedStatusLocked compares the wanted status with the saved row.
EventAfterSave(event, rows) ==
    IF event = NoEvent THEN NoEvent
    ELSE IF /\ event.confirmed
            /\ rows[event.bead] = NoRow \/ rows[event.bead].status # event.status
         THEN NoEvent ELSE event

\* The primary is renamed into place and the merged ledger becomes p's memory.
PublishPrimary(p) ==
    /\ pc[p] = "published"
    /\ primary' = backup
    /\ mem' = [mem EXCEPT ![p] = [rows |-> backup.rows, cleared |-> backup.cleared]]
    /\ base' = [base EXCEPT ![p] = backup.rows]
    /\ repl' = [repl EXCEPT ![p] = {}]
    /\ pc' = [pc EXCEPT ![p] = "idle"]
    /\ announced' = EventAfterSave(want[p], backup.rows)
    /\ Forget(p)
    /\ UNCHANGED <<backup, opLock, sending, attempts>>

\* Any I/O error, before or after the backup was published, and the refusal
\* to save beyond the last generation.
SaveFails(p) ==
    /\ pc[p] \in {"saving", "published"}
    /\ DiskErrors \/ (pc[p] = "saving" /\ FileLockFree /\ GenerationExhausted)
    /\ mem' = [mem EXCEPT ![p] = undo[p].mem]
    /\ repl' = [repl EXCEPT ![p] = undo[p].repl]
    /\ pc' = [pc EXCEPT ![p] = "idle"]
    /\ announced' = NoEvent
    /\ Forget(p)
    /\ DropOperationLock(p)
    /\ UNCHANGED <<primary, backup, base, attempts>>

\* The process dies: its memory is gone and the kernel drops its locks.
Crash(p) ==
    /\ pc[p] # "down"
    /\ pc' = [pc EXCEPT ![p] = "down"]
    /\ mem' = [mem EXCEPT ![p] = EmptyMemory]
    /\ base' = [base EXCEPT ![p] = EmptyMemory.rows]
    /\ repl' = [repl EXCEPT ![p] = {}]
    /\ Forget(p)
    /\ DropOperationLock(p)
    /\ announced' = NoEvent
    /\ UNCHANGED <<primary, backup, attempts>>

--------------------------------------------------------------------------------

Operation(p) ==
    \/ Save(p)
    \/ \E beads \in SUBSET Bead : Remove(p, beads)
    \/ \E b \in Bead :
        \/ Assign(p, b)
        \/ Update(p, b)
        \/ Reassign(p, b)
        \/ CompleteClear(p, b)
        \/ RecordAtomicIntent(p, b)
        \/ RecordAtomicClaim(p, b)
        \/ RecordAtomicDispatchStarted(p, b)
        \/ RecordAtomicDispatchSent(p, b)
        \/ \E s \in Status : UpdateStatus(p, b, s) \/ TransitionIfCurrent(p, b, s)

Next ==
    \E p \in Store :
        \/ Load(p)
        \/ \E b \in Bead : LockBead(p, b) \/ UnlockBead(p, b)
        \/ Operation(p)
        \/ SaveConflict(p)
        \/ PublishBackup(p)
        \/ PublishPrimary(p)
        \/ SaveFails(p)
        \/ Crash(p)

Spec == Init /\ [][Next]_vars

--------------------------------------------------------------------------------
(***************************************************************************)
(* The inductive invariant.                                                *)
(***************************************************************************)

\* The backup is the primary or its immediate successor, and before there is a
\* primary it is the first version.  A save between its two files wrote one.
FilesInv ==
    /\ primary = NoFile => backup = NoFile \/ backup.gen = 1
    /\ primary # NoFile => /\ backup # NoFile
                           /\ backup = primary \/ backup.gen = primary.gen + 1
    /\ \A p \in Store : pc[p] = "published" => backup # NoFile

\* rows was made from baseline: it has no row of an earlier attempt.
Follows(rows, baseline) ==
    \A b \in Bead : rows[b] # NoRow /\ baseline[b] # NoRow
                        => rows[b].attempt >= baseline[b].attempt

Created(rows) ==
    \A b \in Bead : rows[b] # NoRow => rows[b].attempt <= attempts

AttemptsInv ==
    /\ primary # NoFile => Created(primary.rows)
    /\ backup # NoFile => Created(backup.rows)
    /\ \A p \in Store :
        /\ Created(base[p])
        /\ Created(mem[p].rows) /\ Follows(mem[p].rows, base[p])
        /\ Created(undo[p].mem.rows) /\ Follows(undo[p].mem.rows, base[p])
        /\ pc[p] \in {"down", "idle"} => undo[p] = NoUndo

LedgerInv == TypeOK /\ FilesInv /\ AttemptsInv

--------------------------------------------------------------------------------
(***************************************************************************)
(* Properties.                                                             *)
(***************************************************************************)

\* Whatever step a process died in, the two files are never a pair that
\* selectAssignmentSnapshot refuses: LoadStrict, which fails closed, would
\* otherwise lock every later operation out of the session's ledger.
StrictLoadNeverFails == ~StrictError

\* Publishing the backup before the primary makes a save atomic for readers:
\* the files, read as LoadStrict reads them, implement DurableLedger.
Durably == INSTANCE DurableLedger
               WITH generation <- Durable.gen, rows <- Durable.rows, cleared <- Durable.cleared

SavesAreAtomic == Durably!Spec

\* Two rows of the same attempt.
SameAttempt(r, s) == r # NoRow /\ s # NoRow /\ r.attempt = s.attempt

Publishes(p) == pc[p] = "saving" /\ pc'[p] = "published"

\* A process that has not seen the terminal status another process gave a row
\* cannot take it back, and can neither remove nor replace the row
\* (shouldApplyAssignmentStatusDelta, ConcurrentMutationError).
StaleWriterKeepsTerminal ==
    [][\A p \in Store, b \in Bead :
         LET old == Durable.rows[b]
         IN  Publishes(p) /\ old # NoRow
                 => (/\ old.status \in TerminalStatus
                     /\ base[p][b] # NoRow => base[p][b].status # old.status
                     => /\ SameAttempt(old, Durable'.rows[b])
                        /\ Durable'.rows[b].status = old.status)]_vars

\* mergeAssignmentDelta: "This prevents a stale lifecycle writer from erasing a
\* newer dispatch barrier or receipt for the same bead."
StaleWriterKeepsBarrier ==
    [][\A p \in Store, b \in Bead :
         LET old == Durable.rows[b]
         IN  Publishes(p) /\ old # NoRow
                 => (/\ old.dispatch \in {"sending", "sent"}
                     /\ base[p][b] # NoRow => base[p][b].dispatch # old.dispatch
                     => /\ SameAttempt(old, Durable'.rows[b])
                        /\ Durable'.rows[b].dispatch = old.dispatch)]_vars

\* A status that an event announces is the one on disk when the save returns,
\* for the callers that go through confirmPersistedStatusLocked.
ConfirmedEventIsDurable ==
    announced # NoEvent /\ announced.confirmed
        => /\ Durable.rows[announced.bead] # NoRow
           /\ Durable.rows[announced.bead].status = announced.status

================================================================================
