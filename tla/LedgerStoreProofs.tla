--------------------------- MODULE LedgerStoreProofs ---------------------------
(***************************************************************************)
(* Proofs about LedgerStore: LedgerInv is an invariant, so the files are   *)
(* never a pair that a strict reader refuses, and the saves implement      *)
(* DurableLedger, for any number of processes, beads, attempts and         *)
(* generations, with I/O errors and crashes at any step; and, without I/O  *)
(* errors, MergeInv is an invariant, so a stale writer takes back neither  *)
(* a terminal status nor a dispatch barrier.                               *)
(***************************************************************************)
EXTENDS LedgerStore, TLAPS

USE BoundsAssumption, MaxGenerationAssumption

(***************************************************************************)
(* Data.                                                                   *)
(***************************************************************************)

\* The version a strict reader sees is a well-formed one.
LEMMA DurableType ==
    ASSUME TypeOK
    PROVE  Durable \in Snapshot
  BY DEF TypeOK, Durable, Snapshot, EmptySnapshot, Ledger, PromoteBackup

\* Without a conflict, what a writer merges is a ledger of rows that are no
\* older than the durable ones.
LEMMA MergeKeepsAttempts ==
    ASSUME NEW latest \in Ledger, NEW baseline \in Ledger, NEW current \in Ledger,
           NEW replaced \in SUBSET Bead,
           \A b \in Bead : ~Conflict(latest, baseline, current, replaced, b),
           Follows(current, baseline), Created(latest), Created(current)
    PROVE  LET merged == Merge(latest, baseline, current, replaced)
           IN  merged \in Ledger /\ Follows(merged, latest) /\ Created(merged)
<1> DEFINE merged == Merge(latest, baseline, current, replaced)
<1>1. ASSUME NEW b \in Bead
      PROVE  /\ merged[b] \in Row \cup {NoRow}
             /\ merged[b] # NoRow /\ latest[b] # NoRow => merged[b].attempt >= latest[b].attempt
             /\ merged[b] # NoRow =>
                    \/ latest[b] # NoRow /\ merged[b].attempt = latest[b].attempt
                    \/ current[b] # NoRow /\ merged[b].attempt = current[b].attempt
  <2> /\ latest[b] \in Row \cup {NoRow}
      /\ baseline[b] \in Row \cup {NoRow}
      /\ current[b] \in Row \cup {NoRow}
    BY DEF Ledger
  <2>1. CASE current[b] = baseline[b]
    BY <2>1 DEF Merge, Row
  <2>2. CASE current[b] # baseline[b] /\ current[b] = NoRow
    BY <2>2 DEF Merge, Row
  <2>3. CASE current[b] # baseline[b] /\ current[b] # NoRow /\ baseline[b] = NoRow
    BY <2>3 DEF Merge, Row, Conflict
  <2>4. CASE current[b] # baseline[b] /\ current[b] # NoRow /\ baseline[b] # NoRow /\ b \in replaced
    BY <2>4 DEF Merge, Row, Conflict, Follows
  <2>5. CASE current[b] # baseline[b] /\ current[b] # NoRow /\ baseline[b] # NoRow /\ b \notin replaced
    <3>1. latest[b] \in Row /\ latest[b].attempt = baseline[b].attempt
      BY <2>5 DEF Conflict
    <3>2. merged[b] = MergeRow(latest[b], baseline[b], current[b])
      BY <2>5 DEF Merge
    <3>3. current[b].attempt >= baseline[b].attempt
      BY <2>5 DEF Follows
    <3> QED BY <2>5, <3>1, <3>2, <3>3 DEF MergeRow, Row
  <2> QED BY <2>1, <2>2, <2>3, <2>4, <2>5
<1>2. merged \in Ledger
  BY <1>1 DEF Ledger, Merge
<1>3. Follows(merged, latest)
  BY <1>1 DEF Follows
<1>4. Created(merged)
  BY <1>1 DEF Created
<1> QED BY <1>2, <1>3, <1>4

(***************************************************************************)
(* Steps that several actions share.                                       *)
(***************************************************************************)

\* Completing an interrupted save, the process's own or another's, does not
\* change what a strict reader sees.
LEMMA RecoveryKeepsDurable ==
    ASSUME LedgerInv, UNCHANGED backup,
           \/ primary' = primary
           \/ primary' = RecoveredPrimary
           \/ primary' = backup /\ backup # NoFile
    PROVE  /\ primary' \in Snapshot \cup {NoFile}
           /\ primary' = NoFile => backup = NoFile \/ backup.gen = 1
           /\ primary' # NoFile => /\ backup # NoFile
                                   /\ backup = primary' \/ backup.gen = primary'.gen + 1
                                   /\ Created(primary'.rows)
           /\ Durable' = Durable
<1> /\ primary \in Snapshot \cup {NoFile}
    /\ backup \in Snapshot \cup {NoFile}
    /\ FilesInv
    /\ AttemptsInv
  BY DEF LedgerInv, TypeOK
<1>1. CASE primary' = primary
  BY <1>1 DEF Durable, PromoteBackup, AttemptsInv, FilesInv
<1>2. CASE primary' = backup /\ backup # NoFile
  <2>1. ~(PromoteBackup')
    BY <1>2 DEF PromoteBackup, Snapshot
  <2>2. Durable = backup
    BY <1>2 DEF Durable, PromoteBackup, FilesInv, Snapshot
  <2> QED BY <1>2, <2>1, <2>2 DEF Durable, AttemptsInv, FilesInv
<1>3. CASE primary' = RecoveredPrimary
  BY <1>1, <1>2, <1>3 DEF RecoveredPrimary, PromoteBackup
<1> QED BY <1>1, <1>2, <1>3

\* A load, of an idle process or with an operation lock just taken.
LEMMA ReadPreserves ==
    ASSUME LedgerInv, NEW p \in Store, ReadLedger(p), pc[p] \in {"down", "idle"},
           pc' = [pc EXCEPT ![p] = "idle"],
           opLock' \in [Bead -> Store \cup {NoStore}], announced' = NoEvent,
           UNCHANGED <<undo, want, sending, attempts>>
    PROVE  LedgerInv' /\ Durable' = Durable
<1> /\ primary' = RecoveredPrimary /\ UNCHANGED backup
    /\ TypeOK /\ AttemptsInv /\ FilesInv
  BY DEF ReadLedger, LedgerInv
<1>1. /\ primary' \in Snapshot \cup {NoFile}
      /\ primary' = NoFile => backup = NoFile \/ backup.gen = 1
      /\ primary' # NoFile => /\ backup # NoFile
                              /\ backup = primary' \/ backup.gen = primary'.gen + 1
                              /\ Created(primary'.rows)
      /\ Durable' = Durable
  BY RecoveryKeepsDurable
<1>2. /\ mem' \in [Store -> Memory]
      /\ base' \in [Store -> Ledger]
      /\ repl' \in [Store -> SUBSET Bead]
  <2>1. CASE primary' = NoFile
    BY <2>1 DEF ReadLedger, TypeOK
  <2>2. CASE primary' # NoFile
    <3>1. primary'.rows \in Ledger /\ primary'.cleared \in [Bead -> Nat]
      BY <1>1, <2>2 DEF Snapshot
    <3> DEFINE read == [rows |-> primary'.rows, cleared |-> primary'.cleared]
    <3>2. read \in Memory
      BY <3>1 DEF Memory
    <3>3. /\ mem' = [mem EXCEPT ![p] = read]
          /\ base' = [base EXCEPT ![p] = primary'.rows]
          /\ repl' = [repl EXCEPT ![p] = {}]
      BY <2>2 DEF ReadLedger
    <3> HIDE DEF read
    <3>4. mem' \in [Store -> Memory]
      BY <3>2, <3>3 DEF TypeOK
    <3>5. base' \in [Store -> Ledger]
      BY <3>1, <3>3 DEF TypeOK
    <3>6. repl' \in [Store -> SUBSET Bead]
      BY <3>3 DEF TypeOK
    <3> QED BY <3>4, <3>5, <3>6
  <2> QED BY <2>1, <2>2
<1>3. TypeOK'
  BY <1>1, <1>2 DEF TypeOK
<1>4. FilesInv'
  BY <1>1 DEF FilesInv, TypeOK
<1>5. AttemptsInv'
  <2>1. ASSUME NEW q \in Store, q # p
        PROVE  mem'[q] = mem[q] /\ base'[q] = base[q] /\ pc'[q] = pc[q]
    BY <2>1 DEF ReadLedger, TypeOK
  <2>2. Created(base'[p]) /\ Created(mem'[p].rows) /\ Follows(mem'[p].rows, base'[p])
    BY <1>1 DEF ReadLedger, TypeOK, AttemptsInv, Created, Follows, Snapshot, Ledger, Row
  <2>3. undo[p] = NoUndo
    BY DEF AttemptsInv
  <2>4. Created(NoUndo.mem.rows) /\ Follows(NoUndo.mem.rows, base'[p])
    BY DEF NoUndo, EmptyMemory, EmptySnapshot, Created, Follows
  <2> QED
    BY <1>1, <2>1, <2>2, <2>3, <2>4 DEF AttemptsInv, Created
<1> QED BY <1>1, <1>3, <1>4, <1>5 DEF LedgerInv

\* An operation that leaves p's memory with rows no older than its baseline.
LEMMA BeginSavePreserves ==
    ASSUME LedgerInv, NEW p \in Store, pc[p] = "idle",
           NEW newMem \in Memory, NEW newRepl \in SUBSET Bead, NEW restored \in BOOLEAN,
           NEW event \in Event \cup {NoEvent},
           BeginSave(p, newMem, newRepl, restored, event),
           sending' \in [Bead -> BOOLEAN], attempts' \in attempts..MaxAttempt,
           \A b \in Bead : newMem.rows[b] # NoRow =>
               /\ newMem.rows[b].attempt <= attempts'
               /\ base[p][b] # NoRow => newMem.rows[b].attempt >= base[p][b].attempt
    PROVE  LedgerInv' /\ Durable' = Durable
<1> TypeOK /\ AttemptsInv /\ FilesInv
  BY DEF LedgerInv
<1>1. TypeOK'
  BY DEF BeginSave, TypeOK
<1>2. FilesInv'
  BY DEF BeginSave, TypeOK, FilesInv
<1>3. AttemptsInv'
  <2>1. ASSUME NEW rows \in Ledger, Created(rows)
        PROVE  Created(rows)'
    BY <2>1 DEF Created, Ledger, Row, TypeOK
  <2>2. Created(newMem.rows)' /\ Follows(newMem.rows, base[p])
    BY DEF Created, Follows
  <2>3. ASSUME NEW q \in Store, q # p
        PROVE  UNCHANGED <<mem[q], base[q], undo[q], pc[q]>>
    BY <2>3 DEF BeginSave, TypeOK
  <2>4. mem'[p] = newMem /\ base' = base /\ undo'[p].mem \in {mem[p], newMem} /\ pc'[p] = "saving"
    BY DEF BeginSave, TypeOK
  <2>5. /\ primary' # NoFile => primary'.rows \in Ledger /\ Created(primary.rows)
        /\ backup' # NoFile => backup'.rows \in Ledger /\ Created(backup.rows)
        /\ UNCHANGED <<primary, backup>>
    BY DEF BeginSave, TypeOK, Snapshot, AttemptsInv
  <2>6. \A q \in Store : base[q] \in Ledger /\ mem[q].rows \in Ledger /\ undo[q].mem.rows \in Ledger
    BY DEF TypeOK, Memory
  <2> QED
    BY <2>1, <2>2, <2>3, <2>4, <2>5, <2>6 DEF AttemptsInv
<1> QED BY <1>1, <1>2, <1>3 DEF LedgerInv, BeginSave, Durable, PromoteBackup

(***************************************************************************)
(* Operations.                                                             *)
(***************************************************************************)

\* An operation that writes one row, of the row's attempt or of a new one.
LEMMA RowSavePreserves ==
    ASSUME LedgerInv, NEW p \in Store, NEW b \in Bead, pc[p] = "idle",
           NEW row \in Row, NEW newRepl \in SUBSET Bead, NEW restored \in BOOLEAN,
           NEW event \in Event \cup {NoEvent},
           BeginSave(p, WithRow(p, b, row), newRepl, restored, event),
           sending' \in [Bead -> BOOLEAN],
           \/ /\ mem[p].rows[b] # NoRow
              /\ row.attempt = mem[p].rows[b].attempt
              /\ attempts' = attempts
           \/ /\ NextAttempt
              /\ row.attempt = attempts'
    PROVE  LedgerInv' /\ Durable' = Durable
<1> TypeOK /\ AttemptsInv
  BY DEF LedgerInv
<1>1. mem[p] \in Memory /\ mem[p].rows \in Ledger /\ base[p] \in Ledger /\ attempts \in 0..MaxAttempt
  BY DEF TypeOK, Memory
<1>2. WithRow(p, b, row) = [rows    |-> [mem[p].rows EXCEPT ![b] = row],
                            cleared |-> mem[p].cleared]
  BY <1>1 DEF WithRow, Memory
<1>3. [mem[p].rows EXCEPT ![b] = row] \in Ledger
  BY <1>1 DEF Ledger
<1>4. WithRow(p, b, row) \in Memory
  BY <1>1, <1>2, <1>3 DEF Memory
<1>5. attempts' \in attempts..MaxAttempt
  BY <1>1 DEF NextAttempt
<1>6. ASSUME NEW c \in Bead, WithRow(p, b, row).rows[c] # NoRow
      PROVE  /\ WithRow(p, b, row).rows[c].attempt <= attempts'
             /\ base[p][c] # NoRow => WithRow(p, b, row).rows[c].attempt >= base[p][c].attempt
  <2>1. /\ Created(mem[p].rows) /\ Created(base[p])
        /\ Follows(mem[p].rows, base[p])
    BY DEF AttemptsInv
  <2>2. mem[p].rows[c] \in Row \cup {NoRow} /\ base[p][c] \in Row \cup {NoRow}
    BY <1>1 DEF Ledger
  <2>3. WithRow(p, b, row).rows[c] = IF c = b THEN row ELSE mem[p].rows[c]
    BY <1>1, <1>2 DEF Ledger
  <2>4. base[p][c] # NoRow => base[p][c].attempt \in Nat /\ base[p][c].attempt <= attempts
    BY <2>1, <2>2 DEF Created, Row
  <2>5. mem[p].rows[c] # NoRow => /\ mem[p].rows[c].attempt \in Nat
                                  /\ mem[p].rows[c].attempt <= attempts
                                  /\ base[p][c] # NoRow => mem[p].rows[c].attempt >= base[p][c].attempt
    BY <2>1, <2>2 DEF Created, Follows, Row
  <2>6. CASE c # b
    BY <1>1, <1>5, <1>6, <2>3, <2>5, <2>6
  <2>7. CASE c = b /\ mem[p].rows[b] # NoRow /\ row.attempt = mem[p].rows[b].attempt /\ attempts' = attempts
    BY <2>3, <2>5, <2>7
  <2>8. CASE c = b /\ NextAttempt /\ row.attempt = attempts'
    BY <1>1, <2>3, <2>4, <2>8 DEF NextAttempt
  <2> QED BY <2>6, <2>7, <2>8
<1> QED BY <1>4, <1>5, <1>6, BeginSavePreserves

\* Each operation preserves the invariant, and nothing on disk changes before
\* its save does.
LEMMA OperationPreserves ==
    ASSUME LedgerInv, NEW p \in Store, Operation(p)
    PROVE  LedgerInv' /\ Durable' = Durable
<1> TypeOK /\ AttemptsInv
  BY DEF LedgerInv
<1>a. /\ mem[p] \in Memory /\ mem[p].rows \in Ledger /\ mem[p].cleared \in [Bead -> Nat]
      /\ base[p] \in Ledger /\ repl[p] \in SUBSET Bead /\ attempts \in 0..MaxAttempt
      /\ sending \in [Bead -> BOOLEAN]
  BY DEF TypeOK, Memory
<1>b. \A b \in Bead : mem[p].rows[b] \in Row \cup {NoRow}
  BY <1>a DEF Ledger
<1>c. NextAttempt => attempts' \in 0..MaxAttempt
  BY <1>a DEF NextAttempt
<1>d. /\ NoEvent \in Event \cup {NoEvent}
      /\ \A b \in Bead, s \in Status : /\ Confirmed(b, s) \in Event \cup {NoEvent}
                                       /\ [bead |-> b, status |-> s, confirmed |-> FALSE] \in Event \cup {NoEvent}
  BY DEF Confirmed, Event
<1>e. Unguarded(p) => pc[p] = "idle"
  BY DEF Unguarded
<1>f. \A b \in Bead : Guarded(p, b) => pc[p] = "idle"
  BY DEF Guarded
<1>g. \A b \in Bead : mem[p].rows[b] # NoRow =>
          /\ mem[p].rows[b].attempt <= attempts
          /\ base[p][b] # NoRow => mem[p].rows[b].attempt >= base[p][b].attempt
  BY DEF AttemptsInv, Created, Follows
<1>h. ASSUME NEW newMem \in Memory,
             BeginSave(p, newMem, repl[p], FALSE, NoEvent),
             pc[p] = "idle", sending' = sending, attempts' = attempts,
             \A b \in Bead : newMem.rows[b] # NoRow => newMem.rows[b] = mem[p].rows[b]
      PROVE  LedgerInv' /\ Durable' = Durable
  <2>1. attempts' \in attempts..MaxAttempt /\ FALSE \in BOOLEAN
    BY <1>h, <1>a
  <2>2. \A b \in Bead : newMem.rows[b] # NoRow =>
            /\ newMem.rows[b].attempt <= attempts'
            /\ base[p][b] # NoRow => newMem.rows[b].attempt >= base[p][b].attempt
    BY <1>h, <1>g
  <2> QED BY <1>h, <1>a, <1>d, <2>1, <2>2, BeginSavePreserves
<1>1. CASE Save(p)
  <2>1. /\ BeginSave(p, mem[p], repl[p], FALSE, NoEvent)
        /\ pc[p] = "idle" /\ sending' = sending /\ attempts' = attempts
    BY <1>1, <1>e DEF Save
  <2> QED BY <1>a, <1>h, <2>1
<1>2. ASSUME NEW beads \in SUBSET Bead, Remove(p, beads)
      PROVE  LedgerInv' /\ Durable' = Durable
  <2> DEFINE newMem == [mem[p] EXCEPT !.rows = [b \in Bead |-> IF b \in beads THEN NoRow ELSE @[b]]]
  <2>1. newMem = [rows    |-> [b \in Bead |-> IF b \in beads THEN NoRow ELSE mem[p].rows[b]],
                  cleared |-> mem[p].cleared]
    BY <1>a DEF Memory
  <2>2. newMem \in Memory
    BY <1>a, <1>b, <2>1 DEF Memory, Ledger
  <2>3. \A b \in Bead : newMem.rows[b] # NoRow => newMem.rows[b] = mem[p].rows[b]
    BY <2>1
  <2>4. /\ BeginSave(p, newMem, repl[p], FALSE, NoEvent)
        /\ pc[p] = "idle" /\ sending' = sending /\ attempts' = attempts
    BY <1>2, <1>e DEF Remove
  <2> HIDE DEF newMem
  <2> QED BY <1>h, <2>2, <2>3, <2>4
<1>3. ASSUME NEW b \in Bead, CompleteClear(p, b)
      PROVE  LedgerInv' /\ Durable' = Durable
  <2> DEFINE newMem == [rows    |-> [mem[p].rows EXCEPT ![b] = NoRow],
                        cleared |-> [mem[p].cleared EXCEPT ![b] = @ + 1]]
  <2>1. newMem \in Memory
    BY <1>a DEF Memory, Ledger
  <2>2. \A c \in Bead : newMem.rows[c] # NoRow => newMem.rows[c] = mem[p].rows[c]
    BY <1>a DEF Ledger
  <2>3. /\ BeginSave(p, newMem, repl[p], FALSE, NoEvent)
        /\ pc[p] = "idle" /\ sending' = sending /\ attempts' = attempts
    BY <1>3, <1>f DEF CompleteClear
  <2> HIDE DEF newMem
  <2> QED BY <1>h, <2>1, <2>2, <2>3
<1>4. ASSUME NEW b \in Bead, Assign(p, b)
      PROVE  LedgerInv' /\ Durable' = Durable
  <2> DEFINE row == [attempt |-> attempts', status |-> "assigned",
                     dispatch |-> "none", retries |-> 0]
  <2>1. row \in Row
    BY <1>4, <1>c DEF Assign, Row, Status, Dispatch
  <2>2. row.attempt = attempts'
    OBVIOUS
  <2> HIDE DEF row
  <2>3. PICK newRepl \in SUBSET Bead : BeginSave(p, WithRow(p, b, row), newRepl, FALSE, Confirmed(b, "assigned"))
    BY <1>4, <1>a DEF Assign, row
  <2>4. pc[p] = "idle" /\ NextAttempt /\ sending' = sending
    BY <1>4, <1>e DEF Assign
  <2>5. Confirmed(b, "assigned") \in Event \cup {NoEvent}
    BY <1>d DEF Status
  <2> QED BY <1>a, <2>5, <2>1, <2>2, <2>3, <2>4, RowSavePreserves
<1>5. ASSUME NEW b \in Bead, Update(p, b)
      PROVE  LedgerInv' /\ Durable' = Durable
  <2> DEFINE row == [mem[p].rows[b] EXCEPT !.retries = @ + 1]
  <2>1. row \in Row /\ row.attempt = mem[p].rows[b].attempt
    BY <1>5, <1>b DEF Update, Row
  <2>2. /\ BeginSave(p, WithRow(p, b, row), repl[p], FALSE, NoEvent)
        /\ pc[p] = "idle" /\ mem[p].rows[b] # NoRow
        /\ sending' = sending /\ attempts' = attempts
    BY <1>5, <1>e DEF Update
  <2> HIDE DEF row
  <2> QED BY <1>a, <1>d, <2>1, <2>2, RowSavePreserves
<1>6. ASSUME NEW b \in Bead, Reassign(p, b)
      PROVE  LedgerInv' /\ Durable' = Durable
  <2> DEFINE row == [attempt |-> attempts', status |-> "assigned",
                     dispatch |-> "none", retries |-> mem[p].rows[b].retries]
  <2>1. pc[p] = "idle" /\ NextAttempt /\ sending' = sending /\ mem[p].rows[b] # NoRow
    BY <1>6, <1>e DEF Reassign
  <2>2. row \in Row
    BY <1>b, <1>c, <2>1 DEF Row, Status, Dispatch
  <2>3. row.attempt = attempts'
    OBVIOUS
  <2>4. BeginSave(p, WithRow(p, b, row), repl[p] \cup {b}, FALSE, NoEvent)
    BY <1>6 DEF Reassign
  <2>5. repl[p] \cup {b} \in SUBSET Bead
    BY <1>a
  <2> HIDE DEF row
  <2> QED BY <1>a, <1>d, <2>1, <2>2, <2>3, <2>4, <2>5, RowSavePreserves
<1>7. ASSUME NEW b \in Bead, RecordAtomicIntent(p, b)
      PROVE  LedgerInv' /\ Durable' = Durable
  <2> DEFINE row == [attempt |-> attempts', status |-> "claiming",
                     dispatch |-> "pending", retries |-> 0]
  <2>1. row \in Row
    BY <1>7, <1>c DEF RecordAtomicIntent, Row, Status, Dispatch
  <2>2. row.attempt = attempts'
    OBVIOUS
  <2> HIDE DEF row
  <2>3. PICK newRepl \in SUBSET Bead : BeginSave(p, WithRow(p, b, row), newRepl, TRUE, NoEvent)
    BY <1>7, <1>a DEF RecordAtomicIntent, row
  <2>4. pc[p] = "idle" /\ NextAttempt /\ sending' = sending
    BY <1>7, <1>f DEF RecordAtomicIntent
  <2> QED BY <1>a, <1>d, <2>1, <2>2, <2>3, <2>4, RowSavePreserves
<1>8. ASSUME NEW b \in Bead, RecordAtomicClaim(p, b)
      PROVE  LedgerInv' /\ Durable' = Durable
  BY <1>8, <1>a, <1>b, <1>d, <1>f, RowSavePreserves DEF RecordAtomicClaim, Row, Status
<1>9. ASSUME NEW b \in Bead, RecordAtomicDispatchStarted(p, b)
      PROVE  LedgerInv' /\ Durable' = Durable
  BY <1>9, <1>a, <1>b, <1>d, <1>f, RowSavePreserves DEF RecordAtomicDispatchStarted, Row, Dispatch
<1>10. ASSUME NEW b \in Bead, RecordAtomicDispatchSent(p, b)
       PROVE  LedgerInv' /\ Durable' = Durable
  BY <1>10, <1>a, <1>b, <1>d, <1>f, RowSavePreserves DEF RecordAtomicDispatchSent, Row, Dispatch, Status
<1>11. ASSUME NEW b \in Bead, NEW s \in Status, UpdateStatus(p, b, s)
       PROVE  LedgerInv' /\ Durable' = Durable
  BY <1>11, <1>a, <1>b, <1>d, <1>e, RowSavePreserves DEF UpdateStatus, Row
<1>12. ASSUME NEW b \in Bead, NEW s \in Status, TransitionIfCurrent(p, b, s)
       PROVE  LedgerInv' /\ Durable' = Durable
  BY <1>12, <1>a, <1>b, <1>d, <1>f, RowSavePreserves DEF TransitionIfCurrent, Row
<1> QED
  BY <1>1, <1>2, <1>3, <1>4, <1>5, <1>6, <1>7, <1>8, <1>9, <1>10, <1>11, <1>12 DEF Operation

(***************************************************************************)
(* Saves.                                                                  *)
(***************************************************************************)

\* The end of an operation, whether it saved, failed, lost to another writer
\* or died: p is left with a memory made from its new baseline.
LEMMA SettlePreserves ==
    ASSUME LedgerInv, NEW p \in Store,
           NEW newMem \in Memory, NEW newBase \in Ledger, NEW newRepl \in SUBSET Bead,
           NEW newPc \in {"down", "idle"},
           Created(newMem.rows), Created(newBase), Follows(newMem.rows, newBase),
           mem' = [mem EXCEPT ![p] = newMem],
           base' = [base EXCEPT ![p] = newBase],
           repl' = [repl EXCEPT ![p] = newRepl],
           pc' = [pc EXCEPT ![p] = newPc],
           Forget(p),
           opLock' \in [Bead -> Store \cup {NoStore}], sending' \in [Bead -> BOOLEAN],
           announced' \in Event \cup {NoEvent},
           UNCHANGED <<backup, attempts>>,
           \/ primary' = primary
           \/ primary' = RecoveredPrimary
           \/ primary' = backup /\ backup # NoFile
    PROVE  LedgerInv' /\ Durable' = Durable
<1> TypeOK /\ AttemptsInv /\ FilesInv
  BY DEF LedgerInv
<1>1. /\ primary' \in Snapshot \cup {NoFile}
      /\ primary' = NoFile => backup = NoFile \/ backup.gen = 1
      /\ primary' # NoFile => /\ backup # NoFile
                              /\ backup = primary' \/ backup.gen = primary'.gen + 1
                              /\ Created(primary'.rows)
      /\ Durable' = Durable
  BY RecoveryKeepsDurable
<1>2. NoUndo \in [mem : Memory, repl : SUBSET Bead]
  BY DEF NoUndo, EmptyMemory, EmptySnapshot, Memory, Ledger
<1>3. TypeOK'
  BY <1>1, <1>2 DEF TypeOK, Forget
<1>4. FilesInv'
  BY <1>1 DEF FilesInv, TypeOK
<1>5. AttemptsInv'
  <2>1. ASSUME NEW q \in Store, q # p
        PROVE  mem'[q] = mem[q] /\ base'[q] = base[q] /\ pc'[q] = pc[q] /\ undo'[q] = undo[q]
    BY <2>1 DEF TypeOK, Forget
  <2>2. mem'[p] = newMem /\ base'[p] = newBase /\ undo'[p] = NoUndo
    BY DEF TypeOK, Forget
  <2>3. Created(NoUndo.mem.rows) /\ Follows(NoUndo.mem.rows, newBase)
    BY DEF NoUndo, EmptyMemory, EmptySnapshot, Created, Follows
  <2> QED
    BY <1>1, <2>1, <2>2, <2>3 DEF AttemptsInv, Created
<1> QED BY <1>1, <1>3, <1>4, <1>5 DEF LedgerInv

\* A row is no older than itself.
LEMMA FollowsItself ==
    ASSUME NEW rows \in Ledger
    PROVE  Follows(rows, rows)
  BY DEF Follows, Ledger, Row

\* What a caller's deferred unlock leaves.
LEMMA DropType ==
    ASSUME TypeOK, NEW p \in Store, DropOperationLock(p)
    PROVE  opLock' \in [Bead -> Store \cup {NoStore}] /\ sending' \in [Bead -> BOOLEAN]
  BY DEF TypeOK, DropOperationLock

\* The durable rows are rows of attempts that were created.
LEMMA DurableCreated ==
    ASSUME LedgerInv
    PROVE  Durable.rows \in Ledger /\ Created(Durable.rows) /\ Durable.cleared \in [Bead -> Nat]
  BY DurableType DEF LedgerInv, AttemptsInv, Durable, PromoteBackup, EmptySnapshot, Created, Snapshot

\* A save that loses to another writer adopts the durable version.
LEMMA SaveConflictPreserves ==
    ASSUME LedgerInv, NEW p \in Store, SaveConflict(p)
    PROVE  LedgerInv' /\ Durable' = Durable
<1> DEFINE newMem == [rows |-> Durable.rows, cleared |-> Durable.cleared]
<1>1. newMem \in Memory /\ newMem.rows = Durable.rows
  BY DurableCreated DEF Memory
<1>2. Created(newMem.rows) /\ Follows(newMem.rows, Durable.rows) /\ Durable.rows \in Ledger
  BY DurableCreated, FollowsItself
<1>3. opLock' \in [Bead -> Store \cup {NoStore}] /\ sending' \in [Bead -> BOOLEAN]
  BY DropType DEF SaveConflict, LedgerInv
<1>4. /\ mem' = [mem EXCEPT ![p] = newMem]
      /\ base' = [base EXCEPT ![p] = Durable.rows]
      /\ repl' = [repl EXCEPT ![p] = {}]
      /\ pc' = [pc EXCEPT ![p] = "idle"]
      /\ announced' \in Event \cup {NoEvent}
      /\ Forget(p) /\ primary' = RecoveredPrimary
      /\ UNCHANGED <<backup, attempts>>
  BY DEF SaveConflict
<1> HIDE DEF newMem
<1> QED BY <1>1, <1>2, <1>3, <1>4, SettlePreserves

\* A save that ends well adopts the version it published.
LEMMA PublishPrimaryPreserves ==
    ASSUME LedgerInv, NEW p \in Store, PublishPrimary(p)
    PROVE  LedgerInv' /\ Durable' = Durable
<1> TypeOK /\ FilesInv /\ AttemptsInv
  BY DEF LedgerInv
<1> DEFINE newMem == [rows |-> backup.rows, cleared |-> backup.cleared]
<1>1. backup # NoFile /\ backup \in Snapshot /\ backup.rows \in Ledger
  BY DEF PublishPrimary, FilesInv, TypeOK, Snapshot
<1>2. newMem \in Memory /\ Created(newMem.rows) /\ Follows(newMem.rows, backup.rows)
  BY <1>1, FollowsItself DEF Memory, AttemptsInv, Snapshot
<1>3. Created(backup.rows)
  BY <1>1 DEF AttemptsInv
<1>4. announced' \in Event \cup {NoEvent}
  BY DEF PublishPrimary, EventAfterSave, TypeOK
<1>5. /\ mem' = [mem EXCEPT ![p] = newMem]
      /\ base' = [base EXCEPT ![p] = backup.rows]
      /\ repl' = [repl EXCEPT ![p] = {}]
      /\ pc' = [pc EXCEPT ![p] = "idle"]
      /\ Forget(p) /\ primary' = backup
      /\ opLock' \in [Bead -> Store \cup {NoStore}] /\ sending' \in [Bead -> BOOLEAN]
      /\ UNCHANGED <<backup, attempts>>
  BY DEF PublishPrimary, TypeOK
<1> HIDE DEF newMem
<1> QED BY <1>1, <1>2, <1>3, <1>4, <1>5, SettlePreserves

\* A save that fails leaves the memory of before the operation, or the edited one;
\* both are made from the baseline.
LEMMA SaveFailsPreserves ==
    ASSUME LedgerInv, NEW p \in Store, SaveFails(p)
    PROVE  LedgerInv' /\ Durable' = Durable
<1> TypeOK /\ AttemptsInv
  BY DEF LedgerInv
<1>1. /\ undo[p].mem \in Memory /\ undo[p].repl \in SUBSET Bead
      /\ base[p] \in Ledger /\ base = [base EXCEPT ![p] = base[p]]
  BY DEF TypeOK
<1>2. Created(undo[p].mem.rows) /\ Created(base[p]) /\ Follows(undo[p].mem.rows, base[p])
  BY DEF AttemptsInv
<1>3. opLock' \in [Bead -> Store \cup {NoStore}] /\ sending' \in [Bead -> BOOLEAN]
  BY DropType DEF SaveFails
<1>4. /\ mem' = [mem EXCEPT ![p] = undo[p].mem]
      /\ base' = base
      /\ repl' = [repl EXCEPT ![p] = undo[p].repl]
      /\ pc' = [pc EXCEPT ![p] = "idle"]
      /\ announced' \in Event \cup {NoEvent}
      /\ Forget(p) /\ primary' = primary
      /\ UNCHANGED <<backup, attempts>>
  BY DEF SaveFails
<1> QED BY <1>1, <1>2, <1>3, <1>4, SettlePreserves

\* A process that dies leaves the files as they are.
LEMMA CrashPreserves ==
    ASSUME LedgerInv, NEW p \in Store, Crash(p)
    PROVE  LedgerInv' /\ Durable' = Durable
<1>1. /\ EmptyMemory \in Memory /\ EmptyMemory.rows \in Ledger
      /\ Created(EmptyMemory.rows) /\ Follows(EmptyMemory.rows, EmptyMemory.rows)
  BY DEF EmptyMemory, EmptySnapshot, Memory, Ledger, Created, Follows
<1>2. opLock' \in [Bead -> Store \cup {NoStore}] /\ sending' \in [Bead -> BOOLEAN]
  BY DropType DEF Crash, LedgerInv
<1>3. /\ mem' = [mem EXCEPT ![p] = EmptyMemory]
      /\ base' = [base EXCEPT ![p] = EmptyMemory.rows]
      /\ repl' = [repl EXCEPT ![p] = {}]
      /\ pc' = [pc EXCEPT ![p] = "down"]
      /\ announced' \in Event \cup {NoEvent}
      /\ Forget(p) /\ primary' = primary
      /\ UNCHANGED <<backup, attempts>>
  BY DEF Crash
<1> QED BY <1>1, <1>2, <1>3, SettlePreserves

\* The save that publishes: the backup is the durable version's successor.
LEMMA PublishBackupPreserves ==
    ASSUME LedgerInv, NEW p \in Store, PublishBackup(p)
    PROVE  /\ LedgerInv'
           /\ Durable' = backup' /\ backup' = MergedSnapshot(p)
           /\ Follows(backup'.rows, Durable.rows)
<1> TypeOK /\ AttemptsInv /\ FilesInv
  BY DEF LedgerInv
<1> DEFINE merged == Merge(Durable.rows, base[p], mem[p].rows, repl[p])
<1>1. /\ Durable \in Snapshot /\ Durable.rows \in Ledger /\ Created(Durable.rows)
      /\ Durable.cleared \in [Bead -> Nat] /\ Durable.gen \in 0..MaxGeneration
  BY DurableType, DurableCreated DEF Snapshot
<1>2. /\ mem[p].rows \in Ledger /\ mem[p].cleared \in [Bead -> Nat]
      /\ base[p] \in Ledger /\ repl[p] \in SUBSET Bead
  BY DEF TypeOK, Memory
<1>3. merged \in Ledger /\ Follows(merged, Durable.rows) /\ Created(merged)
  <2>1. \A b \in Bead : ~Conflict(Durable.rows, base[p], mem[p].rows, repl[p], b)
    BY DEF PublishBackup
  <2>2. Follows(mem[p].rows, base[p]) /\ Created(mem[p].rows)
    BY DEF AttemptsInv
  <2> QED BY <1>1, <1>2, <2>1, <2>2, MergeKeepsAttempts
<1> HIDE DEF merged
<1>4. MergeCleared(Durable.cleared, mem[p].cleared) \in [Bead -> Nat]
  BY <1>1, <1>2 DEF MergeCleared
<1>5. backup' = [gen |-> Durable.gen + 1, rows |-> merged,
                 cleared |-> MergeCleared(Durable.cleared, mem[p].cleared)]
  BY DEF PublishBackup, MergedSnapshot, merged
<1>6. backup' \in Snapshot /\ backup'.rows = merged /\ backup'.gen = Durable.gen + 1
  BY <1>1, <1>3, <1>4, <1>5 DEF PublishBackup, GenerationExhausted, Snapshot
<1>7. backup' # NoFile
  BY <1>6, NoFileAssumption
<1>8. /\ primary' \in Snapshot \cup {NoFile}
      /\ primary' = NoFile => Durable.gen = 0
      /\ primary' # NoFile => primary' = Durable
  BY DEF PublishBackup, RecoveredPrimary, PromoteBackup, Durable, TypeOK, FilesInv, EmptySnapshot
<1>9. Durable' = backup'
  <2>1. PromoteBackup'
    BY <1>1, <1>6, <1>7, <1>8 DEF PromoteBackup
  <2> QED BY <2>1 DEF Durable
<1>10. TypeOK'
  BY <1>6, <1>8 DEF PublishBackup, TypeOK
<1>11. FilesInv'
  BY <1>1, <1>6, <1>7, <1>8 DEF FilesInv
<1>12. AttemptsInv'
  <2>1. Created(backup.rows)' /\ (primary' # NoFile => Created(primary.rows)')
    BY <1>1, <1>3, <1>6, <1>8 DEF PublishBackup, Created
  <2>2. \A q \in Store : pc'[q] \in {"down", "idle"} => pc[q] = pc'[q]
    BY DEF PublishBackup, TypeOK
  <2> QED
    BY <2>1, <2>2 DEF PublishBackup, AttemptsInv, Created
<1> QED BY <1>3, <1>6, <1>9, <1>10, <1>11, <1>12 DEF LedgerInv, PublishBackup

\* Taking and dropping an operation lock.
LEMMA LockPreserves ==
    ASSUME LedgerInv, NEW p \in Store, NEW b \in Bead, LockBead(p, b) \/ UnlockBead(p, b)
    PROVE  LedgerInv' /\ Durable' = Durable
<1> TypeOK
  BY DEF LedgerInv
<1>1. CASE LockBead(p, b)
  <2>1. /\ pc' = [pc EXCEPT ![p] = "idle"] /\ pc[p] \in {"down", "idle"}
        /\ opLock' \in [Bead -> Store \cup {NoStore}]
        /\ ReadLedger(p) /\ announced' = NoEvent
        /\ UNCHANGED <<undo, want, sending, attempts>>
    BY <1>1 DEF LockBead, TypeOK
  <2> QED BY <2>1, ReadPreserves
<1>2. CASE UnlockBead(p, b)
  <2>1. opLock' \in [Bead -> Store \cup {NoStore}] /\ sending' \in [Bead -> BOOLEAN]
    BY <1>2, DropType DEF UnlockBead
  <2>2. /\ UNCHANGED <<primary, backup, mem, base, repl, pc, undo, want, attempts>>
        /\ announced' = NoEvent
    BY <1>2 DEF UnlockBead, locals
  <2>3. TypeOK'
    BY <2>1, <2>2 DEF TypeOK
  <2> QED
    BY <2>2, <2>3 DEF LedgerInv, FilesInv, AttemptsInv, Created, Durable, PromoteBackup
<1> QED BY <1>1, <1>2

\* A load promotes an interrupted save and reads what any strict reader reads.
LEMMA LoadPreserves ==
    ASSUME LedgerInv, NEW p \in Store, Load(p)
    PROVE  LedgerInv' /\ Durable' = Durable
<1>1. /\ pc[p] \in {"down", "idle"} /\ pc' = [pc EXCEPT ![p] = "idle"]
      /\ opLock' \in [Bead -> Store \cup {NoStore}]
      /\ ReadLedger(p) /\ announced' = NoEvent
      /\ UNCHANGED <<undo, want, sending, attempts>>
  BY DEF Load, LedgerInv, TypeOK
<1> QED BY <1>1, ReadPreserves

\* Every step that is not a publication leaves the durable version alone.
LEMMA StepPreserves ==
    ASSUME LedgerInv, [Next]_vars
    PROVE  /\ LedgerInv'
           /\ Durable' = Durable \/ \E p \in Store : PublishBackup(p)
<1>1. CASE UNCHANGED vars
  BY <1>1 DEF vars, LedgerInv, TypeOK, FilesInv, AttemptsInv, Created, Durable, PromoteBackup
<1>2. ASSUME NEW p \in Store, Load(p)
      PROVE  LedgerInv' /\ Durable' = Durable
  BY <1>2, LoadPreserves
<1>3. ASSUME NEW p \in Store, NEW b \in Bead, LockBead(p, b) \/ UnlockBead(p, b)
      PROVE  LedgerInv' /\ Durable' = Durable
  BY <1>3, LockPreserves
<1>4. ASSUME NEW p \in Store, Operation(p)
      PROVE  LedgerInv' /\ Durable' = Durable
  BY <1>4, OperationPreserves
<1>5. ASSUME NEW p \in Store, SaveConflict(p)
      PROVE  LedgerInv' /\ Durable' = Durable
  BY <1>5, SaveConflictPreserves
<1>6. ASSUME NEW p \in Store, PublishBackup(p)
      PROVE  LedgerInv'
  BY <1>6, PublishBackupPreserves
<1>7. ASSUME NEW p \in Store, PublishPrimary(p)
      PROVE  LedgerInv' /\ Durable' = Durable
  BY <1>7, PublishPrimaryPreserves
<1>8. ASSUME NEW p \in Store, SaveFails(p)
      PROVE  LedgerInv' /\ Durable' = Durable
  BY <1>8, SaveFailsPreserves
<1>9. ASSUME NEW p \in Store, Crash(p)
      PROVE  LedgerInv' /\ Durable' = Durable
  BY <1>9, CrashPreserves
<1> QED
  BY <1>1, <1>2, <1>3, <1>4, <1>5, <1>6, <1>7, <1>8, <1>9 DEF Next

(***************************************************************************)
(* What a stale writer can do, in processes that do not outlive a failed   *)
(* save.                                                                   *)
(***************************************************************************)

\* A process that is not saving has nothing unsaved.
CleanInv(p) == pc[p] \in {"down", "idle"} => mem[p].rows = base[p] /\ repl[p] = {}

\* What a save writes over a row that it read: its dispatch state, or the row as a
\* whole and still of the same attempt, only under the bead's operation lock.
ChangeInv(p) ==
    pc[p] = "saving" => \A b \in Bead : base[p][b] # NoRow /\ mem[p].rows[b] # NoRow =>
        /\ b \notin repl[p] => SameAttempt(mem[p].rows[b], base[p][b])
        /\ SameAttempt(mem[p].rows[b], base[p][b]) /\ opLock[b] # p
               => b \notin repl[p] /\ mem[p].rows[b].dispatch = base[p][b].dispatch

\* The attempt of a row that a save brings is known to no other process, and not on disk.
Brings(p, b) == mem[p].rows[b] # NoRow /\ ~SameAttempt(mem[p].rows[b], base[p][b])

FreshInv(p) ==
    pc[p] = "saving" => \A b \in Bead : Brings(p, b) =>
        /\ ~SameAttempt(mem[p].rows[b], Durable.rows[b])
        /\ \A q \in Store \ {p} : /\ ~SameAttempt(mem[p].rows[b], mem[q].rows[b])
                                  /\ ~SameAttempt(mem[p].rows[b], base[q][b])

\* Who holds a bead's operation lock knows the dispatch state of the attempt it read.
HolderInv(p) ==
    pc[p] \in {"idle", "saving"} => \A b \in Bead :
        opLock[b] = p /\ SameAttempt(base[p][b], Durable.rows[b])
            => base[p][b].dispatch = Durable.rows[b].dispatch

WriterInv == \A p \in Store : CleanInv(p) /\ ChangeInv(p) /\ FreshInv(p) /\ HolderInv(p)

\* Nothing is saved any more after the last generation.
MergeInv == LedgerInv /\ (GenerationExhausted \/ WriterInv)

\* What all processes know of a row was created.
LEMMA KnownIsCreated ==
    ASSUME LedgerInv, NEW q \in Store, NEW b \in Bead
    PROVE  /\ mem[q].rows[b] # NoRow => mem[q].rows[b].attempt <= attempts
           /\ base[q][b] # NoRow => base[q][b].attempt <= attempts
           /\ Durable.rows[b] # NoRow => Durable.rows[b].attempt <= attempts
           /\ attempts \in Nat
<1>1. Created(mem[q].rows) /\ Created(base[q]) /\ attempts \in Nat
  BY DEF LedgerInv, AttemptsInv, TypeOK
<1>2. Created(Durable.rows)
  BY DurableCreated DEF LedgerInv
<1> QED BY <1>1, <1>2 DEF Created

\* A step of one process that leaves the durable version alone and takes no row of an attempt
\* that another process brings.
LEMMA OthersKeep ==
    ASSUME LedgerInv, WriterInv, NEW p \in Store, Durable' = Durable,
           \A q \in Store \ {p} : /\ mem'[q] = mem[q] /\ base'[q] = base[q]
                                  /\ repl'[q] = repl[q] /\ pc'[q] = pc[q],
           \A q \in Store \ {p}, b \in Bead : opLock'[b] = q <=> opLock[b] = q,
           \A b \in Bead :
               /\ \/ mem'[p].rows[b] = NoRow
                  \/ SameAttempt(mem'[p].rows[b], mem[p].rows[b])
                  \/ SameAttempt(mem'[p].rows[b], base[p][b])
                  \/ SameAttempt(mem'[p].rows[b], Durable.rows[b])
                  \/ mem'[p].rows[b].attempt > attempts
               /\ \/ base'[p][b] = NoRow
                  \/ SameAttempt(base'[p][b], base[p][b])
                  \/ SameAttempt(base'[p][b], Durable.rows[b])
    PROVE  \A q \in Store \ {p} : CleanInv(q)' /\ ChangeInv(q)' /\ FreshInv(q)' /\ HolderInv(q)'
<1> SUFFICES ASSUME NEW q \in Store \ {p}
             PROVE  CleanInv(q)' /\ ChangeInv(q)' /\ FreshInv(q)' /\ HolderInv(q)'
  OBVIOUS
<1>1. CleanInv(q) /\ ChangeInv(q) /\ FreshInv(q) /\ HolderInv(q)
  BY DEF WriterInv
<1>2. /\ mem'[q] = mem[q] /\ base'[q] = base[q] /\ repl'[q] = repl[q] /\ pc'[q] = pc[q]
      /\ \A b \in Bead : opLock'[b] = q <=> opLock[b] = q
  OBVIOUS
<1>3. CleanInv(q)'
  BY <1>1, <1>2 DEF CleanInv
<1>4. ChangeInv(q)'
  BY <1>1, <1>2 DEF ChangeInv
<1>5. HolderInv(q)'
  BY <1>1, <1>2 DEF HolderInv
<1>6. ASSUME pc[q] = "saving", NEW b \in Bead, Brings(q, b)
      PROVE  /\ ~SameAttempt(mem[q].rows[b], mem'[p].rows[b])
             /\ ~SameAttempt(mem[q].rows[b], base'[p][b])
  <2>1. /\ ~SameAttempt(mem[q].rows[b], Durable.rows[b])
        /\ ~SameAttempt(mem[q].rows[b], mem[p].rows[b])
        /\ ~SameAttempt(mem[q].rows[b], base[p][b])
    BY <1>1, <1>6 DEF FreshInv
  <2>2. mem[q].rows[b] # NoRow /\ mem[q].rows[b].attempt <= attempts /\ attempts \in Nat
    BY <1>6, KnownIsCreated DEF Brings
  <2>3. mem[q].rows[b].attempt \in Nat
    BY <2>2 DEF LedgerInv, TypeOK, Memory, Ledger, Row
  <2>4. /\ \/ mem'[p].rows[b] = NoRow
           \/ SameAttempt(mem'[p].rows[b], mem[p].rows[b])
           \/ SameAttempt(mem'[p].rows[b], base[p][b])
           \/ SameAttempt(mem'[p].rows[b], Durable.rows[b])
           \/ mem'[p].rows[b].attempt > attempts
        /\ \/ base'[p][b] = NoRow
           \/ SameAttempt(base'[p][b], base[p][b])
           \/ SameAttempt(base'[p][b], Durable.rows[b])
    OBVIOUS
  <2> QED BY ONLY <2>1, <2>2, <2>3, <2>4 DEF SameAttempt
<1>7. FreshInv(q)'
  <2> SUFFICES ASSUME pc[q] = "saving", NEW b \in Bead, Brings(q, b)
               PROVE  /\ ~SameAttempt(mem[q].rows[b], Durable.rows[b])
                      /\ \A r \in Store \ {q} : /\ ~SameAttempt(mem[q].rows[b], mem'[r].rows[b])
                                                /\ ~SameAttempt(mem[q].rows[b], base'[r][b])
    BY <1>2 DEF FreshInv, Brings
  <2>1. /\ ~SameAttempt(mem[q].rows[b], Durable.rows[b])
        /\ \A r \in Store \ {q} : /\ ~SameAttempt(mem[q].rows[b], mem[r].rows[b])
                                  /\ ~SameAttempt(mem[q].rows[b], base[r][b])
    BY <1>1 DEF FreshInv
  <2>2. \A r \in Store \ {q, p} : mem'[r] = mem[r] /\ base'[r] = base[r]
    OBVIOUS
  <2>3. /\ ~SameAttempt(mem[q].rows[b], mem'[p].rows[b])
        /\ ~SameAttempt(mem[q].rows[b], base'[p][b])
    BY <1>6
  <2> QED BY ONLY <2>1, <2>2, <2>3
<1> QED BY <1>3, <1>4, <1>5, <1>7

\* A process at rest, with the rows of before, those on disk, or none.
LEMMA AtRest ==
    ASSUME LedgerInv, WriterInv, NEW p \in Store, Durable' = Durable,
           \A q \in Store \ {p} : /\ mem'[q] = mem[q] /\ base'[q] = base[q]
                                  /\ repl'[q] = repl[q] /\ pc'[q] = pc[q],
           \A q \in Store \ {p}, b \in Bead : opLock'[b] = q <=> opLock[b] = q,
           pc'[p] \in {"down", "idle"}, mem'[p].rows = base'[p], repl'[p] = {},
           \A b \in Bead : base'[p][b] \in {NoRow, base[p][b], Durable.rows[b]},
           HolderInv(p)'
    PROVE  WriterInv'
<1>1. \A b \in Bead : /\ \/ mem'[p].rows[b] = NoRow
                         \/ SameAttempt(mem'[p].rows[b], mem[p].rows[b])
                         \/ SameAttempt(mem'[p].rows[b], base[p][b])
                         \/ SameAttempt(mem'[p].rows[b], Durable.rows[b])
                         \/ mem'[p].rows[b].attempt > attempts
                      /\ \/ base'[p][b] = NoRow
                         \/ SameAttempt(base'[p][b], base[p][b])
                         \/ SameAttempt(base'[p][b], Durable.rows[b])
  BY DEF SameAttempt
<1>2. \A q \in Store \ {p} : CleanInv(q)' /\ ChangeInv(q)' /\ FreshInv(q)' /\ HolderInv(q)'
  BY <1>1, OthersKeep
<1>3. CleanInv(p)' /\ ChangeInv(p)' /\ FreshInv(p)'
  BY DEF CleanInv, ChangeInv, FreshInv
<1> QED BY <1>2, <1>3 DEF WriterInv

\* Reading the ledger gives its reader the durable rows; without a ledger it keeps none that a
\* save could meet.
LEMMA ReadAtRest ==
    ASSUME LedgerInv, WriterInv, NEW p \in Store, ReadLedger(p), pc[p] \in {"down", "idle"},
           pc' = [pc EXCEPT ![p] = "idle"], Durable' = Durable,
           \A q \in Store \ {p}, b \in Bead : opLock'[b] = q <=> opLock[b] = q
    PROVE  WriterInv'
<1> TypeOK
  BY DEF LedgerInv
<1>1. \A q \in Store \ {p} : /\ mem'[q] = mem[q] /\ base'[q] = base[q]
                             /\ repl'[q] = repl[q] /\ pc'[q] = pc[q]
  BY DEF ReadLedger, TypeOK
<1>2. pc'[p] = "idle"
  BY DEF TypeOK
<1>3. mem[p].rows = base[p] /\ repl[p] = {}
  BY DEF WriterInv, CleanInv
<1>4. CASE primary' = NoFile
  <2>1. mem' = mem /\ base' = base /\ repl' = repl
    BY <1>4 DEF ReadLedger
  <2>2. \A b \in Bead : Durable.rows[b] = NoRow
    BY <1>4 DEF ReadLedger, RecoveredPrimary, Durable, PromoteBackup, EmptySnapshot
  <2>3. HolderInv(p)'
    BY <2>2 DEF HolderInv, SameAttempt
  <2> QED BY <1>1, <1>2, <1>3, <2>1, <2>3, AtRest
<1>5. CASE primary' # NoFile
  <2>1. primary' = Durable
    BY <1>5 DEF ReadLedger, RecoveredPrimary, Durable
  <2>2. mem'[p].rows = Durable.rows /\ base'[p] = Durable.rows /\ repl'[p] = {}
    BY <1>5, <2>1 DEF ReadLedger, TypeOK
  <2>3. HolderInv(p)'
    BY <2>2 DEF HolderInv
  <2> QED BY <1>1, <1>2, <2>2, <2>3, AtRest
<1> QED BY <1>4, <1>5

\* Dropping a process's lock takes it from nobody else.
LEMMA DropIsOwn ==
    ASSUME TypeOK, NEW p \in Store, DropOperationLock(p)
    PROVE  /\ \A q \in Store \ {p}, b \in Bead : opLock'[b] = q <=> opLock[b] = q
           /\ \A b \in Bead : opLock'[b] # p
  BY NullAssumption DEF DropOperationLock, TypeOK

\* The steps after which a process has nothing to save.
LEMMA RestKeeps ==
    ASSUME LedgerInv, WriterInv, NEW p \in Store, Durable' = Durable,
           \/ Load(p) \/ SaveConflict(p) \/ PublishPrimary(p) \/ Crash(p)
           \/ \E b \in Bead : LockBead(p, b) \/ UnlockBead(p, b)
    PROVE  WriterInv'
<1> TypeOK /\ AttemptsInv /\ FilesInv
  BY DEF LedgerInv
<1>1. CASE Load(p)
  BY <1>1, ReadAtRest DEF Load
<1>2. ASSUME NEW b \in Bead, LockBead(p, b)
      PROVE  WriterInv'
  <2>1. \A q \in Store \ {p}, c \in Bead : opLock'[c] = q <=> opLock[c] = q
    BY <1>2, NullAssumption DEF LockBead, TypeOK
  <2>2. pc' = [pc EXCEPT ![p] = "idle"]
    BY <1>2 DEF LockBead, TypeOK
  <2> QED BY <1>2, <2>1, <2>2, ReadAtRest DEF LockBead
<1>3. ASSUME NEW b \in Bead, UnlockBead(p, b)
      PROVE  WriterInv'
  <2>1. /\ UNCHANGED <<mem, base, repl, pc>> /\ pc[p] = "idle" /\ DropOperationLock(p)
    BY <1>3 DEF UnlockBead, locals
  <2>2. /\ \A q \in Store \ {p}, c \in Bead : opLock'[c] = q <=> opLock[c] = q
        /\ \A c \in Bead : opLock'[c] # p
    BY <2>1, DropIsOwn
  <2>3. mem[p].rows = base[p] /\ repl[p] = {}
    BY <2>1 DEF WriterInv, CleanInv
  <2>4. HolderInv(p)'
    BY <2>2 DEF HolderInv
  <2> QED BY <2>1, <2>2, <2>3, <2>4, AtRest
<1>4. CASE SaveConflict(p) \/ Crash(p)
  <2>1. /\ \A q \in Store \ {p}, c \in Bead : opLock'[c] = q <=> opLock[c] = q
        /\ \A c \in Bead : opLock'[c] # p
    BY <1>4, DropIsOwn DEF SaveConflict, Crash
  <2>2. /\ \A q \in Store \ {p} : /\ mem'[q] = mem[q] /\ base'[q] = base[q]
                                  /\ repl'[q] = repl[q] /\ pc'[q] = pc[q]
        /\ pc'[p] \in {"down", "idle"} /\ repl'[p] = {}
    BY <1>4 DEF SaveConflict, Crash, TypeOK
  <2>3. mem'[p].rows = base'[p] /\ \A b \in Bead : base'[p][b] \in {NoRow, base[p][b], Durable.rows[b]}
    BY <1>4 DEF SaveConflict, Crash, TypeOK, EmptyMemory, EmptySnapshot
  <2>4. HolderInv(p)'
    BY <2>1 DEF HolderInv
  <2> QED BY <2>1, <2>2, <2>3, <2>4, AtRest
<1>5. CASE PublishPrimary(p)
  <2>1. /\ \A q \in Store \ {p} : /\ mem'[q] = mem[q] /\ base'[q] = base[q]
                                  /\ repl'[q] = repl[q] /\ pc'[q] = pc[q]
        /\ pc'[p] \in {"down", "idle"} /\ repl'[p] = {} /\ opLock' = opLock
        /\ mem'[p].rows = backup.rows /\ base'[p] = backup.rows
    BY <1>5 DEF PublishPrimary, TypeOK
  <2>2. Durable' = backup
    <3>1. backup # NoFile /\ primary' = backup /\ backup' = backup /\ backup \in Snapshot
      BY <1>5 DEF PublishPrimary, FilesInv, TypeOK
    <3>2. ~(backup.gen > backup.gen)
      BY <3>1 DEF Snapshot
    <3> QED BY <3>1, <3>2 DEF Durable, PromoteBackup
  <2>3. HolderInv(p)'
    BY <2>1, <2>2 DEF HolderInv
  <2> QED BY <2>1, <2>2, <2>3, AtRest
<1> QED BY <1>1, <1>2, <1>3, <1>4, <1>5

\* An operation that removes rows, changes rows of the attempts it read, or brings new attempts.
LEMMA EditKeeps ==
    ASSUME LedgerInv, WriterInv, NEW p \in Store, pc[p] = "idle", Durable' = Durable,
           NEW newMem, NEW newRepl, NEW restored, NEW event,
           BeginSave(p, newMem, newRepl, restored, event),
           \A b \in Bead :
               \/ newMem.rows[b] = NoRow
               \/ /\ SameAttempt(newMem.rows[b], mem[p].rows[b])
                  /\ \/ opLock[b] = p
                     \/ b \notin newRepl /\ newMem.rows[b].dispatch = mem[p].rows[b].dispatch
               \/ /\ newMem.rows[b].attempt > attempts
                  /\ mem[p].rows[b] # NoRow => b \in newRepl
    PROVE  WriterInv'
<1> TypeOK /\ AttemptsInv
  BY DEF LedgerInv
<1>1. /\ \A q \in Store \ {p} : /\ mem'[q] = mem[q] /\ base'[q] = base[q]
                                /\ repl'[q] = repl[q] /\ pc'[q] = pc[q]
      /\ mem'[p] = newMem /\ repl'[p] = newRepl /\ base' = base /\ opLock' = opLock /\ pc'[p] = "saving"
  BY DEF BeginSave, TypeOK
<1>2. mem[p].rows = base[p]
  BY DEF WriterInv, CleanInv
<1>3. \A q \in Store \ {p} : CleanInv(q)' /\ ChangeInv(q)' /\ FreshInv(q)' /\ HolderInv(q)'
  <2>1. \A b \in Bead : /\ \/ mem'[p].rows[b] = NoRow
                           \/ SameAttempt(mem'[p].rows[b], mem[p].rows[b])
                           \/ SameAttempt(mem'[p].rows[b], base[p][b])
                           \/ SameAttempt(mem'[p].rows[b], Durable.rows[b])
                           \/ mem'[p].rows[b].attempt > attempts
                        /\ \/ base'[p][b] = NoRow
                           \/ SameAttempt(base'[p][b], base[p][b])
                           \/ SameAttempt(base'[p][b], Durable.rows[b])
    BY <1>1 DEF SameAttempt
  <2> QED BY <1>1, <2>1, OthersKeep
<1>4. CleanInv(p)'
  BY <1>1 DEF CleanInv
<1>5. HolderInv(p)'
  BY <1>1 DEF WriterInv, HolderInv
<1>6. ASSUME NEW b \in Bead, newMem.rows[b] # NoRow, ~SameAttempt(newMem.rows[b], base[p][b])
      PROVE  newMem.rows[b].attempt > attempts /\ (base[p][b] # NoRow => b \in newRepl)
  BY <1>2, <1>6
<1>7. ASSUME NEW b \in Bead, newMem.rows[b] # NoRow, SameAttempt(newMem.rows[b], base[p][b])
      PROVE  \/ opLock[b] = p
             \/ b \notin newRepl /\ newMem.rows[b].dispatch = base[p][b].dispatch
  <2>1. base[p][b] # NoRow => base[p][b].attempt <= attempts /\ base[p][b].attempt \in Nat
    BY KnownIsCreated DEF TypeOK, Ledger, Row
  <2>2. ~(newMem.rows[b].attempt > attempts)
    BY <1>7, <2>1, KnownIsCreated DEF SameAttempt
  <2> QED BY <1>2, <1>7, <2>2
<1>8. ChangeInv(p)'
  BY <1>1, <1>6, <1>7 DEF ChangeInv
<1>9. FreshInv(p)'
  <2> SUFFICES ASSUME NEW b \in Bead, newMem.rows[b] # NoRow, ~SameAttempt(newMem.rows[b], base[p][b])
               PROVE  /\ ~SameAttempt(newMem.rows[b], Durable.rows[b])
                      /\ \A q \in Store \ {p} : /\ ~SameAttempt(newMem.rows[b], mem[q].rows[b])
                                                /\ ~SameAttempt(newMem.rows[b], base[q][b])
    BY <1>1 DEF FreshInv, Brings
  <2>1. newMem.rows[b].attempt > attempts /\ attempts \in Nat
    BY <1>6, KnownIsCreated
  <2>2. ASSUME NEW x, x # NoRow => x.attempt <= attempts, x # NoRow => x.attempt \in Nat
        PROVE  ~SameAttempt(newMem.rows[b], x)
    BY <2>1, <2>2 DEF SameAttempt
  <2>3. Durable.rows \in Ledger /\ \A q \in Store : mem[q].rows \in Ledger /\ base[q] \in Ledger
    BY DurableType DEF TypeOK, Memory, Snapshot
  <2>4. /\ Durable.rows[b] # NoRow => Durable.rows[b].attempt \in Nat
        /\ \A q \in Store : /\ mem[q].rows[b] # NoRow => mem[q].rows[b].attempt \in Nat
                            /\ base[q][b] # NoRow => base[q][b].attempt \in Nat
    BY <2>3 DEF Ledger, Row
  <2> QED BY <2>2, <2>4, KnownIsCreated
<1> QED BY <1>3, <1>4, <1>5, <1>8, <1>9 DEF WriterInv

\* Every operation is such an edit.  Its new attempts are numbered past all others; what it
\* replaces, or whose dispatch state it changes, it holds the lock of.
LEMMA OperationKeeps ==
    ASSUME LedgerInv, WriterInv, NEW p \in Store, Operation(p), Durable' = Durable
    PROVE  WriterInv'
<1> TypeOK
  BY DEF LedgerInv
<1>1. pc[p] = "idle"
  BY DEF Operation, Save, Assign, Update, Reassign, Remove, CompleteClear, UpdateStatus,
         TransitionIfCurrent, RecordAtomicIntent, RecordAtomicClaim, RecordAtomicDispatchStarted,
         RecordAtomicDispatchSent, Unguarded, Guarded
<1>2. /\ mem[p] \in Memory /\ mem[p].rows \in Ledger /\ repl[p] = {} /\ attempts \in 0..MaxAttempt
      /\ \A b \in Bead : mem[p].rows[b] \in Row \cup {NoRow}
  BY <1>1 DEF TypeOK, Memory, Ledger, WriterInv, CleanInv
<1>3. \A b \in Bead : mem[p].rows[b] # NoRow => SameAttempt(mem[p].rows[b], mem[p].rows[b])
  BY DEF SameAttempt
<1>4. ASSUME NEW b \in Bead, NEW row \in Row, NEW newRepl, NEW restored, NEW event,
             BeginSave(p, WithRow(p, b, row), newRepl, restored, event),
             newRepl \subseteq {b},
             \/ /\ SameAttempt(row, mem[p].rows[b])
                /\ \/ opLock[b] = p
                   \/ newRepl = {} /\ row.dispatch = mem[p].rows[b].dispatch
             \/ /\ row.attempt = attempts + 1
                /\ mem[p].rows[b] # NoRow => b \in newRepl
      PROVE  WriterInv'
  <2>1. \A c \in Bead : WithRow(p, b, row).rows[c] = IF c = b THEN row ELSE mem[p].rows[c]
    BY <1>2 DEF WithRow, Memory, Ledger
  <2>2. \A c \in Bead :
               \/ WithRow(p, b, row).rows[c] = NoRow
               \/ /\ SameAttempt(WithRow(p, b, row).rows[c], mem[p].rows[c])
                  /\ \/ opLock[c] = p
                     \/ /\ c \notin newRepl
                        /\ WithRow(p, b, row).rows[c].dispatch = mem[p].rows[c].dispatch
               \/ /\ WithRow(p, b, row).rows[c].attempt > attempts
                  /\ mem[p].rows[c] # NoRow => c \in newRepl
    BY <1>2, <1>3, <1>4, <2>1
  <2> QED BY <1>1, <1>4, <2>2, EditKeeps
<1>5. ASSUME NEW newMem, NEW newRepl, NEW restored, NEW event,
             BeginSave(p, newMem, newRepl, restored, event), newRepl = {},
             \A b \in Bead : newMem.rows[b] \in {NoRow, mem[p].rows[b]}
      PROVE  WriterInv'
  <2>1. \A b \in Bead :
               \/ newMem.rows[b] = NoRow
               \/ /\ SameAttempt(newMem.rows[b], mem[p].rows[b])
                  /\ \/ opLock[b] = p
                     \/ b \notin newRepl /\ newMem.rows[b].dispatch = mem[p].rows[b].dispatch
               \/ /\ newMem.rows[b].attempt > attempts
                  /\ mem[p].rows[b] # NoRow => b \in newRepl
    BY <1>3, <1>5
  <2> QED BY <1>1, <1>5, <2>1, EditKeeps
<1>6. CASE Save(p)
  BY <1>2, <1>5, <1>6 DEF Save
<1>7. ASSUME NEW beads \in SUBSET Bead, Remove(p, beads)
      PROVE  WriterInv'
  <2>1. PICK newMem :
            newMem = [mem[p] EXCEPT !.rows = [b \in Bead |-> IF b \in beads THEN NoRow ELSE @[b]]]
    OBVIOUS
  <2>2. BeginSave(p, newMem, repl[p], FALSE, NoEvent)
    BY <1>7, <2>1 DEF Remove
  <2>3. \A b \in Bead : newMem.rows[b] \in {NoRow, mem[p].rows[b]}
    BY <1>2, <2>1 DEF Memory
  <2> QED BY <1>2, <1>5, <2>2, <2>3
<1>8. ASSUME NEW b \in Bead, CompleteClear(p, b)
      PROVE  WriterInv'
  <2>1. PICK newMem : newMem = [rows    |-> [mem[p].rows EXCEPT ![b] = NoRow],
                                cleared |-> [mem[p].cleared EXCEPT ![b] = @ + 1]]
    OBVIOUS
  <2>2. BeginSave(p, newMem, repl[p], FALSE, NoEvent)
    BY <1>8, <2>1 DEF CompleteClear
  <2>3. \A c \in Bead : newMem.rows[c] \in {NoRow, mem[p].rows[c]}
    BY <1>2, <2>1 DEF Ledger
  <2> QED BY <1>2, <1>5, <2>2, <2>3
<1>9. ASSUME NEW b \in Bead, Assign(p, b)
      PROVE  WriterInv'
  <2> DEFINE row == [attempt |-> attempts', status |-> "assigned", dispatch |-> "none", retries |-> 0]
             added == IF mem[p].rows[b] # NoRow THEN repl[p] \cup {b} ELSE repl[p]
  <2>1. row \in Row /\ row.attempt = attempts + 1
    BY <1>2, <1>9 DEF Assign, NextAttempt, Row, Status, Dispatch
  <2>2. BeginSave(p, WithRow(p, b, row), added, FALSE, Confirmed(b, "assigned"))
    BY <1>9 DEF Assign
  <2>3. added \subseteq {b} /\ (mem[p].rows[b] # NoRow => b \in added)
    BY <1>2
  <2> HIDE DEF row, added
  <2> QED BY <1>4, <2>1, <2>2, <2>3
<1>10. ASSUME NEW b \in Bead, RecordAtomicIntent(p, b)
       PROVE  WriterInv'
  <2> DEFINE row == [attempt |-> attempts', status |-> "claiming", dispatch |-> "pending", retries |-> 0]
             added == IF mem[p].rows[b] # NoRow THEN repl[p] \cup {b} ELSE repl[p]
  <2>1. row \in Row /\ row.attempt = attempts + 1
    BY <1>2, <1>10 DEF RecordAtomicIntent, NextAttempt, Row, Status, Dispatch
  <2>2. BeginSave(p, WithRow(p, b, row), added, TRUE, NoEvent)
    BY <1>10 DEF RecordAtomicIntent
  <2>3. added \subseteq {b} /\ (mem[p].rows[b] # NoRow => b \in added)
    BY <1>2
  <2> HIDE DEF row, added
  <2> QED BY <1>4, <2>1, <2>2, <2>3
<1>11. ASSUME NEW b \in Bead, Reassign(p, b)
       PROVE  WriterInv'
  <2> DEFINE row == [attempt |-> attempts', status |-> "assigned", dispatch |-> "none",
                     retries |-> mem[p].rows[b].retries]
             added == repl[p] \cup {b}
  <2>1. row \in Row /\ row.attempt = attempts + 1
    BY <1>2, <1>11 DEF Reassign, NextAttempt, Row, Status, Dispatch
  <2>2. BeginSave(p, WithRow(p, b, row), added, FALSE, NoEvent)
    BY <1>11 DEF Reassign
  <2>3. added \subseteq {b} /\ b \in added
    BY <1>2
  <2> HIDE DEF row, added
  <2> QED BY <1>4, <2>1, <2>2, <2>3
<1>12. ASSUME NEW b \in Bead, NEW row, row \in Row,
              mem[p].rows[b] # NoRow, row.attempt = mem[p].rows[b].attempt,
              \/ opLock[b] = p
              \/ row.dispatch = mem[p].rows[b].dispatch,
              NEW restored, NEW event, BeginSave(p, WithRow(p, b, row), repl[p], restored, event)
       PROVE  WriterInv'
  <2>1. SameAttempt(row, mem[p].rows[b])
    BY <1>12, NoRowAssumption DEF SameAttempt
  <2> QED BY <1>2, <1>4, <1>12, <2>1
<1>13. ASSUME NEW b \in Bead, NEW s \in Status, UpdateStatus(p, b, s)
       PROVE  WriterInv'
  <2> DEFINE row == [mem[p].rows[b] EXCEPT !.status = s]
  <2>1. /\ mem[p].rows[b] # NoRow /\ row \in Row /\ row.attempt = mem[p].rows[b].attempt
        /\ row.dispatch = mem[p].rows[b].dispatch
        /\ BeginSave(p, WithRow(p, b, row), repl[p], FALSE, Confirmed(b, s))
    BY <1>2, <1>13 DEF UpdateStatus, Row
  <2> HIDE DEF row
  <2> QED BY <1>12, <2>1
<1>14. ASSUME NEW b \in Bead, Update(p, b)
       PROVE  WriterInv'
  <2> DEFINE row == [mem[p].rows[b] EXCEPT !.retries = @ + 1]
  <2>1. /\ mem[p].rows[b] # NoRow /\ row \in Row /\ row.attempt = mem[p].rows[b].attempt
        /\ row.dispatch = mem[p].rows[b].dispatch
        /\ BeginSave(p, WithRow(p, b, row), repl[p], FALSE, NoEvent)
    <3>1. mem[p].rows[b] \in Row /\ mem[p].rows[b].retries \in 0..MaxRetries /\ mem[p].rows[b].retries < MaxRetries
      BY <1>2, <1>14 DEF Update, Row
    <3>2. mem[p].rows[b].retries + 1 \in 0..MaxRetries
      BY <3>1
    <3>3. row \in Row /\ row.attempt = mem[p].rows[b].attempt /\ row.dispatch = mem[p].rows[b].dispatch
      BY <3>1, <3>2 DEF Row
    <3> HIDE DEF row
    <3>4. BeginSave(p, WithRow(p, b, row), repl[p], FALSE, NoEvent)
      BY <1>14 DEF Update, row
    <3> QED BY <1>14, <3>3, <3>4 DEF Update
  <2> HIDE DEF row
  <2> QED BY <1>12, <2>1
<1>15. ASSUME NEW b \in Bead, RecordAtomicClaim(p, b)
       PROVE  WriterInv'
  <2> DEFINE row == [mem[p].rows[b] EXCEPT !.status = "claimed"]
  <2>1. /\ mem[p].rows[b] # NoRow /\ row \in Row /\ row.attempt = mem[p].rows[b].attempt
        /\ row.dispatch = mem[p].rows[b].dispatch
        /\ BeginSave(p, WithRow(p, b, row), repl[p], FALSE, NoEvent)
    BY <1>2, <1>15 DEF RecordAtomicClaim, Row, Status
  <2> HIDE DEF row
  <2> QED BY <1>12, <2>1
<1>16. ASSUME NEW b \in Bead, RecordAtomicDispatchStarted(p, b)
       PROVE  WriterInv'
  <2> DEFINE row == [mem[p].rows[b] EXCEPT !.dispatch = "sending"]
  <2>1. /\ mem[p].rows[b] # NoRow /\ row \in Row /\ row.attempt = mem[p].rows[b].attempt
        /\ opLock[b] = p
        /\ BeginSave(p, WithRow(p, b, row), repl[p], FALSE, NoEvent)
    BY <1>2, <1>16 DEF RecordAtomicDispatchStarted, Guarded, Row, Dispatch
  <2> HIDE DEF row
  <2> QED BY <1>12, <2>1
<1>17. ASSUME NEW b \in Bead, RecordAtomicDispatchSent(p, b)
       PROVE  WriterInv'
  <2> DEFINE row == [mem[p].rows[b] EXCEPT !.dispatch = "sent", !.status = "assigned"]
             event == [bead |-> b, status |-> "assigned", confirmed |-> FALSE]
  <2>1. /\ mem[p].rows[b] # NoRow /\ row \in Row /\ row.attempt = mem[p].rows[b].attempt
        /\ opLock[b] = p
        /\ BeginSave(p, WithRow(p, b, row), repl[p], TRUE, event)
    BY <1>2, <1>17 DEF RecordAtomicDispatchSent, Guarded, Row, Status, Dispatch
  <2> HIDE DEF row, event
  <2> QED BY <1>12, <2>1
<1>18. ASSUME NEW b \in Bead, NEW s \in Status, TransitionIfCurrent(p, b, s)
       PROVE  WriterInv'
  <2> DEFINE row == [mem[p].rows[b] EXCEPT !.status = s]
             added == repl[p] \cup {b}
  <2>1. /\ mem[p].rows[b] # NoRow /\ row \in Row /\ row.attempt = mem[p].rows[b].attempt
        /\ opLock[b] = p /\ added \subseteq {b}
        /\ BeginSave(p, WithRow(p, b, row), added, TRUE, Confirmed(b, s))
    BY <1>2, <1>18 DEF TransitionIfCurrent, Guarded, Row
  <2>2. SameAttempt(row, mem[p].rows[b])
    BY <2>1, NoRowAssumption DEF SameAttempt
  <2> HIDE DEF row, added
  <2> QED BY <1>4, <2>1, <2>2
<1> QED
  BY <1>6, <1>7, <1>8, <1>9, <1>10, <1>11, <1>13, <1>14, <1>15, <1>16, <1>17, <1>18 DEF Operation

\* Where a row of a published version comes from: from the durable version, with a dispatch
\* state that only the holder of the bead's lock may have changed, or from the writer, if the
\* writer brings the attempt or holds the lock.
LEMMA MergeOrigin ==
    ASSUME LedgerInv, WriterInv, NEW p \in Store, PublishBackup(p), NEW b \in Bead,
           Durable'.rows[b] # NoRow
    PROVE  \/ /\ SameAttempt(Durable.rows[b], Durable'.rows[b])
              /\ \/ Durable'.rows[b].dispatch = Durable.rows[b].dispatch
                 \/ opLock[b] = p
           \/ /\ Durable'.rows[b] = mem[p].rows[b]
              /\ Brings(p, b) \/ opLock[b] = p
<1>1. /\ mem[p].rows[b] \in Row \cup {NoRow} /\ base[p][b] \in Row \cup {NoRow}
      /\ Durable.rows[b] \in Row \cup {NoRow}
  BY DurableType DEF LedgerInv, TypeOK, Memory, Snapshot, Ledger
<1>2. Durable'.rows[b] = Merge(Durable.rows, base[p], mem[p].rows, repl[p])[b]
  BY PublishBackupPreserves DEF MergedSnapshot
<1>3. pc[p] = "saving" /\ ~Conflict(Durable.rows, base[p], mem[p].rows, repl[p], b)
  BY DEF PublishBackup
<1>4. CASE mem[p].rows[b] = base[p][b]
  <2>1. Durable'.rows[b] = Durable.rows[b]
    BY <1>2, <1>4 DEF Merge
  <2> QED BY <2>1 DEF SameAttempt
<1>5. CASE mem[p].rows[b] # base[p][b] /\ (base[p][b] = NoRow \/ b \in repl[p])
  <2>1. mem[p].rows[b] # NoRow /\ Durable'.rows[b] = mem[p].rows[b]
    BY <1>2, <1>5 DEF Merge
  <2>2. Brings(p, b) \/ opLock[b] = p
    BY <1>3, <1>5, <2>1 DEF Brings, WriterInv, ChangeInv, SameAttempt
  <2> QED BY <2>1, <2>2
<1>6. CASE mem[p].rows[b] # base[p][b] /\ base[p][b] # NoRow /\ b \notin repl[p]
  <2>1. mem[p].rows[b] # NoRow /\ Durable'.rows[b] = MergeRow(Durable.rows[b], base[p][b], mem[p].rows[b])
    BY <1>2, <1>6 DEF Merge
  <2>2. Durable.rows[b] # NoRow
    BY <1>3, <1>6, <2>1 DEF Conflict
  <2>3. /\ SameAttempt(mem[p].rows[b], base[p][b])
        /\ opLock[b] = p \/ mem[p].rows[b].dispatch = base[p][b].dispatch
    BY <1>3, <1>6, <2>1 DEF WriterInv, ChangeInv
  <2>4. /\ Durable'.rows[b].attempt = Durable.rows[b].attempt
        /\ mem[p].rows[b].dispatch = base[p][b].dispatch
              => Durable'.rows[b].dispatch = Durable.rows[b].dispatch
    BY <2>1, <2>3 DEF MergeRow, SameAttempt
  <2> QED BY <2>2, <2>3, <2>4 DEF SameAttempt
<1> QED BY <1>4, <1>5, <1>6

\* A publication is known to no other process until it reads it.
LEMMA PublishKeeps ==
    ASSUME LedgerInv, WriterInv, NEW p \in Store, PublishBackup(p)
    PROVE  WriterInv'
<1> TypeOK
  BY DEF LedgerInv
<1>1. /\ UNCHANGED <<mem, base, repl, opLock>> /\ pc'[p] = "published" /\ pc[p] = "saving"
      /\ \A q \in Store \ {p} : pc'[q] = pc[q]
  BY DEF PublishBackup, TypeOK
<1>2. CleanInv(p)' /\ ChangeInv(p)' /\ FreshInv(p)' /\ HolderInv(p)'
  BY <1>1 DEF CleanInv, ChangeInv, FreshInv, HolderInv
<1>3. ASSUME NEW q \in Store \ {p}
      PROVE  CleanInv(q)' /\ ChangeInv(q)' /\ FreshInv(q)' /\ HolderInv(q)'
  <2>1. CleanInv(q) /\ ChangeInv(q) /\ FreshInv(q) /\ HolderInv(q) /\ FreshInv(p) /\ pc'[q] = pc[q]
    BY <1>1 DEF WriterInv
  <2>2. CleanInv(q)' /\ ChangeInv(q)'
    BY <1>1, <2>1 DEF CleanInv, ChangeInv
  <2>3. ASSUME NEW b \in Bead, pc[q] = "saving", Brings(q, b)
        PROVE  ~SameAttempt(mem[q].rows[b], Durable'.rows[b])
    <3>1. /\ ~SameAttempt(mem[q].rows[b], Durable.rows[b])
          /\ ~SameAttempt(mem[q].rows[b], mem[p].rows[b])
      BY <2>1, <2>3 DEF FreshInv
    <3> QED BY <3>1, MergeOrigin DEF SameAttempt
  <2>4. FreshInv(q)'
    BY <1>1, <2>1, <2>3 DEF FreshInv, Brings
  <2>5. ASSUME NEW b \in Bead, pc[q] \in {"idle", "saving"}, opLock[b] = q,
               SameAttempt(base[q][b], Durable'.rows[b])
        PROVE  base[q][b].dispatch = Durable'.rows[b].dispatch
    <3>1. opLock[b] # p /\ Durable'.rows[b] # NoRow
      BY <2>5 DEF SameAttempt
    <3>2. CASE Durable'.rows[b] = mem[p].rows[b] /\ Brings(p, b)
      BY <1>1, <2>1, <2>5, <3>2 DEF FreshInv, SameAttempt
    <3>3. CASE /\ SameAttempt(Durable.rows[b], Durable'.rows[b])
               /\ Durable'.rows[b].dispatch = Durable.rows[b].dispatch
      BY <2>1, <2>5, <3>3 DEF HolderInv, SameAttempt
    <3> QED BY <3>1, <3>2, <3>3, MergeOrigin
  <2>6. HolderInv(q)'
    BY <1>1, <2>1, <2>5 DEF HolderInv
  <2> QED BY <2>2, <2>4, <2>6
<1> QED BY <1>2, <1>3 DEF WriterInv

\* Without I/O errors a save fails only when there are no generations left.
LEMMA MergeInvKept ==
    ASSUME ~DiskErrors, MergeInv, [Next]_vars
    PROVE  MergeInv'
<1> LedgerInv
  BY DEF MergeInv
<1>1. LedgerInv' /\ (Durable' = Durable \/ \E p \in Store : PublishBackup(p))
  BY StepPreserves
<1>2. CASE GenerationExhausted
  <2>1. Durable' = Durable
    BY <1>1, <1>2 DEF PublishBackup
  <2> QED BY <1>1, <1>2, <2>1 DEF GenerationExhausted, MergeInv
<1>3. CASE ~GenerationExhausted
  <2> WriterInv
    BY <1>3 DEF MergeInv
  <2>1. CASE UNCHANGED vars
    <3>1. UNCHANGED <<primary, backup, mem, base, repl, pc, opLock>>
      BY <2>1 DEF vars
    <3>2. Durable' = Durable
      BY <3>1 DEF Durable, PromoteBackup
    <3> QED BY <1>1, <3>1, <3>2 DEF MergeInv, WriterInv, CleanInv, ChangeInv, FreshInv, Brings, HolderInv
  <2>2. ASSUME NEW p \in Store, PublishBackup(p)
        PROVE  MergeInv'
    BY <1>1, <2>2, PublishKeeps DEF MergeInv
  <2>3. ASSUME Durable' = Durable, NEW p \in Store,
               \/ Load(p) \/ SaveConflict(p) \/ PublishPrimary(p) \/ Crash(p) \/ Operation(p)
               \/ \E b \in Bead : LockBead(p, b) \/ UnlockBead(p, b)
        PROVE  MergeInv'
    BY <1>1, <2>3, RestKeeps, OperationKeeps DEF MergeInv
  <2>4. \A p \in Store : ~SaveFails(p)
    BY <1>3 DEF SaveFails
  <2> QED BY <1>1, <2>1, <2>2, <2>3, <2>4 DEF Next
<1> QED BY <1>2, <1>3

\* A process reaches the point between the two files of a save only by PublishBackup.
LEMMA PublishesIsPublish ==
    ASSUME LedgerInv, [Next]_vars, NEW p \in Store, Publishes(p)
    PROVE  PublishBackup(p)
<1>1. pc \in [Store -> {"down", "idle", "saving", "published"}] /\ pc[p] = "saving" /\ pc'[p] = "published"
  BY DEF LedgerInv, TypeOK, Publishes
<1>2. ASSUME NEW q \in Store, Load(q) \/ SaveConflict(q) \/ PublishPrimary(q) \/ SaveFails(q) \/ Crash(q)
      PROVE  FALSE
  BY <1>1, <1>2 DEF Load, SaveConflict, PublishPrimary, SaveFails, Crash
<1>3. ASSUME NEW q \in Store, NEW b \in Bead, LockBead(q, b) \/ UnlockBead(q, b)
      PROVE  FALSE
  BY <1>1, <1>3 DEF LockBead, UnlockBead, locals
<1>4. ASSUME NEW q \in Store, Operation(q)
      PROVE  FALSE
  <2>1. PICK newMem, newRepl, restored, event : BeginSave(q, newMem, newRepl, restored, event)
    BY <1>4, Zenon DEF Operation, Save, Assign, Update, Reassign, Remove, CompleteClear,
         UpdateStatus, TransitionIfCurrent, RecordAtomicIntent, RecordAtomicClaim,
         RecordAtomicDispatchStarted, RecordAtomicDispatchSent
  <2> QED BY <1>1, <2>1 DEF BeginSave
<1>5. ASSUME NEW q \in Store, PublishBackup(q)
      PROVE  q = p
  BY <1>1, <1>5 DEF PublishBackup
<1>6. ~UNCHANGED vars
  BY <1>1 DEF vars
<1> QED BY <1>2, <1>3, <1>4, <1>5, <1>6 DEF Next

\* A row whose writer has not seen it as it is on disk: the merge gives its attempt, its
\* terminal status and its dispatch state back.
LEMMA StaleMerge ==
    ASSUME LedgerInv, WriterInv, NEW p \in Store, PublishBackup(p), NEW b \in Bead,
           Durable.rows[b] # NoRow, base[p][b] # Durable.rows[b]
    PROVE  /\ SameAttempt(Durable.rows[b], Durable'.rows[b])
           /\ Durable.rows[b].status \in TerminalStatus
                  => \/ Durable'.rows[b].status = Durable.rows[b].status
                     \/ base[p][b] # NoRow /\ base[p][b].status = Durable.rows[b].status
           /\ \/ Durable'.rows[b].dispatch = Durable.rows[b].dispatch
              \/ base[p][b] # NoRow /\ base[p][b].dispatch = Durable.rows[b].dispatch
<1>1. Durable'.rows[b] = Merge(Durable.rows, base[p], mem[p].rows, repl[p])[b]
  BY PublishBackupPreserves DEF MergedSnapshot
<1>2. pc[p] = "saving" /\ ~Conflict(Durable.rows, base[p], mem[p].rows, repl[p], b)
  BY DEF PublishBackup
<1>3. CASE mem[p].rows[b] = base[p][b] \/ mem[p].rows[b] = NoRow \/ base[p][b] = NoRow \/ b \in repl[p]
  <2>1. Durable'.rows[b] = Durable.rows[b]
    BY <1>1, <1>2, <1>3 DEF Merge, Conflict
  <2> QED BY <2>1 DEF SameAttempt
<1>4. CASE mem[p].rows[b] # base[p][b] /\ mem[p].rows[b] # NoRow /\ base[p][b] # NoRow /\ b \notin repl[p]
  <2>1. Durable'.rows[b] = MergeRow(Durable.rows[b], base[p][b], mem[p].rows[b])
    BY <1>1, <1>4 DEF Merge
  <2>2. /\ SameAttempt(mem[p].rows[b], base[p][b])
        /\ opLock[b] = p \/ mem[p].rows[b].dispatch = base[p][b].dispatch
    BY <1>2, <1>4 DEF WriterInv, ChangeInv
  <2>3. SameAttempt(base[p][b], Durable.rows[b])
    BY <1>2, <1>4 DEF Conflict, SameAttempt
  <2>4. opLock[b] = p => base[p][b].dispatch = Durable.rows[b].dispatch
    BY <1>2, <2>3 DEF WriterInv, HolderInv
  <2>5. Durable'.rows[b].attempt = Durable.rows[b].attempt /\ Durable'.rows[b] # NoRow
    <3>1. Durable'.rows[b].attempt = Durable.rows[b].attempt
      BY <2>1, <2>2 DEF MergeRow, SameAttempt
    <3>2. Durable'.rows[b] \in Row
      <4>1. /\ mem[p].rows[b] \in Row /\ base[p][b] \in Row /\ Durable.rows[b] \in Row
        BY <1>4, DurableType DEF LedgerInv, TypeOK, Memory, Snapshot, Ledger
      <4> QED BY <2>1, <4>1 DEF MergeRow, Row
    <3> QED BY <3>1, <3>2, NoRowAssumption
  <2>6. ASSUME Durable.rows[b].status \in TerminalStatus, base[p][b].status # Durable.rows[b].status
        PROVE  Durable'.rows[b].status = Durable.rows[b].status
    BY <2>1, <2>6 DEF MergeRow, ShouldApplyStatusDelta
  <2>7. ASSUME base[p][b].dispatch # Durable.rows[b].dispatch
        PROVE  Durable'.rows[b].dispatch = Durable.rows[b].dispatch
    BY <2>1, <2>2, <2>4, <2>7 DEF MergeRow
  <2> QED BY <1>4, <2>5, <2>6, <2>7 DEF SameAttempt
<1> QED BY <1>3, <1>4

--------------------------------------------------------------------------------
(***************************************************************************)
(* Theorems.                                                               *)
(***************************************************************************)

\* The session's ledger directory is empty at first.
LEMMA InitEstablishes ==
    ASSUME Init
    PROVE  LedgerInv /\ Durable = EmptySnapshot
  BY DEF Init, LedgerInv, TypeOK, FilesInv, AttemptsInv, Created, Follows, Durable, PromoteBackup,
         NoUndo, EmptyMemory, EmptySnapshot, Memory, Ledger

\* The inductive invariant: files that a save left half done, and memories
\* that never go back behind their baselines.
THEOREM LedgerInvariant == Spec => []LedgerInv
<1>1. Init => LedgerInv
  BY InitEstablishes
<1>2. LedgerInv /\ [Next]_vars => LedgerInv'
  BY StepPreserves
<1> QED BY <1>1, <1>2, PTL DEF Spec

\* Type correctness; its hard part is that a merge of three ledgers is a
\* ledger, and that no save numbers a version beyond the last generation.
THEOREM TypeCorrect == Spec => []TypeOK
<1>1. LedgerInv => TypeOK
  BY DEF LedgerInv
<1> QED BY <1>1, LedgerInvariant, PTL

\* selectAssignmentSnapshot accepts the files whatever step a save died in.
THEOREM StrictLoads == Spec => []StrictLoadNeverFails
<1>1. LedgerInv => StrictLoadNeverFails
  BY DEF LedgerInv, TypeOK, FilesInv, StrictLoadNeverFails, StrictError, Snapshot
<1> QED BY <1>1, LedgerInvariant, PTL

\* saveLocked is atomic for readers: the two files implement one ledger that
\* is replaced as a whole and in which no row returns to an earlier attempt.
THEOREM AtomicSaves == Spec => SavesAreAtomic
<1>1. Init => Durably!EmptyLedger
  BY InitEstablishes DEF Durably!EmptyLedger, EmptySnapshot
<1>2. ASSUME LedgerInv, NEW p \in Store, PublishBackup(p)
      PROVE  Durably!Publish
  <2>1. /\ Durable.rows \in Ledger /\ Durable.cleared \in [Bead -> Nat]
        /\ mem[p].cleared \in [Bead -> Nat]
    BY <1>2, DurableCreated DEF LedgerInv, TypeOK, Memory
  <2>2. Durable' = MergedSnapshot(p) /\ Follows(Durable'.rows, Durable.rows)
    BY <1>2, PublishBackupPreserves
  <2>3. Durable'.gen = Durable.gen + 1
    BY <2>2 DEF MergedSnapshot
  <2>4. \A b \in Bead : Durable'.cleared[b] >= Durable.cleared[b]
    BY <2>1, <2>2 DEF MergedSnapshot, MergeCleared
  <2>5. \A b \in Bead : Durable.rows[b] # NoRow /\ Durable'.rows[b] # NoRow
                            => Durable'.rows[b].attempt >= Durable.rows[b].attempt
    BY <2>2 DEF Follows
  <2> QED BY <2>3, <2>4, <2>5 DEF Durably!Publish
<1>3. LedgerInv /\ [Next]_vars => [Durably!Publish]_(Durably!vars)
  BY <1>2, StepPreserves DEF Durably!vars
<1> QED BY <1>1, <1>3, LedgerInvariant, PTL DEF Spec, SavesAreAtomic, Durably!Spec

\* confirmPersistedStatusLocked: what an event announces is on disk.
THEOREM ConfirmedEvents == Spec => []ConfirmedEventIsDurable
<1>1. Init => ConfirmedEventIsDurable
  BY DEF Init, ConfirmedEventIsDurable
<1>2. ASSUME LedgerInv, ConfirmedEventIsDurable, [Next]_vars
      PROVE  ConfirmedEventIsDurable'
  <2>1. CASE UNCHANGED vars
    BY <1>2, <2>1 DEF vars, ConfirmedEventIsDurable, Durable, PromoteBackup
  <2>2. ASSUME NEW p \in Store, PublishPrimary(p)
        PROVE  ConfirmedEventIsDurable'
    <3>1. backup # NoFile /\ backup \in Snapshot /\ primary' = backup /\ backup' = backup
      BY <1>2, <2>2 DEF LedgerInv, TypeOK, FilesInv, PublishPrimary
    <3>2. Durable'.rows = backup.rows
      BY <3>1 DEF Durable, PromoteBackup, Snapshot
    <3> QED BY <2>2, <3>2 DEF PublishPrimary, EventAfterSave, ConfirmedEventIsDurable
  <2>3. ASSUME NEW p \in Store, Operation(p)
        PROVE  announced' = NoEvent
    <3>1. PICK newMem, newRepl, restored, event : BeginSave(p, newMem, newRepl, restored, event)
      BY <2>3, Zenon DEF Operation, Save, Assign, Update, Reassign, Remove, CompleteClear,
           UpdateStatus, TransitionIfCurrent, RecordAtomicIntent, RecordAtomicClaim,
           RecordAtomicDispatchStarted, RecordAtomicDispatchSent
    <3> QED BY <3>1 DEF BeginSave
  <2>4. Next => announced' = NoEvent \/ \E p \in Store : PublishPrimary(p)
    BY <2>3 DEF Next, Load, LockBead, UnlockBead, SaveConflict, PublishBackup, SaveFails, Crash
  <2>5. announced' = NoEvent => ConfirmedEventIsDurable'
    BY DEF ConfirmedEventIsDurable
  <2> QED BY <1>2, <2>1, <2>2, <2>4, <2>5
<1> QED BY <1>1, <1>2, LedgerInvariant, PTL DEF Spec

\* The invariant, where a process does not outlive a failed save: with I/O errors a process
\* keeps what it failed to save, and the next save of it brings rows that it has read long ago.
THEOREM WritersKnowTheirRows == ~DiskErrors => (Spec => []MergeInv)
<1> SUFFICES ASSUME ~DiskErrors PROVE Spec => []MergeInv
  OBVIOUS
<1>1. Init => MergeInv
  <2> SUFFICES ASSUME Init PROVE MergeInv
    OBVIOUS
  <2>1. LedgerInv
    BY InitEstablishes
  <2>2. WriterInv
    BY NullAssumption DEF Init, WriterInv, CleanInv, ChangeInv, FreshInv, HolderInv, EmptyMemory,
         EmptySnapshot
  <2> QED BY <2>1, <2>2 DEF MergeInv
<1>2. MergeInv /\ [Next]_vars => MergeInv'
  BY MergeInvKept
<1> QED BY <1>1, <1>2, PTL DEF Spec

\* shouldApplyAssignmentStatusDelta and the conflicts of saveLocked: a terminal status that the
\* writer has not seen stays, and so does its row.
THEOREM TerminalKept == ~DiskErrors => (Spec => StaleWriterKeepsTerminal)
<1> SUFFICES ASSUME ~DiskErrors PROVE Spec => StaleWriterKeepsTerminal
  OBVIOUS
<1>1. ASSUME MergeInv, [Next]_vars, NEW p \in Store, NEW b \in Bead,
             Publishes(p), Durable.rows[b] # NoRow,
             Durable.rows[b].status \in TerminalStatus,
             base[p][b] # NoRow => base[p][b].status # Durable.rows[b].status
      PROVE  /\ SameAttempt(Durable.rows[b], Durable'.rows[b])
             /\ Durable'.rows[b].status = Durable.rows[b].status
  <2>1. PublishBackup(p) /\ LedgerInv /\ WriterInv
    BY <1>1, PublishesIsPublish DEF MergeInv, PublishBackup
  <2>2. base[p][b] # Durable.rows[b]
    BY <1>1
  <2> QED BY <1>1, <2>1, <2>2, StaleMerge
<1>2. MergeInv /\ [Next]_vars =>
          [\A p \in Store, b \in Bead :
             LET old == Durable.rows[b]
             IN  Publishes(p) /\ old # NoRow
                     => (/\ old.status \in TerminalStatus
                         /\ base[p][b] # NoRow => base[p][b].status # old.status
                         => /\ SameAttempt(old, Durable'.rows[b])
                            /\ Durable'.rows[b].status = old.status)]_vars
  BY <1>1
<1> QED BY <1>2, WritersKnowTheirRows, PTL DEF Spec, StaleWriterKeepsTerminal

\* mergeAssignmentDelta: a dispatch barrier or a receipt that the writer has not seen stays.
THEOREM BarrierKept == ~DiskErrors => (Spec => StaleWriterKeepsBarrier)
<1> SUFFICES ASSUME ~DiskErrors PROVE Spec => StaleWriterKeepsBarrier
  OBVIOUS
<1>1. ASSUME MergeInv, [Next]_vars, NEW p \in Store, NEW b \in Bead,
             Publishes(p), Durable.rows[b] # NoRow,
             base[p][b] # NoRow => base[p][b].dispatch # Durable.rows[b].dispatch
      PROVE  /\ SameAttempt(Durable.rows[b], Durable'.rows[b])
             /\ Durable'.rows[b].dispatch = Durable.rows[b].dispatch
  <2>1. PublishBackup(p) /\ LedgerInv /\ WriterInv
    BY <1>1, PublishesIsPublish DEF MergeInv, PublishBackup
  <2>2. base[p][b] # Durable.rows[b]
    BY <1>1
  <2> QED BY <1>1, <2>1, <2>2, StaleMerge
<1>2. MergeInv /\ [Next]_vars =>
          [\A p \in Store, b \in Bead :
             LET old == Durable.rows[b]
             IN  Publishes(p) /\ old # NoRow
                     => (/\ old.dispatch \in {"sending", "sent"}
                         /\ base[p][b] # NoRow => base[p][b].dispatch # old.dispatch
                         => /\ SameAttempt(old, Durable'.rows[b])
                            /\ Durable'.rows[b].dispatch = old.dispatch)]_vars
  BY <1>1
<1> QED BY <1>2, WritersKnowTheirRows, PTL DEF Spec, StaleWriterKeepsBarrier

================================================================================
