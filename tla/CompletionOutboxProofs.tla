------------------------- MODULE CompletionOutboxProofs -------------------------
(***************************************************************************)
(* Proofs about CompletionOutbox, for any number of beads, watch loops,    *)
(* attempts and outcomes, any length of queues and leases, with or without *)
(* crashes, disk errors, lapsing leases and replacements.                  *)
(***************************************************************************)
EXTENDS CompletionOutbox, TLAPS

\* Who may have finished an event; NoOne stands for the replacement that erased it.
Finisher == Consumer \cup {NoOne}

\* A watch loop works on an event; it acknowledges, now or without handling it
\* once more, only an event that it has handled.
LoopInv(c) ==
    /\ phase[c] # "idle" => current[c] \in Event
    /\ phase[c] = "acking" => <<c, current[c]>> \in done
    /\ \A e \in handled[c] : <<c, e>> \in done

IInv ==
    /\ TypeOK
    /\ RowsAreAcceptable
    /\ \A c \in Consumer : LoopInv(c)
    /\ HandledBy(Finisher)

-----------------------------------------------------------------------------
\* The types of what only the processes have.
ProcessesOK ==
    /\ attempts \in 0..MaxAttempt
    /\ cleanup \in [Bead -> Holder \cup {NoOne}]
    /\ alive \in [Consumer -> BOOLEAN]
    /\ seen \in [Consumer -> [Bead -> 0..MaxAttempt]]
    /\ recent \in [Consumer -> [Bead -> 0..MaxAttempt]]
    /\ claimed \in [Consumer -> Event \cup {NoEvent}]
    /\ queue \in [Consumer -> Seq(Event)]
    /\ \A c \in Consumer : Len(queue[c]) <= QueueSize
    /\ phase \in [Consumer -> {"idle", "handling", "acking"}]
    /\ current \in [Consumer -> Event \cup {NoEvent}]
    /\ handled \in [Consumer -> SUBSET Event]
    /\ crashes \in 0..MaxCrashes

\* The history variables.
HistoryOK ==
    /\ created \in SUBSET Event
    /\ done \in SUBSET (Finisher \X Event)

\* The halves make the type invariant.
LEMMA TypeParts ==
    /\ TypeOK <=> row \in [Bead -> Row \cup {NoRow}] /\ ProcessesOK /\ HistoryOK
    /\ TypeOK' <=> row' \in [Bead -> Row \cup {NoRow}] /\ ProcessesOK' /\ HistoryOK'
  BY DEF TypeOK, ProcessesOK, HistoryOK, Finisher

\* An outcome is not "none", and not a status of a live row.
LEMMA OutcomesDiffer ==
    /\ Outcome \subseteq TerminalOutcome
    /\ "none" \notin TerminalOutcome /\ "working" \notin TerminalOutcome
    /\ "none" \notin Outcome /\ "working" \notin Outcome
  BY OutboxAssumption DEF OutboxAssumption, TerminalOutcome

\* What is known of a row that is there.
LEMMA RowIsTyped ==
    ASSUME TypeOK, NEW b \in Bead, HasRow(b)
    PROVE  /\ row[b] \in Row
           /\ row[b].attempt \in Attempt /\ row[b].attempt \in 0..MaxAttempt
           /\ row[b].event # "none" => row[b].event \in Outcome /\ EventOf(b) \in Event
           /\ row[b].lease \in 0..Lease
           /\ row[b].token \in Consumer \cup {NoOne}
  <1>1. row[b] \in Row
    BY DEF TypeOK, HasRow
  <1>2. /\ row[b].attempt \in Attempt /\ row[b].event \in {"none"} \cup Outcome
        /\ row[b].lease \in 0..Lease /\ row[b].token \in Consumer \cup {NoOne}
    BY <1>1 DEF Row
  <1>3. row[b].attempt \in 0..MaxAttempt
    BY <1>2, OutboxAssumption DEF Attempt, OutboxAssumption
  <1>4. row[b].event # "none" => EventOf(b) \in Event
    BY <1>2, OutcomesDiffer DEF EventOf, Event
  <1>5. QED
    BY <1>1, <1>2, <1>3, <1>4

-----------------------------------------------------------------------------
(***************************************************************************)
(* What a step may write: a row that readers accept, and one that keeps a  *)
(* pending event unless somebody has finished it.                          *)
(***************************************************************************)
KeepsEvent(b, new) ==
    HasRow(b) /\ row[b].event # "none" =>
        \/ new # NoRow /\ new.attempt = row[b].attempt /\ new.event = row[b].event
        \/ \E c \in Finisher : <<c, EventOf(b)>> \in done'

\* A save that keeps the event, successful or not, keeps the outbox.
LEMMA SaveKeeps ==
    ASSUME IInv, NEW b \in Bead, NEW new \in Row \cup {NoRow},
           Saved(b, new) \/ row' = row,
           new # NoRow => Acceptable(new),
           KeepsEvent(b, new), done \subseteq done', created' = created
    PROVE  /\ row' \in [Bead -> Row \cup {NoRow}]
           /\ RowsAreAcceptable' /\ HandledBy(Finisher)'
  <1>1. row \in [Bead -> Row \cup {NoRow}] /\ created \in SUBSET Event
        /\ RowsAreAcceptable /\ HandledBy(Finisher)
    BY DEF IInv, TypeOK
  <1>2. row' \in [Bead -> Row \cup {NoRow}] /\ (row' = row \/ row'[b] = new)
        /\ \A d \in Bead \ {b} : row'[d] = row[d]
    BY <1>1 DEF Saved
  <1>3. RowsAreAcceptable'
    BY <1>1, <1>2 DEF RowsAreAcceptable, HasRow
  <1>4. ASSUME NEW e \in created, ~ \E c \in Finisher : <<c, e>> \in done'
        PROVE  Pending(e)'
    <2>1. Pending(e) /\ e \in Event
      BY <1>1, <1>4 DEF HandledBy
    <2>2. e.bead \in Bead /\ e.outcome # "none"
      BY <2>1, OutcomesDiffer DEF Event
    <2>3. CASE e.bead # b \/ row' = row
      BY <1>2, <2>1, <2>2, <2>3 DEF Pending
    <2>4. CASE e.bead = b /\ row'[b] = new
      <3>1. HasRow(b) /\ row[b].event # "none" /\ EventOf(b) = e
        BY <2>1, <2>2, <2>4 DEF Pending, HasRow, EventOf, Event
      <3>2. new # NoRow /\ new.attempt = row[b].attempt /\ new.event = row[b].event
        BY <1>4, <3>1 DEF KeepsEvent
      <3>3. QED
        BY <2>1, <2>4, <3>2 DEF Pending
    <2>5. QED
      BY <1>2, <2>3, <2>4
  <1>5. HandledBy(Finisher)'
    BY <1>4 DEF HandledBy
  <1>6. QED
    BY <1>2, <1>3, <1>5

\* A save that writes an event where none was pending puts it in the outbox.
LEMMA SaveCreates ==
    ASSUME IInv, NEW b \in Bead, HasRow(b), NEW new \in Row,
           Saved(b, new) \/ row' = row,
           Acceptable(new), row[b].event = "none", new.event \in Outcome,
           created' = IF row' # row THEN created \cup {EventOf(b)'} ELSE created, done' = done
    PROVE  /\ row' \in [Bead -> Row \cup {NoRow}] /\ created' \in SUBSET Event
           /\ RowsAreAcceptable' /\ HandledBy(Finisher)'
  <1>1. row \in [Bead -> Row \cup {NoRow}] /\ created \in SUBSET Event
        /\ RowsAreAcceptable /\ HandledBy(Finisher)
    BY DEF IInv, TypeOK
  <1>2. CASE row' = row
    BY <1>1, <1>2 DEF RowsAreAcceptable, HasRow, HandledBy, Pending
  <1>3. CASE row' # row
    <2>1. row' = [row EXCEPT ![b] = new] /\ created' = created \cup {EventOf(b)'}
      BY <1>3 DEF Saved
    <2>2. row' \in [Bead -> Row \cup {NoRow}] /\ row'[b] = new
          /\ \A d \in Bead \ {b} : row'[d] = row[d]
      BY <1>1, <2>1
    <2>3. EventOf(b)' = [bead |-> b, attempt |-> new.attempt, outcome |-> new.event]
      BY <2>2 DEF EventOf
    <2>4. new.attempt \in Attempt /\ new.event \in TerminalOutcome /\ new # NoRow
      BY OutcomesDiffer, NoRowAssumption DEF Row, NoRowAssumption
    <2>5. EventOf(b)' \in Event
      BY <2>3, <2>4 DEF Event
    <2>6. ASSUME NEW e, e = EventOf(b)' PROVE Pending(e)'
      BY <2>2, <2>3, <2>4, <2>6 DEF Pending
    <2>7. RowsAreAcceptable'
      BY <1>1, <2>2 DEF RowsAreAcceptable, HasRow
    <2>8. ASSUME NEW e \in created, ~ \E c \in Finisher : <<c, e>> \in done
          PROVE  Pending(e)'
      <3>1. Pending(e) /\ e \in Event
        BY <1>1, <2>8 DEF HandledBy
      <3>2. e.bead \in Bead /\ e.outcome # "none"
        BY <3>1, OutcomesDiffer DEF Event
      <3>3. e.bead # b
        BY <3>1, <3>2 DEF Pending
      <3>4. QED
        BY <2>2, <3>1, <3>2, <3>3 DEF Pending
    <2>9. \A e \in created' : Pending(e)' \/ \E c \in Finisher : <<c, e>> \in done'
      BY <2>1, <2>6, <2>8
    <2>10. QED
      BY <1>1, <2>1, <2>2, <2>5, <2>7, <2>9 DEF HandledBy
  <1>4. QED
    BY <1>2, <1>3

\* The watch loops whose own state a step leaves alone.
LEMMA LoopStep ==
    ASSUME IInv, NEW c \in Consumer, LoopInv(c)', done \subseteq done',
           \A d \in Consumer \ {c} :
               phase'[d] = phase[d] /\ current'[d] = current[d] /\ handled'[d] = handled[d]
    PROVE  \A d \in Consumer : LoopInv(d)'
  <1>1. ASSUME NEW d \in Consumer \ {c} PROVE LoopInv(d)'
    BY <1>1 DEF IInv, LoopInv
  <1>2. QED
    BY <1>1

\* A step that leaves the watch loops alone keeps what is known of each.
LEMMA LoopsStay ==
    ASSUME IInv, UNCHANGED watchLoop, done \subseteq done'
    PROVE  \A d \in Consumer : LoopInv(d)'
  <1>1. ASSUME NEW d \in Consumer PROVE LoopInv(d)'
    BY <1>1 DEF IInv, LoopInv, watchLoop
  <1>2. QED
    BY <1>1

\* A step that saves nothing, whatever the processes do.
LEMMA NothingSaved ==
    ASSUME IInv, UNCHANGED <<row, created>>, done \subseteq done'
    PROVE  /\ row' \in [Bead -> Row \cup {NoRow}]
           /\ RowsAreAcceptable' /\ HandledBy(Finisher)'
           /\ done' = done => HistoryOK'
  BY DEF IInv, TypeOK, HistoryOK, Finisher, RowsAreAcceptable, HasRow, HandledBy, Pending

-----------------------------------------------------------------------------
(***************************************************************************)
(* Attempts, detectors and cleanups.                                       *)
(***************************************************************************)

\* A row that leaves its event alone, saved by a step that only saves.
LEMMA RowPreserves ==
    ASSUME IInv, NEW b \in Bead, NEW new \in Row \cup {NoRow},
           Saved(b, new) \/ row' = row,
           new # NoRow => Acceptable(new),
           HasRow(b) /\ row[b].event # "none" =>
               new # NoRow /\ new.attempt = row[b].attempt /\ new.event = row[b].event,
           UNCHANGED <<watchLoop, created, done>>, ProcessesOK'
    PROVE  IInv'
  <1>1. KeepsEvent(b, new)
    BY DEF KeepsEvent
  <1>2. /\ row' \in [Bead -> Row \cup {NoRow}]
        /\ RowsAreAcceptable' /\ HandledBy(Finisher)'
    BY <1>1, SaveKeeps
  <1>3. HistoryOK'
    BY TypeParts DEF IInv, HistoryOK
  <1>4. \A d \in Consumer : LoopInv(d)'
    BY LoopsStay
  <1>5. QED
    BY <1>2, <1>3, <1>4, TypeParts DEF IInv

\* A new attempt takes a row without an event.
LEMMA BeginAttemptPreserves ==
    ASSUME IInv, NEW b \in Bead, BeginAttempt(b)
    PROVE  IInv'
  <1>1. TypeOK /\ ProcessesOK
    BY TypeParts DEF IInv
  <1>2. attempts' \in Attempt /\ attempts' \in 0..MaxAttempt
    BY <1>1, OutboxAssumption DEF BeginAttempt, ProcessesOK, Attempt, OutboxAssumption
  <1>3. NewRow(attempts') \in Row /\ Acceptable(NewRow(attempts'))
    BY <1>2, OutboxAssumption DEF NewRow, Row, Acceptable, OutboxAssumption
  <1>4. ProcessesOK'
    BY <1>1, <1>2 DEF BeginAttempt, ProcessesOK, detector, watchLoop
  <1>5. QED
    BY <1>3, <1>4, RowPreserves DEF BeginAttempt, MayBeginAttempt

\* A replacement erases an event, and the history says so.
LEMMA ReplaceWorkingPreserves ==
    ASSUME IInv, NEW b \in Bead, ReplaceWorking(b)
    PROVE  IInv'
  <1>1. TypeOK /\ ProcessesOK /\ HistoryOK /\ HasRow(b)
    BY TypeParts DEF IInv, ReplaceWorking
  <1>2. attempts' \in Attempt /\ attempts' \in 0..MaxAttempt
    BY <1>1, OutboxAssumption DEF ReplaceWorking, ProcessesOK, Attempt, OutboxAssumption
  <1>3. NewRow(attempts') \in Row /\ Acceptable(NewRow(attempts'))
    BY <1>2, OutboxAssumption DEF NewRow, Row, Acceptable, OutboxAssumption
  <1>4. ProcessesOK'
    BY <1>1, <1>2 DEF ReplaceWorking, ProcessesOK, detector, watchLoop
  <1>5. done \subseteq done' /\ KeepsEvent(b, NewRow(attempts'))
    BY DEF ReplaceWorking, KeepsEvent, Finisher
  <1>6. HistoryOK'
    <2>1. row[b].event # "none" => EventOf(b) \in Event
      BY <1>1, RowIsTyped
    <2>2. QED
      BY <1>1, <2>1 DEF ReplaceWorking, HistoryOK, Finisher
  <1>7. row' \in [Bead -> Row \cup {NoRow}] /\ RowsAreAcceptable' /\ HandledBy(Finisher)'
    BY <1>3, <1>5, SaveKeeps DEF ReplaceWorking
  <1>8. \A d \in Consumer : LoopInv(d)'
    BY <1>5, LoopsStay DEF ReplaceWorking
  <1>9. QED
    BY <1>4, <1>6, <1>7, <1>8, TypeParts DEF IInv

\* The detector's pass over the ledger.
LEMMA ScanPreserves ==
    ASSUME IInv, NEW c \in Consumer, Scan(c)
    PROVE  IInv'
  <1>1. TypeOK /\ ProcessesOK
    BY TypeParts DEF IInv
  <1>2. [b \in Bead |-> IF HasRow(b) /\ row[b].status = "working" /\ row[b].clear = "none"
                        THEN row[b].attempt ELSE 0] \in [Bead -> 0..MaxAttempt]
    <2>1. 0 \in 0..MaxAttempt
      BY OutboxAssumption DEF OutboxAssumption
    <2>2. QED
      BY <1>1, <2>1, RowIsTyped
  <1>3. ProcessesOK'
    BY <1>1, <1>2 DEF Scan, ProcessesOK, watchLoop
  <1>4. QED
    BY <1>3, NothingSaved, LoopsStay, TypeParts DEF Scan, IInv

\* The barrier goes up with its event, or an event is written after it.
LEMMA BeginTerminalWithEventPreserves ==
    ASSUME IInv, NEW c \in Consumer, NEW b \in Bead, NEW o \in Outcome,
           BeginTerminalWithEvent(c, b, o)
    PROVE  IInv'
  <1>1. TypeOK /\ ProcessesOK /\ HasRow(b) /\ Acceptable(row[b]) /\ HistoryOK
    BY TypeParts DEF IInv, BeginTerminalWithEvent, RowsAreAcceptable
  <1>2. row[b] \in Row
    BY <1>1, RowIsTyped
  <1>3. PICK new : new = IF row[b].clear = "none" /\ row[b].status = "working"
                         THEN WithEvent(WithBarrier(row[b], o), o) ELSE WithEvent(row[b], o)
    OBVIOUS
  <1>4. /\ Saved(b, new) \/ row' = row
        /\ \/ row[b].clear = "none" /\ row[b].status = "working"
           \/ MayBackfill(row[b], o)
        /\ created' = IF row' # row THEN created \cup {EventOf(b)'} ELSE created
        /\ UNCHANGED <<attempts, cleanup, alive, recent, claimed, queue, watchLoop, crashes, done>>
    BY <1>3 DEF BeginTerminalWithEvent, SaveFailed
  <1>5. row[b].event = "none"
    BY <1>1, <1>4, OutcomesDiffer DEF Acceptable, MayBackfill
  <1>6. new \in Row /\ new.event \in Outcome
    <2>1. 0 \in 0..Lease
      BY OutboxAssumption DEF OutboxAssumption
    <2>2. WithEvent(row[b], o) \in Row /\ WithEvent(row[b], o).event = o
      BY <1>2, <2>1 DEF WithEvent, Row
    <2>3. WithBarrier(row[b], o) \in Row
      BY <1>2, <2>1 DEF WithBarrier, Row
    <2>4. WithEvent(WithBarrier(row[b], o), o) \in Row /\ WithEvent(WithBarrier(row[b], o), o).event = o
      BY <2>1, <2>3 DEF WithEvent, Row
    <2>5. QED
      BY <1>3, <2>2, <2>4
  <1>7. Acceptable(new)
    <2>1. CASE row[b].clear = "none" /\ row[b].status = "working"
      <3>1. new = WithEvent(WithBarrier(row[b], o), o)
        BY <1>3, <2>1
      <3>2. new.token = NoOne /\ new.clear = "releasing" /\ new.pending = o
        BY <1>2, <3>1 DEF WithEvent, WithBarrier, Row
      <3>3. QED
        BY <3>2, OutcomesDiffer DEF Acceptable
    <2>2. CASE ~ (row[b].clear = "none" /\ row[b].status = "working")
      <3>1. new = WithEvent(row[b], o) /\ MayBackfill(row[b], o)
        BY <1>3, <1>4, <2>2
      <3>2. new.token = NoOne /\ new.clear = row[b].clear /\ new.pending = row[b].pending
            /\ new.status = row[b].status
        BY <1>2, <3>1 DEF WithEvent, Row
      <3>3. QED
        BY <3>1, <3>2, OutcomesDiffer DEF Acceptable, MayBackfill
    <2>3. QED
      BY <2>1, <2>2
  <1>8. /\ row' \in [Bead -> Row \cup {NoRow}] /\ created' \in SUBSET Event
        /\ RowsAreAcceptable' /\ HandledBy(Finisher)'
    BY <1>1, <1>4, <1>5, <1>6, <1>7, SaveCreates
  <1>9. ProcessesOK'
    <2>1. seen' = [seen EXCEPT ![c][b] = 0] /\ 0 \in 0..MaxAttempt
      BY OutboxAssumption DEF BeginTerminalWithEvent, OutboxAssumption
    <2>2. QED
      BY <1>1, <1>4, <2>1 DEF ProcessesOK, watchLoop
  <1>10. \A d \in Consumer : LoopInv(d)'
    BY <1>4, LoopsStay
  <1>11. HistoryOK'
    BY <1>1, <1>4, <1>8 DEF HistoryOK
  <1>12. QED
    BY <1>8, <1>9, <1>10, <1>11, TypeParts DEF IInv

\* Who begins or ends a cleanup takes or drops a lock.
LEMMA BeginCleanupPreserves ==
    ASSUME IInv, NEW b \in Bead, NEW h \in Holder, BeginCleanup(h, b)
    PROVE  IInv'
  <1>1. ProcessesOK
    BY TypeParts DEF IInv
  <1>2. ProcessesOK'
    BY <1>1 DEF BeginCleanup, ProcessesOK, detector, watchLoop
  <1>3. QED
    BY <1>2, NothingSaved, LoopsStay, TypeParts DEF BeginCleanup, IInv

\* A cleanup that ends, or the death of its holder, gives the lock back.
LEMMA EndCleanupPreserves ==
    ASSUME IInv, NEW b \in Bead, EndCleanup(b)
    PROVE  IInv'
  <1>1. ProcessesOK
    BY TypeParts DEF IInv
  <1>2. ProcessesOK'
    BY <1>1 DEF EndCleanup, ProcessesOK, detector, watchLoop
  <1>3. QED
    BY <1>2, NothingSaved, LoopsStay, TypeParts DEF EndCleanup, IInv

\* A step of a cleanup: it saves the row under the lock.
LEMMA CleanupPreserves ==
    ASSUME IInv, NEW b \in Bead, NEW h, NEW new \in Row \cup {NoRow}, CleanupStep(h, b, new),
           new # NoRow => Acceptable(new),
           row[b].event # "none" =>
               new # NoRow /\ new.attempt = row[b].attempt /\ new.event = row[b].event
    PROVE  IInv'
  <1>1. ProcessesOK
    BY TypeParts DEF IInv
  <1>2. ProcessesOK' /\ (Saved(b, new) \/ row' = row) /\ UNCHANGED <<watchLoop, created, done>>
    BY <1>1 DEF CleanupStep, SaveFailed, ProcessesOK, detector, watchLoop
  <1>3. QED
    BY <1>2, RowPreserves

\* The row that a cleanup finds.
LEMMA AtCleanup ==
    ASSUME IInv, NEW b \in Bead, HasRow(b)
    PROVE  row[b] \in Row /\ row[b] # NoRow /\ Acceptable(row[b])
  BY RowIsTyped DEF IInv, RowsAreAcceptable, HasRow

\* The barrier without an event, for a row that has none.
LEMMA BeginTerminalPreserves ==
    ASSUME IInv, NEW b \in Bead, NEW o \in Outcome, BeginTerminal(b, o)
    PROVE  IInv'
  <1>1. PICK new : new = WithBarrier(row[b], o)
    OBVIOUS
  <1>2. /\ row[b] \in Row /\ Acceptable(row[b]) /\ row[b].clear = "none"
        /\ row[b].status = "working" /\ CleanupStep("coordinator", b, new)
    BY <1>1, AtCleanup DEF BeginTerminal, CleanupStep
  <1>3. row[b].event = "none"
    BY <1>2, OutcomesDiffer DEF Acceptable
  <1>4. new \in Row
    <2>1. 0 \in 0..Lease
      BY OutboxAssumption DEF OutboxAssumption
    <2>2. QED
      BY <1>1, <1>2, <2>1 DEF WithBarrier, Row
  <1>5. new.event = "none" /\ new.token = NoOne
    BY <1>1, <1>2 DEF WithBarrier, Row
  <1>6. Acceptable(new)
    BY <1>5 DEF Acceptable
  <1>7. QED
    BY <1>2, <1>3, <1>4, <1>6, CleanupPreserves

\* A clear begins on a row without an event, which therefore nobody has leased.
LEMMA BeginClearPreserves ==
    ASSUME IInv, NEW b \in Bead, BeginClear(b)
    PROVE  IInv'
  <1>1. PICK new : new = [row[b] EXCEPT !.clear = "releasing"]
    OBVIOUS
  <1>2. /\ row[b] \in Row /\ Acceptable(row[b]) /\ row[b].event = "none"
        /\ CleanupStep("clear", b, new)
    BY <1>1, AtCleanup DEF BeginClear, CleanupStep
  <1>3. new \in Row
    BY <1>1, <1>2 DEF Row
  <1>4. new.event = "none" /\ new.token = row[b].token
    BY <1>1, <1>2 DEF Row
  <1>5. Acceptable(new)
    BY <1>2, <1>4 DEF Acceptable
  <1>6. QED
    BY <1>2, <1>3, <1>5, CleanupPreserves

\* The leases are released: the event stays.
LEMMA LeasesReleasedPreserves ==
    ASSUME IInv, NEW b \in Bead, NEW h \in Holder, LeasesReleased(h, b)
    PROVE  IInv'
  <1>1. PICK new : new = [row[b] EXCEPT !.clear = "released"]
    OBVIOUS
  <1>2. /\ row[b] \in Row /\ row[b] # NoRow /\ Acceptable(row[b]) /\ row[b].clear = "releasing"
        /\ CleanupStep(h, b, new)
    BY <1>1, AtCleanup DEF LeasesReleased, CleanupStep
  <1>3. new \in Row
    BY <1>1, <1>2 DEF Row
  <1>4. /\ new.event = row[b].event /\ new.token = row[b].token /\ new.status = row[b].status
        /\ new.pending = row[b].pending /\ new.clear = "released" /\ new.attempt = row[b].attempt
    BY <1>1, <1>2 DEF Row
  <1>5. Acceptable(new) /\ new # NoRow
    BY <1>2, <1>3, <1>4, NoRowAssumption DEF Acceptable, NoRowAssumption
  <1>6. QED
    BY <1>2, <1>3, <1>4, <1>5, CleanupPreserves

\* The claim is released: the event stays.
LEMMA TerminalClaimReleasedPreserves ==
    ASSUME IInv, NEW b \in Bead, NEW h \in Holder, TerminalClaimReleased(h, b)
    PROVE  IInv'
  <1>1. PICK new : new = [row[b] EXCEPT !.claimFree = TRUE]
    OBVIOUS
  <1>2. /\ row[b] \in Row /\ row[b] # NoRow /\ Acceptable(row[b]) /\ CleanupStep(h, b, new)
    BY <1>1, AtCleanup DEF TerminalClaimReleased, CleanupStep
  <1>3. new \in Row
    BY <1>1, <1>2 DEF Row
  <1>4. /\ new.event = row[b].event /\ new.token = row[b].token /\ new.status = row[b].status
        /\ new.pending = row[b].pending /\ new.clear = row[b].clear /\ new.attempt = row[b].attempt
    BY <1>1, <1>2 DEF Row
  <1>5. Acceptable(new) /\ new # NoRow
    BY <1>2, <1>3, <1>4, NoRowAssumption DEF Acceptable, NoRowAssumption
  <1>6. QED
    BY <1>2, <1>3, <1>4, <1>5, CleanupPreserves

\* The row ends with its event, which nobody could lease before.
LEMMA CompleteTerminalPreserves ==
    ASSUME IInv, NEW b \in Bead, NEW h \in Holder, CompleteTerminal(h, b)
    PROVE  IInv'
  <1>1. PICK new : new = [row[b] EXCEPT !.status = row[b].pending, !.clear = "none",
                                        !.pending = "none", !.claimFree = FALSE]
    OBVIOUS
  <1>2. /\ row[b] \in Row /\ row[b] # NoRow /\ Acceptable(row[b]) /\ CleanupStep(h, b, new)
        /\ row[b].pending # "none" /\ row[b].clear = "released"
    BY <1>1, AtCleanup DEF CompleteTerminal, CleanupStep
  <1>3. row[b].pending \in Outcome
    BY <1>2 DEF Row
  <1>4. new \in Row
    BY <1>1, <1>2, <1>3 DEF Row
  <1>5. /\ new.event = row[b].event /\ new.token = row[b].token /\ new.status = row[b].pending
        /\ new.attempt = row[b].attempt
    BY <1>1, <1>2 DEF Row
  <1>6. Acceptable(new) /\ new # NoRow
    BY <1>2, <1>3, <1>4, <1>5, NoRowAssumption DEF Acceptable, NoRowAssumption
  <1>7. QED
    BY <1>2, <1>4, <1>5, <1>6, CleanupPreserves

\* A cleared row had no event.
LEMMA CompleteClearPreserves ==
    ASSUME IInv, NEW b \in Bead, CompleteClear(b)
    PROVE  IInv'
  <1>1. CleanupStep("clear", b, NoRow) /\ row[b].event = "none"
    BY DEF CompleteClear
  <1>2. QED
    BY <1>1, CleanupPreserves

-----------------------------------------------------------------------------
(***************************************************************************)
(* Leases, queues and handlers.                                            *)
(***************************************************************************)

\* A lease changes nothing about an ended row with its event.
LEMMA LeaseIsAcceptable ==
    ASSUME IInv, NEW c \in Consumer, NEW b \in Bead, HasRow(b), row[b].event # "none",
           row[b].status \in Outcome, row[b].clear = "none"
    PROVE  /\ WithLease(row[b], c) \in Row /\ WithLease(row[b], c) # NoRow
           /\ Acceptable(WithLease(row[b], c))
           /\ WithLease(row[b], c).attempt = row[b].attempt
           /\ WithLease(row[b], c).event = row[b].event
  <1>1. PICK new : new = WithLease(row[b], c)
    OBVIOUS
  <1>2. row[b] \in Row
    BY AtCleanup
  <1>3. Lease \in 0..Lease
    BY OutboxAssumption DEF OutboxAssumption
  <1>4. new \in Row
    BY <1>1, <1>2, <1>3 DEF WithLease, Row
  <1>5. /\ new.attempt = row[b].attempt /\ new.event = row[b].event
        /\ new.status = row[b].status /\ new.clear = row[b].clear
    BY <1>1, <1>2 DEF WithLease, Row
  <1>6. Acceptable(new) /\ new # NoRow
    BY <1>4, <1>5, NoRowAssumption DEF Acceptable, NoRowAssumption
  <1>7. QED
    BY <1>1, <1>4, <1>5, <1>6

\* Only the event of an ended row is leased.
LEMMA LeasedRow ==
    ASSUME IInv, NEW c \in Consumer, NEW e \in Event, OwnsLiveLease(c, e)
    PROVE  /\ e.bead \in Bead /\ HasRow(e.bead) /\ EventOf(e.bead) = e
           /\ row[e.bead] \in Row
           /\ row[e.bead].event # "none" /\ row[e.bead].status \in Outcome
           /\ row[e.bead].clear = "none"
  <1>1. e.bead \in Bead /\ HasRow(e.bead) /\ EventOf(e.bead) = e
    BY DEF Event, OwnsLiveLease, Pending, HasRow, EventOf
  <1>2. row[e.bead].token # NoOne
    BY OutboxAssumption DEF OwnsLiveLease, OutboxAssumption
  <1>3. row[e.bead] \in Row /\ Acceptable(row[e.bead])
    BY <1>1, AtCleanup
  <1>4. QED
    BY <1>1, <1>2, <1>3 DEF Acceptable

\* The lease of an owner is renewed, or the save fails.
LEMMA RenewalKeeps ==
    ASSUME IInv, NEW c \in Consumer, NEW e \in Event, OwnsLiveLease(c, e),
           Saved(e.bead, WithLease(row[e.bead], c)) \/ SaveFailed(e.bead, WithLease(row[e.bead], c)),
           done \subseteq done', created' = created
    PROVE  /\ row' \in [Bead -> Row \cup {NoRow}]
           /\ RowsAreAcceptable' /\ HandledBy(Finisher)'
  <1>1. PICK b : b = e.bead
    OBVIOUS
  <1>2. PICK new : new = WithLease(row[b], c)
    OBVIOUS
  <1>3. b \in Bead /\ new \in Row /\ Acceptable(new) /\ KeepsEvent(b, new)
    BY <1>1, <1>2, LeasedRow, LeaseIsAcceptable DEF KeepsEvent
  <1>4. Saved(b, new) \/ row' = row
    BY <1>1, <1>2 DEF SaveFailed
  <1>5. QED
    BY <1>3, <1>4, SaveKeeps

\* A step that renews or leaves the row, finishes nothing.
LEMMA LoopPreserves ==
    ASSUME IInv, NEW c \in Consumer,
           row' \in [Bead -> Row \cup {NoRow}], RowsAreAcceptable', HandledBy(Finisher)',
           HistoryOK', done \subseteq done', ProcessesOK', LoopInv(c)',
           \A d \in Consumer \ {c} :
               phase'[d] = phase[d] /\ current'[d] = current[d] /\ handled'[d] = handled[d]
    PROVE  IInv'
  <1>1. \A d \in Consumer : LoopInv(d)'
    BY LoopStep
  <1>2. QED
    BY <1>1, TypeParts DEF IInv

\* A detector takes the lease, or learns that it might have it.
LEMMA ClaimEventPreserves ==
    ASSUME IInv, NEW c \in Consumer, NEW b \in Bead, ClaimEvent(c, b)
    PROVE  IInv'
  <1>1. PICK new : new = WithLease(row[b], c)
    OBVIOUS
  <1>2. TypeOK /\ ProcessesOK /\ HasRow(b) /\ row[b].event # "none"
        /\ row[b].status \in Outcome /\ row[b].clear = "none"
    BY TypeParts DEF IInv, ClaimEvent
  <1>3. new \in Row /\ Acceptable(new) /\ new # NoRow
        /\ new.attempt = row[b].attempt /\ new.event = row[b].event
    BY <1>1, <1>2, LeaseIsAcceptable
  <1>4. /\ Saved(b, new) \/ row' = row
        /\ UNCHANGED <<attempts, cleanup, alive, seen, queue, watchLoop, crashes, created, done>>
        /\ \/ /\ claimed' = [claimed EXCEPT ![c] = EventOf(b)]
              /\ recent' = [recent EXCEPT ![c][b] = row[b].attempt]
           \/ UNCHANGED <<claimed, recent>>
    BY <1>1 DEF ClaimEvent, SaveFailed
  <1>5. EventOf(b) \in Event /\ row[b].attempt \in 0..MaxAttempt
    BY <1>2, RowIsTyped
  <1>6. ProcessesOK'
    <2>1. claimed' \in [Consumer -> Event \cup {NoEvent}]
      BY <1>2, <1>4, <1>5 DEF ProcessesOK
    <2>2. recent' \in [Consumer -> [Bead -> 0..MaxAttempt]]
      <3>1. recent \in [Consumer -> [Bead -> 0..MaxAttempt]]
        BY <1>2 DEF ProcessesOK
      <3>2. CASE recent' = recent
        BY <3>1, <3>2
      <3>3. CASE recent' = [recent EXCEPT ![c][b] = row[b].attempt]
        BY <3>1, <3>3, <1>5
      <3>4. QED
        BY <1>4, <3>2, <3>3
    <2>3. QED
      BY <1>2, <1>4, <2>1, <2>2 DEF ProcessesOK, watchLoop
  <1>7. QED
    BY <1>3, <1>4, <1>6, RowPreserves

\* The channel takes one event more, if it has room.
LEMMA EnqueuePreserves ==
    ASSUME IInv, NEW c \in Consumer, Enqueue(c)
    PROVE  IInv'
  <1>1. ProcessesOK
    BY TypeParts DEF IInv
  <1>2. claimed[c] \in Event /\ queue[c] \in Seq(Event) /\ Len(queue[c]) < QueueSize
    BY <1>1 DEF Enqueue, ProcessesOK, HasRoom
  <1>3. PICK q : q = Append(queue[c], claimed[c])
    OBVIOUS
  <1>4. q \in Seq(Event) /\ Len(q) <= QueueSize
    BY <1>2, <1>3, OutboxAssumption DEF OutboxAssumption
  <1>5. queue' = [queue EXCEPT ![c] = q] /\ claimed' = [claimed EXCEPT ![c] = NoEvent]
    BY <1>3 DEF Enqueue
  <1>6. queue' \in [Consumer -> Seq(Event)] /\ \A d \in Consumer : Len(queue'[d]) <= QueueSize
    BY <1>1, <1>4, <1>5 DEF ProcessesOK
  <1>7. ProcessesOK'
    BY <1>1, <1>5, <1>6 DEF Enqueue, ProcessesOK, watchLoop
  <1>8. QED
    BY <1>7, NothingSaved, LoopsStay, TypeParts DEF Enqueue, IInv

\* The dedup window passes.
LEMMA ForgetRecentPreserves ==
    ASSUME IInv, NEW c \in Consumer, NEW b \in Bead, ForgetRecent(c, b)
    PROVE  IInv'
  <1>1. ProcessesOK /\ 0 \in 0..MaxAttempt
    BY TypeParts, OutboxAssumption DEF IInv, OutboxAssumption
  <1>2. ProcessesOK'
    BY <1>1 DEF ForgetRecent, ProcessesOK, watchLoop
  <1>3. QED
    BY <1>2, NothingSaved, LoopsStay, TypeParts DEF ForgetRecent, IInv

\* The event at the head of a channel.
LEMMA HeadOfQueue ==
    ASSUME ProcessesOK, NEW c \in Consumer, queue[c] # <<>>,
           queue' = [queue EXCEPT ![c] = Tail(@)]
    PROVE  /\ Head(queue[c]) \in Event
           /\ queue' \in [Consumer -> Seq(Event)]
           /\ \A d \in Consumer : Len(queue'[d]) <= QueueSize
  <1>1. queue[c] \in Seq(Event) /\ Len(queue[c]) <= QueueSize /\ queue \in [Consumer -> Seq(Event)]
    BY DEF ProcessesOK
  <1>2. PICK q : q = Tail(queue[c])
    OBVIOUS
  <1>3. q \in Seq(Event) /\ Len(q) <= QueueSize /\ Head(queue[c]) \in Event
    BY <1>1, <1>2, OutboxAssumption DEF OutboxAssumption
  <1>4. queue' = [queue EXCEPT ![c] = q]
    BY <1>2
  <1>5. QED
    BY <1>1, <1>3, <1>4 DEF ProcessesOK

\* An event that this process has handled goes to its acknowledgement.
LEMMA TakeHandledPreserves ==
    ASSUME IInv, NEW c \in Consumer, TakeHandled(c)
    PROVE  IInv'
  <1>1. ProcessesOK /\ HistoryOK
    BY TypeParts DEF IInv
  <1>2. PICK e : e = Head(queue[c])
    OBVIOUS
  <1>3. /\ e \in Event /\ queue' \in [Consumer -> Seq(Event)]
        /\ \A d \in Consumer : Len(queue'[d]) <= QueueSize
    BY <1>1, <1>2, HeadOfQueue DEF TakeHandled
  <1>4. /\ phase' = [phase EXCEPT ![c] = "acking"] /\ current' = [current EXCEPT ![c] = e]
        /\ e \in handled[c]
        /\ UNCHANGED <<row, attempts, cleanup, alive, detector, handled, crashes, created, done>>
    BY <1>2 DEF TakeHandled
  <1>5. ProcessesOK'
    BY <1>1, <1>3, <1>4 DEF ProcessesOK, detector
  <1>6. LoopInv(c)'
    BY <1>1, <1>3, <1>4 DEF IInv, LoopInv, ProcessesOK
  <1>7. QED
    BY <1>1, <1>4, <1>5, <1>6, NothingSaved, LoopPreserves DEF ProcessesOK

\* A new event is handled under a lease that was renewed.
LEMMA TakeNewPreserves ==
    ASSUME IInv, NEW c \in Consumer, TakeNew(c)
    PROVE  IInv'
  <1>1. ProcessesOK /\ HistoryOK
    BY TypeParts DEF IInv
  <1>2. PICK e : e = Head(queue[c])
    OBVIOUS
  <1>3. /\ e \in Event /\ queue' \in [Consumer -> Seq(Event)]
        /\ \A d \in Consumer : Len(queue'[d]) <= QueueSize
    BY <1>1, <1>2, HeadOfQueue DEF TakeNew
  <1>4. /\ phase' = [phase EXCEPT ![c] = "handling"] /\ current' = [current EXCEPT ![c] = e]
        /\ OwnsLiveLease(c, e) /\ Saved(e.bead, WithLease(row[e.bead], c))
        /\ UNCHANGED <<attempts, cleanup, alive, detector, handled, crashes, created, done>>
    BY <1>2 DEF TakeNew
  <1>5. ProcessesOK'
    BY <1>1, <1>3, <1>4 DEF ProcessesOK, detector
  <1>6. LoopInv(c)'
    BY <1>1, <1>3, <1>4 DEF IInv, LoopInv, ProcessesOK
  <1>7. row' \in [Bead -> Row \cup {NoRow}] /\ RowsAreAcceptable' /\ HandledBy(Finisher)'
    BY <1>3, <1>4, RenewalKeeps
  <1>8. HistoryOK'
    BY <1>1, <1>4 DEF HistoryOK
  <1>9. QED
    BY <1>1, <1>4, <1>5, <1>6, <1>7, <1>8, LoopPreserves DEF ProcessesOK

\* An event whose lease was lost is dropped from the channel; the outbox has it still.
LEMMA DropTakenPreserves ==
    ASSUME IInv, NEW c \in Consumer, DropTaken(c)
    PROVE  IInv'
  <1>1. ProcessesOK /\ HistoryOK
    BY TypeParts DEF IInv
  <1>2. PICK e : e = Head(queue[c])
    OBVIOUS
  <1>3. /\ e \in Event /\ queue' \in [Consumer -> Seq(Event)]
        /\ \A d \in Consumer : Len(queue'[d]) <= QueueSize
    BY <1>1, <1>2, HeadOfQueue DEF DropTaken
  <1>4. /\ \/ row' = row
           \/ OwnsLiveLease(c, e) /\ SaveFailed(e.bead, WithLease(row[e.bead], c))
        /\ UNCHANGED <<attempts, cleanup, alive, detector, watchLoop, crashes, created, done>>
    BY <1>2 DEF DropTaken
  <1>5. ProcessesOK'
    BY <1>1, <1>3, <1>4 DEF ProcessesOK, detector, watchLoop
  <1>6. row' \in [Bead -> Row \cup {NoRow}] /\ RowsAreAcceptable' /\ HandledBy(Finisher)'
    BY <1>3, <1>4, RenewalKeeps, NothingSaved
  <1>7. HistoryOK'
    BY <1>1, <1>4 DEF HistoryOK
  <1>8. \A d \in Consumer : LoopInv(d)'
    BY <1>4, LoopsStay
  <1>9. QED
    BY <1>5, <1>6, <1>7, <1>8, TypeParts DEF IInv

\* The lease is renewed while the handler runs.
LEMMA KeepLeasePreserves ==
    ASSUME IInv, NEW c \in Consumer, KeepLease(c)
    PROVE  IInv'
  <1>1. ProcessesOK /\ HistoryOK /\ current[c] \in Event
    BY TypeParts DEF IInv, LoopInv, KeepLease
  <1>2. ProcessesOK' /\ HistoryOK'
    BY <1>1 DEF KeepLease, ProcessesOK, HistoryOK, detector, watchLoop
  <1>3. row' \in [Bead -> Row \cup {NoRow}] /\ RowsAreAcceptable' /\ HandledBy(Finisher)'
    BY <1>1, RenewalKeeps DEF KeepLease
  <1>4. \A d \in Consumer : LoopInv(d)'
    BY LoopsStay DEF KeepLease
  <1>5. QED
    BY <1>2, <1>3, <1>4, TypeParts DEF IInv

\* A handler that is cancelled may have finished; it is not acknowledged.
LEMMA HandlerCancelledPreserves ==
    ASSUME IInv, NEW c \in Consumer, HandlerCancelled(c)
    PROVE  IInv'
  <1>1. ProcessesOK /\ HistoryOK /\ current[c] \in Event
    BY TypeParts DEF IInv, LoopInv, HandlerCancelled
  <1>2. /\ \/ row' = row
           \/ OwnsLiveLease(c, current[c])
              /\ SaveFailed(current[c].bead, WithLease(row[current[c].bead], c))
        /\ done' = done \cup {<<c, current[c]>>} \/ done' = done
        /\ phase' = [phase EXCEPT ![c] = "idle"] /\ current' = [current EXCEPT ![c] = NoEvent]
        /\ UNCHANGED <<attempts, cleanup, alive, detector, queue, handled, crashes, created>>
    BY DEF HandlerCancelled, Finished
  <1>3. ProcessesOK'
    BY <1>1, <1>2 DEF ProcessesOK, detector
  <1>4. HistoryOK' /\ done \subseteq done' /\ created' = created
    BY <1>1, <1>2 DEF HistoryOK, Finisher
  <1>5. LoopInv(c)'
    BY <1>1, <1>2, <1>4 DEF IInv, LoopInv, ProcessesOK
  <1>6. row' \in [Bead -> Row \cup {NoRow}] /\ RowsAreAcceptable' /\ HandledBy(Finisher)'
    BY <1>1, <1>2, <1>4, RenewalKeeps, NothingSaved
  <1>7. QED
    BY <1>1, <1>2, <1>3, <1>4, <1>5, <1>6, LoopPreserves DEF ProcessesOK

\* From now on this process has handled the event.
LEMMA HandlerSucceedsPreserves ==
    ASSUME IInv, NEW c \in Consumer, HandlerSucceeds(c)
    PROVE  IInv'
  <1>1. ProcessesOK /\ HistoryOK /\ current[c] \in Event
    BY TypeParts DEF IInv, LoopInv, HandlerSucceeds
  <1>2. /\ done' = done \cup {<<c, current[c]>>}
        /\ handled' = [handled EXCEPT ![c] = @ \cup {current[c]}]
        /\ phase' = [phase EXCEPT ![c] = "acking"]
        /\ UNCHANGED <<row, attempts, cleanup, alive, detector, queue, current, crashes, created>>
    BY DEF HandlerSucceeds, Finished
  <1>3. ProcessesOK'
    BY <1>1, <1>2 DEF ProcessesOK, detector
  <1>4. HistoryOK' /\ done \subseteq done' /\ created' = created
    BY <1>1, <1>2 DEF HistoryOK, Finisher
  <1>5. LoopInv(c)'
    BY <1>1, <1>2, <1>4 DEF IInv, LoopInv, ProcessesOK
  <1>6. row' \in [Bead -> Row \cup {NoRow}] /\ RowsAreAcceptable' /\ HandledBy(Finisher)'
    BY <1>2, <1>4, NothingSaved
  <1>7. QED
    BY <1>1, <1>2, <1>3, <1>4, <1>5, <1>6, LoopPreserves DEF ProcessesOK

\* A handler that fails leaves the event where it is.
LEMMA HandlerFailsPreserves ==
    ASSUME IInv, NEW c \in Consumer, HandlerFails(c)
    PROVE  IInv'
  <1>1. ProcessesOK /\ HistoryOK
    BY TypeParts DEF IInv
  <1>2. ProcessesOK'
    BY <1>1 DEF HandlerFails, ProcessesOK, detector
  <1>3. LoopInv(c)'
    BY <1>1 DEF IInv, LoopInv, ProcessesOK, HandlerFails
  <1>4. row' \in [Bead -> Row \cup {NoRow}] /\ HistoryOK' /\ RowsAreAcceptable'
        /\ HandledBy(Finisher)' /\ done' = done
    BY NothingSaved DEF HandlerFails
  <1>5. QED
    BY <1>1, <1>2, <1>3, <1>4, LoopPreserves DEF HandlerFails, ProcessesOK

\* The event leaves the outbox when its lease is this process's, which has handled it.
LEMMA AcknowledgePreserves ==
    ASSUME IInv, NEW c \in Consumer, Acknowledge(c)
    PROVE  IInv'
  <1>1. ProcessesOK /\ HistoryOK /\ current[c] \in Event /\ <<c, current[c]>> \in done
    BY TypeParts DEF IInv, LoopInv, Acknowledge
  <1>2. PICK b : b = current[c].bead
    OBVIOUS
  <1>3. PICK new : new = Acknowledged(row[b])
    OBVIOUS
  <1>4. /\ row' = row \/ (OwnsLiveLease(c, current[c]) /\ (Saved(b, new) \/ row' = row))
        /\ phase' = [phase EXCEPT ![c] = "idle"] /\ current' = [current EXCEPT ![c] = NoEvent]
        /\ UNCHANGED <<attempts, cleanup, alive, detector, queue, handled, crashes, created, done>>
    BY <1>2, <1>3 DEF Acknowledge, SaveFailed
  <1>5. ProcessesOK'
    BY <1>1, <1>4 DEF ProcessesOK, detector
  <1>6. HistoryOK'
    BY <1>1, <1>4 DEF HistoryOK
  <1>7. LoopInv(c)'
    BY <1>1, <1>4 DEF IInv, LoopInv, ProcessesOK
  <1>8. row' \in [Bead -> Row \cup {NoRow}] /\ RowsAreAcceptable' /\ HandledBy(Finisher)'
    <2>1. CASE row' = row
      BY <1>4, <2>1, NothingSaved
    <2>2. CASE OwnsLiveLease(c, current[c]) /\ (Saved(b, new) \/ row' = row)
      <3>1. b \in Bead /\ EventOf(b) = current[c] /\ row[b] \in Row
        BY <1>1, <1>2, <2>2, LeasedRow
      <3>2. new \in Row
        <4>1. 0 \in 0..Lease
          BY OutboxAssumption DEF OutboxAssumption
        <4>2. QED
          BY <1>3, <3>1, <4>1 DEF Acknowledged, Row
      <3>3. new.event = "none" /\ new.token = NoOne
        BY <1>3, <3>1 DEF Acknowledged, Row
      <3>4. Acceptable(new)
        BY <3>3 DEF Acceptable
      <3>5. KeepsEvent(b, new)
        BY <1>1, <1>4, <3>1 DEF KeepsEvent, Finisher
      <3>6. QED
        BY <1>4, <2>2, <3>1, <3>2, <3>4, <3>5, SaveKeeps
    <2>3. QED
      BY <1>4, <2>1, <2>2
  <1>9. QED
    BY <1>1, <1>4, <1>5, <1>6, <1>7, <1>8, LoopPreserves DEF ProcessesOK

-----------------------------------------------------------------------------
(***************************************************************************)
(* Crashes and time.                                                       *)
(***************************************************************************)

\* A process dies with its queue and its memory; the rows stay.
LEMMA CrashPreserves ==
    ASSUME IInv, NEW c \in Consumer, Crash(c)
    PROVE  IInv'
  <1>1. ProcessesOK /\ 0 \in 0..MaxAttempt /\ crashes' \in 0..MaxCrashes
    <2>1. ProcessesOK
      BY TypeParts DEF IInv
    <2>2. QED
      BY <2>1, OutboxAssumption DEF ProcessesOK, Crash, OutboxAssumption
  <1>2. /\ alive' = [alive EXCEPT ![c] = FALSE]
        /\ cleanup' = [b \in Bead |-> IF cleanup[b] = c THEN NoOne ELSE cleanup[b]]
        /\ seen' = [seen EXCEPT ![c] = [b \in Bead |-> 0]]
        /\ recent' = [recent EXCEPT ![c] = [b \in Bead |-> 0]]
        /\ claimed' = [claimed EXCEPT ![c] = NoEvent]
        /\ queue' = [queue EXCEPT ![c] = <<>>]
        /\ phase' = [phase EXCEPT ![c] = "idle"]
        /\ current' = [current EXCEPT ![c] = NoEvent]
        /\ handled' = [handled EXCEPT ![c] = {}]
        /\ UNCHANGED <<row, attempts, created, done>>
    BY DEF Crash
  <1>3. ProcessesOK'
    <2>1. cleanup' \in [Bead -> Holder \cup {NoOne}] /\ alive' \in [Consumer -> BOOLEAN]
      BY <1>1, <1>2 DEF ProcessesOK
    <2>2. /\ seen' \in [Consumer -> [Bead -> 0..MaxAttempt]]
          /\ recent' \in [Consumer -> [Bead -> 0..MaxAttempt]]
      BY <1>1, <1>2 DEF ProcessesOK
    <2>3. queue' \in [Consumer -> Seq(Event)] /\ \A d \in Consumer : Len(queue'[d]) <= QueueSize
      <3>1. PICK q : q = <<>>
        OBVIOUS
      <3>2. q \in Seq(Event) /\ Len(q) <= QueueSize
        BY <3>1, OutboxAssumption DEF OutboxAssumption
      <3>3. QED
        BY <1>1, <1>2, <3>1, <3>2 DEF ProcessesOK
    <2>4. /\ claimed' \in [Consumer -> Event \cup {NoEvent}]
          /\ phase' \in [Consumer -> {"idle", "handling", "acking"}]
          /\ current' \in [Consumer -> Event \cup {NoEvent}]
          /\ handled' \in [Consumer -> SUBSET Event]
      BY <1>1, <1>2 DEF ProcessesOK
    <2>5. QED
      BY <1>1, <1>2, <2>1, <2>2, <2>3, <2>4 DEF ProcessesOK
  <1>4. LoopInv(c)'
    BY <1>1, <1>2 DEF LoopInv, ProcessesOK
  <1>5. row' \in [Bead -> Row \cup {NoRow}] /\ HistoryOK' /\ RowsAreAcceptable'
        /\ HandledBy(Finisher)' /\ done' = done
    BY <1>2, NothingSaved
  <1>6. QED
    BY <1>1, <1>2, <1>3, <1>4, <1>5, LoopPreserves DEF ProcessesOK

\* Leases run down, in all rows at once.
LEMMA TickPreserves ==
    ASSUME IInv, Tick
    PROVE  IInv'
  <1>1. TypeOK /\ ProcessesOK /\ HistoryOK
    BY TypeParts DEF IInv
  <1>2. ProcessesOK' /\ HistoryOK' /\ UNCHANGED <<watchLoop, created, done>>
    BY <1>1 DEF Tick, ProcessesOK, HistoryOK, detector, watchLoop
  <1>3. ASSUME NEW b \in Bead
        PROVE  /\ row'[b] \in Row \cup {NoRow}
               /\ row[b] = NoRow => row'[b] = NoRow
               /\ row[b] # NoRow => /\ row'[b] # NoRow /\ row'[b].attempt = row[b].attempt
                                    /\ row'[b].event = row[b].event /\ Acceptable(row'[b])
    <2>1. row'[b] = IF HasRow(b) /\ row[b].lease > 0 THEN [row[b] EXCEPT !.lease = @ - 1] ELSE row[b]
      BY <1>3 DEF Tick
    <2>2. row[b] \in Row \cup {NoRow} /\ (row[b] # NoRow => Acceptable(row[b]))
      BY <1>3 DEF IInv, TypeOK, RowsAreAcceptable, HasRow
    <2>3. CASE ~ (HasRow(b) /\ row[b].lease > 0)
      BY <2>1, <2>2, <2>3
    <2>4. CASE HasRow(b) /\ row[b].lease > 0
      <3>1. row[b] \in Row /\ row[b].lease \in 0..Lease
        BY <1>1, <2>4, RowIsTyped
      <3>2. PICK t : t = row[b].lease - 1
        OBVIOUS
      <3>3. t \in 0..Lease
        BY <2>4, <3>1, <3>2, OutboxAssumption DEF OutboxAssumption
      <3>4. PICK new : new = [row[b] EXCEPT !.lease = t]
        OBVIOUS
      <3>5. row'[b] = new
        BY <2>1, <2>4, <3>2, <3>4
      <3>6. new \in Row
        BY <3>1, <3>3, <3>4 DEF Row
      <3>7. /\ new.attempt = row[b].attempt /\ new.event = row[b].event
            /\ new.token = row[b].token /\ new.status = row[b].status
            /\ new.clear = row[b].clear /\ new.pending = row[b].pending
        BY <3>1, <3>4 DEF Row
      <3>8. Acceptable(new) /\ new # NoRow
        BY <2>2, <2>4, <3>6, <3>7, NoRowAssumption DEF Acceptable, HasRow, NoRowAssumption
      <3>9. QED
        BY <2>4, <3>5, <3>6, <3>7, <3>8 DEF HasRow
    <2>5. QED
      BY <2>3, <2>4
  <1>4. row' \in [Bead -> Row \cup {NoRow}]
    <2>1. row' = [b \in Bead |-> IF HasRow(b) /\ row[b].lease > 0
                                 THEN [row[b] EXCEPT !.lease = @ - 1] ELSE row[b]]
      BY DEF Tick
    <2>2. QED
      BY <1>3, <2>1
  <1>5. RowsAreAcceptable'
    BY <1>3 DEF RowsAreAcceptable, HasRow
  <1>6. HandledBy(Finisher)'
    <2>1. ASSUME NEW e \in created, Pending(e) PROVE Pending(e)'
      <3>1. e.bead \in Bead
        BY <1>1, <2>1 DEF HistoryOK, Event
      <3>2. QED
        BY <1>3, <2>1, <3>1 DEF Pending
    <2>2. QED
      BY <1>2, <2>1 DEF IInv, HandledBy
  <1>7. \A d \in Consumer : LoopInv(d)'
    BY <1>2, LoopsStay
  <1>8. QED
    BY <1>2, <1>4, <1>5, <1>6, <1>7, TypeParts DEF IInv

-----------------------------------------------------------------------------
(***************************************************************************)
(* The theorems.                                                           *)
(***************************************************************************)

\* At the start there is no row, no event and no work.
LEMMA InitIInv == Init => IInv
  <1> SUFFICES ASSUME Init PROVE IInv
    OBVIOUS
  <1>1. 0 \in 0..MaxAttempt /\ 0 \in 0..MaxCrashes
    BY OutboxAssumption DEF OutboxAssumption
  <1>2. ProcessesOK
    <2>1. PICK q : q = <<>>
      OBVIOUS
    <2>2. q \in Seq(Event) /\ Len(q) <= QueueSize
      BY <2>1, OutboxAssumption DEF OutboxAssumption
    <2>3. queue = [c \in Consumer |-> q]
      BY <2>1 DEF Init
    <2>4. queue \in [Consumer -> Seq(Event)] /\ \A c \in Consumer : Len(queue[c]) <= QueueSize
      BY <2>2, <2>3
    <2>5. QED
      BY <1>1, <2>4 DEF Init, ProcessesOK
  <1>3. row \in [Bead -> Row \cup {NoRow}] /\ HistoryOK
    BY DEF Init, HistoryOK
  <1>4. RowsAreAcceptable /\ HandledBy(Finisher) /\ \A c \in Consumer : LoopInv(c)
    BY DEF Init, RowsAreAcceptable, HasRow, HandledBy, LoopInv
  <1>5. QED
    BY <1>2, <1>3, <1>4, TypeParts DEF IInv

\* The invariant is inductive.
LEMMA NextIInv == IInv /\ [Next]_vars => IInv'
  <1> SUFFICES ASSUME IInv, [Next]_vars PROVE IInv'
    OBVIOUS
  <1>1. ASSUME NEW b \in Bead, BeginAttempt(b) \/ ReplaceWorking(b) PROVE IInv'
    BY <1>1, BeginAttemptPreserves, ReplaceWorkingPreserves
  <1>2. ASSUME NEW b \in Bead, Cleanup(b) PROVE IInv'
    BY <1>2, EndCleanupPreserves, BeginClearPreserves, CompleteClearPreserves,
       BeginTerminalPreserves, BeginCleanupPreserves, LeasesReleasedPreserves,
       TerminalClaimReleasedPreserves, CompleteTerminalPreserves
    DEF Cleanup
  <1>3. ASSUME NEW c \in Consumer, Detector(c) PROVE IInv'
    BY <1>3, ScanPreserves, EnqueuePreserves, ClaimEventPreserves, ForgetRecentPreserves,
       BeginTerminalWithEventPreserves
    DEF Detector
  <1>4. ASSUME NEW c \in Consumer, WatchLoop(c) PROVE IInv'
    BY <1>4, TakeHandledPreserves, TakeNewPreserves, DropTakenPreserves, KeepLeasePreserves,
       HandlerCancelledPreserves, HandlerSucceedsPreserves, HandlerFailsPreserves,
       AcknowledgePreserves
    DEF WatchLoop
  <1>5. CASE UNCHANGED vars
    <2>1. UNCHANGED <<row, attempts, cleanup, alive, detector, queue, watchLoop, crashes, created, done>>
      BY <1>5 DEF vars, detector, watchLoop
    <2>2. ProcessesOK'
      BY <2>1, TypeParts DEF IInv, ProcessesOK, detector, watchLoop
    <2>3. QED
      BY <2>1, <2>2, NothingSaved, LoopsStay, TypeParts DEF IInv
  <1>6. QED
    BY <1>1, <1>2, <1>3, <1>4, <1>5, TickPreserves, CrashPreserves DEF Next

\* The inductive invariant of the outbox: whatever dies, lapses or fails, a watch loop
\* acknowledges only what it has handled, and a row keeps an event until then.
THEOREM Invariance == Spec => []IInv
  BY InitIInv, NextIInv, PTL DEF Spec

\* Every reachable state has the types of rows, queues and watch loops; the channels
\* hold QueueSize events at most.
THEOREM TypeCorrect == Spec => []TypeOK
  BY Invariance, PTL DEF IInv

\* No interleaving of detectors, cleanups and watch loops writes a row that
\* validateCompletionOutboxAssignment refuses.
THEOREM RowsAreAccepted == Spec => []RowsAreAcceptable
  BY Invariance, PTL DEF IInv

\* An event leaves the outbox only when a handler has finished it or a replacement took
\* its row over, through any number of crashes, lapsed leases and failed saves.
THEOREM EventsAreHandled == Spec => []EventIsHandledOrReplaced
  <1>1. IInv => EventIsHandledOrReplaced
    BY DEF IInv, EventIsHandledOrReplaced, Finisher
  <1>2. QED
    BY <1>1, Invariance, PTL

\* The promise of the outbox as its comment states it, where nothing is replaced while
\* it works: an event leaves the outbox only when a handler has finished it.
THEOREM EventsAreHandledFirst ==
    ASSUME ~ Replacing
    PROVE  Spec => []EventIsHandledBeforeItIsGone
  <1>1. Init => \A e \in Event : <<NoOne, e>> \notin done
    BY DEF Init
  <1>2. IInv /\ (\A e \in Event : <<NoOne, e>> \notin done) /\ [Next]_vars
            => (\A e \in Event : <<NoOne, e>> \notin done)'
    <2>1. SUFFICES ASSUME [Next]_vars, NEW e \in Event, <<NoOne, e>> \in done'
                   PROVE  <<NoOne, e>> \in done
      OBVIOUS
    <2>2. done' = done \/ \E c \in Consumer : done' = done \cup {<<c, current[c]>>}
      <3>1. CASE UNCHANGED vars
        BY <3>1 DEF vars
      <3>2. CASE Next
        <4>1. ASSUME NEW b \in Bead, BeginAttempt(b) \/ ReplaceWorking(b) PROVE done' = done
          BY <4>1 DEF BeginAttempt, ReplaceWorking
        <4>2. ASSUME NEW b \in Bead, Cleanup(b) PROVE done' = done
          BY <4>2 DEF Cleanup, EndCleanup, BeginClear, CompleteClear, BeginTerminal, BeginCleanup,
             LeasesReleased, TerminalClaimReleased, CompleteTerminal, CleanupStep
        <4>3. ASSUME NEW c \in Consumer, Detector(c) \/ Crash(c) PROVE done' = done
          BY <4>3 DEF Detector, Scan, Enqueue, ClaimEvent, ForgetRecent, BeginTerminalWithEvent, Crash
        <4>4. ASSUME NEW c \in Consumer, WatchLoop(c)
              PROVE  done' = done \/ done' = done \cup {<<c, current[c]>>}
          BY <4>4 DEF WatchLoop, TakeHandled, TakeNew, DropTaken, KeepLease, HandlerCancelled,
             HandlerSucceeds, HandlerFails, Acknowledge, Finished
        <4>5. Tick => done' = done
          BY DEF Tick
        <4>6. QED
          BY <3>2, <4>1, <4>2, <4>3, <4>4, <4>5 DEF Next
      <3>3. QED
        BY <2>1, <3>1, <3>2
    <2>3. QED
      BY <2>1, <2>2, OutboxAssumption DEF OutboxAssumption
  <1>3. IInv /\ (\A e \in Event : <<NoOne, e>> \notin done) => EventIsHandledBeforeItIsGone
    BY DEF IInv, TypeOK, EventIsHandledBeforeItIsGone, HandledBy, Finisher
  <1>4. QED
    BY <1>1, <1>2, <1>3, Invariance, PTL DEF Spec

=================================================================================
