--------------------------- MODULE BeadHandoffProofs ---------------------------
(***************************************************************************)
(* AtomicAssignment implements BeadHandoff: seen from the rows and the     *)
(* prompts, a step of a process, of a detector, of Agent Mail or of the    *)
(* tracker is one step of a hand-over or none.                             *)
(***************************************************************************)
EXTENDS AtomicAssignmentProofs

\* A new attempt is handed over only for a bead without a live row, and a prompt
\* that was reported as typed was.
AssignInv(p) ==
    pc[p] \in {"authorize", "intent"} /\ job[p].kind = "assign"
        => Now(p) = NoRow \/ Now(p).status = "ended"

SentInv(p) ==
    pc[p] = "dispatchDone" /\ answer[p] = "sent" => delivered[job[p].attempt] # 0

HandInv == IInv /\ \A p \in Process : AssignInv(p) /\ SentInv(p)

seen == <<StageOf, KeyOf, PlaceOf>>

-----------------------------------------------------------------------------
(***************************************************************************)
(* What a change of one row shows.                                         *)
(***************************************************************************)
\* The stage of a row, case by case.
LEMMA StageIs ==
    ASSUME NEW r \in Row
    PROVE  /\ r.status = "ended" => Stage(r) = "ended"
           /\ r.status # "ended" /\ r.clear # "none" => Stage(r) = "ending"
           /\ r.status # "ended" /\ r.clear = "none" =>
                 /\ r.dispatch = "pending" => Stage(r) = "preparing"
                 /\ r.dispatch = "sending" => Stage(r) = "sending"
                 /\ r.dispatch = "sent" => Stage(r) = "working"
           /\ Stage(r) \in {"preparing", "sending", "working", "ending", "ended"}
  BY DEF Row, Stage

\* A row that goes on for its attempt shows at most a new stage.
LEMMA RowGoesOn ==
    ASSUME TypeOK, NEW b \in Bead, NEW r \in Row, row[b] # NoRow,
           row' = [row EXCEPT ![b] = r],
           r.attempt = row[b].attempt, r.pane = row[b].pane
    PROVE  /\ StageOf[b] = Stage(row[b])
           /\ StageOf' = [StageOf EXCEPT ![b] = Stage(r)]
           /\ KeyOf' = KeyOf /\ PlaceOf' = PlaceOf
           /\ Stage(r) = Stage(row[b]) => StageOf' = StageOf
  <1>1. /\ row'[b] = r /\ r # NoRow
        /\ \A c \in Bead \ {b} : row'[c] = row[c]
    BY NoRowAssumption DEF TypeOK, NoRowAssumption
  <1>2. StageOf[b] = Stage(row[b])
    BY DEF StageOf
  <1>3. StageOf' = [c \in Bead |-> IF c = b THEN Stage(r) ELSE StageOf[c]]
    BY <1>1 DEF StageOf
  <1>4. KeyOf' = KeyOf /\ PlaceOf' = PlaceOf
    BY <1>1 DEF KeyOf, PlaceOf
  <1>5. StageOf' = [StageOf EXCEPT ![b] = Stage(r)]
    BY <1>3 DEF StageOf
  <1>6. Stage(r) = Stage(row[b]) => StageOf' = StageOf
    BY <1>2, <1>3 DEF StageOf
  <1>7. QED
    BY <1>2, <1>4, <1>5, <1>6

\* A new attempt shows as being prepared.
LEMMA RowIsNew ==
    ASSUME TypeOK, NEW b \in Bead, NEW r \in Row, row' = [row EXCEPT ![b] = r]
    PROVE  /\ StageOf' = [StageOf EXCEPT ![b] = Stage(r)]
           /\ KeyOf' = [KeyOf EXCEPT ![b] = r.attempt]
           /\ PlaceOf' = [PlaceOf EXCEPT ![b] = r.pane]
  <1>1. /\ row'[b] = r /\ r # NoRow
        /\ \A c \in Bead \ {b} : row'[c] = row[c]
    BY NoRowAssumption DEF TypeOK, NoRowAssumption
  <1>2. StageOf' = [StageOf EXCEPT ![b] = Stage(r)]
    <2>1. StageOf' = [c \in Bead |-> IF c = b THEN Stage(r) ELSE StageOf[c]]
      BY <1>1 DEF StageOf
    <2>2. QED
      BY <2>1 DEF StageOf
  <1>3. KeyOf' = [KeyOf EXCEPT ![b] = r.attempt]
    <2>1. KeyOf' = [c \in Bead |-> IF c = b THEN r.attempt ELSE KeyOf[c]]
      BY <1>1 DEF KeyOf
    <2>2. QED
      BY <2>1 DEF KeyOf
  <1>4. PlaceOf' = [PlaceOf EXCEPT ![b] = r.pane]
    <2>1. PlaceOf' = [c \in Bead |-> IF c = b THEN r.pane ELSE PlaceOf[c]]
      BY <1>1 DEF PlaceOf
    <2>2. QED
      BY <2>1 DEF PlaceOf
  <1>5. QED
    BY <1>2, <1>3, <1>4

\* A row that is removed shows nothing any more.
LEMMA RowGoes ==
    ASSUME TypeOK, NEW b \in Bead, row' = [row EXCEPT ![b] = NoRow]
    PROVE  /\ StageOf' = [StageOf EXCEPT ![b] = "none"]
           /\ KeyOf' = [KeyOf EXCEPT ![b] = NoRow]
           /\ PlaceOf' = [PlaceOf EXCEPT ![b] = NoRow]
  <1>1. row'[b] = NoRow /\ \A c \in Bead \ {b} : row'[c] = row[c]
    BY DEF TypeOK
  <1>2. StageOf' = [StageOf EXCEPT ![b] = "none"]
    <2>1. StageOf' = [c \in Bead |-> IF c = b THEN "none" ELSE StageOf[c]]
      BY <1>1 DEF StageOf
    <2>2. QED
      BY <2>1 DEF StageOf
  <1>3. KeyOf' = [KeyOf EXCEPT ![b] = NoRow]
    <2>1. KeyOf' = [c \in Bead |-> IF c = b THEN NoRow ELSE KeyOf[c]]
      BY <1>1 DEF KeyOf
    <2>2. QED
      BY <2>1 DEF KeyOf
  <1>4. PlaceOf' = [PlaceOf EXCEPT ![b] = NoRow]
    <2>1. PlaceOf' = [c \in Bead |-> IF c = b THEN NoRow ELSE PlaceOf[c]]
      BY <1>1 DEF PlaceOf
    <2>2. QED
      BY <2>1 DEF PlaceOf
  <1>5. QED
    BY <1>2, <1>3, <1>4

\* Without a change of a row nothing shows.
LEMMA RowsStay ==
    ASSUME row' = row
    PROVE  UNCHANGED seen
  BY DEF seen, StageOf, KeyOf, PlaceOf

-----------------------------------------------------------------------------
(***************************************************************************)
(* Which keys are spent.                                                   *)
(***************************************************************************)
\* The step of p is that of one process, for the request that it has.
Goes(p) ==
    /\ OthersStay(p) /\ created' = created
    /\ pc'[p] = "idle" \/ job'[p] = job[p]

\* A new attempt is pending as long as only its process knows it.
LEMMA PendingIsEarly ==
    ASSUME NEW p \in Process
    PROVE  /\ Pending(p) <=> Early(p)
           /\ pc[p] \notin {"lock", "admit", "authorize", "intent", "begin", "release", "releaseDone"}
                  => ~ Pending(p)
           /\ job[p].kind \notin NewKind => ~ Pending(p)
  BY DEF Pending, Early, NewKind

\* Whoever keeps its key to itself, or has none, spends none.
LEMMA NothingSpent ==
    ASSUME IInv, NEW p \in Process, Goes(p), Pending(p) <=> Pending(p)'
    PROVE  SpentKeys' = SpentKeys
  <1>1. \A q \in Process \ {p} : (Pending(q)' <=> Pending(q)) /\ job'[q].attempt = job[q].attempt
    BY DEF Goes, OthersStay, Pending
  <1>2. Pending(p) => job'[p].attempt = job[p].attempt
    BY DEF Goes, Pending
  <1>3. \A k : \A q \in Process : (Pending(q)' => job'[q].attempt # k) <=> (Pending(q) => job[q].attempt # k)
    BY <1>1, <1>2
  <1>4. QED
    BY <1>3 DEF SpentKeys, Goes

\* Who gives its key up, or writes its row, spends it.
LEMMA KeySpent ==
    ASSUME IInv, NEW p \in Process, Goes(p), Pending(p), ~ Pending(p)'
    PROVE  /\ job[p].attempt \in Attempt /\ job[p].attempt \notin SpentKeys
           /\ SpentKeys' = SpentKeys \cup {job[p].attempt}
  <1>1. Early(p) /\ pc[p] # "idle" /\ FreshInv(p) /\ JobInv(p) /\ LockInv(p) /\ TypeOK
    BY PendingIsEarly DEF IInv, ProcessInv, Pending
  <1>2. job[p] \in Job /\ job[p].attempt \in Attempt /\ job[p].attempt <= created
    BY <1>1 DEF LockInv, JobInv, Job
  <1>3. job[p].attempt \in 1..created
    BY <1>1, <1>2, AttemptIsNat DEF Attempt
  <1>4. ASSUME NEW q \in Process \ {p}
        PROVE  /\ Pending(q)' <=> Pending(q)
               /\ job'[q].attempt = job[q].attempt
               /\ Pending(q) => job[q].attempt # job[p].attempt
    BY <1>1 DEF Goes, OthersStay, Pending, FreshInv
  <1>5. job[p].attempt \notin SpentKeys
    BY DEF SpentKeys
  <1>6. ASSUME NEW k \in 1..created
        PROVE  (\A q \in Process : Pending(q)' => job'[q].attempt # k)
                   <=> k = job[p].attempt \/ \A q \in Process : Pending(q) => job[q].attempt # k
    BY <1>4
  <1>7. SpentKeys' = SpentKeys \cup {job[p].attempt}
    <2>1. created' = created
      BY DEF Goes
    <2>2. QED
      BY <1>3, <1>6, <2>1 DEF SpentKeys
  <1>8. QED
    BY <1>2, <1>5, <1>7

-----------------------------------------------------------------------------
(***************************************************************************)
(* Where a step leaves its process.                                        *)
(***************************************************************************)
\* A step ends by going on, with or without an answer, or by returning.
LEMMA StepGoes ==
    ASSUME TypeOK, NEW p \in Process, NEW step \in ExecuteStep \cup CleanupStep,
           NEW ok, NEW reply \in {"granted", "refused", "unknown", "none", "partial", "full", "sent"},
           created' = created,
           Continue(p, step) \/ Answer(p, reply, step) \/ ProceedIf(p, ok, step) \/ Return(p)
    PROVE  Goes(p) /\ pc'[p] \in {step, "idle"}
  <1>1. CASE Continue(p, step)
    BY <1>1, ContinueMoves DEF Goes
  <1>2. CASE Answer(p, reply, step)
    BY <1>2, AnswerMoves DEF Goes
  <1>3. CASE ProceedIf(p, ok, step)
    <2>1. CASE ok
      <3>1. pc' = [pc EXCEPT ![p] = step] /\ job' = job
        BY <1>3, <2>1 DEF ProceedIf, Goto
      <3>2. OthersStay(p)
        BY <1>3, ProceedMoves
      <3>3. QED
        BY <3>1, <3>2 DEF Goes, TypeOK
    <2>2. CASE ~ ok
      BY <1>3, <2>2, ReturnFrees DEF ProceedIf, Goes
    <2>3. QED
      BY <2>1, <2>2
  <1>4. CASE Return(p)
    BY <1>4, ReturnFrees DEF Goes
  <1>5. QED
    BY <1>1, <1>2, <1>3, <1>4

\* Execute spends no key once its row is written.
LEMMA ExecuteSpendsNothing ==
    ASSUME IInv, NEW p \in Process, NEW step \in Executing, pc[p] \in Executing, created' = created,
           NEW ok, NEW reply \in {"granted", "refused", "unknown", "none", "partial", "full", "sent"},
           Continue(p, step) \/ Answer(p, reply, step) \/ ProceedIf(p, ok, step) \/ Return(p)
    PROVE  SpentKeys' = SpentKeys /\ pc'[p] \in {step, "idle"}
  <1>1. step \in ExecuteStep \cup CleanupStep
    BY DEF Executing, Reserving, Dispatching, Sending, ExecuteStep
  <1>2. Goes(p) /\ pc'[p] \in {step, "idle"}
    BY <1>1, StepGoes DEF IInv
  <1>3. ~ Pending(p) /\ ~ Pending(p)'
    BY <1>2 DEF Pending, Executing, Reserving, Dispatching, Sending
  <1>4. QED
    BY <1>2, <1>3, NothingSpent

-----------------------------------------------------------------------------
(***************************************************************************)
(* The steps of Execute.                                                   *)
(***************************************************************************)
\* What claims and reservations write into a row does not show.
LEMMA LiveRowGoesOn ==
    ASSUME TypeOK, NEW b \in Bead, row[b] \in Row, row[b] # NoRow, NEW r \in Row,
           row' = row \/ row' = [row EXCEPT ![b] = r],
           row[b].status \in LiveStatus, row[b].clear = "none", r.status \in LiveStatus,
           r.attempt = row[b].attempt, r.pane = row[b].pane,
           r.dispatch = row[b].dispatch, r.clear = row[b].clear
    PROVE  UNCHANGED seen
  <1>1. Stage(r) = Stage(row[b])
    BY StageIs DEF LiveStatus, Row
  <1>2. QED
    BY <1>1, RowGoesOn, RowsStay DEF seen

\* A step of Execute that changes neither the dispatch state nor the end of its row.
LEMMA ExecuteShowsNothing ==
    ASSUME IInv, NEW p \in Process, pc[p] \in Executing, NEW b, b = job[p].bead,
           NEW step \in Executing, NEW ok,
           NEW reply \in {"granted", "refused", "unknown", "none", "partial", "full", "sent"},
           Continue(p, step) \/ Answer(p, reply, step) \/ ProceedIf(p, ok, step) \/ Return(p),
           created' = created, delivered' = delivered, NEW r,
           row' = row \/ /\ row' = [row EXCEPT ![b] = r]
                         /\ r \in Row /\ r.status \in LiveStatus
                         /\ r.attempt = row[b].attempt /\ r.pane = row[b].pane
                         /\ r.dispatch = row[b].dispatch /\ r.clear = row[b].clear
    PROVE  UNCHANGED Handoff!vars
  <1>1. TypeOK /\ b \in Bead /\ row[b] \in Row /\ row[b] # NoRow /\ row[b].clear = "none"
        /\ row[b].status \in LiveStatus
    BY AtExecute
  <1>2. UNCHANGED seen
    <2>1. CASE row' = row
      BY <2>1, RowsStay
    <2>2. CASE row' # row
      BY <1>1, <2>2, LiveRowGoesOn
    <2>3. QED
      BY <2>1, <2>2
  <1>3. SpentKeys' = SpentKeys
    BY ExecuteSpendsNothing
  <1>4. QED
    BY <1>2, <1>3 DEF seen, Handoff!vars

\* StartClaim: the claim's barrier does not show.
LEMMA StartClaimShows ==
    ASSUME IInv, NEW p \in Process, StartClaim(p)
    PROVE  UNCHANGED Handoff!vars
  <1>1. PICK b : b = job[p].bead
    OBVIOUS
  <1> DEFINE r == [row[b] EXCEPT !.status = "claiming", !.claim = "claiming"]
  <1>2. /\ pc[p] \in Executing /\ created' = created /\ delivered' = delivered
        /\ row' = row \/ row' = [row EXCEPT ![b] = r]
        /\ Continue(p, "reserve") \/ Continue(p, "claimCall")
    BY <1>1 DEF StartClaim, Executing, Set, external
  <1>3. r \in Row /\ r.status \in LiveStatus /\ r.attempt = row[b].attempt /\ r.pane = row[b].pane
        /\ r.dispatch = row[b].dispatch /\ r.clear = row[b].clear
    <2>1. row[b] \in Row
      BY <1>1, <1>2, AtExecute
    <2>2. QED
      BY ONLY <2>1 DEF Row, LiveStatus
  <1>4. PICK step \in Executing : Continue(p, step)
    BY <1>2 DEF Executing, Reserving
  <1> HIDE DEF r
  <1>5. QED
    BY <1>1, <1>2, <1>3, <1>4, ExecuteShowsNothing

\* The calls to the tracker and to Agent Mail touch no row.
LEMMA CallsShow ==
    ASSUME IInv, NEW p \in Process, Claim(p) \/ Reserve(p)
    PROVE  UNCHANGED Handoff!vars
  <1>1. /\ pc[p] \in Executing /\ created' = created /\ delivered' = delivered /\ row' = row
        /\ \E reply \in {"granted", "refused", "unknown", "none", "partial", "full", "sent"} :
              Answer(p, reply, "claimDone") \/ Answer(p, reply, "reserveDone")
    BY DEF Claim, Reserve, Answer, Executing, Reserving
  <1>2. {"claimDone", "reserveDone"} \subseteq Executing
    BY DEF Executing, Reserving
  <1>3. QED
    BY <1>1, <1>2, ExecuteShowsNothing

\* RecordClaim: a refusal ends the attempt, another answer does not show.
LEMMA RecordClaimShows ==
    ASSUME IInv, NEW p \in Process, RecordClaim(p)
    PROVE  Handoff!Next \/ UNCHANGED Handoff!vars
  <1>1. PICK b, r : b = job[p].bead /\ r = ClaimAnswered(row[b], answer[p])
    OBVIOUS
  <1>2. /\ pc[p] \in Executing /\ pc[p] = "claimDone" /\ created' = created /\ delivered' = delivered
        /\ row' = [row EXCEPT ![b] = r] /\ ProceedIf(p, answer[p] = "granted", "reserve")
    BY <1>1 DEF RecordClaim, Executing, Set, external
  <1>3. /\ TypeOK /\ b \in Bead /\ row[b] \in Row /\ row[b] # NoRow /\ row[b].clear = "none"
        /\ row[b].status \in LiveStatus /\ row[b].dispatch = "pending"
    BY <1>1, <1>2, AtExecute DEF Sending
  <1>4. "reserve" \in Executing
    BY DEF Executing, Reserving
  <1>5. CASE answer[p] = "refused"
    <2>1. r = [row[b] EXCEPT !.status = "ended", !.claim = "refused"]
      BY <1>1, <1>5 DEF ClaimAnswered
    <2>2. r \in Row /\ r.status = "ended" /\ r.attempt = row[b].attempt /\ r.pane = row[b].pane
      BY <1>3, <2>1 DEF Row
    <2>3. Stage(r) = "ended" /\ Stage(row[b]) = "preparing"
      BY <1>3, <2>2, StageIs DEF LiveStatus
    <2>4. /\ StageOf[b] = "preparing" /\ StageOf' = [StageOf EXCEPT ![b] = "ended"]
          /\ KeyOf' = KeyOf /\ PlaceOf' = PlaceOf
      BY <1>2, <1>3, <2>2, <2>3, RowGoesOn
    <2>5. SpentKeys' = SpentKeys
      BY <1>2, <1>4, ExecuteSpendsNothing
    <2>6. Handoff!End(b)
      BY <1>2, <2>4, <2>5 DEF Handoff!End, Handoff!Move
    <2>7. QED
      BY <1>3, <2>6 DEF Handoff!Next
  <1>6. CASE answer[p] # "refused"
    <2>1. r \in {[row[b] EXCEPT !.status = "claimed", !.claim = "claimed"],
                 [row[b] EXCEPT !.claim = "unknown"]}
      BY <1>1, <1>6 DEF ClaimAnswered
    <2>2. r \in Row /\ r.status \in LiveStatus /\ r.attempt = row[b].attempt /\ r.pane = row[b].pane
          /\ r.dispatch = row[b].dispatch /\ r.clear = row[b].clear
      BY <1>3, <2>1 DEF Row, LiveStatus
    <2>3. QED
      BY <1>1, <1>2, <1>4, <2>2, ExecuteShowsNothing
  <1>7. QED
    BY <1>5, <1>6

\* What is recorded of a reservation does not show.
LEMMA ReservationShows ==
    ASSUME IInv, NEW p \in Process,
           UseReservation(p) \/ ReconcileReservation(p) \/ StartReservation(p) \/ RecordReservation(p)
    PROVE  UNCHANGED Handoff!vars
  <1>1. PICK b : b = job[p].bead
    OBVIOUS
  <1>2. /\ pc[p] \in Executing /\ created' = created /\ delivered' = delivered
        /\ row' = row \/ \E v \in {"reserving", "reserved", "partial", "unknown", "failed"} :
                            row' = [row EXCEPT ![b] = [row[b] EXCEPT !.resv = v]]
        /\ \/ Continue(p, "reserveCall") \/ Return(p)
           \/ \E ok, step : step \in {"dispatch", "reserve"} /\ ProceedIf(p, ok, step)
    <2>1. CASE UseReservation(p)
      BY <1>1, <2>1 DEF UseReservation, Executing, Reserving, Set, external
    <2>2. CASE ReconcileReservation(p)
      BY <1>1, <2>2 DEF ReconcileReservation, Executing, Reserving, Set, external
    <2>3. CASE StartReservation(p)
      BY <1>1, <2>3 DEF StartReservation, Executing, Reserving, Set, external
    <2>4. CASE RecordReservation(p)
      BY <1>1, <2>4 DEF RecordReservation, ReservationAnswered, Executing, Reserving, Set, external
    <2>5. QED
      BY <2>1, <2>2, <2>3, <2>4
  <1>3. row[b] \in Row /\ row[b].status \in LiveStatus
    BY <1>1, <1>2, AtExecute
  <1>4. PICK r : row' = row \/ /\ row' = [row EXCEPT ![b] = r]
                               /\ r \in Row /\ r.status \in LiveStatus
                               /\ r.attempt = row[b].attempt /\ r.pane = row[b].pane
                               /\ r.dispatch = row[b].dispatch /\ r.clear = row[b].clear
    <2>1. CASE row' = row
      BY <2>1
    <2>2. CASE row' # row
      <3>1. PICK v \in {"reserving", "reserved", "partial", "unknown", "failed"} :
                 row' = [row EXCEPT ![b] = [row[b] EXCEPT !.resv = v]]
        BY <1>2, <2>2
      <3>2. WITNESS [row[b] EXCEPT !.resv = v]
      <3>3. QED
        BY <1>3, <3>1 DEF Row
    <2>3. QED
      BY <2>1, <2>2
  <1>5. {"reserveCall", "dispatch", "reserve"} \subseteq Executing
    BY DEF Executing, Reserving, Dispatching
  <1>6. QED
    BY <1>1, <1>2, <1>4, <1>5, ExecuteShowsNothing

\* StartDispatch: the dispatch barrier is a commitment.
LEMMA StartDispatchShows ==
    ASSUME IInv, NEW p \in Process, StartDispatch(p)
    PROVE  Handoff!Next
  <1>1. PICK b : b = job[p].bead
    OBVIOUS
  <1>2. /\ pc[p] \in Executing /\ pc[p] \notin Sending /\ created' = created /\ delivered' = delivered
        /\ row' = [row EXCEPT ![b] = [row[b] EXCEPT !.dispatch = "sending"]]
        /\ Continue(p, "dispatchCall") /\ "dispatchCall" \in Executing
    BY <1>1 DEF StartDispatch, Executing, Dispatching, Sending, Set, external
  <1>3. /\ TypeOK /\ b \in Bead /\ row[b] \in Row /\ row[b] # NoRow /\ row[b].clear = "none"
        /\ row[b].status \in LiveStatus /\ row[b].dispatch = "pending"
        /\ delivered[row[b].attempt] = 0
    BY <1>1, <1>2, AtExecute
  <1>4. PICK r : r = [row[b] EXCEPT !.dispatch = "sending"]
    OBVIOUS
  <1>5. r \in Row /\ r.attempt = row[b].attempt /\ r.pane = row[b].pane
        /\ r.dispatch = "sending" /\ r.clear = "none" /\ r.status \in LiveStatus
    BY <1>3, <1>4 DEF Row
  <1>6. Stage(r) = "sending" /\ Stage(row[b]) = "preparing"
    BY <1>3, <1>5, StageIs DEF LiveStatus
  <1>7. /\ StageOf[b] = "preparing" /\ StageOf' = [StageOf EXCEPT ![b] = "sending"]
        /\ KeyOf' = KeyOf /\ PlaceOf' = PlaceOf
    BY <1>2, <1>3, <1>4, <1>5, <1>6, RowGoesOn
  <1>8. SpentKeys' = SpentKeys
    BY <1>2, ExecuteSpendsNothing
  <1>9. delivered[KeyOf[b]] = 0
    BY <1>3 DEF KeyOf
  <1>10. Handoff!Commit(b)
    BY <1>2, <1>7, <1>8, <1>9 DEF Handoff!Commit, Handoff!Move
  <1>11. QED
    BY <1>3, <1>10 DEF Handoff!Next

\* Dispatch: a prompt is typed for the first time, or nothing shows.
LEMMA DispatchShows ==
    ASSUME IInv, NEW p \in Process, Dispatch(p)
    PROVE  Handoff!Next \/ UNCHANGED Handoff!vars
  <1>1. PICK b : b = job[p].bead
    OBVIOUS
  <1>2. /\ pc[p] \in Executing /\ pc[p] = "dispatchCall" /\ created' = created /\ row' = row
        /\ delivered' = delivered \/ delivered' = [delivered EXCEPT ![job[p].attempt] = @ + 1]
        /\ \E reply \in {"sent", "none", "unknown"} : Answer(p, reply, "dispatchDone")
    BY DEF Dispatch, Answer, Executing, Dispatching, Sending
  <1>3. "dispatchDone" \in Executing
    BY DEF Executing, Dispatching, Sending
  <1>4. /\ TypeOK /\ b \in Bead /\ row[b] \in Row /\ row[b] # NoRow /\ row[b].clear = "none"
        /\ row[b].status \in LiveStatus /\ row[b].attempt = job[p].attempt
        /\ job[p].attempt \in Attempt /\ ExecuteInv(p) /\ CallInv(p) /\ Now(p) = row[b]
    BY <1>1, <1>2, AtExecute
  <1>5. row[b].dispatch = "sending" /\ delivered[row[b].attempt] = 0
    BY <1>2, <1>4 DEF ExecuteInv, CallInv, Sending
  <1>6. UNCHANGED seen
    BY <1>2, RowsStay
  <1>7. SpentKeys' = SpentKeys
    BY <1>2, <1>3, ExecuteSpendsNothing
  <1>8. CASE delivered' = delivered
    BY <1>6, <1>7, <1>8 DEF seen, Handoff!vars
  <1>9. CASE delivered' = [delivered EXCEPT ![job[p].attempt] = @ + 1]
    <2>1. StageOf[b] = "sending" /\ KeyOf[b] = row[b].attempt
      BY <1>4, <1>5, StageIs DEF StageOf, KeyOf, LiveStatus
    <2>2. delivered' = [delivered EXCEPT ![row[b].attempt] = 1]
      <3>1. PICK k : k = job[p].attempt /\ k = row[b].attempt
        BY <1>4
      <3>2. delivered[k] = 0 /\ delivered' = [delivered EXCEPT ![k] = delivered[k] + 1]
        BY <1>5, <1>9, <3>1
      <3>3. delivered' = [delivered EXCEPT ![k] = 1]
        BY ONLY <3>2
      <3>4. QED
        BY <3>1, <3>3
    <2>3. Handoff!Prompt(b)
      BY <1>5, <1>6, <1>7, <2>1, <2>2 DEF seen, Handoff!Prompt
    <2>4. QED
      BY <1>4, <2>3 DEF Handoff!Next
  <1>10. QED
    BY <1>2, <1>8, <1>9

\* RecordDispatch: the ledger says that the prompt was typed when it was, and that
\* it may be typed again when it was not.
LEMMA RecordDispatchShows ==
    ASSUME HandInv, NEW p \in Process, RecordDispatch(p)
    PROVE  Handoff!Next \/ UNCHANGED Handoff!vars
  <1>1. PICK b, r : b = job[p].bead /\ r = DispatchAnswered(row[b], answer[p])
    OBVIOUS
  <1>2. /\ pc[p] \in Executing /\ pc[p] = "dispatchDone" /\ created' = created /\ delivered' = delivered
        /\ row' = [row EXCEPT ![b] = r] /\ Return(p) /\ "dispatch" \in Executing
    BY <1>1 DEF RecordDispatch, Executing, Dispatching, Sending, Set, external
  <1>3. /\ TypeOK /\ b \in Bead /\ row[b] \in Row /\ row[b] # NoRow /\ row[b].clear = "none"
        /\ row[b].status \in LiveStatus /\ row[b].attempt = job[p].attempt
        /\ job[p].attempt \in Attempt /\ ExecuteInv(p) /\ CallInv(p) /\ Now(p) = row[b]
    BY <1>1, <1>2, AtExecute DEF HandInv
  <1>4. row[b].dispatch = "sending" /\ Stage(row[b]) = "sending" /\ KeyOf[b] = row[b].attempt
    <2>1. row[b].dispatch = "sending"
      BY <1>2, <1>3 DEF ExecuteInv, Sending
    <2>2. QED
      BY <1>3, <2>1, StageIs DEF KeyOf, LiveStatus
  <1>5. SpentKeys' = SpentKeys
    BY <1>2, ExecuteSpendsNothing DEF HandInv
  <1>6. CASE answer[p] = "sent"
    <2>1. r = [row[b] EXCEPT !.status = "assigned", !.dispatch = "sent"]
      BY <1>1, <1>6 DEF DispatchAnswered
    <2>2. r \in Row /\ r.attempt = row[b].attempt /\ r.pane = row[b].pane /\ r.clear = "none"
          /\ r.status = "assigned" /\ r.dispatch = "sent"
      BY <1>3, <2>1 DEF Row, LiveStatus
    <2>3. Stage(r) = "working"
      BY <2>2, StageIs
    <2>4. /\ StageOf[b] = "sending" /\ StageOf' = [StageOf EXCEPT ![b] = "working"]
          /\ KeyOf' = KeyOf /\ PlaceOf' = PlaceOf
      BY <1>2, <1>3, <1>4, <2>2, <2>3, RowGoesOn
    <2>5. delivered[KeyOf[b]] = 1
      <3>1. delivered[row[b].attempt] # 0
        BY <1>2, <1>3, <1>6 DEF HandInv, SentInv
      <3>2. delivered[row[b].attempt] \in Nat /\ delivered[row[b].attempt] <= 1
        BY <1>3 DEF HandInv, IInv, AttemptInv, TypeOK
      <3>3. QED
        BY <1>4, <3>1, <3>2
    <2>6. Handoff!Confirm(b)
      BY <1>2, <1>5, <2>4, <2>5 DEF Handoff!Confirm, Handoff!Move
    <2>7. QED
      BY <1>3, <2>6 DEF Handoff!Next
  <1>7. CASE answer[p] = "none"
    <2>1. r = [row[b] EXCEPT !.dispatch = "pending"]
      BY <1>1, <1>7 DEF DispatchAnswered
    <2>2. r \in Row /\ r.attempt = row[b].attempt /\ r.pane = row[b].pane /\ r.clear = "none"
          /\ r.status \in LiveStatus /\ r.dispatch = "pending"
      BY <1>3, <2>1 DEF Row
    <2>3. Stage(r) = "preparing"
      BY <2>2, StageIs DEF LiveStatus
    <2>4. /\ StageOf[b] = "sending" /\ StageOf' = [StageOf EXCEPT ![b] = "preparing"]
          /\ KeyOf' = KeyOf /\ PlaceOf' = PlaceOf
      BY <1>2, <1>3, <1>4, <2>2, <2>3, RowGoesOn
    <2>5. delivered[KeyOf[b]] = 0
      BY <1>2, <1>3, <1>4, <1>7 DEF CallInv
    <2>6. Handoff!Retract(b)
      BY <1>2, <1>5, <2>4, <2>5 DEF Handoff!Retract, Handoff!Move
    <2>7. QED
      BY <1>3, <2>6 DEF Handoff!Next
  <1>8. CASE answer[p] \notin {"sent", "none"}
    <2>1. r = row[b]
      BY <1>1, <1>8 DEF DispatchAnswered
    <2>2. row' = row
      BY <1>2, <1>3, <2>1 DEF TypeOK
    <2>3. QED
      BY <1>2, <1>5, <2>2, RowsStay DEF seen, Handoff!vars
  <1>9. QED
    BY <1>6, <1>7, <1>8

-----------------------------------------------------------------------------
(***************************************************************************)
(* Requests, admission and stops.                                          *)
(***************************************************************************)
\* A step that leaves rows and prompts alone, and gives no key up.
LEMMA StepShowsNothing ==
    ASSUME IInv, NEW p \in Process, Goes(p), row' = row, delivered' = delivered,
           Pending(p) <=> Pending(p)'
    PROVE  UNCHANGED Handoff!vars
  BY NothingSpent, RowsStay DEF seen, Handoff!vars

\* Whoever returns or dies before its row is written wastes a key.
LEMMA ReturnShows ==
    ASSUME IInv, NEW p \in Process, Return(p), row' = row, delivered' = delivered, created' = created
    PROVE  Handoff!Next \/ UNCHANGED Handoff!vars
  <1>1. Goes(p) /\ pc'[p] = "idle"
    BY ReturnFrees DEF Goes, IInv
  <1>2. ~ Pending(p)'
    BY <1>1 DEF Pending
  <1>3. CASE Pending(p)
    <2>1. job[p].attempt \in Attempt /\ SpentKeys' = SpentKeys \cup {job[p].attempt}
      BY <1>1, <1>2, <1>3, KeySpent
    <2>2. Handoff!Waste(job[p].attempt)
      BY <2>1, RowsStay DEF seen, Handoff!Waste
    <2>3. QED
      BY <2>1, <2>2 DEF Handoff!Next
  <1>4. CASE ~ Pending(p)
    BY <1>1, <1>2, <1>4, StepShowsNothing
  <1>5. QED
    BY <1>3, <1>4

\* A request shows nothing; a new attempt is not spent while it is on its way.
LEMMA RequestShows ==
    ASSUME IInv, NEW p \in Process, Request(p)
    PROVE  UNCHANGED Handoff!vars
  <1>1. row' = row /\ delivered' = delivered /\ pc[p] = "idle"
    BY DEF Request, RequestAttempt, RequestRecovery, RequestClear, RequestRetirement, Ask, external
  <1>2. TypeOK /\ ~ Pending(p)
    BY <1>1 DEF IInv, Pending
  <1>3. PICK j : /\ Ask(p, j)
                 /\ \/ created' = created /\ j.kind \notin NewKind
                    \/ created' = created + 1 /\ j.kind \in NewKind /\ j.attempt = created'
    <2>1. CASE RequestAttempt(p)
      <3>1. PICK k \in {"assign", "replace"}, b \in Bead, x \in Pane :
                 Ask(p, [kind |-> k, bead |-> b, attempt |-> created', pane |-> x])
        BY <2>1 DEF RequestAttempt
      <3>2. WITNESS [kind |-> k, bead |-> b, attempt |-> created', pane |-> x]
      <3>3. QED
        BY <2>1, <3>1 DEF RequestAttempt, NewKind
    <2>2. CASE RequestRecovery(p) \/ RequestClear(p) \/ RequestRetirement(p)
      <3>1. PICK k \in ClearKind \cup {"recover", "retire"}, b \in Bead :
                 Ask(p, [kind |-> k, bead |-> b, attempt |-> row[b].attempt, pane |-> row[b].pane])
        BY <2>2 DEF RequestRecovery, RequestClear, RequestRetirement
      <3>2. WITNESS [kind |-> k, bead |-> b, attempt |-> row[b].attempt, pane |-> row[b].pane]
      <3>3. created' = created
        BY <2>2 DEF RequestRecovery, RequestClear, RequestRetirement
      <3>4. QED
        BY <3>1, <3>3 DEF NewKind, ClearKind
    <2>3. QED
      BY <2>1, <2>2 DEF Request
  <1>4. pc' = [pc EXCEPT ![p] = "lock"] /\ job' = [job EXCEPT ![p] = j]
    BY <1>3 DEF Ask, Goto
  <1>5. ASSUME NEW q \in Process \ {p}
        PROVE  (Pending(q)' <=> Pending(q)) /\ job'[q].attempt = job[q].attempt
    BY <1>2, <1>4 DEF Pending, TypeOK
  <1>6. /\ Pending(p)' <=> j.kind \in NewKind
        /\ job'[p] = j /\ created \in Nat
    BY <1>2, <1>4, AttemptIsNat DEF Pending, NewKind, TypeOK
  <1>7. SpentKeys' = SpentKeys
    <2>1. CASE created' = created /\ j.kind \notin NewKind
      <3>1. \A k : \A q \in Process : (Pending(q)' => job'[q].attempt # k) <=> (Pending(q) => job[q].attempt # k)
        BY <1>2, <1>5, <1>6, <2>1
      <3>2. QED
        BY <2>1, <3>1 DEF SpentKeys
    <2>2. CASE created' = created + 1 /\ j.kind \in NewKind /\ j.attempt = created'
      <3>1. \A k \in 1..created : (\A q \in Process : Pending(q)' => job'[q].attempt # k)
                                      <=> (\A q \in Process : Pending(q) => job[q].attempt # k)
        BY <1>2, <1>5, <1>6, <2>2
      <3>2. ~ \A q \in Process : Pending(q)' => job'[q].attempt # created'
        BY <1>6, <2>2
      <3>3. 1..created' = (1..created) \cup {created'}
        BY <1>6, <2>2
      <3>4. QED
        BY <1>6, <2>2, <3>1, <3>2, <3>3 DEF SpentKeys
    <2>3. QED
      BY <1>3, <2>1, <2>2
  <1>8. QED
    BY <1>1, <1>7, RowsStay DEF seen, Handoff!vars

\* LockBead: a lock shows nothing.
LEMMA LockBeadShows ==
    ASSUME IInv, NEW p \in Process, LockBead(p)
    PROVE  UNCHANGED Handoff!vars
  <1>1. /\ pc[p] = "lock" /\ row' = row /\ delivered' = delivered /\ created' = created /\ job' = job
        /\ pc' = [pc EXCEPT ![p] = IF job[p].kind \in ExecuteKind THEN "admit" ELSE "begin"]
        /\ cleanup[job[p].bead] = NoOne /\ cleanup' = [cleanup EXCEPT ![job[p].bead] = p]
        /\ UNCHANGED <<target, answer>>
    BY DEF LockBead, Goto, external
  <1>2. TypeOK
    BY DEF IInv
  <1>3. OthersStay(p)
    <2>1. \A q \in Process \ {p} : pc'[q] = pc[q] /\ job'[q] = job[q] /\ answer'[q] = answer[q]
      BY <1>1, <1>2 DEF TypeOK
    <2>2. \A q \in Process \ {p}, c \in Bead : cleanup[c] = q => cleanup'[c] = q
      BY <1>1, <1>2, AtomicAssumption DEF TypeOK, AtomicAssumption
    <2>3. QED
      BY <1>1, <2>1, <2>2 DEF OthersStay
  <1>4. pc'[p] \in {"admit", "begin"}
    BY <1>1, <1>2 DEF TypeOK
  <1>5. Goes(p) /\ (Pending(p) <=> Pending(p)')
    BY <1>1, <1>3, <1>4 DEF Goes, Pending
  <1>6. QED
    BY <1>1, <1>5, StepShowsNothing

\* Admit and Authorize go on with the same key, or give it up.
LEMMA AdmissionShows ==
    ASSUME IInv, NEW p \in Process, Admit(p) \/ Authorize(p)
    PROVE  Handoff!Next \/ UNCHANGED Handoff!vars
  <1>1. row' = row /\ delivered' = delivered /\ created' = created /\ pc[p] \in {"admit", "authorize"}
    BY DEF Admit, Authorize, external
  <1>2. TypeOK
    BY DEF IInv
  <1>3. CASE Return(p)
    BY <1>1, <1>3, ReturnShows
  <1>4. CASE ~ Return(p)
    <2>1. job' = job /\ OthersStay(p) /\ pc'[p] \in {"authorize", "begin", "intent"}
      <3>1. CASE Admit(p)
        <4>1. /\ pc' = [pc EXCEPT ![p] = "authorize"] /\ UNCHANGED <<cleanup, job, answer>>
              /\ target[job[p].pane] = NoOne /\ target' = [target EXCEPT ![job[p].pane] = p]
          BY <1>4, <3>1 DEF Admit, Goto
        <4>2. QED
          <5>1. \A q \in Process \ {p} : pc'[q] = pc[q] /\ job'[q] = job[q] /\ answer'[q] = answer[q]
            BY <1>2, <4>1 DEF TypeOK
          <5>2. \A q \in Process \ {p}, x \in Pane : target[x] = q => target'[x] = q
            <6> SUFFICES ASSUME NEW q \in Process \ {p}, NEW x \in Pane, target[x] = q
                         PROVE  target'[x] = q
              OBVIOUS
            <6>1. x # job[p].pane
              BY <4>1, AtomicAssumption DEF AtomicAssumption
            <6>2. QED
              BY <1>2, <4>1, <6>1 DEF TypeOK
          <5>3. pc'[p] = "authorize"
            BY <1>2, <4>1 DEF TypeOK
          <5>4. QED
            BY <4>1, <5>1, <5>2, <5>3 DEF OthersStay
      <3>2. CASE Authorize(p)
        <4>1. /\ pc' = [pc EXCEPT ![p] = "begin"] \/ pc' = [pc EXCEPT ![p] = "intent"]
              /\ UNCHANGED <<cleanup, target, job, answer>>
          BY <1>4, <3>2 DEF Authorize, Continue, Goto, locks
        <4>2. QED
          BY <1>2, <4>1 DEF TypeOK, OthersStay
      <3>3. QED
        BY <3>1, <3>2
    <2>2. Goes(p) /\ (Pending(p) <=> Pending(p)')
      BY <1>1, <2>1 DEF Goes, Pending
    <2>3. QED
      BY <1>1, <2>2, StepShowsNothing
  <1>5. QED
    BY <1>3, <1>4

-----------------------------------------------------------------------------
(***************************************************************************)
(* A new row.                                                              *)
(***************************************************************************)
\* RecordIntent: under a key that nobody else knows, for a bead that is free, in a
\* pane that nobody else occupies.
LEMMA RecordIntentShows ==
    ASSUME HandInv, NEW p \in Process, RecordIntent(p)
    PROVE  Handoff!Next \/ UNCHANGED Handoff!vars
  <1>1. PICK j, b : j = job[p] /\ b = j.bead
    OBVIOUS
  <1>2. /\ pc[p] = "intent" /\ Locked(p) /\ created' = created /\ delivered' = delivered
        /\ Continue(p, "claim") /\ "claim" \in ExecuteStep
        /\ \/ row' = row /\ row[b] # NoRow /\ row[b].attempt = j.attempt
           \/ row' = [row EXCEPT ![b] = NewRow(j)]
    BY <1>1 DEF RecordIntent, Set, external, Locked, ExecuteStep
  <1>3. /\ IInv /\ TypeOK /\ ProcessInv(p) /\ j \in Job /\ b \in Bead
        /\ j.attempt \in Attempt /\ j.pane \in Pane /\ row[b] \in Row \cup {NoRow}
    BY <1>1, <1>2, AtWork DEF HandInv
  <1>4. Goes(p) /\ ~ Pending(p)'
    <2>1. pc'[p] = "claim" /\ job' = job /\ OthersStay(p)
      BY <1>2, <1>3, ContinueMoves DEF locks
    <2>2. QED
      BY <1>2, <2>1 DEF Goes, Pending
  <1>5. CASE Pending(p)
    <2>1. j.attempt \notin SpentKeys /\ SpentKeys' = SpentKeys \cup {j.attempt}
      BY <1>1, <1>3, <1>4, <1>5, KeySpent
    <2>2. j.kind \in NewKind /\ (row[b] # NoRow => row[b].attempt # j.attempt)
      BY <1>1, <1>3, <1>5, PendingIsEarly DEF ProcessInv, FreshInv, Early
    <2>3. row' = [row EXCEPT ![b] = NewRow(j)]
      BY <1>2, <2>2
    <2>4. NewRow(j) \in Row /\ Stage(NewRow(j)) = "preparing"
      <3>1. ClaimActor(j) \in Attempt
        BY <1>1, <1>3 DEF ClaimActor, Row
      <3>2. NewRow(j) \in Row
        BY <1>3, <3>1 DEF NewRow, Row, LiveStatus
      <3>3. NewRow(j).status = "claiming" /\ NewRow(j).clear = "none" /\ NewRow(j).dispatch = "pending"
        BY DEF NewRow
      <3>4. QED
        BY <3>2, <3>3, StageIs
    <2>5. NewRow(j).attempt = j.attempt /\ NewRow(j).pane = j.pane
      BY DEF NewRow
    <2>6. /\ StageOf' = [StageOf EXCEPT ![b] = "preparing"]
          /\ KeyOf' = [KeyOf EXCEPT ![b] = j.attempt]
          /\ PlaceOf' = [PlaceOf EXCEPT ![b] = j.pane]
      <3>1. PICK r : r = NewRow(j)
        OBVIOUS
      <3>2. r \in Row /\ Stage(r) = "preparing" /\ r.attempt = j.attempt /\ r.pane = j.pane
            /\ row' = [row EXCEPT ![b] = r]
        BY <2>3, <2>4, <2>5, <3>1
      <3>3. /\ StageOf' = [StageOf EXCEPT ![b] = Stage(r)]
            /\ KeyOf' = [KeyOf EXCEPT ![b] = r.attempt]
            /\ PlaceOf' = [PlaceOf EXCEPT ![b] = r.pane]
        BY <1>3, <3>2, RowIsNew
      <3>4. QED
        BY <3>2, <3>3
    <2>7. StageOf[b] \in {"none", "ending", "ended"}
      <3>1. CASE j.kind = "assign"
        <4>1. row[b] = NoRow \/ row[b].status = "ended"
          BY <1>1, <1>2, <3>1 DEF HandInv, AssignInv, Now
        <4>2. QED
          BY <1>3, <4>1, StageIs DEF StageOf
      <3>2. CASE j.kind = "replace"
        <4>1. row[b] # NoRow /\ row[b].clear = "released"
          BY <1>1, <1>2, <1>3, <3>2 DEF ProcessInv, AdmittedInv, Now
        <4>2. QED
          BY <1>3, <4>1, StageIs DEF StageOf
      <3>3. QED
        BY <2>2, <3>1, <3>2 DEF NewKind
    <2>8. ASSUME NEW c \in Bead \ {b}, Handoff!Occupies(c)
          PROVE  PlaceOf[c] # j.pane
      <3>1. row[c] # NoRow /\ row[c].status # "ended" /\ row[c] \in Row
        <4>1. StageOf[c] \notin {"none", "ended"}
          BY <2>8 DEF Handoff!Occupies
        <4>2. row[c] # NoRow /\ StageOf[c] = Stage(row[c])
          BY <4>1 DEF StageOf
        <4>3. row[c] \in Row
          BY <1>3, <4>2 DEF TypeOK
        <4>4. QED
          BY <4>1, <4>2, <4>3, StageIs
      <3>2. Works(c)
        BY <3>1 DEF Works, Row
      <3>3. PaneLocked(p)
        BY <1>1, <1>2, <2>2 DEF PaneLocked, NewKind, ExecuteKind
      <3>4. row[c].pane # j.pane
        BY <1>1, <1>2, <1>3, <3>2, <3>3 DEF ProcessInv, PaneInv
      <3>5. QED
        BY <3>1, <3>4 DEF PlaceOf
    <2>9. Handoff!Hand(b, j.attempt, j.pane)
      BY <1>2, <2>1, <2>6, <2>7, <2>8 DEF Handoff!Hand
    <2>10. QED
      BY <1>3, <2>9 DEF Handoff!Next
  <1>6. CASE ~ Pending(p)
    <2>1. j.kind = "recover"
      BY <1>1, <1>2, <1>3, <1>6 DEF ProcessInv, LockInv, ExecuteStep, ExecuteKind, Pending
    <2>2. row[b] # NoRow /\ row[b].attempt = j.attempt
      BY <1>1, <1>2, <1>3, <2>1 DEF ProcessInv, AdmittedInv, Own, Now
    <2>3. row' = row
      BY <1>1, <2>2 DEF RecordIntent
    <2>4. QED
      BY <1>2, <1>3, <1>4, <1>6, <2>3, StepShowsNothing
  <1>7. QED
    BY <1>5, <1>6

-----------------------------------------------------------------------------
(***************************************************************************)
(* Cleanups.                                                               *)
(***************************************************************************)
\* The end of an attempt that was not ending begins.
LEMMA EndBegins ==
    ASSUME TypeOK, NEW b \in Bead, row[b] # NoRow, NEW r \in Row, row' = [row EXCEPT ![b] = r],
           r.attempt = row[b].attempt, r.pane = row[b].pane, r.status = row[b].status,
           r.clear # "none", SpentKeys' = SpentKeys, delivered' = delivered
    PROVE  Handoff!Next \/ UNCHANGED Handoff!vars
  <1>1. row[b] \in Row
    BY DEF TypeOK
  <1>2. /\ StageOf[b] = Stage(row[b]) /\ StageOf' = [StageOf EXCEPT ![b] = Stage(r)]
        /\ KeyOf' = KeyOf /\ PlaceOf' = PlaceOf
        /\ Stage(r) = Stage(row[b]) => StageOf' = StageOf
    BY RowGoesOn
  <1>3. CASE row[b].status = "ended" \/ row[b].clear # "none"
    <2>1. Stage(r) = Stage(row[b])
      BY <1>1, <1>3, StageIs
    <2>2. QED
      BY <1>2, <2>1 DEF Handoff!vars
  <1>4. CASE row[b].status # "ended" /\ row[b].clear = "none"
    <2>1. Stage(r) = "ending" /\ Stage(row[b]) \in {"preparing", "sending", "working"}
      <3>1. row[b].dispatch \in {"pending", "sending", "sent"}
        BY <1>1 DEF Row
      <3>2. QED
        BY <1>1, <1>4, <3>1, StageIs
    <2>2. Handoff!BeginEnd(b)
      BY <1>2, <2>1 DEF Handoff!BeginEnd, Handoff!Move
    <2>3. QED
      BY <2>2 DEF Handoff!Next
  <1>5. QED
    BY <1>3, <1>4

\* BeginCleanup: the barrier of a cleanup begins the end; a refused one shows nothing.
LEMMA BeginCleanupShows ==
    ASSUME IInv, NEW p \in Process, BeginCleanup(p)
    PROVE  Handoff!Next \/ UNCHANGED Handoff!vars
  <1>1. PICK b : b = job[p].bead
    OBVIOUS
  <1>2. pc[p] = "begin" /\ pc[p] \in CleanupStep /\ created' = created /\ delivered' = delivered
    BY DEF BeginCleanup, CleanupStep, external
  <1>3. /\ TypeOK /\ job[p] \in Job /\ b \in Bead /\ row[b] \in Row \cup {NoRow}
        /\ Now(p) = row[b] /\ LockInv(p) /\ CleanupInv(p)
    BY <1>1, <1>2, AtCleanup
  <1>4. CASE ~ MayBegin(job[p])
    <2>1. row' = row /\ Return(p)
      BY <1>4 DEF BeginCleanup
    <2>2. QED
      BY <1>2, <2>1, ReturnShows
  <1>5. CASE MayBegin(job[p])
    <2>1. PICK r : r = Begun(job[p], row[b])
      OBVIOUS
    <2>2. /\ row[b] # NoRow /\ row' = [row EXCEPT ![b] = r]
          /\ Continue(p, IF row[b].clear = "released" THEN "unclaim" ELSE "release")
      BY <1>1, <1>5, <2>1 DEF BeginCleanup, MayBegin, Set
    <2>3. /\ r \in Row /\ r.attempt = row[b].attempt /\ r.pane = row[b].pane
          /\ r.status = row[b].status /\ r.clear # "none"
      <3>1. row[b] \in Row
        BY <1>3, <2>2
      <3>2. QED
        BY ONLY <2>1, <3>1 DEF Begun, Row
    <2>4. SpentKeys' = SpentKeys
      <3>1. PICK step \in CleanupStep : step = IF row[b].clear = "released" THEN "unclaim" ELSE "release"
        BY DEF CleanupStep
      <3>2. pc'[p] = step /\ job' = job /\ OthersStay(p)
        BY <1>3, <2>2, <3>1, ContinueMoves DEF locks
      <3>3. job[p].kind \notin {"assign"} /\ (job[p].kind = "replace" => step = "release")
        BY <1>2, <1>3, <3>1 DEF LockInv, CleanupInv
      <3>4. Goes(p) /\ (Pending(p) <=> Pending(p)')
        BY <1>2, <3>2, <3>3 DEF Goes, Pending
      <3>5. QED
        BY <3>4, NothingSpent
    <2>5. QED
      BY <1>2, <1>3, <2>2, <2>3, <2>4, EndBegins
  <1>6. QED
    BY <1>4, <1>5

\* Giving leases and claim back does not show.
LEMMA ReleaseShows ==
    ASSUME IInv, NEW p \in Process,
           \/ ReleaseLeases(p) \/ RecordLeasesReleased(p)
           \/ ReleaseClaim(p) \/ RecordTerminalClaimReleased(p)
    PROVE  Handoff!Next \/ UNCHANGED Handoff!vars
  <1>1. PICK b : b = job[p].bead
    OBVIOUS
  <1>2. /\ pc[p] \in {"release", "releaseDone", "unclaim", "unclaimDone"}
        /\ created' = created /\ delivered' = delivered
        /\ \/ row' = row
           \/ row' = [row EXCEPT ![b] = LeasesReleased(row[b])]
           \/ row' = [row EXCEPT ![b] = [row[b] EXCEPT !.claimFree = TRUE]]
    BY <1>1 DEF ReleaseLeases, RecordLeasesReleased, ReleaseClaim, RecordTerminalClaimReleased, Set,
       external
  <1>3. PICK step : /\ Continue(p, step)
                    /\ \/ pc[p] = "release" /\ step = "releaseDone"
                       \/ /\ pc[p] = "releaseDone"
                          /\ step = IF job[p].kind = "replace" THEN "intent" ELSE "unclaim"
                       \/ pc[p] = "unclaim" /\ step \in {"unclaimDone", "complete"}
                       \/ pc[p] = "unclaimDone" /\ step = "complete"
    BY DEF ReleaseLeases, RecordLeasesReleased, ReleaseClaim, RecordTerminalClaimReleased
  <1>4. /\ TypeOK /\ b \in Bead /\ row[b] \in Row /\ LockInv(p)
        /\ row[b] # NoRow /\ row[b].clear # "none"
    BY <1>1, <1>2, AtCleanup DEF CleanupStep
  <1>5. SpentKeys' = SpentKeys
    <2>1. step \in ExecuteStep \cup CleanupStep
      BY <1>3 DEF ExecuteStep, CleanupStep
    <2>2. pc'[p] = step /\ job' = job /\ OthersStay(p)
      BY <1>3, <1>4, <2>1, ContinueMoves DEF locks
    <2>3. job[p].kind # "assign"
      BY <1>2, <1>4 DEF LockInv, CleanupStep
    <2>4. Goes(p) /\ (Pending(p) <=> Pending(p)')
      BY <1>2, <1>3, <2>2, <2>3 DEF Goes, Pending
    <2>5. QED
      BY <2>4, NothingSpent
  <1>6. CASE row' = row
    BY <1>2, <1>5, <1>6, RowsStay DEF seen, Handoff!vars
  <1>7. ASSUME NEW r, row' = [row EXCEPT ![b] = r],
               r = LeasesReleased(row[b]) \/ r = [row[b] EXCEPT !.claimFree = TRUE]
        PROVE  Handoff!Next \/ UNCHANGED Handoff!vars
    <2>1. r \in Row /\ r.attempt = row[b].attempt /\ r.pane = row[b].pane /\ r.status = row[b].status
          /\ r.clear # "none"
      BY <1>4, <1>7 DEF LeasesReleased, Row
    <2>2. QED
      BY <1>2, <1>4, <1>5, <1>7, <2>1, EndBegins
  <1>8. QED
    BY <1>2, <1>6, <1>7

\* Complete: a retired attempt has ended, a cleared one is gone.
LEMMA CompleteShows ==
    ASSUME IInv, NEW p \in Process, Complete(p)
    PROVE  Handoff!Next \/ UNCHANGED Handoff!vars
  <1>1. PICK b : b = job[p].bead
    OBVIOUS
  <1>2. /\ pc[p] = "complete" /\ pc[p] \in CleanupStep /\ created' = created /\ delivered' = delivered
        /\ row' = [row EXCEPT ![b] = IF job[p].kind = "retire" THEN Retired(row[b]) ELSE NoRow]
        /\ Return(p)
    BY <1>1 DEF Complete, CleanupStep, Set, external
  <1>3. /\ TypeOK /\ b \in Bead /\ row[b] \in Row /\ LockInv(p)
        /\ row[b] # NoRow /\ row[b].clear # "none"
    BY <1>1, <1>2, AtCleanup
  <1>4. SpentKeys' = SpentKeys
    <2>1. Goes(p) /\ pc'[p] = "idle"
      BY <1>2, <1>3, ReturnFrees DEF Goes
    <2>2. QED
      BY <1>2, <2>1, NothingSpent DEF Pending
  <1>5. StageOf[b] = Stage(row[b]) /\ Stage(row[b]) \in {"ending", "ended"}
    BY <1>3, StageIs DEF StageOf
  <1>6. CASE job[p].kind = "retire"
    <2>1. PICK r : r = Retired(row[b])
      OBVIOUS
    <2>2. r \in Row /\ r.attempt = row[b].attempt /\ r.pane = row[b].pane /\ r.status = "ended"
      BY ONLY <1>3, <2>1 DEF Retired, Row
    <2>3. /\ StageOf' = [StageOf EXCEPT ![b] = Stage(r)]
          /\ KeyOf' = KeyOf /\ PlaceOf' = PlaceOf
          /\ Stage(r) = Stage(row[b]) => StageOf' = StageOf
      BY <1>2, <1>3, <1>6, <2>1, <2>2, RowGoesOn
    <2>4. Stage(r) = "ended"
      BY <2>2, StageIs
    <2>5. CASE Stage(row[b]) = "ended"
      BY <1>2, <1>4, <2>3, <2>4, <2>5 DEF Handoff!vars
    <2>6. CASE Stage(row[b]) = "ending"
      <3>1. Handoff!End(b)
        BY <1>2, <1>4, <1>5, <2>3, <2>4, <2>6 DEF Handoff!End, Handoff!Move
      <3>2. QED
        BY <1>3, <3>1 DEF Handoff!Next
    <2>7. QED
      BY <1>5, <2>5, <2>6
  <1>7. CASE job[p].kind # "retire"
    <2>1. Handoff!Drop(b)
      BY <1>2, <1>3, <1>4, <1>5, <1>7, RowGoes DEF Handoff!Drop
    <2>2. QED
      BY <1>3, <2>1 DEF Handoff!Next
  <1>8. QED
    BY <1>6, <1>7

-----------------------------------------------------------------------------
(***************************************************************************)
(* Everybody else.                                                         *)
(***************************************************************************)
\* A step of no process changes no key.
LEMMA KeysRest ==
    ASSUME UNCHANGED <<created, job, pc>>
    PROVE  SpentKeys' = SpentKeys
  BY DEF SpentKeys, Pending

\* MarkWorking shows nothing, DetectEnd begins an end.
LEMMA DetectorShows ==
    ASSUME IInv, NEW b \in Bead, MarkWorking(b) \/ DetectEnd(b)
    PROVE  Handoff!Next \/ UNCHANGED Handoff!vars
  <1>1. TypeOK /\ row[b] # NoRow /\ row[b] \in Row /\ delivered' = delivered
    BY DEF IInv, TypeOK, MarkWorking, DetectEnd, rest, external
  <1>2. SpentKeys' = SpentKeys
    BY KeysRest DEF MarkWorking, DetectEnd, rest
  <1>3. CASE MarkWorking(b)
    <2>1. PICK r : r = [row[b] EXCEPT !.status = "working"]
      OBVIOUS
    <2>2. row' = [row EXCEPT ![b] = r] /\ row[b].status = "assigned" /\ row[b].clear = "none"
      BY <1>3, <2>1 DEF MarkWorking, Set
    <2>3. r \in Row /\ r.attempt = row[b].attempt /\ r.pane = row[b].pane /\ r.status = "working"
          /\ r.clear = row[b].clear /\ r.dispatch = row[b].dispatch
      BY ONLY <1>1, <2>1 DEF Row, LiveStatus
    <2>4. UNCHANGED seen
      BY <1>1, <2>2, <2>3, LiveRowGoesOn DEF LiveStatus
    <2>5. QED
      BY <1>1, <1>2, <2>4 DEF seen, Handoff!vars
  <1>4. CASE DetectEnd(b)
    <2>1. PICK r : r = [row[b] EXCEPT !.clear = "releasing", !.ending = TRUE]
      OBVIOUS
    <2>2. row' = [row EXCEPT ![b] = r]
      BY <1>4, <2>1 DEF DetectEnd, Set
    <2>3. r \in Row /\ r.attempt = row[b].attempt /\ r.pane = row[b].pane /\ r.status = row[b].status
          /\ r.clear # "none"
      BY ONLY <1>1, <2>1 DEF Row
    <2>4. QED
      BY <1>1, <1>2, <2>2, <2>3, EndBegins
  <1>5. QED
    BY <1>3, <1>4

\* The tracker and Agent Mail show nothing.
LEMMA OutsideShows ==
    ASSUME (\E b \in Bead : TrackerMove(b)) \/ (\E k \in Attempt : LeaseLapses(k)) \/ UNCHANGED vars
    PROVE  UNCHANGED Handoff!vars
  <1>1. UNCHANGED <<row, delivered, created, job, pc>>
    BY DEF TrackerMove, LeaseLapses, vars, external
  <1>2. QED
    BY <1>1, KeysRest, RowsStay DEF seen, Handoff!vars

\* Each step of AtomicAssignment is a step of BeadHandoff, or none.
LEMMA HandStep ==
    ASSUME HandInv, [Next]_vars
    PROVE  Handoff!Next \/ UNCHANGED Handoff!vars
  <1>1. IInv
    BY DEF HandInv
  <1>2. ASSUME NEW p \in Process, Work(p)
        PROVE  Handoff!Next \/ UNCHANGED Handoff!vars
    BY <1>1, <1>2, AdmissionShows, RecordIntentShows, StartClaimShows, CallsShow, RecordClaimShows,
       ReservationShows, StartDispatchShows, DispatchShows, RecordDispatchShows, BeginCleanupShows,
       ReleaseShows, CompleteShows DEF Work
  <1>3. ASSUME NEW p \in Process, Stop(p)
        PROVE  Handoff!Next \/ UNCHANGED Handoff!vars
    BY <1>1, <1>3, ReturnShows DEF Stop, external
  <1>4. ASSUME NEW p \in Process, Request(p) \/ LockBead(p) \/ Admit(p)
        PROVE  Handoff!Next \/ UNCHANGED Handoff!vars
    BY <1>1, <1>4, RequestShows, LockBeadShows, AdmissionShows
  <1>5. QED
    BY <1>1, <1>2, <1>3, <1>4, DetectorShows, OutsideShows DEF Next

-----------------------------------------------------------------------------
(***************************************************************************)
(* The invariant.                                                          *)
(***************************************************************************)
\* Where the steps of a process lead, as far as HandInv needs it.
LEMMA WorkLeads ==
    ASSUME NEW p \in Process, Work(p)
    PROVE  \E step, ok, reply :
              /\ Continue(p, step) \/ Answer(p, reply, step) \/ ProceedIf(p, ok, step) \/ Return(p)
              /\ step # "authorize"
              /\ step = "dispatchDone" => Dispatch(p) /\ Answer(p, reply, step)
              /\ step = "intent" =>
                    \/ Authorize(p)
                    \/ RecordLeasesReleased(p) /\ Continue(p, step) /\ job[p].kind = "replace"
  <1>1. CASE Authorize(p)
    <2>1. Return(p) \/ Continue(p, "begin") \/ Continue(p, "intent")
      BY <1>1 DEF Authorize
    <2>2. QED
      BY <1>1, <2>1
  <1>2. CASE RecordIntent(p) \/ StartClaim(p) \/ StartReservation(p) \/ StartDispatch(p)
    BY <1>2 DEF RecordIntent, StartClaim, StartReservation, StartDispatch
  <1>3. CASE Claim(p) \/ Reserve(p)
    BY <1>3 DEF Claim, Reserve
  <1>4. CASE Dispatch(p)
    BY <1>4 DEF Dispatch
  <1>5. CASE RecordClaim(p) \/ UseReservation(p) \/ ReconcileReservation(p) \/ RecordReservation(p)
    BY <1>5 DEF RecordClaim, UseReservation, ReconcileReservation, RecordReservation
  <1>6. CASE RecordDispatch(p) \/ Complete(p)
    BY <1>6 DEF RecordDispatch, Complete
  <1>7. CASE BeginCleanup(p)
    BY <1>7 DEF BeginCleanup
  <1>8. CASE ReleaseLeases(p) \/ ReleaseClaim(p) \/ RecordTerminalClaimReleased(p)
    BY <1>8 DEF ReleaseLeases, ReleaseClaim, RecordTerminalClaimReleased
  <1>9. CASE RecordLeasesReleased(p)
    BY <1>9 DEF RecordLeasesReleased
  <1>10. QED
    BY <1>1, <1>2, <1>3, <1>4, <1>5, <1>6, <1>7, <1>8, <1>9 DEF Work

\* A process writes no row but that of the bead it has locked.
LEMMA WorkWrites ==
    ASSUME IInv, NEW p \in Process, Work(p), NEW b \in Bead, row'[b] # row[b]
    PROVE  Locked(p) /\ job[p].bead = b
  <1>1. row' = row \/ \E r : row' = [row EXCEPT ![job[p].bead] = r]
    <2>1. CASE \/ Authorize(p) \/ Claim(p) \/ Reserve(p) \/ Dispatch(p) \/ ReleaseLeases(p)
               \/ ReleaseClaim(p)
      BY <2>1 DEF Authorize, Claim, Reserve, Dispatch, ReleaseLeases, ReleaseClaim, Answer
    <2>2. CASE RecordIntent(p) \/ StartClaim(p) \/ RecordClaim(p)
      BY <2>2 DEF RecordIntent, StartClaim, RecordClaim, Set
    <2>3. CASE \/ UseReservation(p) \/ ReconcileReservation(p) \/ StartReservation(p)
               \/ RecordReservation(p)
      BY <2>3 DEF UseReservation, ReconcileReservation, StartReservation, RecordReservation, Set
    <2>4. CASE StartDispatch(p) \/ RecordDispatch(p) \/ BeginCleanup(p) \/ RecordLeasesReleased(p)
      BY <2>4 DEF StartDispatch, RecordDispatch, BeginCleanup, RecordLeasesReleased, Set
    <2>5. CASE RecordTerminalClaimReleased(p) \/ Complete(p)
      BY <2>5 DEF RecordTerminalClaimReleased, Complete, Set
    <2>6. QED
      BY <2>1, <2>2, <2>3, <2>4, <2>5 DEF Work
  <1>2. Locked(p)
    BY DEF Locked, Work, Authorize, RecordIntent, StartClaim, Claim, RecordClaim, UseReservation,
       ReconcileReservation, StartReservation, Reserve, RecordReservation, StartDispatch, Dispatch,
       RecordDispatch, BeginCleanup, ReleaseLeases, RecordLeasesReleased, ReleaseClaim,
       RecordTerminalClaimReleased, Complete
  <1>3. job[p].bead = b
    BY <1>1 DEF IInv, TypeOK
  <1>4. QED
    BY <1>2, <1>3

\* Who locks a bead keeps it free: its row does not come to life meanwhile.
LEMMA FreeBeadStays ==
    ASSUME IInv, [Next]_vars, NEW q \in Process, Locked(q), NEW b \in Bead, b = job[q].bead,
           row[b] = NoRow \/ row[b].status = "ended"
    PROVE  row'[b] = row[b] \/ Work(q)
  <1>1. TypeOK /\ LockInv(q)
    BY DEF IInv, ProcessInv
  <1>2. ASSUME NEW p \in Process, Work(p), row'[b] # row[b]
        PROVE  p = q
    <2>1. Locked(p) /\ job[p].bead = b /\ LockInv(p)
      BY <1>2, WorkWrites DEF IInv, ProcessInv
    <2>2. QED
      BY <1>1, <2>1, LocksDiffer
  <1>3. ASSUME NEW c \in Bead, MarkWorking(c) \/ DetectEnd(c)
        PROVE  row'[b] = row[b]
    <2>1. row[c] # NoRow /\ row[c].status # "ended" /\ \E r : row' = [row EXCEPT ![c] = r]
      BY <1>3 DEF MarkWorking, DetectEnd, Set
    <2>2. QED
      BY <1>1, <2>1 DEF TypeOK
  <1>4. ASSUME NEW p \in Process, Request(p) \/ LockBead(p) \/ Admit(p) \/ Stop(p)
        PROVE  row' = row
    BY <1>4 DEF Request, RequestAttempt, RequestRecovery, RequestClear, RequestRetirement, Ask,
       LockBead, Admit, Stop
  <1>5. ASSUME \/ \E c \in Bead : TrackerMove(c)
               \/ \E k \in Attempt : LeaseLapses(k)
               \/ UNCHANGED vars
        PROVE  row' = row
    BY <1>5 DEF TrackerMove, LeaseLapses, vars
  <1>6. QED
    BY <1>2, <1>3, <1>4, <1>5 DEF Next

\* A process is where it was, or takes one of the steps that HandInv is about.
LEMMA ControlLeads ==
    ASSUME TypeOK, [Next]_vars, NEW q \in Process
    PROVE  \/ pc'[q] = pc[q] /\ job'[q] = job[q] /\ answer'[q] = answer[q]
           \/ pc'[q] \notin {"authorize", "intent", "dispatchDone"}
           \/ pc'[q] = "authorize" /\ Admit(q) /\ job'[q] = job[q] /\ Acceptable(job[q])
           \/ pc'[q] = "intent" /\ Authorize(q) /\ job'[q] = job[q]
           \/ pc'[q] = "intent" /\ job[q].kind = "replace" /\ job'[q] = job[q]
           \/ pc'[q] = "dispatchDone" /\ Dispatch(q) /\ job'[q] = job[q]
              /\ \E reply : Answer(q, reply, "dispatchDone")
  <1>1. ASSUME NEW p \in Process, NEW step, NEW ok, NEW reply,
               Continue(p, step) \/ Answer(p, reply, step) \/ ProceedIf(p, ok, step) \/ Return(p)
        PROVE  /\ p # q => pc'[q] = pc[q] /\ job'[q] = job[q] /\ answer'[q] = answer[q]
               /\ pc'[p] = "idle" \/ (pc'[p] = step /\ job'[p] = job[p])
    <2>1. CASE Continue(p, step)
      BY <2>1 DEF Continue, Goto, locks, TypeOK
    <2>2. CASE Answer(p, reply, step)
      BY <2>2 DEF Answer, Goto, TypeOK
    <2>3. CASE Return(p)
      BY <2>3 DEF Return, Goto, TypeOK
    <2>4. CASE ProceedIf(p, ok, step) /\ ~ Return(p)
      BY <2>4 DEF ProceedIf, Goto, TypeOK
    <2>5. QED
      BY <1>1, <2>1, <2>2, <2>3, <2>4
  <1>2. ASSUME NEW p \in Process, Work(p)
        PROVE  \/ pc'[q] = pc[q] /\ job'[q] = job[q] /\ answer'[q] = answer[q]
               \/ pc'[q] \notin {"authorize", "intent", "dispatchDone"}
               \/ pc'[q] = "intent" /\ Authorize(q) /\ job'[q] = job[q]
               \/ pc'[q] = "intent" /\ job[q].kind = "replace" /\ job'[q] = job[q]
               \/ pc'[q] = "dispatchDone" /\ Dispatch(q) /\ job'[q] = job[q]
                  /\ \E reply : Answer(q, reply, "dispatchDone")
    <2>1. PICK step, ok, reply :
              /\ Continue(p, step) \/ Answer(p, reply, step) \/ ProceedIf(p, ok, step) \/ Return(p)
              /\ step # "authorize"
              /\ step = "dispatchDone" => Dispatch(p) /\ Answer(p, reply, step)
              /\ step = "intent" =>
                    \/ Authorize(p)
                    \/ RecordLeasesReleased(p) /\ Continue(p, step) /\ job[p].kind = "replace"
      BY <1>2, WorkLeads
    <2>2. /\ p # q => pc'[q] = pc[q] /\ job'[q] = job[q] /\ answer'[q] = answer[q]
          /\ pc'[p] = "idle" \/ (pc'[p] = step /\ job'[p] = job[p])
      BY <1>1, <2>1
    <2>3. QED
      BY <2>1, <2>2
  <1>3. ASSUME NEW p \in Process, Request(p) \/ LockBead(p) \/ Stop(p)
        PROVE  \/ pc'[q] = pc[q] /\ job'[q] = job[q] /\ answer'[q] = answer[q]
               \/ pc'[q] \notin {"authorize", "intent", "dispatchDone"}
    <2>1. /\ \E s \in {"lock", "admit", "begin", "idle"} : pc' = [pc EXCEPT ![p] = s]
          /\ job' = job \/ \E j : job' = [job EXCEPT ![p] = j]
          /\ answer' = answer \/ answer' = [answer EXCEPT ![p] = ""]
      <3>1. CASE Request(p)
        BY <3>1 DEF Request, RequestAttempt, RequestRecovery, RequestClear, RequestRetirement, Ask, Goto
      <3>2. CASE LockBead(p)
        BY <3>2 DEF LockBead, Goto
      <3>3. CASE Stop(p)
        BY <3>3 DEF Stop, Return, Goto
      <3>4. QED
        BY <1>3, <3>1, <3>2, <3>3
    <2>2. QED
      BY <2>1 DEF TypeOK
  <1>4. ASSUME NEW p \in Process, Admit(p)
        PROVE  \/ pc'[q] = pc[q] /\ job'[q] = job[q] /\ answer'[q] = answer[q]
               \/ pc'[q] \notin {"authorize", "intent", "dispatchDone"}
               \/ pc'[q] = "authorize" /\ Admit(q) /\ job'[q] = job[q] /\ Acceptable(job[q])
    <2>1. CASE Acceptable(job[p])
      <3>1. pc' = [pc EXCEPT ![p] = "authorize"] /\ job' = job /\ answer' = answer
        BY <1>4, <2>1 DEF Admit, Goto
      <3>2. QED
        BY <1>4, <2>1, <3>1 DEF TypeOK
    <2>2. CASE ~ Acceptable(job[p])
      <3>1. Return(p)
        BY <1>4, <2>2 DEF Admit
      <3>2. QED
        BY <3>1 DEF Return, Goto, TypeOK
    <2>3. QED
      BY <2>1, <2>2
  <1>5. ASSUME \/ \E b \in Bead : MarkWorking(b) \/ DetectEnd(b) \/ TrackerMove(b)
               \/ \E k \in Attempt : LeaseLapses(k)
               \/ UNCHANGED vars
        PROVE  pc'[q] = pc[q] /\ job'[q] = job[q] /\ answer'[q] = answer[q]
    BY <1>5 DEF MarkWorking, DetectEnd, TrackerMove, LeaseLapses, rest, vars
  <1>6. QED
    BY <1>2, <1>3, <1>4, <1>5 DEF Next

\* At the two steps after admission a process only reads the tracker or writes its row.
LEMMA AfterAdmission ==
    ASSUME TypeOK, NEW q \in Process, Work(q), pc[q] \in {"authorize", "intent"}
    PROVE  row' = row \/ pc'[q] = "claim"
  <1>1. Authorize(q) \/ RecordIntent(q)
    BY DEF Work, StartClaim, Claim, RecordClaim, UseReservation, ReconcileReservation,
       StartReservation, Reserve, RecordReservation, StartDispatch, Dispatch, RecordDispatch,
       BeginCleanup, ReleaseLeases, RecordLeasesReleased, ReleaseClaim,
       RecordTerminalClaimReleased, Complete
  <1>2. QED
    BY <1>1 DEF Authorize, RecordIntent, Continue, Goto, TypeOK

\* Until its intent is written a new attempt finds its bead free.
LEMMA AssignKept ==
    ASSUME HandInv, [Next]_vars, NEW q \in Process
    PROVE  AssignInv(q)'
  <1> SUFFICES ASSUME pc'[q] \in {"authorize", "intent"}, job'[q].kind = "assign"
               PROVE  \E b : /\ b = job'[q].bead
                             /\ row'[b] = NoRow \/ row'[b].status = "ended"
    BY DEF AssignInv, Now
  <1>1. IInv /\ TypeOK /\ AssignInv(q) /\ LockInv(q) /\ FreshInv(q)
    BY DEF HandInv, IInv, ProcessInv
  <1>2. PICK b : b = job[q].bead
    OBVIOUS
  <1>3. CASE pc[q] \in {"authorize", "intent"} /\ job'[q] = job[q]
    <2>1. Locked(q) /\ b \in Bead /\ (row[b] = NoRow \/ row[b].status = "ended")
      BY <1>1, <1>2, <1>3 DEF AssignInv, Now, Locked, LockInv, Job
    <2>2. row'[b] = row[b] \/ Work(q)
      BY <1>1, <1>2, <2>1, FreeBeadStays
    <2>3. row'[b] = row[b]
      BY <1>1, <1>3, <2>2, AfterAdmission
    <2>4. QED
      BY <1>2, <1>3, <2>1, <2>3
  <1>4. CASE Admit(q) /\ job'[q] = job[q] /\ Acceptable(job[q])
    <2>1. pc[q] = "admit" /\ row' = row /\ job[q].kind = "assign"
      BY <1>4 DEF Admit
    <2>2. b \in Bead /\ Early(q)
      BY <1>1, <1>2, <2>1 DEF LockInv, Job, Early, NewKind
    <2>3. row[b] # NoRow => row[b].attempt # job[q].attempt
      BY <1>1, <2>2 DEF FreshInv
    <2>4. row[b] = NoRow \/ MaySucceed(row[b])
      BY <1>2, <1>4, <2>1, <2>3 DEF Acceptable
    <2>5. QED
      BY <1>2, <1>4, <2>1, <2>4 DEF MaySucceed
  <1>5. CASE job[q].kind = "replace" /\ job'[q] = job[q]
    BY <1>5
  <1>6. pc[q] = "authorize" \/ ~ Authorize(q)
    BY DEF Authorize
  <1>7. QED
    BY <1>1, <1>3, <1>4, <1>5, <1>6, ControlLeads

\* Who says that the prompt was typed has typed it.
LEMMA SentKept ==
    ASSUME HandInv, [Next]_vars, NEW q \in Process
    PROVE  SentInv(q)'
  <1> SUFFICES ASSUME pc'[q] = "dispatchDone", answer'[q] = "sent"
               PROVE  \E k : k = job'[q].attempt /\ delivered'[k] # 0
    BY DEF SentInv
  <1>1. IInv /\ TypeOK /\ SentInv(q)
    BY DEF HandInv, IInv
  <1>2. PICK k : k = job[q].attempt
    OBVIOUS
  <1>3. CASE pc'[q] = pc[q] /\ job'[q] = job[q] /\ answer'[q] = answer[q]
    <2>1. delivered[k] # 0 /\ LockInv(q)
      BY <1>1, <1>2, <1>3 DEF SentInv, IInv, ProcessInv
    <2>2. k \in Attempt /\ delivered[k] \in Nat
      BY <1>1, <1>2, <1>3, <2>1 DEF LockInv, Job, TypeOK
    <2>3. CASE delivered'[k] = delivered[k]
      BY <1>2, <1>3, <2>1, <2>3
    <2>4. CASE delivered'[k] # delivered[k]
      <3>1. PICK p \in Process : Dispatch(p) /\ job[p].attempt = k
        BY <1>1, <2>2, <2>4, DeliveryStep
      <3>2. delivered' = [delivered EXCEPT ![k] = @ + 1]
        BY <2>4, <3>1 DEF Dispatch
      <3>3. delivered'[k] = delivered[k] + 1
        BY <1>1, <2>2, <3>2 DEF TypeOK
      <3>4. QED
        BY <1>2, <1>3, <2>2, <3>3
    <2>5. QED
      BY <2>3, <2>4
  <1>4. CASE Dispatch(q) /\ job'[q] = job[q]
    <2>1. pc[q] = "dispatchCall" /\ LockInv(q)
      BY <1>1, <1>4 DEF Dispatch, IInv, ProcessInv
    <2>2. k \in Attempt /\ delivered[k] \in Nat
      BY <1>1, <1>2, <2>1 DEF LockInv, Job, TypeOK
    <2>3. \/ delivered' = [delivered EXCEPT ![k] = @ + 1]
          \/ \E reply \in {"none", "unknown"} : answer' = [answer EXCEPT ![q] = reply]
      BY <1>2, <1>4 DEF Dispatch, Answer
    <2>4. delivered' = [delivered EXCEPT ![k] = @ + 1]
      BY <1>1, <2>3 DEF TypeOK
    <2>5. delivered'[k] = delivered[k] + 1
      BY <1>1, <2>2, <2>4 DEF TypeOK
    <2>6. QED
      BY <1>2, <1>4, <2>2, <2>5
  <1>5. QED
    BY <1>1, <1>3, <1>4, ControlLeads

\* In the state that Init describes nothing is handed over.
LEMMA HandInit == Init => HandInv /\ Handoff!Init
  <1> SUFFICES ASSUME Init PROVE HandInv /\ Handoff!Init
    OBVIOUS
  <1>1. HandInv
    BY InitIInv DEF Init, HandInv, AssignInv, SentInv
  <1>2. StageOf = [b \in Bead |-> "none"] /\ KeyOf = [b \in Bead |-> NoRow]
        /\ PlaceOf = [b \in Bead |-> NoRow]
    BY DEF Init, StageOf, KeyOf, PlaceOf
  <1>3. SpentKeys = {}
    <2>1. created = 0
      BY DEF Init
    <2>2. 1..0 = {}
      OBVIOUS
    <2>3. 1..created = {}
      BY <2>1, <2>2
    <2>4. QED
      BY <2>3 DEF SpentKeys
  <1>4. delivered = [k \in Attempt |-> 0]
    BY DEF Init
  <1>5. QED
    BY <1>1, <1>2, <1>3, <1>4 DEF Handoff!Init

\* Admission under the two locks and the answers of a dispatch are still true when
\* Execute writes them into the row: a new attempt takes a bead that is free, and
\* "sent" is recorded of a prompt that was typed.
THEOREM HandInvariance == Spec => []HandInv
  <1>1. HandInv /\ [Next]_vars => HandInv'
    <2> SUFFICES ASSUME HandInv, [Next]_vars PROVE HandInv'
      OBVIOUS
    <2>1. IInv'
      BY NextIInv DEF HandInv
    <2>2. QED
      BY <2>1, AssignKept, SentKept DEF HandInv
  <1>2. QED
    BY <1>1, HandInit, PTL DEF Spec

\* What Execute, the clears, the retirements and the detector do to rows, prompts, the
\* tracker and the leases, in any interleaving and with any of them stopped anywhere,
\* is the handing over of beads that BeadHandoff describes.
THEOREM HandedOver == Spec => BeadsAreHandedOver
  <1>1. HandInv /\ [Next]_vars => [Handoff!Next]_(Handoff!vars)
    BY HandStep
  <1>2. QED
    BY <1>1, HandInit, HandInvariance, PTL DEF Spec, BeadsAreHandedOver, Handoff!Spec

-----------------------------------------------------------------------------
(***************************************************************************)
(* What follows for the rows.                                              *)
(***************************************************************************)
\* The prompt of a live row that says "sent" was typed.
Prompted(b) ==
    row[b] # NoRow /\ row[b].status \in LiveStatus /\ row[b].clear = "none" /\ row[b].dispatch = "sent"
        => delivered[row[b].attempt] = 1

\* The same of a hand-over.
PromptedWork == \A b \in Bead : StageOf[b] = "working" => delivered[KeyOf[b]] = 1

\* No step of a hand-over makes a bead work without its prompt.
LEMMA WorkIsPrompted ==
    ASSUME TypeOK, PromptedWork, Handoff!Next \/ UNCHANGED Handoff!vars
    PROVE  PromptedWork'
  <1> SUFFICES ASSUME NEW c \in Bead, StageOf'[c] = "working"
               PROVE  delivered'[KeyOf'[c]] = 1
    BY DEF PromptedWork
  <1>1. PICK st, ky : st = StageOf /\ ky = KeyOf
    OBVIOUS
  <1>2. st = [b \in Bead |-> st[b]] /\ ky = [b \in Bead |-> ky[b]]
    BY <1>1 DEF StageOf, KeyOf
  <1>3. st[c] = "working" => delivered[ky[c]] = 1
    BY <1>1 DEF PromptedWork
  <1>4. ASSUME NEW b \in Bead, NEW k \in Attempt, NEW x \in Pane, Handoff!Hand(b, k, x)
        PROVE  delivered'[KeyOf'[c]] = 1
    <2>1. /\ StageOf' = [st EXCEPT ![b] = "preparing"] /\ KeyOf' = [ky EXCEPT ![b] = k]
          /\ delivered' = delivered
      BY <1>1, <1>4 DEF Handoff!Hand
    <2>2. QED
      BY <1>2, <1>3, <2>1
  <1>5. ASSUME NEW b \in Bead, NEW from, NEW to, Handoff!Move(b, from, to),
               to = "working" => delivered[KeyOf[b]] = 1
        PROVE  delivered'[KeyOf'[c]] = 1
    <2>1. StageOf' = [st EXCEPT ![b] = to] /\ KeyOf' = ky /\ delivered' = delivered
      BY <1>1, <1>5 DEF Handoff!Move
    <2>2. QED
      BY <1>1, <1>2, <1>3, <1>5, <2>1
  <1>6. ASSUME NEW b \in Bead, Handoff!Prompt(b)
        PROVE  delivered'[KeyOf'[c]] = 1
    <2>1. /\ StageOf' = st /\ KeyOf' = ky /\ delivered[ky[b]] = 0
          /\ delivered' = [delivered EXCEPT ![ky[b]] = 1]
      BY <1>1, <1>6 DEF Handoff!Prompt
    <2>2. st[c] = "working" => ky[c] \in Attempt
      BY <1>1, RowHasAttempt DEF StageOf, KeyOf
    <2>3. QED
      BY <1>3, <2>1, <2>2 DEF TypeOK
  <1>7. ASSUME NEW b \in Bead, Handoff!Drop(b)
        PROVE  delivered'[KeyOf'[c]] = 1
    <2>1. /\ StageOf' = [st EXCEPT ![b] = "none"] /\ KeyOf' = [ky EXCEPT ![b] = NoRow]
          /\ delivered' = delivered
      BY <1>1, <1>7 DEF Handoff!Drop
    <2>2. QED
      BY <1>2, <1>3, <2>1
  <1>8. CASE UNCHANGED Handoff!vars \/ \E k \in Attempt : Handoff!Waste(k)
    <2>1. StageOf' = st /\ KeyOf' = ky /\ delivered' = delivered
      BY <1>1, <1>8 DEF Handoff!vars, Handoff!Waste
    <2>2. QED
      BY <1>3, <2>1
  <1>9. QED
    BY <1>4, <1>5, <1>6, <1>7, <1>8
    DEF Handoff!Next, Handoff!Commit, Handoff!Retract, Handoff!Confirm, Handoff!BeginEnd, Handoff!End

\* RecordAtomicDispatchSent is right for as long as the row lives: a row that says
\* "sent" was never written on the strength of a lost or a negative answer, and no
\* recovery or detector gives the state to a row whose prompt was not typed.
THEOREM SentWasTyped == Spec => [](\A b \in Bead : Prompted(b))
  <1>1. Init => PromptedWork
    <2>1. Init => StageOf = [b \in Bead |-> "none"]
      BY DEF Init, StageOf
    <2>2. QED
      BY <2>1 DEF PromptedWork
  <1>2. HandInv /\ PromptedWork /\ [Next]_vars => PromptedWork'
    <2>1. HandInv => TypeOK
      BY DEF HandInv, IInv
    <2>2. QED
      BY <2>1, HandStep, WorkIsPrompted
  <1>3. HandInv /\ PromptedWork => \A b \in Bead : Prompted(b)
    <2> SUFFICES ASSUME HandInv, PromptedWork, NEW b \in Bead, row[b] # NoRow,
                        row[b].status \in LiveStatus, row[b].clear = "none", row[b].dispatch = "sent"
                 PROVE  delivered[row[b].attempt] = 1
      BY DEF Prompted
    <2>1. row[b] \in Row /\ row[b].status # "ended"
      BY DEF HandInv, IInv, TypeOK, LiveStatus
    <2>2. StageOf[b] = "working" /\ KeyOf[b] = row[b].attempt
      BY <2>1, StageIs DEF StageOf, KeyOf
    <2>3. QED
      BY <2>2 DEF PromptedWork
  <1>4. QED
    BY <1>1, <1>2, <1>3, HandInvariance, PTL DEF Spec

================================================================================
