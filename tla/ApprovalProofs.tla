----------------------------- MODULE ApprovalProofs -----------------------------
(***************************************************************************)
(* Proofs about ApprovalGate: for any number of people and requests, the   *)
(* guarded updates of commands that act on stale reads implement           *)
(* ApprovalGrant, and no two requests speak for one operation unless two   *)
(* were filed at once.                                                     *)
(***************************************************************************)
EXTENDS ApprovalGate, FiniteSetTheorems, TLAPS

Command == [op     : {"none", "gate", "approve", "deny", "show"},
            pc     : {"idle", "reading", "spending", "stamping", "inserting",
                      "deciding", "expiring", "reloading"},
            id     : Id \cup {NoRecord},
            latest : Id \cup {NoRecord}]

\* A stamp is the next record of one command, and of one only, until it is inserted.
StampsAreFresh ==
    /\ \A i \in Id : i > stamped => status[i] = "none" /\ ~inWindow[i]
    /\ \A u \in User : At(u, "inserting") =>
          /\ command[u].id \in 1..stamped /\ status[command[u].id] = "none"
          /\ \A v \in User : At(v, "inserting") /\ v # u => command[v].id # command[u].id

\* What a command that is about to write knows of its record.
CommandsKnowTheirRecord ==
    \A u \in User :
        /\ command[u].pc \in {"reading", "spending", "deciding", "expiring", "reloading"} =>
              command[u].id \in Inserted
        /\ At(u, "deciding") => /\ command[u].op \in {"approve", "deny"}
                                /\ command[u].op = "approve" => requestedBy[command[u].id] # u

RecordInv == TypeOK /\ StampsAreFresh /\ CommandsKnowTheirRecord

-----------------------------------------------------------------------------
\* A guarded UPDATE changes the status of one record, from the expected one.
LEMMA StatusMove ==
    ASSUME TypeOK, NEW i \in Id, NEW from, NEW to \in {"approved", "denied", "expired", "consumed"},
           Moves(i, from, to)
    PROVE  /\ status' \in [Id -> {"none", "pending", "approved", "denied", "expired", "consumed"}]
           /\ \A j \in Id : j # i => status'[j] = status[j]
           /\ from # "none" => \A j \in Id : status'[j] = "none" <=> status[j] = "none"
           /\ status[i] = from => status'[i] = to
           /\ status[i] # from => status' = status
BY DEF Moves, TypeOK

\* A command that touches no row keeps the invariant if the record it goes on
\* with is one it may know.
LEMMA CommandMove ==
    ASSUME RecordInv, NEW u \in User, NEW c \in Command, Run(u, c), RowsUnchanged,
           c.pc # "inserting",
           c.pc \in {"reading", "spending", "deciding", "expiring", "reloading"} => c.id \in Inserted,
           c.pc = "deciding" => /\ c.op \in {"approve", "deny"}
                                /\ c.op = "approve" => requestedBy[c.id] # u
    PROVE  RecordInv'
<1>1. command' = [command EXCEPT ![u] = c] /\ command \in [User -> Command]
  BY DEF Run, RecordInv, TypeOK, Command
<1>2. TypeOK'
  BY <1>1 DEF RowsUnchanged, RecordInv, TypeOK, Command
<1>3. StampsAreFresh'
  BY <1>1 DEF RowsUnchanged, RecordInv, StampsAreFresh, At
<1>4. CommandsKnowTheirRecord'
  BY <1>1 DEF RowsUnchanged, RecordInv, CommandsKnowTheirRecord, At, Inserted
<1> QED BY <1>2, <1>3, <1>4 DEF RecordInv

\* A guarded UPDATE of a record that was inserted, by a command that ends or
\* goes on without a stamp.
LEMMA RecordMove ==
    ASSUME RecordInv, NEW u \in User, NEW c \in Command, Run(u, c),
           NEW i \in Inserted, NEW from \in {"pending", "approved"},
           NEW to \in {"approved", "denied", "expired", "consumed"}, Moves(i, from, to),
           approvedBy' \in [Id -> User \cup {Nobody}], allowed' \in [Id -> Nat],
           UNCHANGED <<requestedBy, inWindow, stamped, raced>>,
           c.pc \in {"idle", "stamping"} \/ (c.pc = "reloading" /\ c.id = i)
    PROVE  RecordInv'
<1>1. command' = [command EXCEPT ![u] = c] /\ command \in [User -> Command]
  BY DEF Run, RecordInv, TypeOK, Command
<1>2. i \in Id /\ status[i] # "none"
  BY DEF Inserted
<1>3. /\ status' \in [Id -> {"none", "pending", "approved", "denied", "expired", "consumed"}]
      /\ \A j \in Id : status'[j] = "none" <=> status[j] = "none"
  BY <1>2, StatusMove DEF RecordInv
<1>4. TypeOK'
  BY <1>1, <1>3 DEF RecordInv, TypeOK, Command
<1>5. StampsAreFresh'
  <2>1. \A j \in 1..stamped : j \in Id
    BY ApprovalAssumption DEF RecordInv, TypeOK, Id
  <2>2. \A j \in Id : j > stamped' => status'[j] = "none" /\ ~inWindow'[j]
    BY <1>3 DEF RecordInv, StampsAreFresh
  <2>3. ASSUME NEW v \in User, At(v, "inserting")'
        PROVE  At(v, "inserting") /\ command'[v] = command[v]
    BY <1>1, <2>3 DEF At
  <2> QED BY <1>3, <2>1, <2>2, <2>3 DEF RecordInv, StampsAreFresh
<1>6. Inserted' = Inserted
  BY <1>3 DEF Inserted
<1>7. CommandsKnowTheirRecord'
  BY <1>1, <1>6 DEF RecordInv, CommandsKnowTheirRecord, At
<1> QED BY <1>4, <1>5, <1>7 DEF RecordInv

-----------------------------------------------------------------------------
(* The invariant.                                                          *)

\* The record that a look-up finds is a record of the table.
LEMMA NewestIsInserted ==
    ASSUME NEW n \in Id \cup {NoRecord}, IsNewest(n), n # NoRecord
    PROVE  n \in Inserted
BY DEF IsNewest

\* Idle ends a command and knows nothing.
LEMMA IdleIsACommand == Idle \in Command /\ Idle.pc = "idle"
BY DEF Idle, Command, NoRecord

\* Where the gate can go on from a record.
LEMMA GateSwitchSteps ==
    ASSUME NEW i \in Id
    PROVE  GateSwitch(i) \in {"blocked", "reading", "stamping"}
BY DEF GateSwitch

\* Every step keeps the invariant.
LEMMA InvIsInductive == RecordInv /\ [Next]_vars => RecordInv'
<1> SUFFICES ASSUME RecordInv, [Next]_vars PROVE RecordInv'
  OBVIOUS
<1> USE IdleIsACommand
<1>0. /\ command \in [User -> Command]
      /\ \A i \in Inserted : i \in Id /\ i \in Id \cup {NoRecord}
  BY DEF RecordInv, TypeOK, Command, Inserted
<1>1. ASSUME NEW u \in User, LookUp(u) PROVE RecordInv'
  <2>1. PICK n \in Id \cup {NoRecord}, next \in {"reading", "stamping", "expiring"} :
           /\ IsNewest(n)
           /\ next # "stamping" => n # NoRecord
           /\ Run(u, [op |-> "gate", pc |-> next, id |-> n, latest |-> n])
    BY <1>1, GateSwitchSteps DEF LookUp
  <2>2. [op |-> "gate", pc |-> next, id |-> n, latest |-> n] \in Command
    BY DEF Command
  <2> QED BY <1>1, <2>1, <2>2, CommandMove, NewestIsInserted DEF LookUp
<1>2. ASSUME NEW u \in User, ReadGrant(u) PROVE RecordInv'
  <2>1. command[u].id \in Inserted /\ [command[u] EXCEPT !.pc = "spending"] \in Command
    BY <1>0, <1>2 DEF ReadGrant, RecordInv, CommandsKnowTheirRecord, At, Command
  <2>2. [command[u] EXCEPT !.pc = "spending"].id = command[u].id
        /\ [command[u] EXCEPT !.pc = "spending"].pc = "spending"
    BY <1>0 DEF Command
  <2> QED BY <1>2, <2>1, <2>2, CommandMove DEF ReadGrant, Goto, Ends
<1>3. ASSUME NEW u \in User, Spend(u) PROVE RecordInv'
  <2>1. command[u].id \in Inserted
    BY <1>3 DEF Spend, RecordInv, CommandsKnowTheirRecord, At
  <2>2. allowed' \in [Id -> Nat] /\ approvedBy' \in [Id -> User \cup {Nobody}]
    BY <1>0, <1>3, <2>1 DEF Spend, RecordInv, TypeOK
  <2> QED BY <1>3, <2>1, <2>2, RecordMove DEF Spend, Ends
<1>4. ASSUME NEW u \in User, Decide(u) PROVE RecordInv'
  <2>1. command[u].id \in Inserted
    BY <1>4 DEF Decide, RecordInv, CommandsKnowTheirRecord, At
  <2>2. allowed' \in [Id -> Nat] /\ approvedBy' \in [Id -> User \cup {Nobody}]
    BY <1>0, <1>4, <2>1 DEF Decide, RecordInv, TypeOK
  <2>3. Verdict(command[u].op) \in {"approved", "denied", "expired", "consumed"}
    BY DEF Verdict
  <2> QED BY <1>4, <2>1, <2>2, <2>3, RecordMove DEF Decide, Ends
<1>5. ASSUME NEW u \in User, ExpireRecord(u) PROVE RecordInv'
  <2>1. command[u].id \in Inserted
    BY <1>5 DEF ExpireRecord, RecordInv, CommandsKnowTheirRecord, At
  <2>2. allowed' \in [Id -> Nat] /\ approvedBy' \in [Id -> User \cup {Nobody}]
    BY <1>5 DEF ExpireRecord, RecordInv, TypeOK
  <2>3. CASE command[u].op # "gate"
    BY <1>5, <2>1, <2>2, <2>3, RecordMove DEF ExpireRecord, Ends
  <2>4. CASE command[u].op = "gate"
    <3>1. PICK pc \in {"stamping", "reloading"} : Run(u, [command[u] EXCEPT !.pc = pc])
      BY <1>5, <2>4 DEF ExpireRecord, Goto
    <3>2. /\ [command[u] EXCEPT !.pc = pc] \in Command
          /\ [command[u] EXCEPT !.pc = pc].pc = pc
          /\ [command[u] EXCEPT !.pc = pc].id = command[u].id
      BY <1>0 DEF Command
    <3> QED BY <1>5, <2>1, <2>2, <3>1, <3>2, RecordMove DEF ExpireRecord
  <2> QED BY <2>3, <2>4
<1>6. ASSUME NEW u \in User, Reload(u) PROVE RecordInv'
  <2>1. command[u].id \in Inserted
    BY <1>6 DEF Reload, RecordInv, CommandsKnowTheirRecord, At
  <2>2. PICK c \in {Idle, [command[u] EXCEPT !.pc = "reading"],
                          [command[u] EXCEPT !.pc = "stamping"]} : Run(u, c)
    BY <1>0, <1>6, <2>1, GateSwitchSteps DEF Reload, Goto, Ends
  <2>3. /\ c \in Command /\ c.pc \in {"idle", "reading", "stamping"}
        /\ c.pc = "reading" => c.id = command[u].id
    BY <1>0, <2>2 DEF Command
  <2> QED BY <1>6, <2>1, <2>2, <2>3, CommandMove DEF Reload
<1>7. ASSUME NEW u \in User, NEW op \in {"approve", "deny", "show"}, ReadRecord(u, op)
      PROVE  RecordInv'
  <2>1. PICK i \in Inserted :
          /\ inWindow[i] => (op = "approve" /\ MayApprove(u, i)) \/ op = "deny"
          /\ Run(u, [op |-> op, pc |-> IF inWindow[i] THEN "deciding" ELSE "expiring",
                     id |-> i, latest |-> NoRecord])
    BY <1>7 DEF ReadRecord
  <2>2. PICK pc \in {"deciding", "expiring"} :
          /\ pc = "deciding" => (op = "approve" /\ requestedBy[i] # u) \/ op = "deny"
          /\ Run(u, [op |-> op, pc |-> pc, id |-> i, latest |-> NoRecord])
    BY <2>1 DEF MayApprove
  <2>3. [op |-> op, pc |-> pc, id |-> i, latest |-> NoRecord] \in Command
    BY <1>0 DEF Command
  <2> QED BY <1>7, <2>2, <2>3, CommandMove DEF ReadRecord
<1>8. ASSUME NEW u \in User, Abort(u) PROVE RecordInv'
  BY <1>8, CommandMove DEF Abort, Ends
<1>9. ASSUME NEW i \in Id, WindowCloses(i) PROVE RecordInv'
  BY <1>9 DEF WindowCloses, RecordInv, TypeOK, StampsAreFresh, CommandsKnowTheirRecord, At, Inserted
<1>10. ASSUME NEW u \in User, Stamp(u) PROVE RecordInv'
  <2> DEFINE new == stamped + 1
             c == [command[u] EXCEPT !.pc = "inserting", !.id = new]
  <2>1. stamped \in 0..MaxRequests /\ new \in Id /\ new > stamped /\ 1..stamped \subseteq Id
    BY <1>10, ApprovalAssumption DEF Stamp, RecordInv, TypeOK, Id
  <2>2. /\ c \in Command /\ c.pc = "inserting" /\ c.id = new
        /\ command' = [command EXCEPT ![u] = c]
    BY <1>0, <1>10, <2>1 DEF Stamp, Run, Command
  <2>3. status[new] = "none" /\ stamped' = new
    BY <1>10, <2>1 DEF Stamp, RecordInv, StampsAreFresh
  <2>4. stamped' \in 0..MaxRequests
    BY <1>10, <2>1, <2>3, ApprovalAssumption DEF Stamp, Id
  <2>5. inWindow' = [inWindow EXCEPT ![new] = TRUE]
    BY <1>10 DEF Stamp
  <2> HIDE DEF c
  <2>6. TypeOK'
    BY <1>0, <1>10, <2>1, <2>2, <2>4, <2>5 DEF Stamp, RecordInv, TypeOK, Command
  <2>7. StampsAreFresh'
    <3>1. \A j \in Id : j > stamped' => status'[j] = "none" /\ ~inWindow'[j]
      BY <1>10, <2>1, <2>3, <2>5 DEF Stamp, RecordInv, StampsAreFresh, TypeOK, Id
    <3>2. ASSUME NEW v \in User, v # u, At(v, "inserting")'
          PROVE  /\ command'[v] = command[v] /\ command[v].id \in 1..stamped
                 /\ status[command[v].id] = "none" /\ At(v, "inserting")
      BY <1>0, <2>2, <3>2 DEF RecordInv, StampsAreFresh, At
    <3>3. command'[u] = c
      BY <1>0, <2>2
    <3>4. new \in 1..stamped' /\ new \notin 1..stamped /\ 1..stamped \subseteq 1..stamped'
      BY <2>1, <2>3
    <3>5. status' = status
      BY <1>10 DEF Stamp
    <3> HIDE DEF new
    <3>6. ASSUME NEW v \in User, At(v, "inserting")'
          PROVE  /\ command'[v].id \in 1..stamped' /\ status'[command'[v].id] = "none"
                 /\ \A w \in User : At(w, "inserting")' /\ w # v => command'[w].id # command'[v].id
      <4>1. CASE v = u
        BY <2>2, <2>3, <3>2, <3>3, <3>4, <3>5, <4>1
      <4>2. CASE v # u
        <5>1. /\ command'[v] = command[v] /\ command[v].id \in 1..stamped
              /\ status[command[v].id] = "none" /\ At(v, "inserting")
          BY <3>2, <3>6, <4>2
        <5>2. ASSUME NEW w \in User, At(w, "inserting")', w # v, w # u
              PROVE  command'[w].id # command'[v].id
          BY <3>2, <5>1, <5>2 DEF RecordInv, StampsAreFresh
        <5> QED BY <2>2, <3>3, <3>4, <3>5, <5>1, <5>2
      <4> QED BY <4>1, <4>2
    <3> QED BY <3>1, <3>6 DEF StampsAreFresh, At
  <2>8. CommandsKnowTheirRecord'
    BY <1>0, <1>10, <2>2 DEF Stamp, RecordInv, CommandsKnowTheirRecord, At, Inserted
  <2> QED BY <2>6, <2>7, <2>8 DEF RecordInv
<1>11. ASSUME NEW u \in User, Insert(u) PROVE RecordInv'
  <2> DEFINE i == command[u].id
  <2>1. /\ i \in 1..stamped /\ i \in Id /\ status[i] = "none"
        /\ \A v \in User : At(v, "inserting") /\ v # u => command[v].id # i
    BY <1>11, ApprovalAssumption DEF Insert, RecordInv, StampsAreFresh, TypeOK, Id
  <2>2. command' = [command EXCEPT ![u] = Idle]
    BY <1>11 DEF Insert, Ends, Run
  <2>3. /\ status' = [status EXCEPT ![i] = "pending"]
        /\ requestedBy' = [requestedBy EXCEPT ![i] = u]
        /\ UNCHANGED <<approvedBy, inWindow, stamped, allowed>>
    BY <1>11 DEF Insert
  <2>4. raced' \in BOOLEAN
    BY <1>11 DEF Insert, RecordInv, TypeOK
  <2> HIDE DEF i
  <2>5. TypeOK'
    BY <1>0, <2>1, <2>2, <2>3, <2>4 DEF RecordInv, TypeOK, Command
  <2>6. ASSUME NEW v \in User, v # u PROVE command'[v] = command[v]
    BY <1>0, <2>2, <2>6
  <2>7. command'[u] = Idle
    BY <1>0, <2>2
  <2>8. StampsAreFresh'
    <3>1. \A j \in Id : j > stamped' => status'[j] = "none" /\ ~inWindow'[j]
      BY <2>1, <2>3 DEF RecordInv, StampsAreFresh, TypeOK, Id
    <3>2. ASSUME NEW v \in User, At(v, "inserting")'
          PROVE  /\ v # u /\ At(v, "inserting") /\ command'[v] = command[v] /\ command[v].id # i
      BY <2>1, <2>6, <2>7, <3>2 DEF At
    <3>3. \A v \in User : At(v, "inserting") => command[v].id \in Id
      BY ApprovalAssumption DEF RecordInv, StampsAreFresh, TypeOK, Id
    <3> QED BY <2>1, <2>3, <3>1, <3>2, <3>3 DEF RecordInv, StampsAreFresh, TypeOK
  <2>9. CommandsKnowTheirRecord'
    <3>1. \A j \in Inserted : j # i /\ j \in Inserted' /\ requestedBy'[j] = requestedBy[j]
      BY <2>1, <2>3 DEF Inserted, RecordInv, TypeOK
    <3> QED BY <2>6, <2>7, <3>1 DEF RecordInv, CommandsKnowTheirRecord, At
  <2> QED BY <2>5, <2>8, <2>9 DEF RecordInv
<1>12. CASE UNCHANGED vars
  BY <1>12 DEF vars, RecordInv, TypeOK, StampsAreFresh, CommandsKnowTheirRecord, At, Inserted
<1> QED
  BY <1>1, <1>2, <1>3, <1>4, <1>5, <1>6, <1>7, <1>8, <1>9, <1>10, <1>11, <1>12
     DEF Next, GateStep, DecisionStep

\* It holds of the empty table.
LEMMA InitInv == Init => RecordInv
<1> SUFFICES ASSUME Init PROVE RecordInv
  OBVIOUS
<1>1. TypeOK
  <2>1. command \in [User -> Command]
    BY IdleIsACommand DEF Init
  <2>2. 0 \in 0..MaxRequests
    BY ApprovalAssumption
  <2> QED BY <2>1, <2>2 DEF Init, TypeOK, Command
<1>2. \A u \in User : command[u].pc = "idle"
  BY IdleIsACommand DEF Init
<1> QED BY <1>1, <1>2 DEF Init, RecordInv, StampsAreFresh, CommandsKnowTheirRecord, At

(* RecordInv is an invariant: commands that act on stale reads keep the types *)
(* of rows and never share a stamp.                                          *)
THEOREM RecordsInvariant == Spec => []RecordInv
BY InitInv, InvIsInductive, PTL DEF Spec

\* TypeOK, for every number of people and requests.
THEOREM ApprovalTypes == Spec => []TypeOK
<1>1. RecordInv => TypeOK
  BY DEF RecordInv
<1> QED BY <1>1, RecordsInvariant, PTL

-----------------------------------------------------------------------------
(* The guarded updates implement ApprovalGrant.                            *)

\* The empty table is the initial state of ApprovalGrant.
LEMMA GrantInit == Init => Grants!Init
BY DEF Init, Grants!Init

\* Every step is one of ApprovalGrant, or changes nothing that it sees.
LEMMA GrantStep == RecordInv /\ [Next]_vars => [Grants!Next]_(Grants!grantVars)
<1> SUFFICES ASSUME RecordInv, [Next]_vars PROVE [Grants!Next]_(Grants!grantVars)
  OBVIOUS
<1> USE DEF Grants!grantVars
<1>0. /\ \A i \in Inserted : i \in Id
      /\ \A u \in User : At(u, "inserting") => command[u].id \in Id /\ status[command[u].id] = "none"
  BY ApprovalAssumption DEF RecordInv, StampsAreFresh, TypeOK, Inserted, Id
<1>1. ASSUME NEW u \in User, \/ LookUp(u) \/ ReadGrant(u) \/ Reload(u) \/ Abort(u)
                             \/ \E op \in {"approve", "deny", "show"} : ReadRecord(u, op)
      PROVE  UNCHANGED Grants!grantVars
  BY <1>1 DEF LookUp, ReadGrant, Reload, Abort, ReadRecord, RowsUnchanged
<1>2. ASSUME NEW u \in User, Stamp(u) PROVE UNCHANGED Grants!grantVars
  BY <1>2 DEF Stamp
<1>3. ASSUME NEW i \in Id, WindowCloses(i) PROVE UNCHANGED Grants!grantVars
  BY <1>3 DEF WindowCloses
<1>4. ASSUME NEW u \in User, Insert(u) PROVE Grants!Next
  <2>1. Grants!Ask(command[u].id, u)
    BY <1>0, <1>4 DEF Insert, Grants!Ask
  <2> QED BY <1>0, <1>4, <2>1 DEF Insert, Grants!Next
<1>5. ASSUME NEW u \in User, Spend(u) PROVE [Grants!Next]_(Grants!grantVars)
  <2> DEFINE i == command[u].id
  <2>1. i \in Id
    BY <1>0, <1>5 DEF Spend, RecordInv, CommandsKnowTheirRecord, At
  <2>2. CASE status[i] = "approved"
    <3>1. Grants!Pass(i)
      BY <1>5, <2>2 DEF Spend, Moves, Grants!Pass
    <3> QED BY <2>1, <3>1 DEF Grants!Next
  <2>3. CASE status[i] # "approved"
    BY <1>5, <2>3 DEF Spend, Moves
  <2> QED BY <2>2, <2>3
<1>6. ASSUME NEW u \in User, Decide(u) PROVE [Grants!Next]_(Grants!grantVars)
  <2> DEFINE i == command[u].id
  <2>1. /\ i \in Id /\ command[u].op \in {"approve", "deny"}
        /\ command[u].op = "approve" => u # requestedBy[i]
    BY <1>0, <1>6 DEF Decide, RecordInv, CommandsKnowTheirRecord, At
  <2>2. CASE status[i] # "pending"
    BY <1>6, <2>2 DEF Decide, Moves
  <2>3. CASE status[i] = "pending" /\ command[u].op = "approve"
    <3>1. Grants!Grant(i, u)
      BY <1>6, <2>1, <2>3 DEF Decide, Moves, Verdict, Grants!Grant
    <3> QED BY <2>1, <3>1 DEF Grants!Next
  <2>4. CASE status[i] = "pending" /\ command[u].op = "deny"
    <3>1. Grants!Deny(i, u)
      BY <1>6, <2>4 DEF Decide, Moves, Verdict, Grants!Deny
    <3> QED BY <2>1, <3>1 DEF Grants!Next
  <2> QED BY <2>1, <2>2, <2>3, <2>4
<1>7. ASSUME NEW u \in User, ExpireRecord(u) PROVE [Grants!Next]_(Grants!grantVars)
  <2> DEFINE i == command[u].id
  <2>1. i \in Id
    BY <1>0, <1>7 DEF ExpireRecord, RecordInv, CommandsKnowTheirRecord, At
  <2>2. CASE status[i] = "pending"
    <3>1. Grants!Lapse(i)
      BY <1>7, <2>2 DEF ExpireRecord, Moves, Grants!Lapse
    <3> QED BY <2>1, <3>1 DEF Grants!Next
  <2>3. CASE status[i] # "pending"
    BY <1>7, <2>3 DEF ExpireRecord, Moves
  <2> QED BY <2>2, <2>3
<1>8. CASE UNCHANGED vars
  BY <1>8 DEF vars
<1> QED
  BY <1>1, <1>2, <1>3, <1>4, <1>5, <1>6, <1>7, <1>8 DEF Next, GateStep, DecisionStep

(* Decisions are final, nobody grants a request of their own and a grant lets *)
(* one execution pass, whatever the interleaving of reads and updates.       *)
THEOREM DecisionsFinal == Spec => DecisionsAreFinal
<1>1. Spec => Grants!Spec
  BY GrantInit, GrantStep, RecordsInvariant, PTL DEF Spec, Grants!Spec
<1> QED BY <1>1 DEF DecisionsAreFinal

-----------------------------------------------------------------------------
(* One request at a time.                                                  *)

\* A gate run that goes on to file a request saw no record or a dead one, and
\* stamps its own after it.
GateKnowsLatest ==
    \A u \in User :
        LET c == command[u] IN
        /\ c.op = "gate" => c.latest \in Inserted \cup {NoRecord}
        /\ c.op = "gate" /\ c.pc \in {"expiring", "reloading"} => c.id = c.latest
        /\ c.op = "gate" /\ c.pc = "expiring" => c.latest \notin Live
        /\ c.pc \in {"reloading", "stamping", "inserting"} => c.op = "gate"
        /\ c.pc \in {"stamping", "inserting"} => c.latest \notin Live
        /\ c.pc = "inserting" => c.latest < c.id

LiveIsNewest == ~raced => \A i \in Live : IsNewest(i)

OneLiveInv == RecordInv /\ GateKnowsLatest /\ LiveIsNewest

\* A gate that goes on to file a request has seen no live record.
LEMMA GateSwitchMeaning ==
    ASSUME TypeOK, NEW i \in Id, GateSwitch(i) = "stamping"
    PROVE  i \notin Live
BY DEF GateSwitch, Live, Inserted, TypeOK

\* Records die and are never revived; only an insertion adds a live one.
LEMMA LiveShrinks ==
    ASSUME RecordInv, [Next]_vars, \A u \in User : ~Insert(u)
    PROVE  Inserted' = Inserted /\ Live' \subseteq Live /\ raced' = raced
<1> USE DEF Live, Inserted
<1>1. ASSUME NEW u \in User, \/ LookUp(u) \/ ReadGrant(u) \/ Reload(u) \/ Abort(u)
                             \/ \E op \in {"approve", "deny", "show"} : ReadRecord(u, op)
      PROVE  UNCHANGED <<status, inWindow, raced>>
  BY <1>1 DEF LookUp, ReadGrant, Reload, Abort, ReadRecord, RowsUnchanged
<1>2. ASSUME NEW u \in User, Stamp(u)
      PROVE  Inserted' = Inserted /\ Live' \subseteq Live /\ raced' = raced
  <2>1. status' = status /\ raced' = raced /\ inWindow' = [inWindow EXCEPT ![stamped + 1] = TRUE]
    BY <1>2 DEF Stamp
  <2>2. \A j \in Id : j = stamped + 1 => status[j] = "none"
    BY DEF RecordInv, StampsAreFresh, TypeOK, Id
  <2> QED BY <2>1, <2>2 DEF RecordInv, TypeOK
<1>3. ASSUME NEW i \in Id, WindowCloses(i)
      PROVE  Inserted' = Inserted /\ Live' \subseteq Live /\ raced' = raced
  BY <1>3 DEF WindowCloses, RecordInv, TypeOK
<1>4. ASSUME NEW u \in User, Spend(u) \/ Decide(u) \/ ExpireRecord(u)
      PROVE  Inserted' = Inserted /\ Live' \subseteq Live /\ raced' = raced
  <2>1. command[u].id \in Inserted
    BY <1>4 DEF Spend, Decide, ExpireRecord, RecordInv, CommandsKnowTheirRecord, At
  <2>2. PICK from \in {"pending", "approved"}, to \in {"approved", "denied", "expired", "consumed"} :
          /\ Moves(command[u].id, from, to)
          /\ from = "approved" => to = "consumed"
          /\ inWindow' = inWindow /\ raced' = raced
    BY <1>4 DEF Spend, Decide, ExpireRecord, Verdict
  <2> QED BY <2>1, <2>2 DEF Moves, RecordInv, TypeOK
<1> QED
  BY <1>1, <1>2, <1>3, <1>4 DEF Next, GateStep, DecisionStep, vars

\* An insertion adds the record that was stamped, and no other.
LEMMA InsertAddsOne ==
    ASSUME RecordInv, NEW u \in User, Insert(u)
    PROVE  /\ command[u].id \in Id \ Inserted
           /\ Inserted' = Inserted \cup {command[u].id}
           /\ Live' \subseteq Live \cup {command[u].id}
<1>1. command[u].id \in Id /\ status[command[u].id] = "none"
  BY ApprovalAssumption DEF Insert, RecordInv, StampsAreFresh, TypeOK, Id
<1> QED BY <1>1 DEF Insert, RecordInv, TypeOK, Inserted, Live

\* What a gate has learned of the newest record stays true.
LEMMA GateKnowledgeStep ==
    ASSUME RecordInv, GateKnowsLatest, [Next]_vars PROVE GateKnowsLatest'
<1> DEFINE Knows(c, inserted, live) ==
      /\ c.op = "gate" => c.latest \in inserted \cup {NoRecord}
      /\ c.op = "gate" /\ c.pc \in {"expiring", "reloading"} => c.id = c.latest
      /\ c.op = "gate" /\ c.pc = "expiring" => c.latest \notin live
      /\ c.pc \in {"reloading", "stamping", "inserting"} => c.op = "gate"
      /\ c.pc \in {"stamping", "inserting"} => c.latest \notin live
      /\ c.pc = "inserting" => c.latest < c.id
<1>0. /\ \A v \in User : Knows(command[v], Inserted, Live)
      /\ command \in [User -> Command]
      /\ TypeOK
  BY DEF GateKnowsLatest, RecordInv, TypeOK, Command
<1>1. ASSUME NEW c \in Command, Knows(c, Inserted, Live) PROVE Knows(c, Inserted', Live')
  <2>1. CASE \A u \in User : ~Insert(u)
    <3>1. Inserted' = Inserted /\ Live' \subseteq Live
      BY <2>1, LiveShrinks
    <3> QED BY <1>1, <3>1
  <2>2. ASSUME NEW u \in User, Insert(u) PROVE Knows(c, Inserted', Live')
    <3> DEFINE i == command[u].id
    <3>1. /\ i \in Id /\ i \notin Inserted /\ Inserted' = Inserted \cup {i}
          /\ Live' \subseteq Live \cup {i}
      BY <2>2, InsertAddsOne
    <3>2. i # NoRecord
      BY <3>1 DEF NoRecord, Id
    <3> HIDE DEF i
    <3>3. c.op = "gate" => c.latest # i
      BY <1>1, <3>1, <3>2
    <3> QED BY <1>1, <3>1, <3>3
  <2> QED BY <2>1, <2>2
<1>2. NoRecord \notin Live /\ \A i \in Live : i \in Id
  BY DEF Live, Inserted, NoRecord, Id
<1>3. ASSUME NEW u \in User, NEW c \in Command, command' = [command EXCEPT ![u] = c], Knows(c, Inserted, Live)
      PROVE  GateKnowsLatest'
  <2>1. \A v \in User : command'[v] = c \/ command'[v] = command[v]
    BY <1>0, <1>3
  <2>2. \A v \in User : command'[v] \in Command /\ Knows(command'[v], Inserted, Live)
    BY <1>0, <1>3, <2>1
  <2> HIDE DEF Knows
  <2>3. \A v \in User : Knows(command'[v], Inserted', Live')
    BY <1>1, <2>2
  <2> USE DEF Knows
  <2> QED BY <2>3 DEF GateKnowsLatest
<1>4. ASSUME NEW u \in User, LookUp(u) PROVE GateKnowsLatest'
  <2>1. PICK n \in Id \cup {NoRecord}, next \in {"reading", "stamping", "expiring"} :
           /\ IsNewest(n)
           /\ next = "stamping" /\ n # NoRecord => GateSwitch(n) = "stamping"
           /\ next = "expiring" => ~inWindow[n]
           /\ Run(u, [op |-> "gate", pc |-> next, id |-> n, latest |-> n])
    BY <1>4, GateSwitchSteps DEF LookUp
  <2> DEFINE c == [op |-> "gate", pc |-> next, id |-> n, latest |-> n]
  <2>2. c \in Command /\ command' = [command EXCEPT ![u] = c]
    BY <2>1 DEF Command, Run
  <2>3. n \in Inserted \cup {NoRecord}
    BY <2>1, NewestIsInserted
  <2>4. next \in {"stamping", "expiring"} => n \notin Live
    <3>1. next = "stamping" => n \notin Live
      BY <1>0, <1>2, <2>1, GateSwitchMeaning
    <3>2. next = "expiring" => n \notin Live
      BY <2>1 DEF Live
    <3> QED BY <3>1, <3>2
  <2> QED BY <1>3, <2>2, <2>3, <2>4
<1>5. ASSUME NEW u \in User, ReadGrant(u) PROVE GateKnowsLatest'
  <2>1. PICK c \in {Idle, [command[u] EXCEPT !.pc = "spending"]} : command' = [command EXCEPT ![u] = c]
    BY <1>5 DEF ReadGrant, Goto, Ends, Run
  <2>2. c \in Command /\ Knows(c, Inserted, Live)
    BY <1>0, <2>1 DEF Idle, Command
  <2> QED BY <1>3, <2>1, <2>2
<1>6. ASSUME NEW u \in User, Spend(u) \/ Insert(u) \/ Decide(u) \/ Abort(u) PROVE GateKnowsLatest'
  <2>1. command' = [command EXCEPT ![u] = Idle]
    BY <1>6 DEF Spend, Insert, Decide, Abort, Ends, Run
  <2>2. Idle \in Command /\ Knows(Idle, Inserted, Live)
    BY IdleIsACommand DEF Idle
  <2> QED BY <1>3, <2>1, <2>2
<1>7. ASSUME NEW u \in User, Stamp(u) PROVE GateKnowsLatest'
  <2> DEFINE c == [command[u] EXCEPT !.pc = "inserting", !.id = stamped + 1]
  <2>1. stamped + 1 \in Id /\ command[u].pc = "stamping"
    BY <1>0, <1>7, ApprovalAssumption DEF Stamp, TypeOK, Id, At
  <2>2. command[u].latest < stamped + 1
    <3>1. command[u].latest \in Inserted \cup {NoRecord}
      BY <1>0, <2>1
    <3>2. \A i \in Inserted : i <= stamped
      BY <1>0, ApprovalAssumption DEF RecordInv, StampsAreFresh, Inserted, TypeOK, Id
    <3> QED BY <1>0, <3>1, <3>2 DEF NoRecord, TypeOK, Inserted, Id
  <2>3. c \in Command /\ Knows(c, Inserted, Live)
    BY <1>0, <2>1, <2>2 DEF Command
  <2> QED BY <1>3, <1>7, <2>3 DEF Stamp, Run
<1>8. ASSUME NEW u \in User, ExpireRecord(u) PROVE GateKnowsLatest'
  <2> DEFINE Fresh == [command[u] EXCEPT !.pc = "stamping"]
             Lost  == [command[u] EXCEPT !.pc = "reloading"]
  <2>1. command[u] \in Command /\ command[u].pc = "expiring" /\ command[u].id \in Inserted
    BY <1>0, <1>8 DEF ExpireRecord, At, RecordInv, CommandsKnowTheirRecord
  <2>2. CASE command[u].op # "gate"
    <3>1. command' = [command EXCEPT ![u] = Idle]
      BY <1>8, <2>2 DEF ExpireRecord, Ends, Run
    <3>2. Idle \in Command /\ Knows(Idle, Inserted, Live)
      BY IdleIsACommand DEF Idle
    <3> QED BY <1>3, <3>1, <3>2
  <2>3. CASE command[u].op = "gate" /\ status[command[u].id] # "pending"
    <3>1. command' = [command EXCEPT ![u] = Lost]
      BY <1>8, <2>3 DEF ExpireRecord, Goto, Run
    <3>2. Lost \in Command /\ Knows(Lost, Inserted, Live)
      BY <1>0, <2>1, <2>3 DEF Command
    <3> QED BY <1>3, <3>1, <3>2
  <2>4. CASE command[u].op = "gate" /\ status[command[u].id] = "pending"
    <3>1. command' = [command EXCEPT ![u] = Fresh]
      BY <1>8, <2>4 DEF ExpireRecord, Goto, Run
    <3>2. Fresh \in Command /\ Knows(Fresh, Inserted, Live)
      BY <1>0, <2>1, <2>4 DEF Command
    <3> QED BY <1>3, <3>1, <3>2
  <2> QED BY <2>2, <2>3, <2>4
<1>9. ASSUME NEW u \in User, Reload(u) PROVE GateKnowsLatest'
  <2> DEFINE To(pc) == [command[u] EXCEPT !.pc = pc]
  <2>1. command[u] \in Command /\ command[u].pc = "reloading" /\ command[u].id \in Inserted
    BY <1>0, <1>9 DEF Reload, At, RecordInv, CommandsKnowTheirRecord
  <2>2. command[u].op = "gate" /\ command[u].id = command[u].latest
    BY <2>1, <1>0
  <2>3. PICK pc \in {"idle", "reading", "stamping"} :
          /\ command' = [command EXCEPT ![u] = IF pc = "idle" THEN Idle ELSE To(pc)]
          /\ pc = "stamping" => GateSwitch(command[u].id) = "stamping"
    BY <1>9, <2>1, GateSwitchSteps DEF Reload, Goto, Ends, Run, Inserted
  <2>4. CASE pc = "idle"
    <3>1. Idle \in Command /\ Knows(Idle, Inserted, Live)
      BY IdleIsACommand DEF Idle
    <3> QED BY <1>3, <2>3, <2>4, <3>1
  <2>5. CASE pc # "idle"
    <3>1. pc = "stamping" => command[u].id \notin Live
      BY <1>0, <2>1, <2>3, GateSwitchMeaning DEF Inserted
    <3>2. To(pc) \in Command /\ Knows(To(pc), Inserted, Live)
      BY <1>0, <2>1, <2>2, <2>5, <3>1 DEF Command
    <3> QED BY <1>3, <2>3, <2>5, <3>2
  <2> QED BY <2>4, <2>5
<1>10. ASSUME NEW u \in User, NEW op \in {"approve", "deny", "show"}, ReadRecord(u, op)
      PROVE  GateKnowsLatest'
  <2>1. PICK c \in Command : c.op = op /\ c.pc \in {"deciding", "expiring"}
                             /\ command' = [command EXCEPT ![u] = c]
    BY <1>10 DEF ReadRecord, Run, Command, Inserted
  <2> QED BY <1>3, <2>1
<1>11. ASSUME NEW i \in Id, WindowCloses(i) PROVE GateKnowsLatest'
  <2>1. \A v \in User : command'[v] = command[v] /\ Knows(command[v], Inserted', Live')
    BY <1>0, <1>1, <1>11 DEF WindowCloses
  <2> QED BY <2>1 DEF GateKnowsLatest
<1>12. CASE UNCHANGED vars
  BY <1>12 DEF vars, GateKnowsLatest, Live, Inserted
<1> QED
  BY <1>4, <1>5, <1>6, <1>7, <1>8, <1>9, <1>10, <1>11, <1>12 DEF Next, GateStep, DecisionStep

\* While no request was filed blindly, only the newest record is live.
LEMMA LiveNewestStep ==
    ASSUME RecordInv, GateKnowsLatest, LiveIsNewest, [Next]_vars PROVE LiveIsNewest'
<1>0. \A i \in Inserted : i \in Nat /\ i # NoRecord
  BY DEF Inserted, Id, NoRecord
<1>1. CASE \A u \in User : ~Insert(u)
  <2>1. Inserted' = Inserted /\ Live' \subseteq Live /\ raced' = raced
    BY <1>1, LiveShrinks
  <2> QED BY <2>1 DEF LiveIsNewest, IsNewest
<1>2. ASSUME NEW u \in User, Insert(u) PROVE LiveIsNewest'
  <2> SUFFICES ASSUME ~raced' PROVE \A i \in Live' : IsNewest(i)'
    BY DEF LiveIsNewest
  <2> DEFINE new == command[u].id
             old == command[u].latest
  <2>1. ~raced /\ IsNewest(old)
    BY <1>2 DEF Insert
  <2>2. old \notin Live /\ old < new
    BY <1>2 DEF GateKnowsLatest, Insert, At
  <2>3. new \in Id /\ Inserted' = Inserted \cup {new} /\ Live' \subseteq Live \cup {new}
    BY <1>2, InsertAddsOne
  <2> HIDE DEF new, old
  <2>4. Live = {}
    <3> SUFFICES ASSUME NEW i \in Live PROVE FALSE
      OBVIOUS
    <3>1. i \in Inserted /\ IsNewest(i)
      BY <2>1 DEF Live, LiveIsNewest
    <3>2. i = old
      BY <1>0, <2>1, <3>1 DEF IsNewest
    <3> QED BY <2>2, <3>2
  <2>5. \A i \in Inserted : i <= new
    BY <1>0, <2>1, <2>2, <2>3 DEF IsNewest, Id
  <2>6. \A i \in Inserted' : i <= new
    BY <2>3, <2>5, ApprovalAssumption DEF Id
  <2>7. Inserted' # {} /\ new \in Inserted'
    BY <2>3
  <2> QED BY <2>3, <2>4, <2>6, <2>7 DEF IsNewest
<1> QED BY <1>1, <1>2

\* In the beginning no record is.
LEMMA OneLiveInit == Init => OneLiveInv
<1> SUFFICES ASSUME Init PROVE OneLiveInv
  OBVIOUS
<1>1. GateKnowsLatest
  BY DEF Init, GateKnowsLatest, Idle
<1>2. LiveIsNewest
  BY DEF Init, LiveIsNewest, Live, Inserted
<1> QED BY <1>1, <1>2, InitInv DEF OneLiveInv

\* Two live records would both be the newest.
LEMMA OneLiveMeans == OneLiveInv => OneRequestIsLive
<1> SUFFICES ASSUME OneLiveInv, ~raced PROVE Cardinality(Live) <= 1
  BY DEF OneRequestIsLive
<1>1. \A i, j \in Live : i = j
  BY DEF OneLiveInv, LiveIsNewest, IsNewest, Live, Inserted, Id
<1>2. CASE Live = {}
  BY <1>2, FS_EmptySet
<1>3. CASE Live # {}
  <2>1. PICK i \in Live : TRUE
    BY <1>3
  <2>2. Live = {i}
    BY <1>1, <2>1
  <2> QED BY <2>2, FS_Singleton
<1> QED BY <1>2, <1>3

(* While no two requests for an operation were filed at once, at most one    *)
(* record speaks for it, for any number of people and requests.              *)
THEOREM OneLiveRequest == Spec => []OneRequestIsLive
<1>1. OneLiveInv /\ [Next]_vars => OneLiveInv'
  BY InvIsInductive, GateKnowledgeStep, LiveNewestStep DEF OneLiveInv
<1> QED BY <1>1, OneLiveInit, OneLiveMeans, PTL DEF Spec
================================================================================
