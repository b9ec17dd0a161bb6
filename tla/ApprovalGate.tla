------------------------------ MODULE ApprovalGate ------------------------------
(***************************************************************************)
(* The two-person approval of a gated command (internal/approval/engine.go, *)
(* the approvals table of internal/state/store.go and the gate of          *)
(* `ntm locks force-release` in internal/cli/force_release_gate.go).       *)
(*                                                                         *)
(* Every command is a process of its own on one shared database: it reads  *)
(* a record, decides, and writes with an UPDATE that is guarded by the     *)
(* status it expects.  The engine's mutex serialises nothing between       *)
(* processes.  A record is valid for a window from the moment its request  *)
(* was stamped; after it a pending record is expired by whoever reads it.  *)
(*                                                                         *)
(* One operation key; any number of people.                                *)
(***************************************************************************)
EXTENDS Integers, FiniteSets

CONSTANTS
    User,          \* who runs commands (NTM_USER)
    Approvers,     \* ApproverList; everybody where the list is empty
    MaxRequests,   \* bound: records ever stamped
    Nobody

ASSUME ApprovalAssumption ==
    /\ MaxRequests \in Nat
    /\ Approvers \subseteq User /\ Nobody \notin User

\* Records are numbered by created_at, which is read before the record is inserted.
Id == 1..MaxRequests
NoRecord == 0

VARIABLES
    status,        \* Id -> status of the row, "none" before it is inserted
    requestedBy,   \* Id -> User
    approvedBy,    \* Id -> User: who approved or denied
    inWindow,      \* is expires_at still ahead?
    stamped,       \* requests stamped so far
    allowed,       \* Id -> gated executions that the record let pass
    command,       \* User -> the command under way, one at a time
    raced          \* history: was a request filed over another one it had not seen?

vars == <<status, requestedBy, approvedBy, inWindow, stamped, allowed, command, raced>>

\* `latest` is the record that a gate run saw when it looked the key up.
Idle == [op |-> "none", pc |-> "idle", id |-> NoRecord, latest |-> NoRecord]
At(u, pc) == command[u].pc = pc

Init == /\ status = [i \in Id |-> "none"]
        /\ requestedBy = [i \in Id |-> Nobody]
        /\ approvedBy = [i \in Id |-> Nobody]
        /\ inWindow = [i \in Id |-> FALSE]
        /\ stamped = 0
        /\ allowed = [i \in Id |-> 0]
        /\ command = [u \in User |-> Idle]
        /\ raced = FALSE

Inserted == {i \in Id : status[i] # "none"}

\* ListApprovalsByCorrelation, its first row: created_at decides.
IsNewest(n) == IF Inserted = {} THEN n = NoRecord
               ELSE n \in Inserted /\ \A i \in Inserted : i <= n

Run(u, c) == command' = [command EXCEPT ![u] = c]
Goto(u, pc) == Run(u, [command[u] EXCEPT !.pc = pc])
Ends(u) == Run(u, Idle)
RowsUnchanged == UNCHANGED <<status, requestedBy, approvedBy, inWindow, stamped, allowed, raced>>

\* Mutant: UpdateApproval, without the guard.
MovesBlindly(i, from, to) == status' = [status EXCEPT ![i] = to]

\* UpdateApprovalFrom and ConsumeApproval: one guarded UPDATE.
Moves(i, from, to) ==
    status' = IF status[i] = from THEN [status EXCEPT ![i] = to] ELSE status

-----------------------------------------------------------------------------
(* The gate: look up, then block, spend a grant, or file a request.        *)

\* Mutant: a denial blocks nothing, another request may be filed.
SwitchPastDenial(i) ==
    CASE status[i] = "pending"                 -> "blocked"
      [] status[i] = "approved" /\ inWindow[i] -> "reading"
      [] OTHER                                 -> "stamping"

\* The switch over the status of the record that the gate holds.
GateSwitch(i) ==
    CASE status[i] = "pending"                                   -> "blocked"
      [] status[i] = "denied"   /\ inWindow[i]                   -> "blocked"
      [] status[i] = "approved" /\ inWindow[i]                   -> "reading"
      [] OTHER                                                   -> "stamping"

\* LatestForCorrelation; a pending record past its window is to be expired first.
LookUp(u) ==
    /\ At(u, "idle")
    /\ \E n \in Id \cup {NoRecord} :
        /\ IsNewest(n)
        /\ LET next == IF n = NoRecord THEN "stamping"
                       ELSE IF status[n] = "pending" /\ ~inWindow[n] THEN "expiring"
                       ELSE GateSwitch(n)
           IN  /\ next # "blocked"      \* a blocked run ends, and changes nothing
               /\ Run(u, [op |-> "gate", pc |-> next, id |-> n, latest |-> n])
    /\ RowsUnchanged

\* Consume reads the record again and checks status and window.
ReadGrant(u) ==
    /\ At(u, "reading")
    /\ IF status[command[u].id] = "approved" /\ inWindow[command[u].id]
       THEN Goto(u, "spending") ELSE Ends(u)
    /\ RowsUnchanged

\* ConsumeApproval; only the command whose UPDATE matched a row goes on.
Spend(u) ==
    /\ At(u, "spending")
    /\ LET i == command[u].id IN
       /\ Moves(i, "approved", "consumed")
       /\ allowed' = IF status[i] = "approved" THEN [allowed EXCEPT ![i] = @ + 1] ELSE allowed
    /\ Ends(u)
    /\ UNCHANGED <<requestedBy, approvedBy, inWindow, stamped, raced>>

\* Request takes the time, asks the SLB tool, and inserts the record later.
Stamp(u) ==
    /\ At(u, "stamping") /\ stamped < MaxRequests
    /\ stamped' = stamped + 1
    /\ inWindow' = [inWindow EXCEPT ![stamped + 1] = TRUE]
    /\ Run(u, [command[u] EXCEPT !.pc = "inserting", !.id = stamped + 1])
    /\ UNCHANGED <<status, requestedBy, approvedBy, allowed, raced>>

Insert(u) ==
    /\ At(u, "inserting")
    /\ LET i == command[u].id IN
       /\ status' = [status EXCEPT ![i] = "pending"]
       /\ requestedBy' = [requestedBy EXCEPT ![i] = u]
    /\ raced' = (raced \/ ~IsNewest(command[u].latest))
    /\ Ends(u)
    /\ UNCHANGED <<approvedBy, inWindow, stamped, allowed>>

-----------------------------------------------------------------------------
(* ntm approve, deny, show, list and history.                              *)

\* Approve: who may decide a record that was read as pending and in its window.
MayApprove(u, i) == u \in Approvers /\ u # requestedBy[i]

\* Check, ListPending and History look at a record only to expire it.
ReadRecord(u, op) ==
    /\ At(u, "idle")
    /\ \E i \in Inserted :
        /\ status[i] = "pending"
        /\ inWindow[i] => \/ op = "approve" /\ MayApprove(u, i)
                          \/ op = "deny"
        /\ Run(u, [op |-> op, pc |-> IF inWindow[i] THEN "deciding" ELSE "expiring",
                   id |-> i, latest |-> NoRecord])
    /\ RowsUnchanged

\* Mutant: the name of the command is written as the status.
VerdictAsGiven(op) == op

Verdict(op) == IF op = "approve" THEN "approved" ELSE "denied"

Decide(u) ==
    /\ At(u, "deciding")
    /\ LET i == command[u].id IN
       /\ Moves(i, "pending", Verdict(command[u].op))
       /\ approvedBy' = IF status[i] = "pending" THEN [approvedBy EXCEPT ![i] = u] ELSE approvedBy
    /\ Ends(u)
    /\ UNCHANGED <<requestedBy, inWindow, stamped, allowed, raced>>

\* expireApproval: a gate run that lost the race reloads the record and goes on
\* with what it finds; every other command ends.
ExpireRecord(u) ==
    /\ At(u, "expiring")
    /\ Moves(command[u].id, "pending", "expired")
    /\ IF command[u].op # "gate" THEN Ends(u)
       ELSE Goto(u, IF status[command[u].id] = "pending" THEN "stamping" ELSE "reloading")
    /\ UNCHANGED <<requestedBy, approvedBy, inWindow, stamped, allowed, raced>>

Reload(u) ==
    /\ At(u, "reloading")
    /\ LET next == GateSwitch(command[u].id)
       IN  IF next = "blocked" THEN Ends(u) ELSE Goto(u, next)
    /\ RowsUnchanged

\* A command is interrupted, or the database answers with an error.
Abort(u) == ~At(u, "idle") /\ Ends(u) /\ RowsUnchanged

\* expires_at passes; all windows are DefaultExpiry long, so the oldest first.
WindowCloses(i) ==
    /\ inWindow[i] /\ \A j \in Id : inWindow[j] => i <= j
    /\ inWindow' = [inWindow EXCEPT ![i] = FALSE]
    /\ UNCHANGED <<status, requestedBy, approvedBy, stamped, allowed, command, raced>>

-----------------------------------------------------------------------------
GateStep(u) == LookUp(u) \/ ReadGrant(u) \/ Spend(u) \/ Stamp(u) \/ Insert(u)
DecisionStep(u) == \/ \E op \in {"approve", "deny", "show"} : ReadRecord(u, op)
                   \/ Decide(u)

Next == \/ \E u \in User : GateStep(u) \/ DecisionStep(u) \/ ExpireRecord(u) \/ Reload(u) \/ Abort(u)
        \/ \E i \in Id : WindowCloses(i)

Spec == Init /\ [][Next]_vars

-----------------------------------------------------------------------------
(* Properties.                                                             *)

TypeOK ==
    /\ status \in [Id -> {"none", "pending", "approved", "denied", "expired", "consumed"}]
    /\ requestedBy \in [Id -> User \cup {Nobody}]
    /\ approvedBy \in [Id -> User \cup {Nobody}]
    /\ inWindow \in [Id -> BOOLEAN]
    /\ stamped \in 0..MaxRequests
    /\ allowed \in [Id -> Nat]
    /\ command \in [User -> [op     : {"none", "gate", "approve", "deny", "show"},
                             pc     : {"idle", "reading", "spending", "stamping", "inserting",
                                       "deciding", "expiring", "reloading"},
                             id     : Id \cup {NoRecord},
                             latest : Id \cup {NoRecord}]]
    /\ raced \in BOOLEAN

(* What the workflow promises: decisions are final, nobody grants a request  *)
(* of their own, and a grant lets exactly one execution pass, although       *)
(* every command acts on what it read a while ago.                           *)
Grants == INSTANCE ApprovalGrant
          WITH verdict <- status, asker <- requestedBy, decider <- approvedBy, passes <- allowed
DecisionsAreFinal == Grants!Spec

\* Records that still say something about the operation.
Live == {i \in Inserted : inWindow[i] /\ status[i] \in {"pending", "approved", "denied"}}

(* "A re-run of the same operation finds its own prior request instead of    *)
(* enqueueing duplicates": while no two requests were filed at once, one     *)
(* record at most speaks for the operation.                                  *)
OneRequestIsLive == ~raced => Cardinality(Live) <= 1
================================================================================
