---------------------------- MODULE AssignmentStatus ----------------------------
(***************************************************************************)
(* The life cycle of a row of the assignment ledger, shared by the modules *)
(* of internal/assignment: its statuses, the transitions a caller may ask  *)
(* for, and the rule that decides which of two concurrent changes of one   *)
(* row wins when they are merged.                                          *)
(***************************************************************************)
EXTENDS Naturals

Status ==
    {"claiming", "claimed", "assigned", "working", "completed", "failed", "reassigned"}

\* isTerminalAssignmentStatus
TerminalStatus == {"completed", "failed", "reassigned"}

\* The statuses in which the bead and its pane are in use.
LiveStatus == {"claiming", "claimed", "assigned", "working"}

\* What a reconciliation may make of a row.
TerminalOutcome == {"completed", "failed"}

ValidTransitions ==
    [s \in Status |->
        CASE s = "claimed"  -> {"assigned", "failed"}
          [] s = "assigned" -> {"working", "completed", "failed"}
          [] s = "working"  -> {"completed", "failed", "reassigned"}
          [] s = "failed"   -> {"assigned"}
          [] OTHER          -> {}]

IsValidTransition(from, to) == to \in ValidTransitions[from]

\* assignmentStatusRank
StatusRank ==
    [s \in Status |->
        CASE s = "claiming" -> 1
          [] s = "claimed"  -> 2
          [] s = "assigned" -> 3
          [] s = "working"  -> 4
          [] OTHER          -> 5]

\* A mutation of ShouldApplyStatusDelta: a terminal status is no barrier.
ApplyByRankOnly(baseline, latest, current) ==
    \/ latest = baseline
    \/ current \in TerminalStatus
    \/ StatusRank[current] > StatusRank[latest]

(***************************************************************************)
(* A writer read the status `baseline`, wants `current`, and finds         *)
(* `latest` on disk: does its change go in?                                *)
(***************************************************************************)
ShouldApplyStatusDelta(baseline, latest, current) ==
    \/ latest = baseline
    \/ /\ latest \notin TerminalStatus
       /\ \/ current \in TerminalStatus
          \/ StatusRank[current] > StatusRank[latest]

=================================================================================
