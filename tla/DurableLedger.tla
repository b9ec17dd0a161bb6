----------------------------- MODULE DurableLedger -----------------------------
(***************************************************************************)
(* What LedgerStore promises its callers: one ledger, replaced as a whole. *)
(*                                                                         *)
(* Whatever processes do and wherever they die, a strict reader sees a     *)
(* sequence of whole ledgers, numbered without a gap, in which a row is    *)
(* never taken back to an earlier attempt and a count of completed clears  *)
(* never falls.                                                            *)
(***************************************************************************)
EXTENDS Naturals

CONSTANTS Bead, NoRow

VARIABLES generation, rows, cleared

vars == <<generation, rows, cleared>>

EmptyLedger ==
    /\ generation = 0
    /\ rows = [b \in Bead |-> NoRow]
    /\ cleared = [b \in Bead |-> 0]

Publish ==
    /\ generation' = generation + 1
    /\ \A b \in Bead :
        /\ rows[b] # NoRow /\ rows'[b] # NoRow => rows'[b].attempt >= rows[b].attempt
        /\ cleared'[b] >= cleared[b]

Spec == EmptyLedger /\ [][Publish]_vars

================================================================================
