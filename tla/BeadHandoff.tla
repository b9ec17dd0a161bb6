------------------------------ MODULE BeadHandoff ------------------------------
(***************************************************************************)
(* What AtomicCoordinator promises of the beads of a session, without      *)
(* processes, locks, tracker, leases and lost answers.                     *)
(*                                                                         *)
(* A bead is handed to a pane under a key that was never used.  The prompt *)
(* of the key is typed at most once, and only while the ledger says that   *)
(* it may be on its way; the ledger says that it was typed only when it    *)
(* was, and takes back that it may be only when it was not.  What ends     *)
(* does not come back: the bead is free for the next key, and the pane for *)
(* another bead, which until then are nobody else's.                       *)
(***************************************************************************)
EXTENDS Naturals

CONSTANTS Bead, Pane, Key, None

VARIABLES
    stage,    \* stage[b]: how far the handing over of b is
    key,      \* key[b], place[b]: the key under which b is handed over, and the pane
    place,
    spent,    \* keys that nobody can use any more for a bead
    prompts   \* prompts[k]: prompts of k that were typed

vars == <<stage, key, place, spent, prompts>>

Init ==
    /\ stage = [b \in Bead |-> "none"]
    /\ key = [b \in Bead |-> None]
    /\ place = [b \in Bead |-> None]
    /\ spent = {}
    /\ prompts = [k \in Key |-> 0]

\* The pane of b is taken.
Occupies(b) == stage[b] \in {"preparing", "sending", "working", "ending"}

Hand(b, k, x) ==
    /\ stage[b] \in {"none", "ending", "ended"}
    /\ k \notin spent
    /\ \A c \in Bead \ {b} : Occupies(c) => place[c] # x
    /\ stage' = [stage EXCEPT ![b] = "preparing"]
    /\ key' = [key EXCEPT ![b] = k]
    /\ place' = [place EXCEPT ![b] = x]
    /\ spent' = spent \cup {k}
    /\ UNCHANGED prompts

\* A key is given up before anything was handed over.
Waste(k) ==
    /\ spent' = spent \cup {k}
    /\ UNCHANGED <<stage, key, place, prompts>>

Move(b, from, to) ==
    /\ stage[b] \in from
    /\ stage' = [stage EXCEPT ![b] = to]
    /\ UNCHANGED <<key, place, spent, prompts>>

\* From here on the prompt may be typed.
Commit(b) == Move(b, {"preparing"}, "sending") /\ prompts[key[b]] = 0

Prompt(b) ==
    /\ stage[b] = "sending"
    /\ prompts[key[b]] = 0
    /\ prompts' = [prompts EXCEPT ![key[b]] = 1]
    /\ UNCHANGED <<stage, key, place, spent>>

Retract(b) == Move(b, {"sending"}, "preparing") /\ prompts[key[b]] = 0

Confirm(b) == Move(b, {"sending"}, "working") /\ prompts[key[b]] = 1

BeginEnd(b) == Move(b, {"preparing", "sending", "working"}, "ending")

\* A bead that the tracker refuses ends without a cleanup.
End(b) == Move(b, {"preparing", "ending"}, "ended")

\* A cleared bead is forgotten.
Drop(b) ==
    /\ stage[b] \in {"ending", "ended"}
    /\ stage' = [stage EXCEPT ![b] = "none"]
    /\ key' = [key EXCEPT ![b] = None]
    /\ place' = [place EXCEPT ![b] = None]
    /\ UNCHANGED <<spent, prompts>>

Next ==
    \/ \E b \in Bead :
          \/ \E k \in Key, x \in Pane : Hand(b, k, x)
          \/ Commit(b) \/ Prompt(b) \/ Retract(b) \/ Confirm(b)
          \/ BeginEnd(b) \/ End(b) \/ Drop(b)
    \/ \E k \in Key : Waste(k)

Spec == Init /\ [][Next]_vars

================================================================================
