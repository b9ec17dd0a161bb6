----------------------------- MODULE ApprovalGrant -----------------------------
(***************************************************************************)
(* What the approval workflow promises about each request, without stores, *)
(* processes and reads: it is asked for, then granted by somebody else,    *)
(* refused or lapsed, once and for all, and a grant lets one execution     *)
(* pass.                                                                   *)
(***************************************************************************)
EXTENDS Naturals

CONSTANTS Id, User, Nobody

VARIABLES verdict, asker, decider, passes

grantVars == <<verdict, asker, decider, passes>>

Init == /\ verdict = [i \in Id |-> "none"]
        /\ asker = [i \in Id |-> Nobody]
        /\ decider = [i \in Id |-> Nobody]
        /\ passes = [i \in Id |-> 0]

Ask(i, u) == /\ verdict[i] = "none"
             /\ verdict' = [verdict EXCEPT ![i] = "pending"]
             /\ asker' = [asker EXCEPT ![i] = u]
             /\ UNCHANGED <<decider, passes>>

\* The two-person rule: nobody grants a request of their own.
Grant(i, u) == /\ verdict[i] = "pending" /\ u # asker[i]
               /\ verdict' = [verdict EXCEPT ![i] = "approved"]
               /\ decider' = [decider EXCEPT ![i] = u]
               /\ UNCHANGED <<asker, passes>>

Deny(i, u) == /\ verdict[i] = "pending"
              /\ verdict' = [verdict EXCEPT ![i] = "denied"]
              /\ decider' = [decider EXCEPT ![i] = u]
              /\ UNCHANGED <<asker, passes>>

Lapse(i) == /\ verdict[i] = "pending"
            /\ verdict' = [verdict EXCEPT ![i] = "expired"]
            /\ UNCHANGED <<asker, decider, passes>>

Pass(i) == /\ verdict[i] = "approved"
           /\ verdict' = [verdict EXCEPT ![i] = "consumed"]
           /\ passes' = [passes EXCEPT ![i] = @ + 1]
           /\ UNCHANGED <<asker, decider>>

Next == \E i \in Id : \/ Lapse(i) \/ Pass(i)
                      \/ \E u \in User : Ask(i, u) \/ Grant(i, u) \/ Deny(i, u)

Spec == Init /\ [][Next]_grantVars
================================================================================
