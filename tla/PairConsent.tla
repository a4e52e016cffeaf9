----------------------------- MODULE PairConsent -----------------------------
(***************************************************************************)
(* What one tap on the panel buys, and no more: each approval is pending   *)
(* until it is spent on one write of the board's firmware or lost.  An     *)
(* approval is never spent twice, never spent after it was lost, and       *)
(* nothing is written without one.  PairUpdate implements this.            *)
(***************************************************************************)
EXTENDS Naturals

CONSTANT MaxTaps

VARIABLES taps,      \* how many approvals the user has given
          pending,   \* those not yet spent or lost
          spent      \* those a write was made on

vars == <<taps, pending, spent>>

Init == taps = 0 /\ pending = {} /\ spent = {}

Approve == /\ taps < MaxTaps
           /\ taps' = taps + 1
           /\ pending' = pending \cup {taps + 1}
           /\ UNCHANGED spent

\* A write spends its approval; others may be lost with it, for a write takes
\* the board and the link down.
Spend == \E id \in pending :
           /\ spent' = spent \cup {id}
           /\ pending' \in SUBSET (pending \ {id})
           /\ UNCHANGED taps

Lose == /\ pending' \in SUBSET pending
        /\ UNCHANGED <<taps, spent>>

Next == Approve \/ Spend \/ Lose

Spec == Init /\ [][Next]_vars
=============================================================================
