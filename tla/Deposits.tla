------------------------------ MODULE Deposits ------------------------------
(***************************************************************************)
(* What M-Pesa deposits promise: a payment ends credited, failed or in     *)
(* front of the owners; the customer's balance and the cash book move only *)
(* together with it; and money once received is never declared failed.     *)
(***************************************************************************)
EXTENDS Naturals

CONSTANT Payment

VARIABLES
    status,   \* none, open, review, credited, failed or reversed
    usd,      \* credited to the customer for the payment, in deposits
    cash      \* booked as received for the payment, in deposits

depositVars == <<status, usd, cash>>

Init ==
    /\ status = [p \in Payment |-> "none"]
    /\ usd = [p \in Payment |-> 0]
    /\ cash = [p \in Payment |-> 0]

Becomes(p, s, u, c) == status'[p] = s /\ usd'[p] = u /\ cash'[p] = c

Stay(p) == Becomes(p, status[p], usd[p], cash[p])
Begin(p) == status[p] = "none" /\ Becomes(p, "open", 0, 0)
Refer(p) == status[p] \in {"open", "failed"} /\ Becomes(p, "review", usd[p], cash[p])
Suspend(p) == status[p] = "open" /\ Becomes(p, "review", 0, 1)
Decline(p) == status[p] \in {"open", "review"} /\ cash[p] = 0 /\ Becomes(p, "failed", 0, 0)
Confirm(p) == status[p] \in {"open", "review"} /\ Becomes(p, "credited", 1, 1)
Reverse(p) == status[p] = "credited" /\ Becomes(p, "reversed", 0, 0)

Next ==
    \A p \in Payment :
        Stay(p) \/ Begin(p) \/ Refer(p) \/ Suspend(p) \/ Decline(p) \/ Confirm(p) \/ Reverse(p)

Spec == Init /\ [][Next]_depositVars
=============================================================================
