---------------------------- MODULE ContractLedger ----------------------------
(***************************************************************************)
(* What the engine promises about money, with no transactions, locks or    *)
(* ticks: a contract opens by moving its stake from available to reserved, *)
(* is resolved once, in one step with its payment, and an account without  *)
(* open contracts may have its practice balance restored.                  *)
(***************************************************************************)
EXTENDS DigitContract, FiniteSetsExt

CONSTANTS Account, Buy, MinStake, OpeningCredit

VARIABLES order, status, available, reserved

ledgerVars == <<order, status, available, reserved>>

OrderStake(b) == order[b].stake
Credit(b, verdict) ==
    CASE verdict = "WON"  -> Payout(order[b].stake, order[b].type, order[b].barrier)
      [] verdict = "LOST" -> 0
      [] verdict = "VOID" -> order[b].stake

OpenIn(a) == {b \in Buy : order[b].acct = a /\ status[b] = "OPEN"}

Init ==
    /\ status = [b \in Buy |-> "NONE"]
    /\ available = [a \in Account |-> OpeningCredit]
    /\ reserved = [a \in Account |-> 0]

Open(b) ==
    /\ status[b] = "NONE" /\ available[order[b].acct] >= order[b].stake
    /\ status' = [status EXCEPT ![b] = "OPEN"]
    /\ available' = [available EXCEPT ![order[b].acct] = @ - order[b].stake]
    /\ reserved' = [reserved EXCEPT ![order[b].acct] = @ + order[b].stake]
    /\ UNCHANGED order

\* One transaction may resolve several contracts, each with its own verdict.
Resolve(done) ==
    /\ done # {} /\ \A b \in done : status[b] = "OPEN"
    /\ \E verdict \in [done -> {"WON", "LOST", "VOID"}] :
         /\ status' = [b \in Buy |-> IF b \in done THEN verdict[b] ELSE status[b]]
         /\ available' = [a \in Account |-> available[a]
                            + SumFunctionOnSet([b \in done |-> Credit(b, verdict[b])], done \cap OpenIn(a))]
         /\ reserved' = [a \in Account |-> reserved[a]
                            - SumFunctionOnSet([b \in done |-> OrderStake(b)], done \cap OpenIn(a))]
    /\ UNCHANGED order

Restore(a) ==
    /\ OpenIn(a) = {} /\ available[a] < MinStake
    /\ available' = [available EXCEPT ![a] = OpeningCredit]
    /\ UNCHANGED <<order, status, reserved>>

Next ==
    \/ \E b \in Buy : Open(b)
    \/ \E done \in SUBSET Buy : Resolve(done)
    \/ \E a \in Account : Restore(a)

Spec == Init /\ [][Next]_ledgerVars
=============================================================================
