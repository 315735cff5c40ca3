---------------------------- MODULE DigitContract ----------------------------
(***************************************************************************)
(* The pure rules of a digit contract: which exit digits win, what a stake *)
(* pays, what it adds to the house's risk on a tick, and how a published   *)
(* tick resolves it.  Money is in cents, time in half tick intervals.      *)
(***************************************************************************)
EXTENDS Integers, FiniteSets

CONSTANTS
    Margin,      \* house margin, in thousandths (engine_policy_versions.house_margin)
    MaxDelay     \* max_settlement_delay_seconds, in half ticks

ASSUME MarginAssumption == Margin \in 5..150
ASSUME MaxDelayAssumption == MaxDelay \in Nat \ {0}

Digit == 0..9
ContractType == {"EVEN", "ODD", "OVER", "UNDER", "MATCH", "DIFFER"}

\* The barriers with which engine_winning_digits does not raise.
ValidBarriers(type) ==
    CASE type = "OVER"  -> 0..8
      [] type = "UNDER" -> 1..9
      [] OTHER          -> Digit

WinningDigits(type, barrier) ==
    CASE type = "EVEN"   -> {d \in Digit : d % 2 = 0}
      [] type = "ODD"    -> {d \in Digit : d % 2 = 1}
      [] type = "OVER"   -> {d \in Digit : d > barrier}
      [] type = "UNDER"  -> {d \in Digit : d < barrier}
      [] type = "MATCH"  -> {barrier}
      [] type = "DIFFER" -> Digit \ {barrier}

\* floor(stake*(1-margin)*10/w*100)/100, with the stake already in cents.
Payout(stake, type, barrier) ==
    (stake * (1000 - Margin) * 10)
        \div (1000 * Cardinality(WinningDigits(type, barrier)))

\* profit_too_low: a quote whose profit is under one percent is refused.
Quotable(stake, type, barrier) ==
    100 * (Payout(stake, type, barrier) - stake) >= stake

\* What one contract adds to net_loss_by_digit of its settle tick.
NetLoss(stake, type, barrier) ==
    [d \in Digit |-> IF d \in WinningDigits(type, barrier)
                     THEN Payout(stake, type, barrier) - stake
                     ELSE -stake]

\* A tick inserted too long after its own time refunds instead of settling.
Late(tick, generatedAt) == generatedAt > 2 * tick + MaxDelay

\* What engine_settle_contract makes of a contract when its tick is read.
Verdict(type, barrier, tick, digit, generatedAt) ==
    IF Late(tick, generatedAt) THEN "VOID"
    ELSE IF digit \in WinningDigits(type, barrier) THEN "WON" ELSE "LOST"
=============================================================================
