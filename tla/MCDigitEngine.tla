---------------------------- MODULE MCDigitEngine ----------------------------
(***************************************************************************)
(* Small instances of DigitEngine: which orders the requests carry.        *)
(***************************************************************************)
EXTENDS DigitEngine

CONSTANTS a1, a2, b1, b2, b3, w1, w2, v1

Bet(a, k, t, s, n) == [acct |-> a, key |-> k, type |-> t, barrier |-> 0, stake |-> s, count |-> n]

\* Two orders of one account: both affordable (and both may lose, leaving less
\* than a stake), not both affordable, and one order sent twice under its key.
OneAccountOrders ==
    { [b \in Buy |-> IF b = b1 THEN Bet(a1, 1, "ODD", 300, 1) ELSE Bet(a1, 2, "ODD", 150, 2)],
      [b \in Buy |-> IF b = b1 THEN Bet(a1, 1, "EVEN", 300, 1) ELSE Bet(a1, 2, "ODD", 250, 1)],
      [b \in Buy |-> Bet(a1, 1, "EVEN", 200, 1)] }

\* Two accounts on the same ticks, hedging each other or not.
TwoAccountOrders ==
    { [b \in Buy |-> IF b = b1 THEN Bet(a1, 1, "EVEN", 300, 1) ELSE Bet(a2, 1, "ODD", 450, 1)],
      [b \in Buy |-> IF b = b1 THEN Bet(a1, 1, "EVEN", 300, 2) ELSE Bet(a2, 1, "EVEN", 200, 1)] }

PurchaseOrders == OneAccountOrders \cup TwoAccountOrders

\* One account buys again while a contract of its settles.
BusyAccountOrders ==
    { [b \in Buy |-> IF b = b1 THEN Bet(a1, 1, "EVEN", 200, 1) ELSE Bet(a1, 2, "ODD", 300, 2)] }
=============================================================================
