---------------------------- MODULE CommitReveal ----------------------------
(***************************************************************************)
(* What commit-reveal fairness promises, with no clock, queries or feed:   *)
(* a bet is placed only on seeds that are committed and still secret, and  *)
(* a seed is made public only when no open bet depends on it.              *)
(***************************************************************************)
CONSTANTS Day, Bet

VARIABLES
    seed,    \* Day -> "none", "secret" (committed) or "public"
    on       \* Bet -> the days an open bet depends on, {} when there is none

fairVars == <<seed, on>>

Init == seed \in [Day -> {"none", "secret"}] /\ on = [b \in Bet |-> {}]

\* Seeds are drawn and committed, bets resolved, by the same transaction.
Work(days, done) ==
    /\ \A d \in days : seed[d] = "none"
    /\ seed' = [d \in Day |-> IF d \in days THEN "secret" ELSE seed[d]]
    /\ on' = [b \in Bet |-> IF b \in done THEN {} ELSE on[b]]

Place(b, days) ==
    /\ on[b] = {} /\ \A d \in days : seed[d] = "secret"
    /\ on' = [on EXCEPT ![b] = days]
    /\ UNCHANGED seed

Reveal(days) ==
    /\ \A d \in days : seed[d] = "secret" /\ \A b \in Bet : d \notin on[b]
    /\ seed' = [d \in Day |-> IF d \in days THEN "public" ELSE seed[d]]
    /\ UNCHANGED on

Next ==
    \/ \E days \in SUBSET Day, done \in SUBSET Bet : Work(days, done)
    \/ \E b \in Bet, days \in (SUBSET Day) \ {{}} : Place(b, days)
    \/ \E days \in SUBSET Day : Reveal(days)

Spec == Init /\ [][Next]_fairVars
=============================================================================
