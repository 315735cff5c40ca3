------------------------------ MODULE TickLog ------------------------------
(***************************************************************************)
(* What version 3 of the engine promises about the ticks of one index: the *)
(* series only grows; a tick continues the price of the tick before it; a  *)
(* number is left out only where a day with a new start begins; a tick of  *)
(* version 3 belongs to a day whose seed was committed before the tick was *)
(* due; and a seed is revealed only when its day is over.                  *)
(***************************************************************************)
EXTENDS Integers

CONSTANT TicksPerDay

VARIABLES clock,      \* ticks since the start
          first,      \* the tick after which version 3 starts
          ticks,      \* published tick -> the tick whose price it continues
          committed,  \* days whose seed is committed
          revealed    \* days whose seed is public

vars == <<clock, first, ticks, committed, revealed>>

DayOf(n) == n \div TicksPerDay

Newest == CHOOSE n \in DOMAIN ticks : \A m \in DOMAIN ticks : m <= n

Starts(n) == n % TicksPerDay = 0

Init ==
    /\ clock = 0
    /\ ticks = [n \in {0} |-> 0]
    /\ revealed = {}

Elapse ==
    /\ clock' = clock + 1
    /\ UNCHANGED <<first, ticks, committed, revealed>>

Commit(d) ==
    /\ d \notin committed
    /\ clock < d * TicksPerDay
    /\ committed' = committed \union {d}
    /\ UNCHANGED <<clock, first, ticks, revealed>>

\* The ticks of one transaction: each continues the newest one before it.
Publish ==
    LET all == DOMAIN ticks'
        before(n) == CHOOSE m \in all : m < n /\ \A k \in all : k < n => k <= m
        new == all \ DOMAIN ticks
    IN
    /\ new # {}
    /\ \A n \in DOMAIN ticks : n \in all /\ ticks'[n] = ticks[n]
    /\ \A n \in new :
        /\ Newest < n /\ n <= clock
        /\ ticks'[n] = before(n)
        /\ before(n) = n - 1 \/ Starts(n)
        /\ n > first => DayOf(n) \in committed
    /\ UNCHANGED <<clock, first, committed, revealed>>

\* Days that are over become public, several at a time.
Reveal ==
    /\ revealed \subseteq revealed' /\ revealed' \subseteq committed
    /\ \A d \in revealed' \ revealed : clock >= (d + 1) * TicksPerDay
    /\ UNCHANGED <<clock, first, ticks, committed>>

Next ==
    \/ Elapse
    \/ \E d \in committed' : Commit(d)
    \/ Publish
    \/ Reveal

Spec == Init /\ [][Next]_vars
=============================================================================
