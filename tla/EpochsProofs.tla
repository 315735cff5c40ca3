---------------------------- MODULE EpochsProofs ----------------------------
(***************************************************************************)
(* Proofs about Epochs for every number of purchases, every length of a    *)
(* day, a batch, the lags and the retention, and every bound on the clock. *)
(***************************************************************************)
EXTENDS Epochs, WellFoundedInduction, TLAPS

-----------------------------------------------------------------------------
(* Numbers *)

\* The order of the natural numbers as a set of pairs, which the provers can handle.
Less == {pair \in Nat \X Nat : pair[1] < pair[2]}

LEMMA LessWellFounded == IsWellFoundedOn(Less, Nat)
BY NatLessThanWellFounded DEF OpToRel, Less

\* A set of natural numbers that is not empty has a least element.
LEMMA LeastNatural ==
    ASSUME NEW T \in SUBSET Nat, T # {}
    PROVE  \E x \in T : \A y \in T : x <= y
<1>1. PICK x \in T : \A y \in T : ~(<<y, x>> \in Less)
  BY LessWellFounded, WFMin, Zenon
<1>2. \A a, b \in Nat : <<a, b>> \in Less <=> a < b
  BY DEF Less
<1>3. \A y \in T : ~(y < x) /\ x \in Nat /\ y \in Nat
  BY <1>1, <1>2
<1> QED BY <1>1, <1>3

\* A bounded set of natural numbers has a greatest element, and Max names it.
LEMMA BoundedMax ==
    ASSUME NEW S \in SUBSET Nat, S # {}, NEW n \in Nat, \A x \in S : x <= n
    PROVE  Max(S) \in S /\ \A x \in S : x <= Max(S)
<1> DEFINE U == {u \in Nat : \A x \in S : x <= u}
<1>1. PICK u \in U : \A v \in U : u <= v
  <2>1. n \in U
    OBVIOUS
  <2> HIDE DEF U
  <2>2. U \in SUBSET Nat
    BY DEF U
  <2> QED BY <2>1, <2>2, LeastNatural
<1>2. u \in S
  <2> SUFFICES ASSUME u \notin S PROVE FALSE
    OBVIOUS
  <2>1. \A x \in S : x < u
    OBVIOUS
  <2>2. PICK y \in S : y \in Nat
    OBVIOUS
  <2>3. u - 1 \in U
    BY <2>1, <2>2
  <2> QED BY <1>1, <2>3
<1>3. \E m \in S : \A x \in S : m >= x
  BY <1>2
<1> QED BY <1>3 DEF Max

\* The maximum of a pair is one of the two and at least both.
LEMMA MaxOfTwo ==
    ASSUME NEW x \in Int, NEW y \in Int
    PROVE  Max({x, y}) \in {x, y} /\ Max({x, y}) >= x /\ Max({x, y}) >= y
<1>1. \E m \in {x, y} : \A z \in {x, y} : m >= z
  OBVIOUS
<1> QED BY <1>1 DEF Max

\* The minimum of a pair is one of the two and at most both.
LEMMA MinOfTwo ==
    ASSUME NEW x \in Int, NEW y \in Int
    PROVE  Min({x, y}) \in {x, y} /\ Min({x, y}) =< x /\ Min({x, y}) =< y
<1>1. \E m \in {x, y} : \A z \in {x, y} : m =< z
  OBVIOUS
<1> QED BY <1>1 DEF Min

\* Where the quotient lies.
LEMMA DivBounds ==
    ASSUME NEW t \in Nat, NEW n \in Nat \ {0}
    PROVE  t \div n \in Nat /\ (t \div n) * n <= t /\ t < ((t \div n) + 1) * n
OBVIOUS

\* A quotient grows with what is divided.
LEMMA DivGrows ==
    ASSUME NEW t \in Nat, NEW u \in Nat, NEW n \in Nat \ {0}, t <= u
    PROVE  t \div n <= u \div n
BY SMTT(30)

\* A whole divisor more adds one.
LEMMA DivNext ==
    ASSUME NEW t \in Nat, NEW n \in Nat \ {0}
    PROVE  (t + n) \div n = (t \div n) + 1
BY SMTT(30)

-----------------------------------------------------------------------------
(* Ticks and days *)

LEMMA DayOfTick ==
    ASSUME NEW t \in Nat
    PROVE  DayOf(t) \in Nat /\ DayOf(t) * TicksPerDay <= t /\ t < DayEnd(DayOf(t)) /\ InDay(t, DayOf(t))
<1>1. DayOf(t) \in Nat /\ DayOf(t) * TicksPerDay <= t /\ t < (DayOf(t) + 1) * TicksPerDay
  BY DivBounds, BoundsAssumption DEF DayOf
<1>2. DayOf(t) * TicksPerDay \in Int /\ DayEnd(DayOf(t)) \in Int
  BY <1>1, BoundsAssumption DEF DayEnd
<1> QED BY <1>1, <1>2 DEF DayEnd, InDay

LEMMA DayGrows == ASSUME NEW t \in Nat, NEW u \in Nat, t <= u PROVE DayOf(t) <= DayOf(u)
BY DivGrows, BoundsAssumption DEF DayOf

\* Within one day's length of a tick there is only its day and the next.
LEMMA DayAfter ==
    ASSUME NEW t \in Nat, NEW u \in Nat, t <= u, u <= t + TicksPerDay
    PROVE  DayOf(u) \in {DayOf(t), DayOf(t) + 1}
<1>1. t + TicksPerDay \in Nat
  BY BoundsAssumption
<1>2. DayOf(t) <= DayOf(u) /\ DayOf(u) <= DayOf(t + TicksPerDay)
  BY <1>1, DayGrows
<1>3. DayOf(t + TicksPerDay) = DayOf(t) + 1
  BY DivNext, BoundsAssumption DEF DayOf
<1>4. DayOf(t) \in Nat /\ DayOf(u) \in Nat
  BY DayOfTick
<1> QED BY <1>2, <1>3, <1>4

LEMMA LastOfRunIsDue ==
    ASSUME TypeOK
    PROVE  LastOfRun \in Nat /\ lastTick <= LastOfRun /\ LastOfRun <= clock
<1>1. clock \in Nat /\ lastTick \in Nat /\ lastTick <= clock /\ lastTick + Batch \in Nat /\ Batch \in Nat
  BY BoundsAssumption DEF TypeOK
<1>2. LastOfRun \in {clock, lastTick + Batch} /\ LastOfRun <= clock /\ LastOfRun <= lastTick + Batch
  BY <1>1, MinOfTwo DEF LastOfRun
<1> QED BY <1>1, <1>2

\* The days one run of engine_advance commits are at most tomorrow's.
LEMMA EnsuredDays ==
    ASSUME TypeOK
    PROVE  /\ Ensured(lastTick + 1, LastOfRun) \subseteq 0 .. DayOf(clock) + 1
           /\ {DayOf(clock), DayOf(clock) + 1} \subseteq Ensured(lastTick + 1, LastOfRun)
           /\ \A t \in lastTick + 1 .. LastOfRun : DayOf(t) \in Ensured(lastTick + 1, LastOfRun)
<1>1. clock \in Nat /\ lastTick \in Nat /\ LastOfRun \in Nat /\ LastOfRun <= clock
  BY LastOfRunIsDue, BoundsAssumption DEF TypeOK
<1>2. DayOf(clock) \in Nat
  BY <1>1, DayOfTick
<1>3. ASSUME NEW t \in lastTick + 1 .. LastOfRun PROVE DayOf(t) \in 0 .. DayOf(clock) + 1
  <2>1. t \in Nat /\ t <= clock
    BY <1>1
  <2>2. DayOf(t) \in Nat /\ DayOf(t) <= DayOf(clock)
    BY <1>1, <2>1, DayOfTick, DayGrows
  <2> QED BY <1>2, <2>2
<1> QED BY <1>2, <1>3 DEF Ensured

\* The epoch a new one is chained to exists.
LEMMA PreviousType ==
    ASSUME DOMAIN epochs \subseteq Nat, NEW n \in Nat, \A d \in DOMAIN epochs : d <= n, NEW today \in Nat, NEW d
    PROVE  Previous(d, today) \in Nat \cup {NoDay}
<1>1. ASSUME NEW S \in SUBSET Nat, NEW m \in Nat, \A x \in S : x <= m PROVE Latest(S) \in Nat \cup {NoDay}
  BY <1>1, BoundedMax DEF Latest
<1>2. Latest(DOMAIN epochs) \in Nat \cup {NoDay}
  BY <1>1
<1>3. PICK m \in Nat : n <= m /\ today + 1 <= m
  <2>1. n <= n + today + 1 /\ today + 1 <= n + today + 1 /\ n + today + 1 \in Nat
    OBVIOUS
  <2> QED BY <2>1
<1>4. Latest(DOMAIN epochs \cup {today}) \in Nat \cup {NoDay}
  <2> DEFINE S == DOMAIN epochs \cup {today}
  <2>1. S \in SUBSET Nat /\ \A x \in S : x <= m
    BY <1>3
  <2> HIDE DEF S
  <2> QED BY <1>1, <2>1 DEF S
<1>5. Latest(DOMAIN epochs \cup {today, today + 1}) \in Nat \cup {NoDay}
  <2> DEFINE S == DOMAIN epochs \cup {today, today + 1}
  <2>1. S \in SUBSET Nat /\ \A x \in S : x <= m
    BY <1>3
  <2> HIDE DEF S
  <2> QED BY <1>1, <2>1 DEF S
<1> QED BY <1>2, <1>4, <1>5 DEF Previous

-----------------------------------------------------------------------------
(* Types *)

LEMMA TypeInit == Init => TypeOK
BY BoundsAssumption DEF Init, TypeOK, NoDay, Never

\* engine_advance keeps the types of the epochs it commits.
LEMMA CommitType ==
    ASSUME TypeOK, CommitsAreTimely, Commit(Ensured(lastTick + 1, LastOfRun))
    PROVE  /\ DOMAIN epochs' = DOMAIN epochs \cup Ensured(lastTick + 1, LastOfRun)
           /\ DOMAIN epochs' \subseteq Nat
           /\ \A d \in DOMAIN epochs' : epochs'[d] \in [at : Nat, prev : Nat \cup {NoDay}]
<1>1. DayOf(clock) \in Nat /\ clock \in Nat
  BY DayOfTick, BoundsAssumption DEF TypeOK
<1>2. \A d \in DOMAIN epochs : d <= DayOf(clock) + 1
  BY <1>1 DEF CommitsAreTimely
<1>3. \A d : Previous(d, DayOf(clock)) \in Nat \cup {NoDay}
  <2>1. DayOf(clock) + 1 \in Nat
    BY <1>1
  <2> QED BY <1>1, <1>2, <2>1, PreviousType DEF TypeOK
<1>4. DOMAIN epochs' = DOMAIN epochs \cup Ensured(lastTick + 1, LastOfRun)
  BY DEF Commit
<1>5. Ensured(lastTick + 1, LastOfRun) \subseteq Nat
  BY <1>1, EnsuredDays
<1>6. ASSUME NEW d \in DOMAIN epochs' PROVE epochs'[d] \in [at : Nat, prev : Nat \cup {NoDay}]
  <2>1. epochs'[d] = IF d \in DOMAIN epochs THEN epochs[d]
                     ELSE [at |-> clock, prev |-> Previous(d, DayOf(clock))]
    BY <1>4, <1>6 DEF Commit
  <2> QED BY <1>1, <1>3, <2>1 DEF TypeOK
<1> QED BY <1>4, <1>5, <1>6 DEF TypeOK

\* What a run does to contracts: it resolves open ones, or flags them.
Contract == [state : {"NONE", "OPEN", "RESOLVED"}, entry : Nat, settle : Nat, flagged : BOOLEAN]

LEMMA AdvanceSettles ==
    ASSUME TypeOK, Advance
    PROVE  /\ contract' \in [Buy -> Contract]
           /\ \A b \in Buy : /\ contract'[b].entry = contract[b].entry /\ contract'[b].settle = contract[b].settle
                             /\ \/ contract'[b].state = contract[b].state
                                \/ contract[b].state = "OPEN" /\ contract'[b].state = "RESOLVED"
<1> DEFINE due == OpenOn(lastTick + 1 .. LastOfRun)
<1>1. PICK failed \in SUBSET due :
        contract' = [b \in Buy |-> IF b \in failed THEN [contract[b] EXCEPT !.flagged = TRUE]
                                   ELSE IF b \in due THEN [contract[b] EXCEPT !.state = "RESOLVED"]
                                   ELSE contract[b]]
  BY DEF Advance
<1>2. \A b \in due : contract[b].state = "OPEN"
  BY DEF OpenOn
<1> HIDE DEF due
<1>3. ASSUME NEW b \in Buy
      PROVE  /\ contract'[b] \in Contract
             /\ contract'[b].entry = contract[b].entry /\ contract'[b].settle = contract[b].settle
             /\ \/ contract'[b].state = contract[b].state
                \/ contract[b].state = "OPEN" /\ contract'[b].state = "RESOLVED"
  <2>1. contract[b] \in Contract
    BY DEF TypeOK, Contract
  <2>2. contract'[b] \in {contract[b], [contract[b] EXCEPT !.flagged = TRUE]}
        \/ (b \in due /\ contract'[b] = [contract[b] EXCEPT !.state = "RESOLVED"])
    BY <1>1
  <2> QED BY <1>2, <2>1, <2>2 DEF Contract
<1> QED BY <1>1, <1>3

\* A purchase's entry tick, settlement tick and start.
LEMMA EnteredAs ==
    ASSUME TypeOK, NEW b \in Buy, BuyEnter(b)
    PROVE  \E began \in Nat, entry \in Nat, settle \in Nat :
             /\ buy' = [buy EXCEPT ![b] = [pc |-> "entered", began |-> began, entry |-> entry, settle |-> settle]]
             /\ began <= clock /\ clock <= began + TxnLimit /\ updatedAt >= began - FeedLag
             /\ clock < entry /\ entry <= settle /\ settle <= clock + MaxCount + 1
<1>1. /\ clock \in Nat /\ lastTick \in Nat /\ lastTick <= clock
      /\ TxnLimit \in Nat /\ MaxCount \in Nat
  BY BoundsAssumption DEF TypeOK
<1>2. PICK began \in Nat \cap (clock - TxnLimit .. clock), rounded \in {clock, clock + 1}, count \in 1..MaxCount :
        LET entry == Max({lastTick, rounded + 1})
        IN  /\ updatedAt >= began - FeedLag
            /\ buy' = [buy EXCEPT ![b] = [pc |-> "entered", began |-> began,
                                          entry |-> entry, settle |-> entry + count - 1]]
  BY DEF BuyEnter
<1> DEFINE entry == Max({lastTick, rounded + 1})
           settle == entry + count - 1
<1>3. entry \in {lastTick, rounded + 1} /\ entry >= rounded + 1
  <2>1. rounded + 1 \in Int /\ lastTick \in Int
    BY <1>1
  <2> QED BY <2>1, MaxOfTwo
<1>4. /\ updatedAt >= began - FeedLag
      /\ buy' = [buy EXCEPT ![b] = [pc |-> "entered", began |-> began, entry |-> entry, settle |-> settle]]
  BY <1>2
<1> HIDE DEF entry
<1>5. /\ entry \in Nat /\ clock < entry /\ entry <= clock + 2
      /\ began \in Nat /\ began <= clock /\ clock <= began + TxnLimit
  BY <1>1, <1>3
<1>6. settle \in Nat /\ entry <= settle /\ settle <= clock + MaxCount + 1
  BY <1>1, <1>5
<1> HIDE DEF settle
<1> QED BY <1>4, <1>5, <1>6

LEMMA TypeNext == TypeOK /\ CommitsAreTimely /\ [Next]_vars => TypeOK'
<1> SUFFICES ASSUME TypeOK, CommitsAreTimely, [Next]_vars PROVE TypeOK'
  OBVIOUS
<1>1. CASE Elapse
  <2>1. clock' \in 0..MaxClock /\ 0..clock \subseteq 0..clock'
    BY <1>1, BoundsAssumption DEF TypeOK, Elapse
  <2> QED BY <1>1, <2>1 DEF TypeOK, Elapse
<1>2. CASE Advance
  <2>1. /\ DOMAIN epochs' = DOMAIN epochs \cup Ensured(lastTick + 1, LastOfRun)
        /\ DOMAIN epochs' \subseteq Nat
        /\ \A d \in DOMAIN epochs' : epochs'[d] \in [at : Nat, prev : Nat \cup {NoDay}]
    BY <1>2, CommitType DEF Advance
  <2>2. lastTick' \in 0..clock' /\ updatedAt' \in 0..clock' /\ clock' \in 0..MaxClock
    <3>1. \/ lastTick' = LastOfRun /\ updatedAt' = clock /\ clock' = clock
          \/ UNCHANGED <<lastTick, updatedAt, clock>>
      BY <1>2 DEF Advance
    <3>2. LastOfRun \in 0..clock /\ clock \in 0..clock
      BY LastOfRunIsDue, BoundsAssumption DEF TypeOK
    <3> QED BY <3>1, <3>2 DEF TypeOK
  <2>3. genAt' \in [Ticks -> Nat \cup {Never}]
    BY <1>2 DEF Advance, TypeOK
  <2>4. contract' \in [Buy -> [state : {"NONE", "OPEN", "RESOLVED"}, entry : Nat, settle : Nat, flagged : BOOLEAN]]
    BY <1>2, AdvanceSettles DEF Contract
  <2>5. revealed' \subseteq DOMAIN epochs' /\ revealing' \subseteq DOMAIN epochs'
    BY <1>2, <2>1 DEF Advance, TypeOK
  <2> QED BY <1>2, <2>1, <2>2, <2>3, <2>4, <2>5 DEF Advance, TypeOK
<1>3. ASSUME NEW b \in Buy, BuyEnter(b) PROVE TypeOK'
  <2>1. buy' \in [Buy -> [pc : {"idle", "entered", "done"}, began : Nat, entry : Nat, settle : Nat]]
    BY <1>3, EnteredAs DEF TypeOK
  <2> QED BY <1>3, <2>1 DEF BuyEnter, TypeOK
<1>4. ASSUME NEW b \in Buy, BuyCommit(b) PROVE TypeOK'
  BY <1>4 DEF BuyCommit, BuyDone, TypeOK
<1>5. ASSUME NEW b \in Buy, BuyFail(b) PROVE TypeOK'
  BY <1>5 DEF BuyFail, BuyDone, TypeOK
<1>6. ASSUME NEW b \in Buy, Void(b) PROVE TypeOK'
  BY <1>6 DEF Void, TypeOK
<1>7. CASE RevealScan
  BY <1>7 DEF RevealScan, Revealable, TypeOK
<1>8. CASE RevealCommit
  BY <1>8 DEF RevealCommit, TypeOK
<1>9. CASE PurgeTicks
  BY <1>9 DEF PurgeTicks, TypeOK
<1>10. CASE UNCHANGED vars
  BY <1>10 DEF vars, TypeOK
<1> QED BY <1>1, <1>2, <1>3, <1>4, <1>5, <1>6, <1>7, <1>8, <1>9, <1>10 DEF Next

-----------------------------------------------------------------------------
(* Epochs are committed in time *)

LEMMA TimelyInit == Init => CommitsAreTimely
<1> SUFFICES ASSUME Init PROVE CommitsAreTimely
  OBVIOUS
<1>1. DayOf(0) = 0
  <2>1. DayOf(0) \in Nat /\ DayOf(0) * TicksPerDay <= 0 /\ TicksPerDay \in Nat \ {0}
    BY DayOfTick, BoundsAssumption
  <2> QED BY <2>1
<1>2. clock = 0 /\ updatedAt = 0 /\ DOMAIN epochs = {0, 1}
  BY DEF Init
<1> QED BY <1>1, <1>2 DEF CommitsAreTimely

LEMMA TimelyNext == TypeOK /\ CommitsAreTimely /\ [Next]_vars => CommitsAreTimely'
<1> SUFFICES ASSUME TypeOK, CommitsAreTimely, [Next]_vars PROVE CommitsAreTimely'
  OBVIOUS
<1>1. CASE Elapse
  <2>1. clock' \in Nat /\ clock \in Nat /\ clock <= clock' /\ UNCHANGED <<epochs, updatedAt>>
    BY <1>1, BoundsAssumption DEF Elapse, TypeOK
  <2>2. DayOf(clock) <= DayOf(clock') /\ DayOf(clock) \in Nat /\ DayOf(clock') \in Nat
    BY <2>1, DayGrows, DayOfTick
  <2>3. DayOf(clock)' = DayOf(clock') /\ DayOf(updatedAt)' = DayOf(updatedAt)
    BY <2>1 DEF DayOf
  <2> QED BY <2>1, <2>2, <2>3 DEF CommitsAreTimely
<1>2. CASE Advance
  <2>1. /\ DOMAIN epochs' = DOMAIN epochs \cup Ensured(lastTick + 1, LastOfRun)
        /\ clock' = clock /\ updatedAt' \in {updatedAt, clock}
    BY <1>2, CommitType DEF Advance
  <2>2. DOMAIN epochs' \subseteq 0 .. DayOf(clock) + 1
    BY <2>1, EnsuredDays DEF CommitsAreTimely
  <2>3. {DayOf(updatedAt'), DayOf(updatedAt') + 1} \subseteq DOMAIN epochs'
    BY <2>1, EnsuredDays DEF CommitsAreTimely
  <2> QED BY <2>1, <2>2, <2>3 DEF CommitsAreTimely, DayOf
<1>3. CASE UNCHANGED <<clock, epochs, updatedAt>>
  BY <1>3 DEF CommitsAreTimely, DayOf
<1>4. \/ Elapse \/ Advance \/ UNCHANGED <<clock, epochs, updatedAt>>
  BY DEF Next, vars, BuyEnter, BuyCommit, BuyFail, Void, RevealScan, RevealCommit, PurgeTicks
<1> QED BY <1>1, <1>2, <1>3, <1>4

-----------------------------------------------------------------------------
(* Purchases look ahead *)

LEMMA AheadInit == Init => PurchasesLookAhead
BY DEF Init, PurchasesLookAhead

LEMMA AheadNext == TypeOK /\ CommitsAreTimely /\ PurchasesLookAhead /\ [Next]_vars => PurchasesLookAhead'
<1> SUFFICES ASSUME TypeOK, CommitsAreTimely, PurchasesLookAhead, [Next]_vars PROVE PurchasesLookAhead'
  OBVIOUS
<1> DEFINE Ahead(b) ==
        /\ buy[b].pc # "done" => contract[b].state = "NONE"
        /\ buy[b].pc = "entered" =>
             /\ lastTick < buy[b].entry /\ buy[b].began < buy[b].entry /\ buy[b].entry <= buy[b].settle
             /\ clock <= buy[b].began + TxnLimit
             /\ {DayOf(buy[b].entry), DayOf(buy[b].settle)} \subseteq DOMAIN epochs
        /\ contract[b].state # "NONE" => 0 < contract[b].entry /\ contract[b].entry <= contract[b].settle
<1>0. \A b \in Buy : Ahead(b)
  BY DEF PurchasesLookAhead
<1> SUFFICES ASSUME NEW b \in Buy PROVE Ahead(b)'
  BY DEF PurchasesLookAhead
<1>1. CASE Elapse
  <2>1. buy[b].pc = "entered" => clock' <= buy[b].began + TxnLimit
    BY <1>1, BoundsAssumption DEF Elapse, TypeOK
  <2>2. UNCHANGED <<epochs, lastTick, contract, buy>>
    BY <1>1 DEF Elapse
  <2> QED BY <1>0, <2>1, <2>2 DEF DayOf
<1>2. CASE Advance
  <2>1. buy[b].pc # "entered" /\ buy' = buy
    BY <1>2 DEF Advance
  <2>2. contract[b].state = "NONE" => contract'[b] = contract[b]
    BY <1>2 DEF Advance, OpenOn, TypeOK
  <2>3. /\ contract'[b].entry = contract[b].entry /\ contract'[b].settle = contract[b].settle
    BY <1>2 DEF Advance, TypeOK
  <2> QED BY <1>0, <2>1, <2>2, <2>3
<1>3. ASSUME NEW c \in Buy, BuyEnter(c) PROVE Ahead(b)'
  <2>1. PICK began \in Nat, entry \in Nat, settle \in Nat :
             /\ buy' = [buy EXCEPT ![c] = [pc |-> "entered", began |-> began, entry |-> entry, settle |-> settle]]
             /\ began <= clock /\ clock <= began + TxnLimit /\ updatedAt >= began - FeedLag
             /\ clock < entry /\ entry <= settle /\ settle <= clock + MaxCount + 1
    BY <1>3, EnteredAs
  <2>2. buy[c].pc = "idle" /\ UNCHANGED <<clock, epochs, lastTick, contract>>
    BY <1>3 DEF BuyEnter
  <2>3. CASE b # c
    <3>1. buy'[b] = buy[b]
      BY <2>1, <2>3 DEF TypeOK
    <3> QED BY <1>0, <2>2, <3>1 DEF DayOf
  <2>4. CASE b = c
    <3>1. buy'[b] = [pc |-> "entered", began |-> began, entry |-> entry, settle |-> settle]
      BY <2>1, <2>4 DEF TypeOK
    <3>2. updatedAt \in Nat /\ clock \in Nat /\ lastTick \in Nat /\ updatedAt <= clock /\ lastTick <= clock
      BY BoundsAssumption DEF TypeOK
    <3>3. \A t \in {entry, settle} : updatedAt <= t /\ t <= updatedAt + TicksPerDay
      BY <2>1, <3>2, BoundsAssumption, DayIsLong
    <3>4. {DayOf(entry), DayOf(settle)} \subseteq {DayOf(updatedAt), DayOf(updatedAt) + 1}
      BY <3>2, <3>3, DayAfter
    <3>5. {DayOf(entry), DayOf(settle)} \subseteq DOMAIN epochs
      BY <3>4 DEF CommitsAreTimely
    <3>6. lastTick < entry /\ began < entry
      BY <2>1, <3>2
    <3> QED BY <1>0, <2>1, <2>2, <2>4, <3>1, <3>5, <3>6 DEF DayOf
  <2> QED BY <2>3, <2>4
<1>4. ASSUME NEW c \in Buy, BuyCommit(c) PROVE Ahead(b)'
  <2>1. CASE b # c
    <3>1. buy'[b] = buy[b] /\ contract'[b] = contract[b]
      BY <1>4, <2>1 DEF BuyCommit, BuyDone, TypeOK
    <3> QED BY <1>0, <1>4, <3>1 DEF BuyCommit, DayOf
  <2>2. CASE b = c
    <3>1. /\ buy'[b].pc = "done" /\ buy[b].pc = "entered"
          /\ contract'[b].entry = buy[b].entry /\ contract'[b].settle = buy[b].settle
      BY <1>4, <2>2 DEF BuyCommit, BuyDone, TypeOK
    <3>2. 0 < buy[b].entry /\ buy[b].entry <= buy[b].settle
      BY <1>0, <3>1, BoundsAssumption DEF TypeOK
    <3> QED BY <3>1, <3>2
  <2> QED BY <2>1, <2>2
<1>5. ASSUME NEW c \in Buy, BuyFail(c) PROVE Ahead(b)'
  <2>1. (buy'[b] = buy[b] \/ buy'[b].pc = "done") /\ contract'[b] = contract[b]
    BY <1>5 DEF BuyFail, BuyDone, TypeOK
  <2> QED BY <1>0, <1>5, <2>1 DEF BuyFail, DayOf
<1>6. ASSUME NEW c \in Buy, Void(c) PROVE Ahead(b)'
  <2>1. /\ contract[b].state = "NONE" => contract'[b] = contract[b]
        /\ contract'[b].entry = contract[b].entry /\ contract'[b].settle = contract[b].settle
    BY <1>6 DEF Void, TypeOK
  <2> QED BY <1>0, <1>6, <2>1 DEF Void, DayOf
<1>7. CASE RevealScan \/ RevealCommit \/ PurgeTicks \/ UNCHANGED vars
  <2>1. UNCHANGED <<clock, epochs, lastTick, contract, buy>>
    BY <1>7 DEF RevealScan, RevealCommit, PurgeTicks, vars
  <2> QED BY <1>0, <2>1 DEF DayOf
<1> HIDE DEF Ahead
<1> QED BY <1>1, <1>2, <1>3, <1>4, <1>5, <1>6, <1>7 DEF Next

-----------------------------------------------------------------------------
(* Reveals are late enough *)

\* No day of a purchase that has chosen its entry tick is public or about to be.
LEMMA EnteredDaysAreSecret ==
    ASSUME TypeOK, RevealsAreLate, PurchasesLookAhead, NEW b \in Buy, buy[b].pc = "entered",
           NEW d \in revealed \cup revealing
    PROVE  d \notin {DayOf(buy[b].entry), DayOf(buy[b].settle)}
<1>1. /\ buy[b].began \in Nat /\ buy[b].entry \in Nat /\ buy[b].settle \in Nat
      /\ clock \in Nat /\ d \in Nat
  BY BoundsAssumption DEF TypeOK
<1>2. /\ buy[b].began < buy[b].entry /\ buy[b].entry <= buy[b].settle /\ clock <= buy[b].began + TxnLimit
  BY DEF PurchasesLookAhead
<1>3. DayEnd(d) + Grace < clock
  BY DEF RevealsAreLate
<1>4. DayEnd(d) \in Int
  BY <1>1, BoundsAssumption DEF DayEnd
<1>5. \A t \in {buy[b].entry, buy[b].settle} : DayEnd(d) < t
  BY <1>1, <1>2, <1>3, <1>4, BoundsAssumption, GraceIsLong
<1>6. \A t \in {buy[b].entry, buy[b].settle} : t < DayEnd(DayOf(t)) /\ DayEnd(DayOf(t)) \in Int
  BY <1>1, DayOfTick, BoundsAssumption DEF DayEnd
<1> QED BY <1>1, <1>4, <1>5, <1>6

LEMMA LateInit == Init => RevealsAreLate
BY DEF Init, RevealsAreLate

LEMMA LateNext == TypeOK /\ PurchasesLookAhead /\ RevealsAreLate /\ [Next]_vars => RevealsAreLate'
<1> SUFFICES ASSUME TypeOK, PurchasesLookAhead, RevealsAreLate, [Next]_vars PROVE RevealsAreLate'
  OBVIOUS
<1>1. \A d \in revealed \cup revealing : d \in Nat /\ DayEnd(d) \in Int /\ DayEnd(d) + Grace < clock
  BY BoundsAssumption DEF RevealsAreLate, TypeOK, DayEnd
<1>2. \A d \in revealing : d \notin revealed /\ \A b \in Buy : d \notin DaysOf(b)
  BY DEF RevealsAreLate
<1>3. CASE Elapse
  <2>1. clock' = clock + 1 /\ clock \in Nat /\ UNCHANGED <<revealed, revealing, contract>>
    BY <1>3, BoundsAssumption DEF Elapse, TypeOK
  <2>2. \A d \in revealed \cup revealing : DayEnd(d) + Grace < clock'
    BY <1>1, <2>1, BoundsAssumption
  <2> QED BY <1>2, <2>1, <2>2 DEF RevealsAreLate, DaysOf, DayOf, DayEnd
<1>4. CASE /\ UNCHANGED <<clock, revealed, revealing>>
           /\ \A b \in Buy : DaysOf(b)' \subseteq DaysOf(b)
  BY <1>1, <1>2, <1>4 DEF RevealsAreLate, DayEnd
<1>5. CASE Advance
  <2>1. \A b \in Buy : DaysOf(b)' \subseteq DaysOf(b)
    BY <1>5, AdvanceSettles DEF DaysOf, DayOf
  <2> QED BY <1>4, <1>5, <2>1 DEF Advance
<1>6. ASSUME NEW c \in Buy, BuyEnter(c) \/ BuyFail(c) PROVE RevealsAreLate'
  <2>1. UNCHANGED <<clock, revealed, revealing, contract>>
    BY <1>6 DEF BuyEnter, BuyFail
  <2> QED BY <1>4, <2>1 DEF DaysOf, DayOf
<1>7. ASSUME NEW c \in Buy, BuyCommit(c) PROVE RevealsAreLate'
  <2>1. /\ UNCHANGED <<clock, revealed, revealing>> /\ buy[c].pc = "entered"
        /\ \A b \in Buy \ {c} : contract'[b] = contract[b]
        /\ contract'[c].entry = buy[c].entry /\ contract'[c].settle = buy[c].settle /\ contract'[c].state = "OPEN"
    BY <1>7 DEF BuyCommit, TypeOK
  <2>2. \A b \in Buy \ {c} : DaysOf(b)' = DaysOf(b)
    BY <2>1 DEF DaysOf, DayOf
  <2>3. DaysOf(c)' = {DayOf(buy[c].entry), DayOf(buy[c].settle)}
    BY <2>1 DEF DaysOf, DayOf
  <2>4. \A d \in revealing : d \notin DaysOf(c)'
    BY <2>1, <2>3, EnteredDaysAreSecret
  <2> QED BY <1>1, <1>2, <2>1, <2>2, <2>4 DEF RevealsAreLate, DayEnd
<1>8. ASSUME NEW c \in Buy, Void(c) PROVE RevealsAreLate'
  <2>1. \A b \in Buy : /\ contract'[b].entry = contract[b].entry /\ contract'[b].settle = contract[b].settle
                       /\ contract'[b].state \in {contract[b].state, "RESOLVED"}
    BY <1>8 DEF Void, TypeOK
  <2>2. \A b \in Buy : DaysOf(b)' \subseteq DaysOf(b)
    BY <2>1 DEF DaysOf, DayOf
  <2> QED BY <1>4, <1>8, <2>2 DEF Void
<1>9. CASE RevealScan
  <2>1. revealing' = Revealable /\ UNCHANGED <<clock, revealed, contract>>
    BY <1>9 DEF RevealScan
  <2>2. ASSUME NEW d \in Revealable, NEW b \in Buy PROVE d \notin DaysOf(b)
    <3>1. ~DependsOn(b, d)
      BY DEF Revealable
    <3>2. contract[b].entry \in Nat /\ contract[b].settle \in Nat
      BY DEF TypeOK
    <3>3. InDay(contract[b].entry, DayOf(contract[b].entry)) /\ InDay(contract[b].settle, DayOf(contract[b].settle))
      BY <3>2, DayOfTick
    <3> QED BY <3>1, <3>3 DEF DependsOn, DaysOf
  <2>3. \A d \in Revealable : d \notin revealed /\ DayEnd(d) + Grace < clock
    BY DEF Revealable
  <2>4. \A b \in Buy : DaysOf(b)' = DaysOf(b)
    BY <2>1 DEF DaysOf, DayOf
  <2> QED BY <1>1, <2>1, <2>2, <2>3, <2>4 DEF RevealsAreLate, DayEnd
<1>10. CASE RevealCommit
  BY <1>1, <1>10 DEF RevealCommit, RevealsAreLate, DayEnd
<1>11. CASE PurgeTicks \/ UNCHANGED vars
  <2>1. UNCHANGED <<clock, revealed, revealing, contract>>
    BY <1>11 DEF PurgeTicks, vars
  <2> QED BY <1>4, <2>1 DEF DaysOf, DayOf
<1> QED BY <1>3, <1>5, <1>6, <1>7, <1>8, <1>9, <1>10, <1>11 DEF Next

-----------------------------------------------------------------------------
(* The evidence of a contract *)

LEMMA EvidenceInit == Init => EvidenceKept
BY DEF Init, EvidenceKept

LEMMA EvidenceNext ==
    TypeOK /\ CommitsAreTimely /\ PurchasesLookAhead /\ EvidenceKept /\ [Next]_vars => EvidenceKept'
<1> SUFFICES ASSUME TypeOK, CommitsAreTimely, PurchasesLookAhead, EvidenceKept, [Next]_vars,
                    NEW b \in Buy, contract'[b].state # "NONE",
                    NEW t \in {contract'[b].entry, contract'[b].settle}, t <= lastTick'
             PROVE  genAt'[t] # Never /\ DayOf(t) \in DOMAIN epochs'
  BY DEF EvidenceKept, DayOf
<1> DEFINE Published == genAt[t] # Never /\ DayOf(t) \in DOMAIN epochs
<1>1. /\ contract[b].state # "NONE" => 0 < contract[b].entry /\ contract[b].entry <= contract[b].settle
      /\ contract[b].entry \in Nat /\ contract[b].settle \in Nat
      /\ lastTick \in Nat /\ clock \in Nat /\ lastTick <= clock /\ clock <= MaxClock
  BY BoundsAssumption DEF PurchasesLookAhead, TypeOK
<1>2. ASSUME contract[b].state # "NONE", t \in {contract[b].entry, contract[b].settle}, t <= lastTick
      PROVE  Published /\ t \in Ticks
  BY <1>1, <1>2, BoundsAssumption DEF EvidenceKept, Ticks
<1>3. CASE Advance
  <2>1. contract[b].state # "NONE" /\ t \in {contract[b].entry, contract[b].settle}
    BY <1>3, AdvanceSettles
  <2>2. /\ \/ lastTick' = LastOfRun \/ lastTick' = lastTick
        /\ DOMAIN epochs' = DOMAIN epochs \cup Ensured(lastTick + 1, LastOfRun)
        /\ genAt' = [u \in Ticks |-> IF u \in lastTick + 1 .. LastOfRun THEN clock ELSE genAt[u]]
    BY <1>3, CommitType DEF Advance
  <2>3. CASE t <= lastTick
    BY <1>1, <1>2, <2>1, <2>2, <2>3 DEF Never
  <2>4. CASE ~(t <= lastTick)
    <3>1. t \in lastTick + 1 .. LastOfRun /\ t \in Ticks
      BY <1>1, <2>1, <2>2, <2>4, LastOfRunIsDue, BoundsAssumption DEF Ticks
    <3>2. DayOf(t) \in DOMAIN epochs'
      BY <2>2, <3>1, EnsuredDays
    <3>3. genAt'[t] = clock
      BY <2>2, <3>1
    <3> QED BY <1>1, <3>2, <3>3 DEF Never
  <2> QED BY <2>3, <2>4
<1>4. ASSUME NEW c \in Buy, BuyCommit(c) PROVE Published
  <2>1. UNCHANGED lastTick
    BY <1>4 DEF BuyCommit
  <2>2. CASE b = c
    <3>1. /\ contract'[b].entry = buy[b].entry /\ contract'[b].settle = buy[b].settle
          /\ lastTick < buy[b].entry /\ buy[b].entry <= buy[b].settle
      BY <1>4, <2>2 DEF BuyCommit, PurchasesLookAhead, TypeOK
    <3>2. buy[b].entry \in Nat /\ buy[b].settle \in Nat
      BY DEF TypeOK
    <3> QED BY <1>1, <2>1, <3>1, <3>2
  <2>3. CASE b # c
    <3>1. contract'[b] = contract[b]
      BY <1>4, <2>3 DEF BuyCommit, TypeOK
    <3> QED BY <1>2, <2>1, <3>1
  <2> QED BY <2>2, <2>3
<1>5. ASSUME NEW c \in Buy, Void(c) PROVE Published
  <2>1. /\ contract'[b].entry = contract[b].entry /\ contract'[b].settle = contract[b].settle
        /\ contract[b].state = "NONE" => contract'[b].state = "NONE"
    BY <1>5 DEF Void, TypeOK
  <2> QED BY <1>2, <1>5, <2>1 DEF Void
<1>6. CASE PurgeTicks
  <2>1. /\ UNCHANGED <<epochs, lastTick, contract>>
        /\ \A u \in Ticks : Referenced(u) => genAt'[u] = genAt[u]
    BY <1>6 DEF PurgeTicks
  <2>2. Referenced(t)
    BY <2>1 DEF Referenced
  <2> QED BY <1>2, <2>1, <2>2
<1>7. CASE UNCHANGED <<epochs, lastTick, genAt, contract>>
  BY <1>2, <1>7
<1>8. \/ Advance \/ PurgeTicks
      \/ \E c \in Buy : (BuyCommit(c) \/ Void(c)) /\ UNCHANGED <<genAt, epochs>>
      \/ UNCHANGED <<epochs, lastTick, genAt, contract>>
  BY DEF Next, vars, Elapse, BuyEnter, BuyCommit, BuyFail, Void, RevealScan, RevealCommit
<1> QED BY <1>3, <1>4, <1>5, <1>6, <1>7, <1>8

-----------------------------------------------------------------------------
(* CommitReveal is implemented *)

Seed == [d \in Day |-> IF d \notin DOMAIN epochs THEN "none" ELSE IF d \in revealed THEN "public" ELSE "secret"]
On == [b \in Buy |-> DaysOf(b)]

\* Committed days are days of CommitReveal.
LEMMA CommittedIsDay == TypeOK /\ CommitsAreTimely => DOMAIN epochs \subseteq Day
<1> SUFFICES ASSUME TypeOK, CommitsAreTimely, NEW d \in DOMAIN epochs PROVE d \in Day
  OBVIOUS
<1>1. clock \in Nat /\ MaxClock \in Nat /\ clock <= MaxClock
  BY BoundsAssumption DEF TypeOK
<1>2. DayOf(clock) \in Nat /\ DayOf(MaxClock) \in Nat /\ DayOf(clock) <= DayOf(MaxClock)
  BY <1>1, DayOfTick, DayGrows
<1>3. d \in 0 .. DayOf(clock) + 1
  BY DEF CommitsAreTimely
<1>4. d \in 0 .. DayOf(MaxClock) + 1
  BY <1>2, <1>3
<1> QED BY <1>4 DEF Day, DayOf

\* A step of CommitReveal, in the terms of the code.
WorkStep(days, done) ==
    /\ \A d \in days : Seed[d] = "none"
    /\ Seed' = [d \in Day |-> IF d \in days THEN "secret" ELSE Seed[d]]
    /\ On' = [b \in Buy |-> IF b \in done THEN {} ELSE On[b]]
PlaceStep(b, days) ==
    /\ On[b] = {} /\ \A d \in days : Seed[d] = "secret"
    /\ On' = [On EXCEPT ![b] = days]
    /\ UNCHANGED Seed
RevealStep(days) ==
    /\ \A d \in days : Seed[d] = "secret" /\ \A b \in Buy : d \notin On[b]
    /\ Seed' = [d \in Day |-> IF d \in days THEN "public" ELSE Seed[d]]
    /\ UNCHANGED On

LEMMA StepsAreFair ==
    ASSUME \/ \E days \in SUBSET Day, done \in SUBSET Buy : WorkStep(days, done)
           \/ \E b \in Buy, days \in (SUBSET Day) \ {{}} : PlaceStep(b, days)
           \/ \E days \in SUBSET Day : RevealStep(days)
           \/ UNCHANGED <<Seed, On>>
    PROVE  [Fair!Next]_(Fair!fairVars)
<1>1. ASSUME NEW days \in SUBSET Day, NEW done \in SUBSET Buy, WorkStep(days, done) PROVE Fair!Work(days, done)
  BY <1>1 DEF WorkStep, Seed, On, Fair!Work
<1>2. ASSUME NEW b \in Buy, NEW days \in (SUBSET Day) \ {{}}, PlaceStep(b, days) PROVE Fair!Place(b, days)
  BY <1>2 DEF PlaceStep, Seed, On, Fair!Place
<1>3. ASSUME NEW days \in SUBSET Day, RevealStep(days) PROVE Fair!Reveal(days)
  BY <1>3 DEF RevealStep, Seed, On, Fair!Reveal
<1>4. ASSUME UNCHANGED <<Seed, On>> PROVE UNCHANGED Fair!fairVars
  BY <1>4 DEF Seed, On, Fair!fairVars
<1> QED BY <1>1, <1>2, <1>3, <1>4 DEF Fair!Next

LEMMA SameDays == ASSUME NEW b \in Buy, contract'[b] = contract[b] PROVE DaysOf(b)' = DaysOf(b)
BY DEF DaysOf, DayOf

\* Every step works, places a bet, reveals or changes nothing that CommitReveal sees.
LEMMA EpochStep ==
    ASSUME IInv, IInv', [Next]_vars
    PROVE  \/ \E days \in SUBSET Day, done \in SUBSET Buy : WorkStep(days, done)
           \/ \E b \in Buy, days \in (SUBSET Day) \ {{}} : PlaceStep(b, days)
           \/ \E days \in SUBSET Day : RevealStep(days)
           \/ UNCHANGED <<Seed, On>>
<1> USE DEF IInv
<1>1. DOMAIN epochs \subseteq Day
  BY CommittedIsDay
<1>2. CASE Advance
  <2> DEFINE days == Ensured(lastTick + 1, LastOfRun) \ DOMAIN epochs
             done == {b \in Buy : contract'[b].state # contract[b].state}
  <2>1. DOMAIN epochs' = DOMAIN epochs \cup days /\ revealed' = revealed
    BY <1>2, CommitType DEF Advance
  <2>2. DOMAIN epochs' \subseteq Day
    <3>1. \A d \in Ensured(lastTick + 1, LastOfRun) : d \in 0 .. DayOf(clock) + 1
      BY EnsuredDays
    <3>2. clock \in Nat /\ MaxClock \in Nat /\ clock <= MaxClock
      BY BoundsAssumption DEF TypeOK
    <3>3. DayOf(clock) \in Nat /\ DayOf(MaxClock) \in Nat /\ DayOf(clock) <= DayOf(MaxClock)
      BY <3>2, DayOfTick, DayGrows
    <3>4. \A d \in Ensured(lastTick + 1, LastOfRun) : d \in 0 .. DayOf(MaxClock) + 1
      BY <3>1, <3>3
    <3>5. Ensured(lastTick + 1, LastOfRun) \subseteq Day
      BY <3>4 DEF Day, DayOf
    <3> QED BY <1>1, <2>1, <3>5
  <2>3. days \in SUBSET Day /\ \A d \in days : Seed[d] = "none" /\ d \notin revealed
    BY <2>1, <2>2 DEF Seed, TypeOK
  <2> HIDE DEF days
  <2>4. Seed' = [d \in Day |-> IF d \in days THEN "secret" ELSE Seed[d]]
    BY <2>1, <2>3 DEF Seed
  <2>5. \A b \in done : DaysOf(b)' = {}
    BY <1>2, AdvanceSettles DEF DaysOf, DayOf
  <2>6. \A b \in Buy \ done : DaysOf(b)' = DaysOf(b)
    BY <1>2, AdvanceSettles DEF DaysOf, DayOf
  <2> HIDE DEF done
  <2>7. On' = [b \in Buy |-> IF b \in done THEN {} ELSE On[b]]
    BY <2>5, <2>6 DEF On
  <2>8. done \in SUBSET Buy
    BY DEF done
  <2> QED BY <2>3, <2>4, <2>7, <2>8 DEF WorkStep
<1>3. ASSUME NEW c \in Buy, BuyCommit(c) PROVE \E days \in (SUBSET Day) \ {{}} : PlaceStep(c, days)
  <2> DEFINE days == {DayOf(buy[c].entry), DayOf(buy[c].settle)}
  <2>1. /\ UNCHANGED <<epochs, revealed>> /\ buy[c].pc = "entered"
        /\ \A b \in Buy \ {c} : contract'[b] = contract[b]
        /\ contract'[c].entry = buy[c].entry /\ contract'[c].settle = buy[c].settle /\ contract'[c].state = "OPEN"
    BY <1>3 DEF BuyCommit, TypeOK
  <2>2. days \subseteq DOMAIN epochs /\ contract[c].state = "NONE"
    BY <2>1 DEF PurchasesLookAhead
  <2>3. \A d \in days : d \notin revealed
    BY <2>1, EnteredDaysAreSecret
  <2>4. DaysOf(c)' = days
    BY <2>1 DEF DaysOf, DayOf
  <2>5. days \in (SUBSET Day) \ {{}}
    BY <1>1, <2>2
  <2>6. \A d \in days : Seed[d] = "secret"
    BY <1>1, <2>2, <2>3 DEF Seed
  <2> HIDE DEF days
  <2>7. On[c] = {}
    BY <2>2 DEF On, DaysOf
  <2>8. On' = [On EXCEPT ![c] = days]
    <3>1. \A b \in Buy \ {c} : DaysOf(b)' = DaysOf(b)
      BY <2>1, SameDays
    <3> QED BY <2>4, <3>1 DEF On
  <2>9. UNCHANGED Seed
    BY <2>1 DEF Seed
  <2> QED BY <2>5, <2>6, <2>7, <2>8, <2>9 DEF PlaceStep
<1>4. ASSUME NEW c \in Buy, Void(c) PROVE \E done \in SUBSET Buy : WorkStep({}, done)
  <2>1. /\ UNCHANGED <<epochs, revealed>> /\ contract'[c].state = "RESOLVED"
        /\ \A b \in Buy \ {c} : contract'[b] = contract[b]
    BY <1>4 DEF Void, TypeOK
  <2>2. DaysOf(c)' = {} /\ \A b \in Buy \ {c} : DaysOf(b)' = DaysOf(b)
    BY <2>1, SameDays DEF DaysOf, DayOf
  <2>3. On' = [b \in Buy |-> IF b \in {c} THEN {} ELSE On[b]]
    BY <2>2 DEF On
  <2>4. Seed' = [d \in Day |-> IF d \in {} THEN "secret" ELSE Seed[d]]
    BY <2>1 DEF Seed
  <2> QED BY <2>3, <2>4 DEF WorkStep
<1>5. CASE RevealCommit
  <2>1. revealed' = revealed \cup revealing /\ UNCHANGED <<epochs, contract>>
    BY <1>5 DEF RevealCommit
  <2>2. revealing \in SUBSET Day /\ \A d \in revealing : d \in DOMAIN epochs /\ d \notin revealed
    BY <1>1 DEF TypeOK, RevealsAreLate
  <2>3. \A d \in revealing : Seed[d] = "secret" /\ \A b \in Buy : d \notin On[b]
    BY <2>2 DEF Seed, On, RevealsAreLate
  <2>4. Seed' = [d \in Day |-> IF d \in revealing THEN "public" ELSE Seed[d]]
    BY <2>1, <2>2 DEF Seed
  <2>5. UNCHANGED On
    BY <2>1, SameDays DEF On
  <2> QED BY <2>2, <2>3, <2>4, <2>5 DEF RevealStep
<1>6. CASE UNCHANGED <<epochs, revealed, contract>>
  BY <1>6, SameDays DEF Seed, On
<1>7. \/ Advance \/ RevealCommit \/ UNCHANGED <<epochs, revealed, contract>>
      \/ \E c \in Buy : BuyCommit(c) \/ Void(c)
  BY DEF Next, vars, Elapse, BuyEnter, BuyFail, RevealScan, PurgeTicks
<1>8. {} \in SUBSET Day
  OBVIOUS
<1> QED BY <1>2, <1>3, <1>4, <1>5, <1>6, <1>7, <1>8

-----------------------------------------------------------------------------
(* The theorems *)

\* Types, timely commits, late reveals, purchases that look ahead and kept evidence
\* together are inductive, for every length of a day that exceeds the feed's lag, a
\* statement and the longest contract, and every grace no shorter than a statement.
THEOREM EpochsInductive == Spec => []IInv
<1>1. Init => IInv
  BY TypeInit, TimelyInit, LateInit, AheadInit, EvidenceInit DEF IInv
<1>2. IInv /\ [Next]_vars => IInv'
  BY TypeNext, TimelyNext, LateNext, AheadNext, EvidenceNext DEF IInv
<1> QED BY <1>1, <1>2, PTL DEF Spec

\* Once the ticks of a contract have been published they stay, whatever the purge
\* removes, with a committed epoch for their day.
THEOREM EpochsKeepEvidence == Spec => []EvidenceKept
<1>1. IInv => EvidenceKept
  BY DEF IInv
<1> QED BY <1>1, EpochsInductive, PTL

\* Commits, purchases, settlements, voids, reveals and purges implement CommitReveal:
\* a bet is placed on committed secret seeds only, although its entry is chosen before
\* its row exists, and no seed becomes public under an open contract, although a
\* reveal selects its epochs before it writes them.
THEOREM EpochsKeepCommitReveal == Spec => KeepsCommitReveal
<1>1. Init => Fair!Init
  <2> SUFFICES ASSUME Init PROVE Fair!Init
    OBVIOUS
  <2>1. \A b \in Buy : DaysOf(b) = {}
    BY DEF Init, DaysOf
  <2>2. revealed = {}
    BY DEF Init
  <2> QED BY <2>1, <2>2 DEF Fair!Init
<1>2. IInv /\ IInv' /\ [Next]_vars => [Fair!Next]_(Fair!fairVars)
  BY EpochStep, StepsAreFair
<1> QED BY <1>1, <1>2, EpochsInductive, PTL DEF Spec, KeepsCommitReveal, Fair!Spec
=============================================================================
