--------------------------- MODULE EngineV3Proofs ---------------------------
(***************************************************************************)
(* Proofs about EngineV3 for every set of purchases and of price breaches, *)
(* every length of a day, lead, batch and delay within DayLongEnough, and  *)
(* every bound on the clock, the faults and the resumes.                   *)
(***************************************************************************)
EXTENDS EngineV3, WellFoundedInduction, TLAPS

-----------------------------------------------------------------------------
(* Numbers *)

\* The order of the natural numbers as a set of pairs, which the provers can handle.
Less == {pair \in Nat \X Nat : pair[1] < pair[2]}

LEMMA LessWellFounded == IsWellFoundedOn(Less, Nat)
BY NatLessThanWellFounded DEF OpToRel, Less

\* A set of natural numbers that is not empty has a least element.
LEMMA LeastNatural ==
    ASSUME NEW T \in SUBSET Nat, T # {}
    PROVE  \E x \in T : \A y \in T : x <= y
<1>1. PICK x \in T : \A y \in T : ~(<<y, x>> \in Less)
  BY LessWellFounded, WFMin, Zenon
<1>2. \A a, b \in Nat : <<a, b>> \in Less <=> a < b
  BY DEF Less
<1>3. \A y \in T : ~(y < x) /\ x \in Nat /\ y \in Nat
  BY <1>1, <1>2
<1> QED BY <1>1, <1>3

\* A bounded set of natural numbers has a greatest element.
LEMMA GreatestNatural ==
    ASSUME NEW S \in SUBSET Nat, S # {}, NEW n \in Nat, \A x \in S : x <= n
    PROVE  \E m \in S : \A x \in S : x <= m
<1> DEFINE U == {u \in Nat : \A x \in S : x <= u}
<1>1. PICK u \in U : \A v \in U : u <= v
  <2>1. n \in U
    OBVIOUS
  <2> HIDE DEF U
  <2>2. U \in SUBSET Nat
    BY DEF U
  <2> QED BY <2>1, <2>2, LeastNatural
<1>2. u \in S
  <2> SUFFICES ASSUME u \notin S PROVE FALSE
    OBVIOUS
  <2>1. \A x \in S : x < u
    OBVIOUS
  <2>2. PICK y \in S : y \in Nat
    OBVIOUS
  <2>3. u - 1 \in U
    BY <2>1, <2>2
  <2> QED BY <1>1, <2>3
<1> QED BY <1>2

\* Where the quotient lies.
LEMMA DivBounds ==
    ASSUME NEW t \in Nat, NEW n \in Nat \ {0}
    PROVE  t \div n \in Nat /\ (t \div n) * n <= t /\ t < ((t \div n) + 1) * n
OBVIOUS

\* A quotient grows with what is divided.
LEMMA DivGrows ==
    ASSUME NEW t \in Nat, NEW u \in Nat, NEW n \in Nat \ {0}, t <= u
    PROVE  t \div n <= u \div n
BY SMTT(30)

-----------------------------------------------------------------------------
(* Ticks and days *)

LEMMA Bounds ==
    /\ TicksPerDay \in Nat \ {0} /\ Ahead \in Nat \ {0} /\ Lead \in Nat \ {0} /\ GiveUp \in Nat \ {0}
    /\ PauseLead \in Nat \ {0} /\ Batch \in Nat \ {0} /\ RevealDelay \in Nat /\ MaxLag \in Nat
    /\ MaxClock \in Nat /\ MaxFaults \in Nat /\ MaxResumes \in Nat
    /\ Lead + GiveUp < PauseLead /\ PauseLead + 2 <= TicksPerDay
BY DayLongEnough

LEMMA Starts ==
    ASSUME NEW d \in Nat
    PROVE  Start(d) \in Nat /\ Start(d + 1) = Start(d) + TicksPerDay /\ d <= Start(d)
BY Bounds, SMTT(30) DEF Start

\* A later day starts after the day is over.
LEMMA StartsGrow ==
    ASSUME NEW d \in Nat, NEW e \in Nat, d < e
    PROVE  Start(d + 1) <= Start(e)
<1>1. PICK k \in Nat : e = d + 1 + k
  <2>1. e - (d + 1) \in Nat /\ e = d + 1 + (e - (d + 1))
    OBVIOUS
  <2> QED BY <2>1
<1>2. (d + 1 + k) * TicksPerDay = (d + 1) * TicksPerDay + k * TicksPerDay
  BY Bounds, SMTT(30)
<1>3. k * TicksPerDay \in Nat /\ (d + 1) * TicksPerDay \in Nat
  BY Bounds, SMTT(30)
<1> QED BY <1>1, <1>2, <1>3 DEF Start

LEMMA DayOfTick ==
    ASSUME NEW t \in Nat
    PROVE  DayOf(t) \in Nat /\ Start(DayOf(t)) <= t /\ t < Start(DayOf(t) + 1) /\ DayOf(t) <= t
<1>1. DayOf(t) \in Nat /\ Start(DayOf(t)) <= t /\ t < Start(DayOf(t) + 1)
  BY DivBounds, Bounds DEF DayOf, Start
<1> QED BY <1>1, Starts

\* The only day a tick falls on.
LEMMA OnlyDay ==
    ASSUME NEW t \in Nat, NEW d \in Nat, Start(d) <= t, t < Start(d + 1)
    PROVE  DayOf(t) = d
<1>1. DayOf(t) \in Nat /\ Start(DayOf(t)) <= t /\ t < Start(DayOf(t) + 1)
  BY DayOfTick
<1>2. Start(d) \in Nat /\ Start(d + 1) \in Nat /\ Start(DayOf(t)) \in Nat /\ Start(DayOf(t) + 1) \in Nat
  BY <1>1, Starts
<1>3. ~(d < DayOf(t)) /\ ~(DayOf(t) < d)
  BY <1>1, <1>2, StartsGrow
<1> QED BY <1>1, <1>3

LEMMA DayGrows == ASSUME NEW t \in Nat, NEW u \in Nat, t <= u PROVE DayOf(t) <= DayOf(u)
BY DivGrows, Bounds DEF DayOf

LEMMA LargerType ==
    ASSUME NEW a \in Int, NEW b \in Int
    PROVE  Larger(a, b) \in {a, b} /\ Larger(a, b) >= a /\ Larger(a, b) >= b
BY DEF Larger

-----------------------------------------------------------------------------
(* Newest ticks and days *)

LEMMA TopIs ==
    ASSUME NEW D \in SUBSET Nat, NEW d \in D, \A e \in D : e <= d
    PROVE  Top(D) = d
<1>1. Top(D) \in D /\ \A e \in D : e <= Top(D)
  BY DEF Top
<1>2. Top(D) \in Nat /\ d \in Nat /\ Top(D) <= d /\ d <= Top(D)
  BY <1>1
<1> QED BY <1>2

LEMMA TopExists ==
    ASSUME NEW D \in SUBSET Nat, D # {}, NEW n \in Nat, \A e \in D : e <= n
    PROVE  Top(D) \in D /\ \A e \in D : e <= Top(D)
<1>1. \E m \in D : \A e \in D : e <= m
  BY GreatestNatural
<1> QED BY <1>1 DEF Top

LEMMA LastIs ==
    ASSUME TypeOK
    PROVE  /\ Last = Top(DOMAIN ticks) /\ Last \in DOMAIN ticks /\ Last \in Nat
           /\ Last <= clock /\ clock \in Nat /\ \A n \in DOMAIN ticks : n <= Last
<1>1. clock \in Nat /\ DOMAIN ticks \in SUBSET Nat /\ DOMAIN ticks # {} /\ \A n \in DOMAIN ticks : n <= clock
  BY Bounds DEF TypeOK
<1>2. Top(DOMAIN ticks) \in DOMAIN ticks /\ \A n \in DOMAIN ticks : n <= Top(DOMAIN ticks)
  BY <1>1, TopExists
<1>3. Last = Top(DOMAIN ticks)
  BY DEF Last, Top
<1> QED BY <1>1, <1>2, <1>3

\* After the newest tick the next is the newest.
LEMMA LastBecomes ==
    ASSUME DOMAIN ticks' \in SUBSET Nat, NEW n \in DOMAIN ticks', \A m \in DOMAIN ticks' : m <= n
    PROVE  Last' = n
<1>1. Top(DOMAIN ticks') = n
  BY TopIs
<1> QED BY <1>1 DEF Last, Top

LEMMA SameLast == ASSUME UNCHANGED ticks PROVE Last' = Last
BY DEF Last

LEMMA TopDay ==
    ASSUME TypeOK, Days # {}
    PROVE  Top(Days) \in Days /\ Top(Days) \in Nat /\ \A d \in Days : d \in Nat /\ d <= Top(Days)
<1>1. Days \in SUBSET Nat /\ MaxClock + Ahead \in Nat /\ \A d \in Days : d <= MaxClock + Ahead
  BY Bounds DEF TypeOK
<1>2. Top(Days) \in Days /\ \A d \in Days : d <= Top(Days)
  BY <1>1, TopExists
<1> QED BY <1>1, <1>2

\* The largest day after the next one is committed.
LEMMA TopBecomes ==
    ASSUME TypeOK, NEW d \in Nat, Days # {} => d = Top(Days) + 1, Days' = Days \union {d}
    PROVE  Top(Days') = d /\ d \notin Days
<1>1. \A e \in Days : e \in Nat /\ e < d
  BY TopDay
<1>2. Days' \in SUBSET Nat /\ d \in Days' /\ \A e \in Days' : e <= d
  BY <1>1
<1>3. Top(Days') = d
  BY <1>2, TopIs
<1> QED BY <1>1, <1>3

-----------------------------------------------------------------------------
(* What the operations get hold of *)

LEMMA Fields ==
    ASSUME TypeOK
    PROVE  /\ wk.pc \in Stage /\ wk.view \in View /\ wk.plan \in ResumeRow /\ wk.next \in Nat /\ wk.age \in 0..GiveUp + 1
           /\ wk.no \in Nat /\ wk.due \in Nat /\ wk.left \in 0..Batch /\ wk.did \in BOOLEAN
           /\ wk.view.now \in Nat /\ wk.view.days \in SUBSET Nat /\ wk.view.last \in Nat /\ wk.view.gen \in {2, 3}
           /\ wk.plan.pause \in Int /\ wk.plan.genesis \in Int /\ wk.plan.epoch \in Int
           /\ resume.pause \in Int /\ resume.genesis \in Int /\ resume.epoch \in Int
BY DEF TypeOK, WorkerState, View, ResumeRow

LEMMA EpochFields ==
    ASSUME TypeOK, NEW d \in Days
    PROVE  /\ epochs[d] \in EpochRow /\ epochs[d].genesis \in [no : Nat, base : Nat] /\ d \in Nat
           /\ epochs[d].genesis.no \in Nat /\ epochs[d].genesis.base \in Nat /\ epochs[d].revealed \in BOOLEAN
<1>1. epochs[d] \in EpochRow /\ d \in Nat
  BY Bounds DEF TypeOK
<1> QED BY <1>1 DEF EpochRow

LEMMA ContractFields ==
    ASSUME TypeOK, NEW b \in Buy
    PROVE  buy[b] \in Contract /\ buy[b].st \in {"none", "gated", "open", "failed", "closed"} /\ buy[b].entry \in Int
<1>1. buy[b] \in Contract
  BY DEF TypeOK
<1> QED BY <1>1 DEF Contract, None

LEMMA SnapshotType ==
    ASSUME TypeOK
    PROVE  Snapshot \in View /\ Snapshot.now = clock /\ Snapshot.days = Days /\ Snapshot.gen = gen
<1>1. clock \in Nat /\ Last \in Nat /\ Days \in SUBSET Nat /\ gen \in {2, 3} /\ halted \in BOOLEAN
  BY LastIs, Bounds DEF TypeOK
<1> QED BY <1>1 DEF Snapshot, View

LEMMA DownType == NoResume \in ResumeRow /\ Down.view \in View /\ Down \in WorkerState
<1>1. NoResume \in ResumeRow
  BY DEF NoResume, ResumeRow, None
<1>2. Down.view \in View
  BY DEF Down, View
<1> QED BY <1>1, <1>2, Bounds DEF Down, WorkerState, Stage

\* The genesis the worker commits a day with is one.
LEMMA GenesisType ==
    ASSUME TypeOK, GenerationFollows, PausesAreKept, ViewWasTrue, wk.pc = "commit", NEW g \in GenesisFor
    PROVE  g \in [no : Nat, base : Nat]
<1>1. CASE wk.plan.status = "scheduled" /\ wk.plan.epoch = wk.next
  <2>1. g = [no |-> wk.plan.genesis, base |-> wk.view.last]
    BY <1>1 DEF GenesisFor
  <2>2. wk.plan.genesis \in Nat
    BY <1>1 DEF PausesAreKept, Waiting
  <2> QED BY <2>1, <2>2, Fields
<1>2. CASE ~(wk.plan.status = "scheduled" /\ wk.plan.epoch = wk.next) /\ wk.view.gen = 3
  <2>1. gen = 3 /\ Days # {}
    BY <1>2 DEF GenerationFollows, TypeOK
  <2>2. wk.next = Top(Days) + 1
    BY <2>1 DEF ViewWasTrue
  <2>3. wk.next - 1 \in Days
    BY <2>1, <2>2, TopDay
  <2>4. g = epochs[wk.next - 1].genesis
    BY <1>2 DEF GenesisFor
  <2> QED BY <2>3, <2>4, EpochFields
<1>3. CASE ~(wk.plan.status = "scheduled" /\ wk.plan.epoch = wk.next) /\ wk.view.gen # 3
  <2>1. g = [no |-> first, base |-> first]
    BY <1>3 DEF GenesisFor
  <2> QED BY <2>1, Bounds DEF TypeOK
<1> QED BY <1>1, <1>2, <1>3

\* The day the worker turns to is not too far ahead.
LEMMA NextDay ==
    ASSUME TypeOK, ViewWasTrue, MoreToCommit
    PROVE  wk.next \in 0..MaxClock + Ahead
<1>1. wk.view.now \in Nat /\ clock \in Nat /\ wk.view.now <= clock /\ clock <= MaxClock
  BY Fields, Bounds DEF TypeOK, ViewWasTrue
<1>2. DayOf(wk.view.now) \in Nat /\ DayOf(wk.view.now) <= wk.view.now
  BY <1>1, DayOfTick
<1> QED BY <1>1, <1>2, Fields, Bounds DEF MoreToCommit

\* A tick the database accepts is the next one or the first after a pause, and the
\* worker has derived it from the price of the newest tick.
LEMMA AcceptedTick ==
    ASSUME TypeOK, PausesAreKept, NEW n \in Int, TickAccepted(n)
    PROVE  /\ n \in Nat /\ n <= clock /\ Last < n /\ DayOf(n) \in Days /\ Continues(n) = Last
           /\ IF Resuming(n) THEN n = Start(resume.epoch) /\ resume.epoch \in Nat /\ n = resume.genesis + 1
              ELSE n = Last + 1 /\ resume.status # "committed"
<1> DEFINE g == epochs[DayOf(n)].genesis
<1>1. Last \in Nat /\ DayOf(n) \in Days /\ n <= clock /\ resume.genesis \in Int /\ resume.pause \in Int
  BY LastIs, Fields DEF TickAccepted
<1>2. g \in [no : Nat, base : Nat]
  BY <1>1, EpochFields
<1>3. CASE Resuming(n)
  <2>1. Last = resume.pause /\ g.no = resume.genesis /\ g.base = Last /\ n = resume.genesis + 1
    BY <1>3 DEF TickAccepted, Resuming
  <2>2. resume.epoch \in Nat /\ resume.genesis + 1 = Start(resume.epoch) /\ resume.pause <= resume.genesis
    BY <1>3 DEF PausesAreKept, Resuming, Waiting
  <2>3. Continues(n) = Last
    BY <2>1 DEF Continues
  <2>4. n \in Nat /\ Last < n
    BY <1>1, <1>2, <2>1, <2>2
  <2> QED BY <1>1, <1>3, <2>1, <2>2, <2>3, <2>4
<1>4. CASE ~Resuming(n)
  <2>1. Last = n - 1 /\ ~InPause(resume, n)
    BY <1>4 DEF TickAccepted
  <2>2. n \in Nat /\ Last < n /\ n = Last + 1
    BY <1>1, <2>1
  <2>3. resume.status # "committed"
    <3> SUFFICES ASSUME resume.status = "committed" PROVE FALSE
      OBVIOUS
    <3>1. Last = resume.pause /\ resume.pause <= resume.genesis
      BY DEF PausesAreKept, Waiting
    <3>2. n # resume.genesis + 1
      BY <1>4 DEF Resuming
    <3>3. ~(n > resume.pause /\ n <= resume.genesis)
      BY <2>1 DEF InPause, Waiting
    <3> QED BY <1>1, <2>2, <3>1, <3>2, <3>3
  <2>4. n = g.no + 1 => g.base = n - 1
    <3>1. g.base = g.no \/ Last > g.no
      BY <1>1, <2>3 DEF PausesAreKept
    <3> QED BY <1>1, <1>2, <2>1, <2>2, <3>1
  <2>5. Continues(n) = Last
    BY <2>1, <2>4 DEF Continues
  <2> QED BY <1>1, <1>4, <2>2, <2>3, <2>5
<1> QED BY <1>3, <1>4

LEMMA NextTickType == ASSUME TypeOK, NEW n \in NextTick PROVE n \in Int /\ wk.left > 0 /\ n <= wk.due
BY Fields DEF NextTick

\* engine_settle_tick: a due contract is closed or has failed; nothing else changes.
LEMMA Settled ==
    ASSUME TypeOK, NEW N, SettleTicks(N)
    PROVE  /\ buy' \in [Buy -> Contract]
           /\ \A b \in Buy :
                /\ buy'[b].entry = buy[b].entry
                /\ buy'[b].st = buy[b].st \/ (buy[b].st = "open" /\ buy'[b].st \in {"failed", "closed"})
                /\ buy'[b].st = "open" => buy[b].st = "open" /\ Settle(b) \notin N
<1> DEFINE due == {c \in Buy : buy[c].st = "open" /\ Settle(c) \in N}
<1>1. PICK F \in SUBSET due :
          buy' = [c \in Buy |-> IF c \in F THEN [buy[c] EXCEPT !.st = "failed"]
                                ELSE IF c \in due THEN [buy[c] EXCEPT !.st = "closed"] ELSE buy[c]]
  BY DEF SettleTicks
<1>2. ASSUME NEW c \in Buy
      PROVE  /\ buy'[c] \in Contract /\ buy'[c].entry = buy[c].entry
             /\ buy'[c].st = IF c \in F THEN "failed" ELSE IF c \in due THEN "closed" ELSE buy[c].st
  <2>1. buy'[c] = IF c \in F THEN [buy[c] EXCEPT !.st = "failed"]
                  ELSE IF c \in due THEN [buy[c] EXCEPT !.st = "closed"] ELSE buy[c]
    BY <1>1
  <2>2. buy[c] \in Contract
    BY ContractFields
  <2> HIDE DEF due
  <2> QED BY <2>1, <2>2 DEF Contract
<1>3. DOMAIN buy' = Buy /\ buy' = [c \in Buy |-> buy'[c]]
  BY <1>1
<1>4. buy' \in [Buy -> Contract]
  BY <1>2, <1>3
<1> QED BY <1>2, <1>4

-----------------------------------------------------------------------------
(* Types *)

\* The days a step names.
Named == 0..DayOf(MaxClock) + Ahead

LEMMA NamedDays == ASSUME NEW d \in Named PROVE d \in Nat
<1>1. DayOf(MaxClock) \in Nat
  BY DayOfTick, Bounds
<1> QED BY <1>1, Bounds DEF Named

LEMMA TypeInit == Init => TypeOK
<1> SUFFICES ASSUME Init PROVE TypeOK
  OBVIOUS
<1>1. Days \subseteq 0..MaxClock + Ahead /\ epochs \in [Days -> EpochRow] /\ gen \in {2, 3} /\ first \in {0, TicksPerDay - 1}
  <2>1. CASE GenThree
    <3>1. Days = {0} /\ gen = 3 /\ first = 0
      BY <2>1 DEF GenThree, Days
    <3>2. epochs \in [{0} -> EpochRow]
      BY <2>1 DEF GenThree, EpochRow
    <3> QED BY <3>1, <3>2, Bounds
  <2>2. CASE GenTwo
    BY <2>2, Bounds DEF GenTwo, Days
  <2> QED BY <2>1, <2>2 DEF Init
<1>2. ticks \in [DOMAIN ticks -> DOMAIN ticks] /\ 0 \in DOMAIN ticks /\ DOMAIN ticks \subseteq 0..clock
  BY DEF Init
<1>3. buy \in [Buy -> Contract]
  BY DEF Init, Contract
<1>4. clock \in 0..MaxClock /\ final \in {None, first} /\ age \in 0..GiveUp + 1
  BY Bounds DEF Init
<1>5. halted \in BOOLEAN /\ missed \in BOOLEAN /\ bad \in Breaches /\ resume \in ResumeRow /\ wk \in WorkerState
  BY DownType DEF Init
<1> QED BY <1>1, <1>2, <1>3, <1>4, <1>5 DEF TypeOK

\* The database after a commitment, a receipt and a reveal.
LEMMA EpochsType ==
    ASSUME TypeOK, GenerationFollows, PausesAreKept, ViewWasTrue,
           CommitEpoch \/ Witness \/ FinishCycle \/ \E d \in Named : Attest(d)
    PROVE  Days' \subseteq 0..MaxClock + Ahead /\ epochs' \in [Days' -> EpochRow]
<1>1. CASE CommitEpoch
  <2>1. PICK g \in GenesisFor :
           IF CommitAccepted(wk.next, g)
           THEN epochs' = [d \in Days \union {wk.next} |->
                   IF d = wk.next THEN [genesis |-> g, receipt |-> "none", revealed |-> FALSE] ELSE epochs[d]]
           ELSE UNCHANGED epochs
    BY <1>1 DEF CommitEpoch
  <2>2. g \in [no : Nat, base : Nat] /\ wk.next \in 0..MaxClock + Ahead
    BY <1>1, GenesisType, NextDay DEF CommitEpoch
  <2>3. CASE CommitAccepted(wk.next, g)
    <3>1. Days' = Days \union {wk.next}
      BY <2>1, <2>3 DEF Days
    <3>2. ASSUME NEW d \in Days' PROVE epochs'[d] \in EpochRow
      <4>1. epochs'[d] = IF d = wk.next THEN [genesis |-> g, receipt |-> "none", revealed |-> FALSE] ELSE epochs[d]
        BY <2>1, <2>3, <3>1
      <4>2. d # wk.next => epochs[d] \in EpochRow
        BY <3>1, EpochFields
      <4> QED BY <2>2, <4>1, <4>2 DEF EpochRow
    <3>3. epochs' = [d \in Days' |-> epochs'[d]]
      BY <2>1, <2>3, <3>1
    <3> QED BY <2>2, <3>1, <3>2, <3>3 DEF TypeOK
  <2>4. CASE ~CommitAccepted(wk.next, g)
    BY <2>1, <2>4 DEF TypeOK, Days
  <2> QED BY <2>3, <2>4
<1>2. CASE Witness
  <2>1. PICK ok \in BOOLEAN : epochs' = Witnessed(ok)
    BY <1>2 DEF Witness
  <2>2. Days' = Days
    BY <2>1 DEF Witnessed, Days
  <2>3. ASSUME NEW d \in Days PROVE epochs'[d] \in EpochRow
    BY <2>1, EpochFields DEF Witnessed, EpochRow
  <2> QED BY <2>1, <2>2, <2>3 DEF Witnessed, TypeOK
<1>3. CASE FinishCycle
  <2>1. Days' = Days
    BY <1>3 DEF FinishCycle, Days
  <2>2. ASSUME NEW d \in Days PROVE epochs'[d] \in EpochRow
    <3>1. epochs'[d] = [epochs[d] EXCEPT !.revealed =
              @ \/ (d \in wk.view.days /\ wk.view.now >= Start(d + 1) + RevealDelay /\ ~SeedNeeded(d))]
      BY <1>3 DEF FinishCycle
    <3> DEFINE r == epochs[d].revealed \/ (d \in wk.view.days /\ wk.view.now >= Start(d + 1) + RevealDelay /\ ~SeedNeeded(d))
    <3>2. r \in BOOLEAN
      BY EpochFields
    <3>3. epochs'[d] = [epochs[d] EXCEPT !.revealed = r]
      BY <3>1, Zenon
    <3> HIDE DEF r
    <3> QED BY <3>2, <3>3, EpochFields DEF EpochRow
  <2> QED BY <1>3, <2>1, <2>2 DEF FinishCycle, TypeOK
<1>4. ASSUME NEW d \in Named, Attest(d)
      PROVE  Days' \subseteq 0..MaxClock + Ahead /\ epochs' \in [Days' -> EpochRow]
  <2>1. epochs' = [epochs EXCEPT ![d].receipt = IF @ = "early" THEN "valid" ELSE "late"] /\ d \in Days
    BY <1>4 DEF Attest
  <2>2. Days' = Days
    BY <2>1 DEF Days
  <2>3. ASSUME NEW e \in Days PROVE epochs'[e] \in EpochRow
    BY <2>1, EpochFields DEF EpochRow
  <2> QED BY <2>1, <2>2, <2>3 DEF TypeOK
<1> QED BY <1>1, <1>2, <1>3, <1>4

\* The log after a run of version 2 or a published tick.
LEMMA TicksType ==
    ASSUME TypeOK, PausesAreKept, AdvanceV2 \/ PublishTick
    PROVE  /\ 0 \in DOMAIN ticks' /\ DOMAIN ticks' \subseteq 0..clock
           /\ ticks' \in [DOMAIN ticks' -> DOMAIN ticks']
<1>1. CASE AdvanceV2
  <2> DEFINE due == {n \in Last + 1..clock : final # None => n <= final}
  <2>1. ticks' = [m \in DOMAIN ticks \union due |-> IF m \in due THEN m - 1 ELSE ticks[m]]
    BY <1>1 DEF AdvanceV2
  <2>2. DOMAIN ticks' = DOMAIN ticks \union due
    BY <2>1
  <2>3. ASSUME NEW m \in due PROVE m \in 0..clock /\ m - 1 \in DOMAIN ticks'
    <3>1. m = Last + 1 \/ m - 1 \in due
      BY LastIs, Bounds DEF TypeOK
    <3> QED BY <2>2, <3>1, LastIs
  <2> HIDE DEF due
  <2>4. ASSUME NEW m \in DOMAIN ticks' PROVE ticks'[m] \in DOMAIN ticks'
    BY <2>1, <2>2, <2>3 DEF TypeOK
  <2> QED BY <2>1, <2>2, <2>3, <2>4 DEF TypeOK
<1>2. CASE PublishTick
  <2>1. PICK n \in NextTick \ bad :
           IF TickAccepted(n)
           THEN ticks' = [m \in DOMAIN ticks \union {n} |-> IF m = n THEN Continues(n) ELSE ticks[m]]
           ELSE UNCHANGED ticks
    BY <1>2 DEF PublishTick
  <2>2. CASE TickAccepted(n)
    <3>1. n \in 0..clock /\ Continues(n) \in DOMAIN ticks
      BY <2>2, AcceptedTick, NextTickType, LastIs
    <3>2. ASSUME NEW m \in DOMAIN ticks' PROVE ticks'[m] \in DOMAIN ticks'
      BY <2>1, <2>2, <3>1 DEF TypeOK
    <3> QED BY <2>1, <2>2, <3>1, <3>2 DEF TypeOK
  <2>3. CASE ~TickAccepted(n)
    BY <2>1, <2>3 DEF TypeOK
  <2> QED BY <2>2, <2>3
<1> QED BY <1>1, <1>2

\* The contracts after any step.
LEMMA BuyType ==
    ASSUME TypeOK, [Next]_vars
    PROVE  buy' \in [Buy -> Contract]
<1>1. CASE AdvanceV2
  BY <1>1, Settled DEF AdvanceV2
<1>2. CASE PublishTick
  <2>1. \/ UNCHANGED buy
        \/ \E n \in NextTick : SettleTicks({n})
    BY <1>2 DEF PublishTick
  <2> QED BY <2>1, Settled DEF TypeOK
<1>3. CASE VoidUnproducible
  <2>1. buy' = [b \in Buy |-> IF b \in Open /\ Settle(b) > Last THEN [buy[b] EXCEPT !.st = "closed"] ELSE buy[b]]
    BY <1>3 DEF VoidUnproducible
  <2>2. ASSUME NEW b \in Buy PROVE buy'[b] \in Contract
    BY <2>1, ContractFields DEF Contract
  <2> QED BY <2>1, <2>2
<1>4. ASSUME NEW b \in Buy, BuyGate(b) PROVE buy' \in [Buy -> Contract]
  <2>1. Larger(Last, clock) + 1 \in Nat
    BY LastIs, LargerType
  <2>2. buy' = [buy EXCEPT ![b] = [st |-> "gated", entry |-> Larger(Last, clock) + 1]]
    BY <1>4 DEF BuyGate
  <2> QED BY <2>1, <2>2 DEF Contract, TypeOK
<1>5. ASSUME NEW b \in Buy, BuyCommit(b) \/ VoidByHand(b) PROVE buy' \in [Buy -> Contract]
  <2>1. PICK s \in {"open", "closed"} : buy' = [buy EXCEPT ![b].st = s]
    BY <1>5 DEF BuyCommit, VoidByHand
  <2>2. ASSUME NEW c \in Buy PROVE buy'[c] \in Contract
    BY <2>1, ContractFields DEF Contract, TypeOK
  <2> QED BY <2>1, <2>2 DEF TypeOK
<1>6. CASE UNCHANGED buy
  BY <1>6 DEF TypeOK
<1> QED
  <2>1. ASSUME NEW d, ScheduleCutover(d) \/ ScheduleResume(d) \/ Attest(d) PROVE UNCHANGED buy
    BY <2>1 DEF ScheduleCutover, ScheduleResume, Attest
  <2>2. CASE Elapse \/ AcquireLeadership \/ BeginCycle \/ CommitEpoch \/ MissResume \/ EndCommit \/ Witness
    BY <2>2, <1>6 DEF Elapse, AcquireLeadership, BeginCycle, CommitEpoch, MissResume, EndCommit, Witness
  <2>3. CASE StopPublish \/ Halt \/ FinishCycle \/ Crash \/ UNCHANGED vars
    BY <2>3, <1>6 DEF StopPublish, Halt, FinishCycle, Crash, vars
  <2> QED BY <1>1, <1>2, <1>3, <1>4, <1>5, <1>6, <2>1, <2>2, <2>3 DEF Next, Worker

\* A resume is scheduled, given up, committed or done.
LEMMA ResumeType ==
    ASSUME TypeOK, [Next]_vars
    PROVE  resume' \in ResumeRow
<1>1. ASSUME NEW d \in Named, ScheduleResume(d) PROVE resume' \in ResumeRow
  <2>1. resume' = [status |-> "scheduled", epoch |-> d, pause |-> IF halted THEN Last ELSE Start(d) - PauseLead,
                   genesis |-> Start(d) - 1]
    BY <1>1 DEF ScheduleResume
  <2>2. d \in Nat /\ Start(d) \in Nat /\ Last \in Nat /\ PauseLead \in Nat
    BY NamedDays, Starts, LastIs, Bounds
  <2> HIDE DEF Named
  <2> QED BY <2>1, <2>2 DEF ResumeRow
<1>2. CASE CommitEpoch \/ MissResume \/ PublishTick
  <2>1. resume' \in {resume, NoResume, [resume EXCEPT !.status = "committed"]}
    BY <1>2 DEF CommitEpoch, MissResume, PublishTick
  <2>2. resume \in ResumeRow
    BY DEF TypeOK
  <2> QED BY <2>1, <2>2, DownType DEF ResumeRow
<1>3. CASE UNCHANGED resume
  BY <1>3 DEF TypeOK
<1> QED
  <2>1. ASSUME NEW d, ScheduleCutover(d) \/ Attest(d) PROVE UNCHANGED resume
    BY <2>1 DEF ScheduleCutover, Attest
  <2>2. ASSUME NEW b, BuyGate(b) \/ BuyCommit(b) \/ VoidByHand(b) PROVE UNCHANGED resume
    BY <2>2 DEF BuyGate, BuyCommit, VoidByHand, db
  <2>3. CASE Elapse \/ AcquireLeadership \/ BeginCycle \/ EndCommit \/ Witness \/ AdvanceV2 \/ VoidUnproducible
    BY <2>3, <1>3 DEF Elapse, AcquireLeadership, BeginCycle, EndCommit, Witness, AdvanceV2, VoidUnproducible, db
  <2>4. CASE StopPublish \/ Halt \/ FinishCycle \/ Crash \/ UNCHANGED vars
    BY <2>4, <1>3 DEF StopPublish, Halt, FinishCycle, Crash, vars, db
  <2> QED BY <1>1, <1>2, <1>3, <2>1, <2>2, <2>3, <2>4 DEF Next, Worker, Named

\* What the worker keeps between two calls.
LEMMA WorkerType ==
    ASSUME TypeOK, GenerationFollows, PausesAreKept, ViewWasTrue, [Next]_vars
    PROVE  wk' \in WorkerState
<1> USE Fields
<1>1. wk \in WorkerState /\ wk.view \in View /\ Snapshot \in View /\ Down \in WorkerState
  BY SnapshotType, DownType DEF TypeOK
<1>2. CASE UNCHANGED wk
  BY <1>1, <1>2
<1>3. CASE Idle \/ Finish
  BY <1>1, <1>3 DEF Idle, Finish, Down, WorkerState, Stage
<1>4. CASE BeginCycle
  <2>1. clock \in Nat /\ DayOf(clock) \in Nat
    BY LastIs, DayOfTick
  <2>2. PICK n \in {Top(Days) + 1, DayOf(clock), DayOf(clock) + 1} :
          /\ Days = {} => n \in {DayOf(clock), DayOf(clock) + 1}
          /\ wk' = [wk EXCEPT !.pc = "commit", !.view = Snapshot, !.plan = resume, !.next = n, !.age = age]
    <3> DEFINE n == IF Days # {} THEN Top(Days) + 1
                    ELSE IF clock <= Start(DayOf(clock)) - Lead THEN DayOf(clock) ELSE DayOf(clock) + 1
    <3>1. wk' = [wk EXCEPT !.pc = "commit", !.view = Snapshot, !.plan = resume, !.next = n, !.age = age]
      BY <1>4 DEF BeginCycle
    <3>2. n \in {Top(Days) + 1, DayOf(clock), DayOf(clock) + 1} /\ (Days = {} => n \in {DayOf(clock), DayOf(clock) + 1})
      OBVIOUS
    <3> HIDE DEF n
    <3> QED BY <3>1, <3>2
  <2>3. n \in Nat /\ resume \in ResumeRow /\ age \in 0..GiveUp + 1
    BY <2>1, <2>2, TopDay DEF TypeOK
  <2> QED BY <1>1, <2>2, <2>3 DEF WorkerState, Stage
<1>5. CASE CommitEpoch
  <2>1. CASE wk' = [wk EXCEPT !.next = @ + 1, !.did = TRUE]
    <3> DEFINE n == wk.next + 1
    <3>1. n \in Nat /\ wk' = [wk EXCEPT !.next = n, !.did = TRUE]
      BY <2>1
    <3> HIDE DEF n
    <3> QED BY <1>1, <3>1 DEF WorkerState
  <2> QED BY <1>3, <1>5, <2>1 DEF CommitEpoch
<1>6. CASE MissResume
  <2>1. resume' \in ResumeRow /\ wk' = [wk EXCEPT !.plan = resume']
    BY <1>6, ResumeType DEF MissResume
  <2> QED BY <1>1, <2>1 DEF WorkerState
<1>7. CASE EndCommit
  <2>1. PICK r \in {resume, wk.plan} : wk' = [Down EXCEPT !.pc = "witness", !.view = Snapshot, !.plan = r]
    BY <1>7 DEF EndCommit
  <2>2. r \in ResumeRow
    BY <2>1 DEF TypeOK
  <2> QED BY <1>1, <2>1, <2>2 DEF WorkerState, Stage
<1>8. CASE Witness
  <2>1. CASE wk.view.gen = 3 /\ (wk.view.halted => wk.plan.status = "committed") /\ StartingPoint # {}
    <3>1. PICK n \in StartingPoint : wk' = [wk EXCEPT !.pc = "publish", !.due = clock, !.left = Batch, !.no = n]
      BY <1>8, <2>1 DEF Witness
    <3>2. first + 1 \in Nat /\ clock \in Nat
      BY Bounds, LastIs DEF TypeOK
    <3>3. wk.view.days \subseteq Days
      BY DEF ViewWasTrue
    <3>4. n \in Nat
      BY <3>1, <3>3, EpochFields DEF StartingPoint
    <3>5. Batch \in 0..Batch /\ "publish" \in Stage
      BY Bounds DEF Stage
    <3> QED BY <1>1, <3>1, <3>2, <3>4, <3>5 DEF WorkerState
  <2> QED BY <1>3, <1>8, <2>1 DEF Witness
<1>9. CASE PublishTick
  <2>1. PICK n \in NextTick \ bad :
          IF TickAccepted(n)
          THEN wk' = [wk EXCEPT !.no = n, !.left = (IF n = wk.no + 1 THEN @ ELSE Batch) - 1] \/ Finish
          ELSE Finish
    BY <1>9 DEF PublishTick
  <2>2. CASE TickAccepted(n) /\ ~Finish
    <3>1. n \in Nat /\ wk.left > 0
      BY <2>2, AcceptedTick, NextTickType
    <3>2. PICK k \in 0..Batch : wk' = [wk EXCEPT !.no = n, !.left = k]
      <4>1. wk' = [wk EXCEPT !.no = n, !.left = (IF n = wk.no + 1 THEN wk.left ELSE Batch) - 1]
        BY <2>1, <2>2
      <4> DEFINE k == (IF n = wk.no + 1 THEN wk.left ELSE Batch) - 1
      <4>2. k \in 0..Batch
        BY <3>1, Bounds
      <4>3. wk' = [wk EXCEPT !.no = n, !.left = k]
        BY <4>1
      <4> HIDE DEF k
      <4> QED BY <4>2, <4>3
    <3> QED BY <1>1, <3>1, <3>2 DEF WorkerState
  <2> QED BY <1>3, <2>1, <2>2
<1>10. CASE Halt
  BY <1>1, <1>10 DEF Halt, WorkerState, Stage
<1>11. CASE Crash
  BY <1>1, <1>11 DEF Crash
<1> QED
  <2>1. ASSUME NEW d, ScheduleCutover(d) \/ ScheduleResume(d) \/ Attest(d) PROVE UNCHANGED wk
    BY <2>1 DEF ScheduleCutover, ScheduleResume, Attest
  <2>2. ASSUME NEW b, BuyGate(b) \/ BuyCommit(b) \/ VoidByHand(b) PROVE UNCHANGED wk
    BY <2>2 DEF BuyGate, BuyCommit, VoidByHand
  <2>3. CASE Elapse \/ AdvanceV2 \/ UNCHANGED vars
    BY <2>3, <1>2 DEF Elapse, AdvanceV2, vars
  <2>4. CASE AcquireLeadership \/ StopPublish \/ VoidUnproducible \/ FinishCycle
    BY <2>4, <1>3 DEF AcquireLeadership, StopPublish, VoidUnproducible, FinishCycle
  <2> QED BY <1>2, <1>4, <1>5, <1>6, <1>7, <1>8, <1>9, <1>10, <1>11, <2>1, <2>2, <2>3, <2>4 DEF Next, Worker

LEMMA TypeNext ==
    ASSUME TypeOK, GenerationFollows, PausesAreKept, ViewWasTrue, [Next]_vars
    PROVE  TypeOK'
<1>1. wk' \in WorkerState /\ buy' \in [Buy -> Contract] /\ resume' \in ResumeRow
  BY WorkerType, BuyType, ResumeType
<1>2. Days' \subseteq 0..MaxClock + Ahead /\ epochs' \in [Days' -> EpochRow]
  <2>1. CASE CommitEpoch \/ Witness \/ FinishCycle \/ \E d \in Named : Attest(d)
    BY <2>1, EpochsType
  <2>2. CASE UNCHANGED epochs
    BY <2>2 DEF TypeOK, Days
  <2>3. ASSUME NEW d, ScheduleCutover(d) \/ ScheduleResume(d) PROVE UNCHANGED epochs
    BY <2>3 DEF ScheduleCutover, ScheduleResume
  <2>4. ASSUME NEW b, BuyGate(b) \/ BuyCommit(b) \/ VoidByHand(b) PROVE UNCHANGED epochs
    BY <2>4 DEF BuyGate, BuyCommit, VoidByHand, db
  <2>5. CASE Elapse \/ AcquireLeadership \/ BeginCycle \/ EndCommit \/ MissResume \/ AdvanceV2 \/ VoidUnproducible
    BY <2>2, <2>5 DEF Elapse, AcquireLeadership, BeginCycle, EndCommit, MissResume, AdvanceV2, VoidUnproducible, db
  <2>6. CASE StopPublish \/ Halt \/ PublishTick \/ Crash \/ UNCHANGED vars
    BY <2>2, <2>6 DEF StopPublish, Halt, PublishTick, Crash, vars, db
  <2> QED BY <2>1, <2>2, <2>3, <2>4, <2>5, <2>6 DEF Next, Worker, Named
<1>3. /\ 0 \in DOMAIN ticks' /\ DOMAIN ticks' \subseteq 0..clock' /\ clock' \in 0..MaxClock
      /\ ticks' \in [DOMAIN ticks' -> DOMAIN ticks']
  <2>1. CASE AdvanceV2 \/ PublishTick
    <3>1. UNCHANGED clock
      BY <2>1 DEF AdvanceV2, PublishTick
    <3> QED BY <2>1, <3>1, TicksType DEF TypeOK
  <2>2. CASE Elapse
    <3>1. clock' = clock + 1 /\ UNCHANGED ticks /\ clock < MaxClock
      BY <2>2 DEF Elapse, db
    <3>2. clock \in 0..MaxClock /\ DOMAIN ticks \subseteq 0..clock
      BY DEF TypeOK
    <3>3. 0..clock \subseteq 0..clock' /\ clock' \in 0..MaxClock
      BY <3>1, <3>2, Bounds
    <3> QED BY <3>1, <3>2, <3>3 DEF TypeOK
  <2>3. CASE UNCHANGED <<ticks, clock>>
    BY <2>3 DEF TypeOK
  <2>4. ASSUME NEW d, ScheduleCutover(d) \/ ScheduleResume(d) \/ Attest(d) PROVE UNCHANGED <<ticks, clock>>
    BY <2>4 DEF ScheduleCutover, ScheduleResume, Attest
  <2>5. ASSUME NEW b, BuyGate(b) \/ BuyCommit(b) \/ VoidByHand(b) PROVE UNCHANGED <<ticks, clock>>
    BY <2>5 DEF BuyGate, BuyCommit, VoidByHand, db
  <2>6. CASE AcquireLeadership \/ BeginCycle \/ CommitEpoch \/ EndCommit \/ MissResume \/ Witness \/ VoidUnproducible
    BY <2>3, <2>6 DEF AcquireLeadership, BeginCycle, CommitEpoch, EndCommit, MissResume, Witness, VoidUnproducible, db
  <2>7. CASE StopPublish \/ Halt \/ FinishCycle \/ Crash \/ UNCHANGED vars
    BY <2>3, <2>7 DEF StopPublish, Halt, FinishCycle, Crash, vars, db
  <2> QED BY <2>1, <2>2, <2>3, <2>4, <2>5, <2>6, <2>7 DEF Next, Worker
<1>4. gen' \in {2, 3} /\ first' \in {0, TicksPerDay - 1} /\ final' \in {None, first'} /\ bad' \in Breaches
  <2>1. ASSUME NEW d, ScheduleCutover(d), gen = 2 => \A e \in Days : epochs[e].genesis = [no |-> first, base |-> first]
        PROVE  final' \in {None, first'} /\ UNCHANGED <<gen, first, bad>>
    BY <2>1 DEF ScheduleCutover
  <2>2. CASE UNCHANGED <<gen, first, final, bad>>
    BY <2>2 DEF TypeOK
  <2>3. ASSUME NEW d, ScheduleResume(d) \/ Attest(d) PROVE UNCHANGED <<gen, first, final, bad>>
    BY <2>3 DEF ScheduleResume, Attest
  <2>4. ASSUME NEW b, BuyGate(b) \/ BuyCommit(b) \/ VoidByHand(b) PROVE UNCHANGED <<gen, first, final, bad>>
    BY <2>4 DEF BuyGate, BuyCommit, VoidByHand, db
  <2>5. CASE Elapse \/ AdvanceV2 \/ AcquireLeadership \/ BeginCycle \/ CommitEpoch \/ EndCommit \/ MissResume \/ Witness
    BY <2>2, <2>5 DEF Elapse, AdvanceV2, AcquireLeadership, BeginCycle, CommitEpoch, EndCommit, MissResume, Witness, db
  <2>6. CASE StopPublish \/ PublishTick \/ Halt \/ VoidUnproducible \/ Crash \/ UNCHANGED vars
    BY <2>2, <2>6 DEF StopPublish, PublishTick, Halt, VoidUnproducible, Crash, vars, db
  <2>7. CASE FinishCycle
    BY <2>7 DEF FinishCycle, TypeOK
  <2> QED BY <2>1, <2>2, <2>3, <2>4, <2>5, <2>6, <2>7 DEF Next, Worker, GenerationFollows, TypeOK
<1>5. halted' \in BOOLEAN
  <2>1. CASE PublishTick \/ Halt
    BY <2>1 DEF PublishTick, Halt, TypeOK
  <2>2. CASE UNCHANGED halted
    BY <2>2 DEF TypeOK
  <2>3. ASSUME NEW d, ScheduleCutover(d) \/ ScheduleResume(d) \/ Attest(d) PROVE UNCHANGED halted
    BY <2>3 DEF ScheduleCutover, ScheduleResume, Attest
  <2>4. ASSUME NEW b, BuyGate(b) \/ BuyCommit(b) \/ VoidByHand(b) PROVE UNCHANGED halted
    BY <2>4 DEF BuyGate, BuyCommit, VoidByHand, db
  <2>5. CASE Elapse \/ AdvanceV2 \/ AcquireLeadership \/ BeginCycle \/ CommitEpoch \/ EndCommit \/ MissResume \/ Witness
    BY <2>2, <2>5 DEF Elapse, AdvanceV2, AcquireLeadership, BeginCycle, CommitEpoch, EndCommit, MissResume, Witness, db
  <2>6. CASE StopPublish \/ VoidUnproducible \/ FinishCycle \/ Crash \/ UNCHANGED vars
    BY <2>2, <2>6 DEF StopPublish, VoidUnproducible, FinishCycle, Crash, vars, db
  <2> QED BY <2>1, <2>2, <2>3, <2>4, <2>5, <2>6 DEF Next, Worker
<1>6. age' \in 0..GiveUp + 1 /\ missed' \in BOOLEAN
  <2>1. CASE Elapse
    BY <2>1, Bounds DEF Elapse, TypeOK
  <2>2. CASE EndCommit
    <3>1. clock \in Nat /\ wk.view.now \in Nat /\ wk.view.now <= clock /\ missed \in BOOLEAN /\ GiveUp \in Nat
      BY Fields, LastIs, Bounds DEF ViewWasTrue, TypeOK
    <3>2. age' = IF clock - wk.view.now > GiveUp THEN GiveUp + 1 ELSE clock - wk.view.now
      BY <2>2 DEF EndCommit
    <3>3. missed' \in BOOLEAN
      BY <2>2 DEF EndCommit
    <3> QED BY <3>1, <3>2, <3>3
  <2>3. CASE UNCHANGED <<age, missed>>
    BY <2>3 DEF TypeOK
  <2>4. ASSUME NEW d, ScheduleCutover(d) \/ ScheduleResume(d) \/ Attest(d) PROVE UNCHANGED <<age, missed>>
    BY <2>4 DEF ScheduleCutover, ScheduleResume, Attest, history
  <2>5. ASSUME NEW b, BuyGate(b) \/ BuyCommit(b) \/ VoidByHand(b) PROVE UNCHANGED <<age, missed>>
    BY <2>5 DEF BuyGate, BuyCommit, VoidByHand, history
  <2>6. CASE AdvanceV2 \/ AcquireLeadership \/ BeginCycle \/ CommitEpoch \/ MissResume \/ Witness \/ Halt
    BY <2>3, <2>6 DEF AdvanceV2, AcquireLeadership, BeginCycle, CommitEpoch, MissResume, Witness, Halt, history
  <2>7. CASE StopPublish \/ PublishTick \/ VoidUnproducible \/ FinishCycle \/ Crash \/ UNCHANGED vars
    BY <2>3, <2>7 DEF StopPublish, PublishTick, VoidUnproducible, FinishCycle, Crash, vars, history
  <2> QED BY <2>1, <2>2, <2>3, <2>4, <2>5, <2>6, <2>7 DEF Next, Worker
<1> QED BY <1>1, <1>2, <1>3, <1>4, <1>5, <1>6 DEF TypeOK

-----------------------------------------------------------------------------
(* What a step does: the calls that are accepted, and the quiet rest *)

\* The worker goes on with what it has read, or forgets it.
Calm ==
    /\ wk'.pc = "commit" => UNCHANGED wk
    /\ wk'.view \in {wk.view, Down.view} /\ wk'.plan \in {wk.plan, NoResume}

Quiet == Calm /\ UNCHANGED <<clock, db, buy, age, missed>>

\* Receipts are requested or judged.
Receipts ==
    /\ Calm
    /\ Days' = Days
    /\ \A d \in Days : epochs'[d].genesis = epochs[d].genesis /\ epochs'[d].revealed = epochs[d].revealed
    /\ UNCHANGED <<clock, gen, first, final, ticks, halted, resume, buy, bad, age, missed>>

Committed(g) ==
    /\ wk.pc = "commit" /\ MoreToCommit /\ ~WindowClosed /\ g \in GenesisFor /\ CommitAccepted(wk.next, g)
    /\ epochs' = [d \in Days \union {wk.next} |->
            IF d = wk.next THEN [genesis |-> g, receipt |-> "none", revealed |-> FALSE] ELSE epochs[d]]
    /\ resume' = IF gen = 3 /\ resume.status = "scheduled" /\ resume.epoch = wk.next
                 THEN [resume EXCEPT !.status = "committed"] ELSE resume
    /\ wk' = [wk EXCEPT !.next = @ + 1, !.did = TRUE]
    /\ UNCHANGED <<clock, gen, first, final, ticks, halted, buy, bad, age, missed>>

Published(n) ==
    /\ Calm
    /\ n \in NextTick \ bad /\ Gated = {} /\ TickAccepted(n)
    /\ ticks' = [m \in DOMAIN ticks \union {n} |-> IF m = n THEN Continues(n) ELSE ticks[m]]
    /\ halted' = (halted /\ ~Resuming(n))
    /\ resume' = IF Resuming(n) THEN NoResume ELSE resume
    /\ SettleTicks({n})
    /\ UNCHANGED <<clock, gen, first, final, epochs, bad, age, missed>>

LEMMA Steps ==
    ASSUME TypeOK, [Next]_vars
    PROVE  \/ Elapse \/ AdvanceV2 \/ BeginCycle \/ MissResume \/ EndCommit \/ FinishCycle \/ Halt \/ VoidUnproducible
           \/ Quiet \/ Receipts
           \/ \E g \in GenesisFor : Committed(g)
           \/ \E n \in NextTick : Published(n)
           \/ \E d \in Named : ScheduleCutover(d) \/ ScheduleResume(d)
           \/ \E b \in Buy : BuyGate(b) \/ BuyCommit(b) \/ VoidByHand(b)
<1>0. (Idle \/ Finish \/ wk' = Down \/ UNCHANGED wk) => Calm
  <2>1. Idle => wk'.pc = "idle" /\ wk'.view = Down.view /\ wk'.plan = NoResume
    BY DEF Idle, Down
  <2>2. Finish => wk'.pc = "finish" /\ wk'.view = wk.view /\ wk'.plan = NoResume
    BY DEF Finish, Down
  <2>3. wk' = Down => wk'.pc = "down" /\ wk'.view = Down.view /\ wk'.plan = NoResume
    BY DEF Down
  <2>4. UNCHANGED wk => wk'.view = wk.view /\ wk'.plan = wk.plan
    OBVIOUS
  <2> QED BY <2>1, <2>2, <2>3, <2>4 DEF Calm
<1>1. CASE CommitEpoch
  <2>1. PICK g \in GenesisFor :
          IF CommitAccepted(wk.next, g)
          THEN /\ epochs' = [d \in Days \union {wk.next} |->
                   IF d = wk.next THEN [genesis |-> g, receipt |-> "none", revealed |-> FALSE]
                   ELSE epochs[d]]
               /\ resume' = IF gen = 3 /\ resume.status = "scheduled" /\ resume.epoch = wk.next
                            THEN [resume EXCEPT !.status = "committed"] ELSE resume
               /\ wk' = [wk EXCEPT !.next = @ + 1, !.did = TRUE]
          ELSE Idle /\ UNCHANGED <<epochs, resume>>
    BY <1>1 DEF CommitEpoch
  <2>2. UNCHANGED <<clock, gen, first, final, ticks, halted, buy, bad, age, missed>>
    BY <1>1 DEF CommitEpoch, history
  <2>3. CASE CommitAccepted(wk.next, g)
    BY <1>1, <2>1, <2>2, <2>3 DEF CommitEpoch, Committed
  <2>4. CASE ~CommitAccepted(wk.next, g)
    BY <1>0, <2>1, <2>2, <2>4 DEF Quiet, db
  <2> QED BY <2>3, <2>4
<1>2. CASE PublishTick
  <2>1. PICK n \in NextTick \ bad :
          IF TickAccepted(n)
          THEN /\ ticks' = [m \in DOMAIN ticks \union {n} |-> IF m = n THEN Continues(n) ELSE ticks[m]]
               /\ halted' = (halted /\ ~Resuming(n))
               /\ resume' = IF Resuming(n) THEN NoResume ELSE resume
               /\ SettleTicks({n})
               /\ wk' = [wk EXCEPT !.no = n, !.left = (IF n = wk.no + 1 THEN @ ELSE Batch) - 1] \/ Finish
          ELSE Finish /\ UNCHANGED <<ticks, halted, resume, buy>>
    BY <1>2 DEF PublishTick
  <2>2. UNCHANGED <<clock, gen, first, final, epochs, bad, age, missed>> /\ Gated = {} /\ wk.pc = "publish"
    BY <1>2 DEF PublishTick
  <2>3. CASE TickAccepted(n)
    <3>1. CASE Finish
      BY <1>0, <2>1, <2>2, <2>3, <3>1 DEF Published
    <3>2. CASE wk' = [wk EXCEPT !.no = n, !.left = (IF n = wk.no + 1 THEN @ ELSE Batch) - 1]
      <4>1. wk'.pc = wk.pc /\ wk'.view = wk.view /\ wk'.plan = wk.plan
        BY <3>2 DEF TypeOK, WorkerState
      <4>2. Calm
        BY <2>2, <4>1 DEF Calm
      <4> QED BY <2>1, <2>2, <2>3, <4>2 DEF Published
    <3> QED BY <2>1, <2>3, <3>1, <3>2
  <2>4. CASE ~TickAccepted(n)
    BY <1>0, <2>1, <2>2, <2>4 DEF Quiet, db
  <2> QED BY <2>3, <2>4
<1>3. CASE Witness
  <2>1. PICK ok \in BOOLEAN : epochs' = Witnessed(ok)
    BY <1>3 DEF Witness
  <2>2. Days' = Days
    BY <2>1 DEF Witnessed, Days
  <2>3. ASSUME NEW d \in Days PROVE epochs'[d].genesis = epochs[d].genesis /\ epochs'[d].revealed = epochs[d].revealed
    BY <2>1, EpochFields DEF Witnessed, EpochRow
  <2>4. Calm
    <3>1. \/ Finish
          \/ \E n \in StartingPoint : wk' = [wk EXCEPT !.pc = "publish", !.due = clock, !.left = Batch, !.no = n]
      BY <1>3 DEF Witness
    <3>2. ASSUME NEW n, wk' = [wk EXCEPT !.pc = "publish", !.due = clock, !.left = Batch, !.no = n]
          PROVE  wk'.pc = "publish" /\ wk'.view = wk.view /\ wk'.plan = wk.plan
      BY <3>2 DEF TypeOK, WorkerState
    <3>3. CASE Finish
      BY <1>0, <3>3
    <3> QED BY <3>1, <3>2, <3>3 DEF Calm
  <2>5. UNCHANGED <<clock, gen, first, final, ticks, halted, resume, buy, bad, age, missed>>
    BY <1>3 DEF Witness, history
  <2> QED BY <2>2, <2>3, <2>4, <2>5 DEF Receipts
<1>4. ASSUME NEW d \in Named, Attest(d) PROVE Receipts
  <2>1. epochs' = [epochs EXCEPT ![d].receipt = IF @ = "early" THEN "valid" ELSE "late"] /\ d \in Days
    BY <1>4 DEF Attest
  <2>2. Days' = Days
    BY <2>1 DEF Days
  <2>3. ASSUME NEW e \in Days PROVE epochs'[e].genesis = epochs[e].genesis /\ epochs'[e].revealed = epochs[e].revealed
    BY <2>1, EpochFields DEF EpochRow
  <2>4. UNCHANGED <<clock, gen, first, final, ticks, halted, resume, buy, bad, wk, age, missed>>
    BY <1>4 DEF Attest, history
  <2> QED BY <1>0, <2>2, <2>3, <2>4 DEF Receipts
<1>5. CASE AcquireLeadership \/ StopPublish \/ Crash \/ UNCHANGED vars
  <2>1. Idle \/ Finish \/ wk' = Down \/ UNCHANGED wk
    BY <1>5 DEF AcquireLeadership, StopPublish, Crash, vars
  <2>2. UNCHANGED <<clock, db, buy, age, missed>>
    BY <1>5 DEF AcquireLeadership, StopPublish, Crash, vars, history
  <2> QED BY <1>0, <2>1, <2>2 DEF Quiet
<1> QED BY <1>1, <1>2, <1>3, <1>4, <1>5 DEF Next, Worker, Named

LEMMA CalmFacts ==
    ASSUME TypeOK, Calm
    PROVE  /\ wk'.plan.status = "none" \/ wk'.plan = wk.plan
           /\ wk'.view.gen = 2 \/ wk'.view = wk.view
           /\ wk'.view.now = 0 \/ wk'.view.now = wk.view.now
           /\ wk'.view.days \subseteq wk.view.days
<1>1. Down.view.now = 0 /\ Down.view.days = {} /\ Down.view.gen = 2 /\ NoResume.status = "none"
  BY DEF Down, NoResume
<1> QED BY <1>1 DEF Calm

\* The other steps of the worker.
LEMMA WorkerReads ==
    ASSUME TypeOK
    PROVE  /\ BeginCycle => /\ wk'.pc = "commit" /\ wk'.view = Snapshot /\ wk'.plan = resume /\ wk'.age = age
                            /\ IF Days # {} THEN wk'.next = Top(Days) + 1
                               ELSE IF clock <= Start(DayOf(clock)) - Lead THEN wk'.next = DayOf(clock)
                               ELSE wk'.next = DayOf(clock) + 1
                            /\ UNCHANGED <<clock, db, buy, age, missed>>
           /\ MissResume => /\ wk'.pc = wk.pc /\ wk'.view = wk.view /\ wk'.plan = resume'
                            /\ wk'.next = wk.next /\ wk'.age = wk.age
                            /\ resume' = IF resume.status = "scheduled" THEN NoResume ELSE resume
                            /\ UNCHANGED <<clock, gen, first, final, epochs, ticks, halted, buy, bad, age, missed>>
           /\ EndCommit => /\ wk'.pc = "witness" /\ wk'.view = Snapshot /\ wk'.plan \in {resume, wk.plan}
                           /\ UNCHANGED <<clock, db, buy>>
           /\ Halt => Calm /\ halted' = TRUE /\ UNCHANGED <<clock, gen, first, final, epochs, ticks, resume, buy, bad, age, missed>>
           /\ VoidUnproducible => Calm /\ UNCHANGED <<clock, db, age, missed>>
           /\ FinishCycle => Calm /\ UNCHANGED <<clock, first, final, ticks, halted, resume, buy, bad, age, missed>>
<1>1. ASSUME BeginCycle
      PROVE  /\ wk'.pc = "commit" /\ wk'.view = Snapshot /\ wk'.plan = resume /\ wk'.age = age
             /\ IF Days # {} THEN wk'.next = Top(Days) + 1
                ELSE IF clock <= Start(DayOf(clock)) - Lead THEN wk'.next = DayOf(clock)
                ELSE wk'.next = DayOf(clock) + 1
             /\ UNCHANGED <<clock, db, buy, age, missed>>
  <2> DEFINE n == IF Days # {} THEN Top(Days) + 1
                  ELSE IF clock <= Start(DayOf(clock)) - Lead THEN DayOf(clock) ELSE DayOf(clock) + 1
  <2>1. wk' = [wk EXCEPT !.pc = "commit", !.view = Snapshot, !.plan = resume, !.next = n, !.age = age]
    BY <1>1 DEF BeginCycle
  <2>2. IF Days # {} THEN n = Top(Days) + 1
        ELSE IF clock <= Start(DayOf(clock)) - Lead THEN n = DayOf(clock) ELSE n = DayOf(clock) + 1
    OBVIOUS
  <2>3. UNCHANGED <<clock, db, buy, age, missed>>
    BY <1>1 DEF BeginCycle, history
  <2> HIDE DEF n
  <2>4. wk'.pc = "commit" /\ wk'.view = Snapshot /\ wk'.plan = resume /\ wk'.age = age /\ wk'.next = n
    BY <2>1 DEF TypeOK, WorkerState
  <2> QED BY <2>2, <2>3, <2>4
<1>2. ASSUME MissResume
      PROVE  /\ wk'.pc = wk.pc /\ wk'.view = wk.view /\ wk'.plan = resume' /\ wk'.next = wk.next /\ wk'.age = wk.age
             /\ resume' = IF resume.status = "scheduled" THEN NoResume ELSE resume
             /\ UNCHANGED <<clock, gen, first, final, epochs, ticks, halted, buy, bad, age, missed>>
  <2>1. wk' = [wk EXCEPT !.plan = resume']
    BY <1>2 DEF MissResume
  <2>2. wk'.pc = wk.pc /\ wk'.view = wk.view /\ wk'.plan = resume' /\ wk'.next = wk.next /\ wk'.age = wk.age
    BY <2>1 DEF TypeOK, WorkerState
  <2> QED BY <1>2, <2>2 DEF MissResume, history
<1>3. ASSUME EndCommit
      PROVE  wk'.pc = "witness" /\ wk'.view = Snapshot /\ wk'.plan \in {resume, wk.plan} /\ UNCHANGED <<clock, db, buy>>
  <2>1. PICK r \in {resume, wk.plan} : wk' = [Down EXCEPT !.pc = "witness", !.view = Snapshot, !.plan = r]
    BY <1>3 DEF EndCommit
  <2>2. wk'.pc = "witness" /\ wk'.view = Snapshot /\ wk'.plan = r
    BY <2>1 DEF Down
  <2> QED BY <1>3, <2>1, <2>2 DEF EndCommit
<1>4. Idle \/ Finish => Calm
  BY DEF Idle, Finish, Down, Calm
<1>5. ASSUME Halt PROVE Calm /\ halted' = TRUE /\ UNCHANGED <<clock, gen, first, final, epochs, ticks, resume, buy, bad, age, missed>>
  <2>1. wk' = [wk EXCEPT !.pc = "void"]
    BY <1>5 DEF Halt
  <2>2. wk'.pc = "void" /\ wk'.view = wk.view /\ wk'.plan = wk.plan
    BY <2>1 DEF TypeOK, WorkerState
  <2> QED BY <1>5, <2>2 DEF Halt, Calm, history
<1>6. VoidUnproducible => Calm /\ UNCHANGED <<clock, db, age, missed>>
  BY <1>4 DEF VoidUnproducible, history
<1>7. FinishCycle => Calm /\ UNCHANGED <<clock, first, final, ticks, halted, resume, buy, bad, age, missed>>
  BY <1>4 DEF FinishCycle, history
<1> QED BY <1>1, <1>2, <1>3, <1>5, <1>6, <1>7

LEMMA CommittedFacts ==
    ASSUME TypeOK, GenerationFollows, PausesAreKept, ViewWasTrue, NEW g \in GenesisFor, Committed(g)
    PROVE  /\ g \in [no : Nat, base : Nat] /\ wk.next \in Nat
           /\ Days' = Days \union {wk.next} /\ wk.next \notin Days /\ Top(Days') = wk.next
           /\ Days # {} => wk.next = Top(Days) + 1
           /\ epochs'[wk.next] = [genesis |-> g, receipt |-> "none", revealed |-> FALSE]
           /\ \A d \in Days : epochs'[d] = epochs[d]
           /\ wk'.pc = "commit" /\ wk'.view = wk.view /\ wk'.plan = wk.plan /\ wk'.next = wk.next + 1 /\ wk'.age = wk.age
<1>1. wk.next \in Nat /\ (Days # {} => wk.next = Top(Days) + 1) /\ g \in [no : Nat, base : Nat]
  BY Fields, GenesisType DEF Committed, CommitAccepted
<1>2. epochs' = [d \in Days \union {wk.next} |->
            IF d = wk.next THEN [genesis |-> g, receipt |-> "none", revealed |-> FALSE] ELSE epochs[d]]
  BY DEF Committed
<1>3. Days' = Days \union {wk.next}
  BY <1>2 DEF Days
<1>4. wk.next \notin Days /\ Top(Days') = wk.next
  BY <1>1, <1>3, TopBecomes
<1>5. epochs'[wk.next] = [genesis |-> g, receipt |-> "none", revealed |-> FALSE] /\ \A d \in Days : epochs'[d] = epochs[d]
  BY <1>2, <1>4
<1>6. wk' = [wk EXCEPT !.next = @ + 1, !.did = TRUE]
  BY DEF Committed
<1>7. wk'.view = wk.view /\ wk'.plan = wk.plan /\ wk'.next = wk.next + 1 /\ wk'.age = wk.age /\ wk'.pc = wk.pc
  BY <1>6 DEF TypeOK, WorkerState
<1> QED BY <1>1, <1>3, <1>4, <1>5, <1>7 DEF Committed

LEMMA PublishedFacts ==
    ASSUME TypeOK, PausesAreKept, NEW n \in NextTick, Published(n)
    PROVE  /\ n \in Nat /\ gen = 3 /\ n <= clock /\ Last < n /\ Last' = n
           /\ DOMAIN ticks' = DOMAIN ticks \union {n} /\ ticks'[n] = Last /\ \A m \in DOMAIN ticks : ticks'[m] = ticks[m]
           /\ DayOf(n) \in Days
           /\ IF Resuming(n) THEN n = Start(resume.epoch) /\ resume.epoch \in Nat /\ n = resume.genesis + 1 /\ resume' = NoResume
              ELSE n = Last + 1 /\ resume.status # "committed" /\ resume' = resume
<1>1. TickAccepted(n) /\ n \in Int /\ gen = 3
  BY NextTickType DEF Published, TickAccepted
<1>2. /\ n \in Nat /\ n <= clock /\ Last < n /\ DayOf(n) \in Days /\ Continues(n) = Last
      /\ IF Resuming(n) THEN n = Start(resume.epoch) /\ resume.epoch \in Nat /\ n = resume.genesis + 1
         ELSE n = Last + 1 /\ resume.status # "committed"
  BY <1>1, AcceptedTick
<1>3. ticks' = [m \in DOMAIN ticks \union {n} |-> IF m = n THEN Continues(n) ELSE ticks[m]]
  BY DEF Published
<1>4. DOMAIN ticks' = DOMAIN ticks \union {n}
  BY <1>3
<1>5. \A m \in DOMAIN ticks : m \in Nat /\ m < n
  BY <1>2, LastIs DEF TypeOK
<1>6. ticks'[n] = Last /\ \A m \in DOMAIN ticks : ticks'[m] = ticks[m]
  BY <1>2, <1>3, <1>5
<1>7. Last' = n
  <2>1. DOMAIN ticks' \in SUBSET Nat /\ n \in DOMAIN ticks' /\ \A m \in DOMAIN ticks' : m <= n
    BY <1>2, <1>4, <1>5
  <2> QED BY <2>1, LastBecomes
<1> QED BY <1>1, <1>2, <1>4, <1>6, <1>7 DEF Published

\* A run of version 2 publishes the ticks from the newest to the last one due.
LEMMA AdvanceFacts ==
    ASSUME TypeOK, GenerationFollows, AdvanceV2
    PROVE  /\ gen = 2 /\ Last' \in Nat /\ Last < Last' /\ Last' <= clock /\ Last' <= first
           /\ DOMAIN ticks' = DOMAIN ticks \union (Last + 1..Last')
           /\ \A n \in Last + 1..Last' : ticks'[n] = n - 1
           /\ \A n \in DOMAIN ticks : ticks'[n] = ticks[n]
<1> DEFINE due == {n \in Last + 1..clock : final # None => n <= final}
           e == IF final # None /\ final < clock THEN final ELSE clock
<1>1. gen = 2 /\ due # {} /\ ticks' = [m \in DOMAIN ticks \union due |-> IF m \in due THEN m - 1 ELSE ticks[m]]
  BY DEF AdvanceV2
<1>2. first \in Nat /\ final \in {None, first} /\ clock \in Nat /\ Last \in Nat /\ (final = None => clock <= first)
  BY <1>1, Bounds, LastIs DEF TypeOK, GenerationFollows
<1>3. e \in Nat /\ e <= clock /\ e <= first /\ due = Last + 1..e
  BY <1>2 DEF None
<1> HIDE DEF e, due
<1>4. Last < e
  BY <1>1, <1>2, <1>3
<1>5. DOMAIN ticks' = DOMAIN ticks \union (Last + 1..e)
  BY <1>1, <1>3
<1>6. \A m \in DOMAIN ticks : m \in Nat /\ m <= Last
  BY LastIs DEF TypeOK
<1>7. Last' = e
  <2>1. DOMAIN ticks' \in SUBSET Nat /\ e \in DOMAIN ticks' /\ \A m \in DOMAIN ticks' : m <= e
    BY <1>2, <1>3, <1>4, <1>5, <1>6
  <2> QED BY <2>1, LastBecomes
<1>8. ASSUME NEW m \in DOMAIN ticks PROVE ticks'[m] = ticks[m]
  BY <1>1, <1>2, <1>3, <1>6
<1>9. ASSUME NEW m \in Last + 1..e PROVE ticks'[m] = m - 1
  BY <1>1, <1>3
<1> QED BY <1>1, <1>3, <1>4, <1>5, <1>7, <1>8, <1>9

\* Which steps change what.
LEMMA Owners ==
    ASSUME TypeOK, [Next]_vars
    PROVE  /\ UNCHANGED <<first, bad>>
           /\ UNCHANGED clock \/ Elapse
           /\ UNCHANGED gen \/ FinishCycle
           /\ UNCHANGED final \/ \E d \in Named : ScheduleCutover(d)
           /\ UNCHANGED ticks \/ AdvanceV2 \/ \E n \in NextTick : Published(n)
           /\ UNCHANGED halted \/ Halt \/ \E n \in NextTick : Published(n)
           /\ UNCHANGED epochs \/ FinishCycle \/ Receipts \/ \E g \in GenesisFor : Committed(g)
           /\ \/ UNCHANGED resume \/ MissResume
              \/ \E g \in GenesisFor : Committed(g)
              \/ \E n \in NextTick : Published(n)
              \/ \E d \in Named : ScheduleResume(d)
           /\ \/ UNCHANGED buy \/ AdvanceV2 \/ VoidUnproducible
              \/ \E n \in NextTick : Published(n)
              \/ \E b \in Buy : BuyGate(b) \/ BuyCommit(b) \/ VoidByHand(b)
           /\ Calm \/ BeginCycle \/ MissResume \/ EndCommit \/ \E g \in GenesisFor : Committed(g)
           /\ UNCHANGED age \/ Elapse \/ EndCommit
           /\ UNCHANGED missed \/ EndCommit
<1>0. UNCHANGED wk => Calm
  BY DEF Calm
<1>1. Elapse => Calm /\ UNCHANGED <<first, bad, gen, final, ticks, halted, epochs, resume, buy, missed>>
  BY <1>0 DEF Elapse, db
<1>2. AdvanceV2 => Calm /\ UNCHANGED <<first, bad, clock, gen, final, halted, epochs, resume, age, missed>>
  BY <1>0 DEF AdvanceV2, history
<1>3. BeginCycle => UNCHANGED <<clock, first, bad, gen, final, ticks, halted, epochs, resume, buy, age, missed>>
  BY WorkerReads DEF db
<1>4. MissResume => UNCHANGED <<clock, first, bad, gen, final, ticks, halted, epochs, buy, age, missed>>
  BY WorkerReads
<1>5. EndCommit => UNCHANGED <<clock, first, bad, gen, final, ticks, halted, epochs, resume, buy>>
  BY WorkerReads DEF db
<1>6. FinishCycle => Calm /\ UNCHANGED <<clock, first, final, ticks, halted, resume, buy, bad, age, missed>>
  BY WorkerReads
<1>7. Halt => Calm /\ UNCHANGED <<clock, gen, first, final, epochs, ticks, resume, buy, bad, age, missed>>
  BY WorkerReads
<1>8. VoidUnproducible \/ Quiet => Calm /\ UNCHANGED <<clock, gen, first, final, epochs, ticks, halted, resume, bad, age, missed>>
  BY WorkerReads DEF Quiet, db
<1>9. Quiet => UNCHANGED buy
  BY DEF Quiet
<1>10. Receipts => Calm /\ UNCHANGED <<clock, gen, first, final, ticks, halted, resume, buy, bad, age, missed>>
  BY DEF Receipts
<1>11. ASSUME NEW g, Committed(g) PROVE UNCHANGED <<clock, gen, first, final, ticks, halted, buy, bad, age, missed>>
  BY <1>11 DEF Committed
<1>12. ASSUME NEW n, Published(n) PROVE Calm /\ UNCHANGED <<clock, gen, first, final, epochs, bad, age, missed>>
  BY <1>12 DEF Published
<1>13. ASSUME NEW d, ScheduleCutover(d)
       PROVE  Calm /\ UNCHANGED <<clock, gen, first, epochs, ticks, halted, resume, buy, bad, age, missed>>
  BY <1>0, <1>13 DEF ScheduleCutover, history
<1>14. ASSUME NEW d, ScheduleResume(d)
       PROVE  Calm /\ UNCHANGED <<clock, gen, first, final, epochs, ticks, halted, buy, bad, age, missed>>
  BY <1>0, <1>14 DEF ScheduleResume
<1>15. ASSUME NEW b, BuyGate(b) \/ BuyCommit(b) \/ VoidByHand(b)
       PROVE  Calm /\ UNCHANGED <<clock, gen, first, final, epochs, ticks, halted, resume, bad, age, missed>>
  BY <1>0, <1>15 DEF BuyGate, BuyCommit, VoidByHand, db, history
<1>16. CASE Elapse \/ AdvanceV2 \/ BeginCycle \/ MissResume \/ EndCommit \/ FinishCycle
  BY <1>1, <1>2, <1>3, <1>4, <1>5, <1>6, <1>16
<1>17. CASE Halt \/ VoidUnproducible \/ Quiet \/ Receipts
  BY <1>7, <1>8, <1>9, <1>10, <1>17
<1>18. CASE \E g \in GenesisFor : Committed(g)
  BY <1>11, <1>18
<1>19. CASE \E n \in NextTick : Published(n)
  BY <1>12, <1>19
<1>20. CASE \E d \in Named : ScheduleCutover(d) \/ ScheduleResume(d)
  BY <1>13, <1>14, <1>20
<1>21. CASE \E b \in Buy : BuyGate(b) \/ BuyCommit(b) \/ VoidByHand(b)
  BY <1>15, <1>21
<1> QED BY <1>16, <1>17, <1>18, <1>19, <1>20, <1>21, Steps

-----------------------------------------------------------------------------
(* Generations, days and the ticks in them *)

\* Days are only added, by the worker, and keep the start they were committed with.
LEMMA DaysKept ==
    ASSUME TypeOK, GenerationFollows, PausesAreKept, ViewWasTrue, [Next]_vars
    PROVE  /\ \A d \in Days : d \in Days' /\ epochs'[d].genesis = epochs[d].genesis
           /\ Days' = Days \/ \E g \in GenesisFor : Committed(g)
<1>1. CASE Receipts
  BY <1>1 DEF Receipts
<1>2. CASE \E g \in GenesisFor : Committed(g)
  BY <1>2, CommittedFacts
<1>3. CASE FinishCycle
  <2>1. Days' = Days
    BY <1>3 DEF FinishCycle, Days
  <2>2. ASSUME NEW d \in Days PROVE epochs'[d].genesis = epochs[d].genesis
    BY <1>3, EpochFields DEF FinishCycle, EpochRow
  <2> QED BY <2>1, <2>2
<1>4. CASE UNCHANGED epochs
  BY <1>4 DEF Days
<1> QED BY <1>1, <1>2, <1>3, <1>4, Owners

\* The newest tick never goes back.
LEMMA LastGrows ==
    ASSUME TypeOK, GenerationFollows, PausesAreKept, [Next]_vars
    PROVE  Last' \in Nat /\ Last <= Last'
<1>1. CASE AdvanceV2
  BY <1>1, AdvanceFacts, LastIs
<1>2. CASE \E n \in NextTick : Published(n)
  <2>1. PICK n \in NextTick : Published(n)
    BY <1>2
  <2>2. n \in Nat /\ Last < n /\ Last' = n
    BY <2>1, PublishedFacts
  <2> QED BY <2>2, LastIs
<1>3. CASE UNCHANGED ticks
  BY <1>3, SameLast, LastIs
<1> QED BY <1>1, <1>2, <1>3, Owners

LEMMA GenerationInit == Init => GenerationFollows
<1> SUFFICES ASSUME Init PROVE GenerationFollows
  OBVIOUS
<1>1. TypeOK /\ DOMAIN ticks = {0} /\ clock = 0
  BY TypeInit DEF Init
<1>2. Last = 0
  BY <1>1, LastIs
<1>3. resume.status = "none" /\ wk.plan.status = "none" /\ wk.view.gen = 2 /\ final = None
  BY DEF Init, NoResume, Down
<1>4. CASE GenThree
  BY <1>1, <1>3, <1>4 DEF GenThree, GenerationFollows, Days
<1>5. CASE GenTwo
  <2>1. gen = 2 /\ first = TicksPerDay - 1 /\ Days = {}
    BY <1>5 DEF GenTwo, Days
  <2> QED BY <1>1, <1>2, <1>3, <2>1, Bounds DEF GenerationFollows
<1> QED BY <1>4, <1>5 DEF Init

LEMMA GenerationNext ==
    ASSUME TypeOK, GenerationFollows, PausesAreKept, ViewWasTrue, [Next]_vars
    PROVE  GenerationFollows'
<1>1. first' = first /\ (gen = 3 => gen' = 3) /\ gen' \in {3, gen}
  <2>1. FinishCycle => gen' \in {3, gen}
    BY DEF FinishCycle
  <2> QED BY <2>1, Owners
<1>2. ASSUME gen' = 3 \/ final' # None PROVE Days' # {}
  <2>1. Days # {} => Days' # {}
    BY DaysKept
  <2>2. ASSUME NEW d, ScheduleCutover(d) PROVE Days # {}
    BY <2>2 DEF ScheduleCutover
  <2>3. FinishCycle => gen' = gen \/ final # None
    BY DEF FinishCycle
  <2> QED BY <1>2, <2>1, <2>2, <2>3, Owners DEF GenerationFollows
<1>3. ASSUME gen' = 2
      PROVE  /\ first' = TicksPerDay - 1 /\ Last' <= first' /\ (final' = None => clock' <= first')
             /\ resume'.status = "none" /\ wk'.plan.status = "none" /\ wk'.view.gen = 2
             /\ \A d \in Days' : epochs'[d].genesis = [no |-> first', base |-> first']
  <2>1. /\ gen = 2 /\ first = TicksPerDay - 1 /\ Last <= first /\ (final = None => clock <= first)
        /\ resume.status = "none" /\ wk.plan.status = "none" /\ wk.view.gen = 2
        /\ \A d \in Days : epochs[d].genesis = [no |-> first, base |-> first]
    BY <1>1, <1>3 DEF GenerationFollows, TypeOK
  <2>2. ASSUME NEW n \in NextTick, Published(n) PROVE FALSE
    BY <2>1, <2>2, PublishedFacts
  <2>3. Last' <= first
    <3>1. CASE AdvanceV2
      BY <3>1, AdvanceFacts
    <3>2. CASE UNCHANGED ticks
      BY <2>1, <3>2, SameLast
    <3> QED BY <2>2, <3>1, <3>2, Owners
  <2>4. final' = None => clock' <= first
    <3>1. CASE Elapse
      BY <2>1, <3>1, LastIs, Bounds DEF Elapse, db
    <3>2. ASSUME NEW d \in Named, ScheduleCutover(d) PROVE final' # None
      <4>1. d \in Days /\ epochs[d].genesis.no = Start(d) - 1 /\ epochs[d].genesis.no \in Nat /\ final' = Start(d) - 1
        BY <3>2, EpochFields DEF ScheduleCutover
      <4> QED BY <4>1 DEF None
    <3> QED BY <2>1, <3>1, <3>2, Owners
  <2>5. resume'.status = "none"
    <3>1. ASSUME NEW d, ScheduleResume(d) PROVE FALSE
      BY <2>1, <3>1 DEF ScheduleResume
    <3>2. ASSUME NEW g, Committed(g) PROVE UNCHANGED resume
      BY <2>1, <3>2 DEF Committed
    <3>3. MissResume => UNCHANGED resume
      BY <2>1, WorkerReads
    <3> QED BY <2>1, <2>2, <3>1, <3>2, <3>3, Owners
  <2>6. wk'.plan.status = "none" /\ wk'.view.gen = 2
    <3>1. CASE Calm
      BY <2>1, <3>1, CalmFacts
    <3>2. CASE BeginCycle \/ MissResume \/ EndCommit
      BY <2>1, <2>5, <3>2, WorkerReads, SnapshotType
    <3>3. ASSUME NEW g \in GenesisFor, Committed(g) PROVE wk'.view = wk.view /\ wk'.plan = wk.plan
      BY <3>3, CommittedFacts
    <3> QED BY <2>1, <3>1, <3>2, <3>3, Owners
  <2>7. ASSUME NEW d \in Days' PROVE epochs'[d].genesis = [no |-> first, base |-> first]
    <3>1. CASE d \in Days
      BY <2>1, <3>1, DaysKept
    <3>2. CASE d \notin Days
      <4>1. PICK g \in GenesisFor : Committed(g)
        BY <2>7, <3>2, DaysKept
      <4>2. g = [no |-> first, base |-> first]
        BY <2>1 DEF GenesisFor
      <4>3. /\ Days' = Days \union {wk.next}
            /\ epochs'[wk.next] = [genesis |-> g, receipt |-> "none", revealed |-> FALSE]
        BY <4>1, CommittedFacts
      <4> QED BY <2>7, <3>2, <4>2, <4>3
    <3> QED BY <3>1, <3>2
  <2> QED BY <1>1, <2>1, <2>3, <2>4, <2>5, <2>6, <2>7
<1>4. ASSUME NEW n \in DOMAIN ticks', n > first' PROVE DayOf(n) \in Days'
  <2>1. CASE n \in DOMAIN ticks
    BY <1>1, <1>4, <2>1, DaysKept DEF GenerationFollows
  <2>2. CASE n \notin DOMAIN ticks
    <3>1. CASE AdvanceV2
      <4>1. n \in Last + 1..Last' /\ Last' <= first /\ Last' \in Nat /\ Last \in Nat
        BY <1>4, <2>2, <3>1, AdvanceFacts, LastIs
      <4> QED BY <1>1, <1>4, <4>1, Bounds DEF TypeOK
    <3>2. ASSUME NEW m \in NextTick, Published(m) PROVE DayOf(n) \in Days'
      <4>1. n = m /\ DayOf(m) \in Days
        BY <1>4, <2>2, <3>2, PublishedFacts
      <4> QED BY <4>1, DaysKept
    <3> QED BY <1>4, <2>2, <3>1, <3>2, Owners
  <2> QED BY <2>1, <2>2
<1> QED BY <1>2, <1>3, <1>4 DEF GenerationFollows

-----------------------------------------------------------------------------
(* Pauses and the starts of days *)

\* The newest tick lies before the day a resume starts.
LEMMA LastBeforeDay ==
    ASSUME TypeOK, GenerationFollows, NEW d \in Nat, Days # {}, d > Top(Days)
    PROVE  Start(d) \in Nat /\ Last < Start(d)
<1>1. Top(Days) \in Nat /\ Last \in Nat /\ Start(d) \in Nat
  BY TopDay, LastIs, Starts
<1>2. CASE Last > first
  <2>1. DayOf(Last) \in Days
    BY <1>2, LastIs DEF GenerationFollows
  <2>2. DayOf(Last) \in Nat /\ DayOf(Last) < d
    BY <1>1, <2>1, TopDay
  <2>3. Last < Start(DayOf(Last) + 1) /\ Start(DayOf(Last) + 1) <= Start(d) /\ Start(DayOf(Last) + 1) \in Nat
    BY <1>1, <2>2, DayOfTick, StartsGrow, Starts
  <2> QED BY <1>1, <2>3
<1>3. CASE ~(Last > first)
  <2>1. first \in Nat /\ first < TicksPerDay /\ TicksPerDay \in Nat
    BY Bounds DEF TypeOK
  <2>2. 0 \in Nat /\ 0 < d
    BY <1>1
  <2>3. Start(0 + 1) <= Start(d)
    BY <2>2, StartsGrow
  <2>4. Start(0 + 1) = Start(0) + TicksPerDay /\ Start(0) \in Nat
    BY <2>2, Starts
  <2> QED BY <1>1, <1>3, <2>1, <2>3, <2>4
<1> QED BY <1>2, <1>3

\* A resume that is announced starts a day and pauses before it.
LEMMA ScheduledFacts ==
    ASSUME TypeOK, GenerationFollows, NEW d \in Named, ScheduleResume(d)
    PROVE  /\ resume'.status = "scheduled" /\ resume'.epoch = d /\ d \in Nat
           /\ resume'.genesis \in Nat /\ resume'.genesis + 1 = Start(d)
           /\ resume'.pause \in Nat /\ resume'.pause <= resume'.genesis /\ Last <= resume'.pause
           /\ ~halted => Start(d) - clock >= TicksPerDay /\ resume'.pause = Start(d) - PauseLead
           /\ gen = 3 /\ ~Waiting(resume)
<1> DEFINE p == IF halted THEN Last ELSE Start(d) - PauseLead
<1>1. resume' = [status |-> "scheduled", epoch |-> d, pause |-> p, genesis |-> Start(d) - 1]
  BY DEF ScheduleResume
<1>2. d \in Nat /\ Start(d) \in Nat /\ Last < Start(d) /\ Last \in Nat
  BY NamedDays, LastBeforeDay, LastIs DEF ScheduleResume
<1>3. ~halted => Start(d) - clock >= TicksPerDay /\ p > Last /\ p = Start(d) - PauseLead
  BY DEF ScheduleResume
<1>4. p \in Nat /\ p <= Start(d) - 1 /\ Last <= p
  BY <1>2, <1>3, Bounds
<1> HIDE DEF p
<1>5. gen = 3 /\ ~Waiting(resume)
  BY DEF ScheduleResume
<1> QED BY <1>1, <1>2, <1>3, <1>4, <1>5

LEMMA PausesInit == Init => PausesAreKept
<1> SUFFICES ASSUME Init PROVE PausesAreKept
  OBVIOUS
<1>1. resume.status = "none" /\ wk.plan.status = "none"
  BY DEF Init, NoResume, Down
<1>2. \A d \in Days : epochs[d].genesis = [no |-> 0, base |-> 0]
  BY DEF Init, GenThree, GenTwo, Days
<1> QED BY <1>1, <1>2 DEF PausesAreKept, Waiting

LEMMA PausesNext ==
    ASSUME TypeOK, GenerationFollows, PausesAreKept, ViewWasTrue, [Next]_vars
    PROVE  PausesAreKept'
<1>1. /\ Waiting(resume') => /\ resume'.epoch \in Nat /\ resume'.genesis + 1 = Start(resume'.epoch)
                             /\ resume'.pause \in Nat /\ resume'.pause <= resume'.genesis /\ resume'.genesis \in Nat
      /\ resume'.status = "committed" => Last' = resume'.pause
  <2>1. CASE \E n \in NextTick : Published(n)
    <3>1. PICK n \in NextTick : Published(n)
      BY <2>1
    <3>2. \/ resume' = NoResume
          \/ resume' = resume /\ resume.status # "committed"
      BY <3>1, PublishedFacts
    <3> QED BY <3>2, Fields DEF PausesAreKept, Waiting, NoResume
  <2>2. CASE \E d \in Named : ScheduleResume(d)
    BY <2>2, ScheduledFacts DEF Waiting
  <2>3. CASE MissResume
    <3>1. UNCHANGED ticks /\ resume' \in {NoResume, resume}
      BY <2>3, WorkerReads
    <3> QED BY <3>1, SameLast, Fields DEF PausesAreKept, Waiting, NoResume
  <2>4. CASE \E g \in GenesisFor : Committed(g)
    <3>1. PICK g \in GenesisFor : Committed(g)
      BY <2>4
    <3>2. /\ UNCHANGED ticks
          /\ \/ resume' = resume
             \/ resume' = [resume EXCEPT !.status = "committed"] /\ resume.status = "scheduled" /\ Last = resume.pause
      BY <3>1 DEF Committed, CommitAccepted
    <3>3. CASE resume' = resume
      BY <3>2, <3>3, SameLast, Fields DEF PausesAreKept, Waiting
    <3>4. CASE resume' = [resume EXCEPT !.status = "committed"] /\ resume.status = "scheduled" /\ Last = resume.pause
      <4>1. resume'.epoch = resume.epoch /\ resume'.pause = resume.pause /\ resume'.genesis = resume.genesis
        BY <3>4 DEF TypeOK, ResumeRow
      <4> QED BY <3>2, <3>4, <4>1, SameLast, Fields DEF PausesAreKept, Waiting
    <3> QED BY <3>2, <3>3, <3>4
  <2>5. CASE UNCHANGED resume
    <3>1. CASE UNCHANGED ticks
      BY <2>5, <3>1, SameLast, Fields DEF PausesAreKept, Waiting
    <3>2. CASE AdvanceV2
      <4>1. resume.status = "none"
        BY <3>2 DEF AdvanceV2, GenerationFollows
      <4> QED BY <2>5, <4>1 DEF Waiting
    <3> QED BY <2>1, <3>1, <3>2, Owners
  <2> QED BY <2>1, <2>2, <2>3, <2>4, <2>5, Owners
<1>2. Waiting(wk'.plan) => wk'.plan.genesis \in Nat
  <2>1. Waiting(resume) => resume.genesis \in Nat
    BY Fields DEF PausesAreKept
  <2>2. CASE Calm
    <3>1. wk'.plan.status = "none" \/ wk'.plan = wk.plan
      BY <2>2, CalmFacts
    <3> QED BY <3>1 DEF PausesAreKept, Waiting
  <2>3. CASE MissResume
    BY <1>1, <2>3, WorkerReads
  <2>4. CASE BeginCycle \/ EndCommit
    <3>1. wk'.plan \in {resume, wk.plan}
      BY <2>4, WorkerReads
    <3> QED BY <2>1, <3>1 DEF PausesAreKept
  <2>5. ASSUME NEW g \in GenesisFor, Committed(g) PROVE wk'.plan = wk.plan
    BY <2>5, CommittedFacts
  <2> QED BY <2>2, <2>3, <2>4, <2>5, Owners DEF PausesAreKept
<1>3. ASSUME NEW d \in Days'
      PROVE  LET g == epochs'[d].genesis IN
             /\ g.base <= g.no
             /\ \/ g.base = g.no
                \/ Last' > g.no
                \/ resume'.status = "committed" /\ g = [no |-> resume'.genesis, base |-> resume'.pause]
  <2>1. Last' \in Nat /\ Last \in Nat /\ Last <= Last'
    BY LastGrows, LastIs
  <2>2. ASSUME resume.status = "committed"
        PROVE  \/ resume'.status = "committed" /\ resume'.genesis = resume.genesis /\ resume'.pause = resume.pause
               \/ Last' > resume.genesis
    <3>1. CASE UNCHANGED resume
      BY <2>2, <3>1
    <3>2. CASE MissResume
      BY <2>2, <3>2, WorkerReads
    <3>3. CASE \E g \in GenesisFor : Committed(g)
      BY <2>2, <3>3 DEF Committed
    <3>4. ASSUME NEW n \in NextTick, Published(n) PROVE Last' > resume.genesis
      <4>1. n = resume.genesis + 1 /\ Last' = n
        BY <2>2, <3>4, PublishedFacts
      <4> QED BY <4>1, Fields
    <3>5. ASSUME NEW e \in Named, ScheduleResume(e) PROVE FALSE
      BY <2>2, <3>5 DEF ScheduleResume, Waiting
    <3> QED BY <3>1, <3>2, <3>3, <3>4, <3>5, Owners
  <2>3. CASE d \in Days
    <3> DEFINE g == epochs[d].genesis
    <3>1. epochs'[d].genesis = g /\ g.no \in Nat /\ g.base \in Nat
      BY <2>3, DaysKept, EpochFields
    <3>2. /\ g.base <= g.no
          /\ \/ g.base = g.no
             \/ Last > g.no
             \/ resume.status = "committed" /\ g = [no |-> resume.genesis, base |-> resume.pause]
      BY <2>3 DEF PausesAreKept
    <3> HIDE DEF g
    <3>3. CASE g.base = g.no \/ Last > g.no
      BY <2>1, <3>1, <3>2, <3>3
    <3>4. CASE resume.status = "committed" /\ g = [no |-> resume.genesis, base |-> resume.pause]
      BY <2>2, <3>1, <3>2, <3>4
    <3> QED BY <3>2, <3>3, <3>4
  <2>4. CASE d \notin Days
    <3>1. PICK g \in GenesisFor : Committed(g)
      BY <1>3, <2>4, DaysKept
    <3>2. /\ d = wk.next /\ epochs'[d].genesis = g /\ g.no \in Nat /\ g.base \in Nat
      <4>1. /\ Days' = Days \union {wk.next} /\ g \in [no : Nat, base : Nat]
            /\ epochs'[wk.next] = [genesis |-> g, receipt |-> "none", revealed |-> FALSE]
        BY <3>1, CommittedFacts
      <4> QED BY <1>3, <2>4, <4>1
    <3>3. UNCHANGED ticks /\ Last' = Last
      BY <3>1, SameLast DEF Committed
    <3>4. CASE gen = 2
      <4>1. g = [no |-> first, base |-> first]
        BY <3>4 DEF GenesisFor, GenerationFollows
      <4> QED BY <3>2, <4>1
    <3>5. CASE gen = 3 /\ resume.status = "scheduled" /\ resume.epoch = wk.next
      <4>1. Last = resume.pause /\ g = [no |-> resume.genesis, base |-> Last] /\ resume' = [resume EXCEPT !.status = "committed"]
        BY <3>1, <3>5 DEF Committed, CommitAccepted
      <4>2. resume'.status = "committed" /\ resume'.genesis = resume.genesis /\ resume'.pause = resume.pause
        BY <4>1 DEF TypeOK, ResumeRow
      <4>3. resume.pause <= resume.genesis
        BY <3>5 DEF PausesAreKept, Waiting
      <4> QED BY <3>2, <4>1, <4>2, <4>3
    <3>6. CASE gen = 3 /\ ~(resume.status = "scheduled" /\ resume.epoch = wk.next)
      <4>1. Days # {}
        BY <3>6 DEF GenerationFollows
      <4>2. g = epochs[Top(Days)].genesis /\ resume' = resume /\ Top(Days) \in Days
        BY <3>1, <3>6, <4>1, TopDay DEF Committed, CommitAccepted
      <4> QED BY <3>2, <3>3, <4>2 DEF PausesAreKept
    <3> QED BY <3>4, <3>5, <3>6 DEF TypeOK
  <2> QED BY <2>3, <2>4
<1> QED BY <1>1, <1>2, <1>3 DEF PausesAreKept, Waiting

-----------------------------------------------------------------------------
(* The worker's view *)

LEMMA ViewInit == Init => ViewWasTrue
BY DEF Init, ViewWasTrue, Down

LEMMA ViewNext ==
    ASSUME TypeOK, GenerationFollows, PausesAreKept, ViewWasTrue, [Next]_vars
    PROVE  ViewWasTrue'
<1>1. clock \in Nat /\ clock' \in Nat /\ clock <= clock' /\ wk.view.now \in Nat
  <2>1. Elapse => clock' = clock + 1
    BY DEF Elapse
  <2> QED BY <2>1, Owners, LastIs, Fields
<1>2. Snapshot.now = clock /\ Snapshot.days = Days
  BY SnapshotType
<1>3. Days \subseteq Days'
  BY DaysKept
<1>4. CASE Calm
  <2>1. wk'.view.now <= clock' /\ wk'.view.days \subseteq Days'
    BY <1>1, <1>3, <1>4, CalmFacts DEF ViewWasTrue
  <2>2. ASSUME wk'.pc = "commit" PROVE UNCHANGED wk
    BY <1>4, <2>2 DEF Calm
  <2>3. Days' = Days \/ \E g \in GenesisFor : Committed(g)
    BY DaysKept
  <2>4. ASSUME NEW g \in GenesisFor, Committed(g) PROVE wk'.next # wk.next
    <3>1. wk'.next = wk.next + 1 /\ wk.next \in Nat
      BY <2>4, CommittedFacts
    <3> QED BY <3>1
  <2> QED BY <2>1, <2>2, <2>3, <2>4 DEF ViewWasTrue
<1>5. CASE BeginCycle
  <2>1. UNCHANGED <<clock, epochs>>
    BY <1>5, WorkerReads DEF db
  <2>2. Days' = Days
    BY <2>1 DEF Days
  <2>3. DayOf(clock) \in Nat
    BY <1>1, DayOfTick
  <2> QED BY <1>1, <1>2, <1>5, <2>1, <2>2, <2>3, WorkerReads DEF ViewWasTrue
<1>6. CASE MissResume
  <2>1. UNCHANGED <<clock, epochs>>
    BY <1>6, WorkerReads
  <2>2. Days' = Days
    BY <2>1 DEF Days
  <2> QED BY <1>6, <2>1, <2>2, WorkerReads DEF ViewWasTrue
<1>7. CASE EndCommit
  <2>1. UNCHANGED <<clock, epochs>>
    BY <1>7, WorkerReads DEF db
  <2>2. Days' = Days
    BY <2>1 DEF Days
  <2> QED BY <1>1, <1>2, <1>7, <2>1, <2>2, WorkerReads DEF ViewWasTrue
<1>8. ASSUME NEW g \in GenesisFor, Committed(g) PROVE ViewWasTrue'
  <2>1. /\ Days' = Days \union {wk.next} /\ Top(Days') = wk.next
        /\ wk'.view = wk.view /\ wk'.next = wk.next + 1
    BY <1>8, CommittedFacts
  <2>2. Days' # {}
    BY <2>1
  <2> QED BY <1>1, <1>3, <2>1, <2>2 DEF ViewWasTrue
<1> QED BY <1>4, <1>5, <1>6, <1>7, <1>8, Owners

-----------------------------------------------------------------------------
(* Contracts and seeds *)

\* What one step may do to a contract.
LEMMA ContractSteps ==
    ASSUME TypeOK, [Next]_vars, NEW b \in Buy
    PROVE  \/ buy'[b] = buy[b]
           \/ BuyGate(b) /\ buy[b].st = "none" /\ buy'[b] = [st |-> "gated", entry |-> clock + 1] /\ PurchaseGate(clock + 1)
           \/ /\ buy'[b].entry = buy[b].entry
              /\ \/ buy[b].st = "gated" /\ buy'[b].st = "open" /\ BuyCommit(b)
                 \/ buy[b].st = "open" /\ buy'[b].st \in {"failed", "closed"}
                 \/ buy[b].st = "failed" /\ buy'[b].st = "closed"
<1> DEFINE Goal == \/ buy'[b] = buy[b]
                   \/ BuyGate(b) /\ buy[b].st = "none" /\ buy'[b] = [st |-> "gated", entry |-> clock + 1] /\ PurchaseGate(clock + 1)
                   \/ /\ buy'[b].entry = buy[b].entry
                      /\ \/ buy[b].st = "gated" /\ buy'[b].st = "open" /\ BuyCommit(b)
                         \/ buy[b].st = "open" /\ buy'[b].st \in {"failed", "closed"}
                         \/ buy[b].st = "failed" /\ buy'[b].st = "closed"
<1>1. buy \in [Buy -> Contract] /\ buy[b] \in Contract
  BY DEF TypeOK
<1>2. ASSUME NEW N, SettleTicks(N) PROVE Goal
  <2>1. /\ buy' \in [Buy -> Contract] /\ buy'[b].entry = buy[b].entry
        /\ \/ buy'[b].st = buy[b].st
           \/ buy[b].st = "open" /\ buy'[b].st \in {"failed", "closed"}
    BY <1>2, Settled
  <2>2. buy'[b].st = buy[b].st => buy'[b] = buy[b]
    BY <1>1, <2>1 DEF Contract
  <2> QED BY <2>1, <2>2
<1>3. CASE AdvanceV2 \/ \E n \in NextTick : Published(n)
  BY <1>2, <1>3 DEF AdvanceV2, Published
<1>4. CASE VoidUnproducible
  <2>1. buy'[b] = IF b \in Open /\ Settle(b) > Last THEN [buy[b] EXCEPT !.st = "closed"] ELSE buy[b]
    BY <1>4 DEF VoidUnproducible
  <2> QED BY <1>1, <2>1 DEF Contract, Open
<1>5. ASSUME NEW c \in Buy, BuyGate(c) PROVE Goal
  <2>1. Larger(Last, clock) = clock
    BY LastIs DEF Larger
  <2>2. buy' = [buy EXCEPT ![c] = [st |-> "gated", entry |-> clock + 1]] /\ buy[c].st = "none" /\ PurchaseGate(clock + 1)
    BY <1>5, <2>1 DEF BuyGate
  <2> QED BY <1>1, <1>5, <2>2
<1>6. ASSUME NEW c \in Buy, BuyCommit(c) \/ VoidByHand(c) PROVE Goal
  <2>1. PICK s \in {"open", "closed"} : /\ buy' = [buy EXCEPT ![c].st = s]
                                        /\ \/ s = "open" /\ buy[c].st = "gated" /\ BuyCommit(c)
                                           \/ s = "closed" /\ buy[c].st = "failed"
    BY <1>6 DEF BuyCommit, VoidByHand
  <2>2. CASE b = c
    <3>1. buy'[b].st = s /\ buy'[b].entry = buy[b].entry
      BY <1>1, <2>1, <2>2 DEF Contract
    <3> QED BY <2>1, <2>2, <3>1
  <2>3. CASE b # c
    BY <1>1, <2>1, <2>3
  <2> QED BY <2>2, <2>3
<1>7. CASE UNCHANGED buy
  BY <1>7
<1> QED BY <1>3, <1>4, <1>5, <1>6, <1>7, Owners

\* How a seed becomes public.
LEMMA RevealSteps ==
    ASSUME TypeOK, GenerationFollows, PausesAreKept, ViewWasTrue, [Next]_vars, NEW d \in Days', epochs'[d].revealed
    PROVE  /\ d \in Days
           /\ \/ epochs[d].revealed
              \/ FinishCycle /\ d \in wk.view.days /\ wk.view.now >= Start(d + 1) + RevealDelay /\ ~SeedNeeded(d)
<1>1. CASE Receipts
  BY <1>1 DEF Receipts
<1>2. ASSUME NEW g \in GenesisFor, Committed(g) PROVE d \in Days /\ epochs[d].revealed
  <2>1. /\ Days' = Days \union {wk.next} /\ \A e \in Days : epochs'[e] = epochs[e]
        /\ epochs'[wk.next] = [genesis |-> g, receipt |-> "none", revealed |-> FALSE]
    BY <1>2, CommittedFacts
  <2> QED BY <2>1
<1>3. CASE FinishCycle
  <2>1. Days' = Days
    BY <1>3 DEF FinishCycle, Days
  <2>2. epochs'[d] = [epochs[d] EXCEPT !.revealed =
            @ \/ (d \in wk.view.days /\ wk.view.now >= Start(d + 1) + RevealDelay /\ ~SeedNeeded(d))]
    BY <1>3, <2>1 DEF FinishCycle
  <2>3. epochs[d] \in EpochRow
    BY <2>1, EpochFields
  <2>4. epochs'[d].revealed = (epochs[d].revealed \/
            (d \in wk.view.days /\ wk.view.now >= Start(d + 1) + RevealDelay /\ ~SeedNeeded(d)))
    BY <2>2, <2>3 DEF EpochRow
  <2> QED BY <1>3, <2>1, <2>4
<1>4. CASE UNCHANGED epochs
  BY <1>4 DEF Days
<1> QED BY <1>1, <1>2, <1>3, <1>4, Owners

LEMMA BoughtInit == Init => BoughtAhead
<1> SUFFICES ASSUME Init PROVE BoughtAhead
  OBVIOUS
<1>1. \A b \in Buy : buy[b].st = "none"
  BY DEF Init
<1>2. \A d \in Days : ~epochs[d].revealed
  BY DEF Init, GenThree, GenTwo, Days
<1> QED BY <1>1, <1>2 DEF BoughtAhead, Gated

LEMMA BoughtNext ==
    ASSUME TypeOK, GenerationFollows, PausesAreKept, ViewWasTrue, BoughtAhead, [Next]_vars
    PROVE  BoughtAhead'
<1>1. clock \in Nat /\ clock' \in Nat /\ clock <= clock'
  <2>1. Elapse => clock' = clock + 1
    BY DEF Elapse
  <2> QED BY <2>1, Owners, LastIs
<1>2. ASSUME NEW b \in Buy, buy'[b].st # "none" PROVE buy'[b].entry \in Nat /\ buy'[b].entry <= clock' + 1
  <2>1. buy[b].st # "none" => buy[b].entry \in Nat /\ buy[b].entry <= clock + 1
    BY DEF BoughtAhead
  <2>2. CASE buy'[b] = [st |-> "gated", entry |-> clock + 1]
    BY <1>1, <2>2
  <2>3. CASE buy'[b].entry = buy[b].entry /\ buy[b].st # "none"
    BY <1>1, <2>1, <2>3
  <2> QED BY <1>2, <2>2, <2>3, ContractSteps
<1>3. ASSUME NEW b \in Gated' PROVE buy'[b].entry > clock'
  <2>1. b \in Buy /\ buy'[b].st = "gated"
    BY <1>3 DEF Gated
  <2>2. CASE BuyGate(b) /\ buy'[b] = [st |-> "gated", entry |-> clock + 1]
    <3>1. UNCHANGED clock
      BY <2>2 DEF BuyGate
    <3> QED BY <1>1, <2>2, <3>1
  <2>3. CASE buy'[b] = buy[b]
    <3>1. b \in Gated
      BY <2>1, <2>3 DEF Gated
    <3>2. ~Elapse
      BY <3>1 DEF Elapse
    <3> QED BY <2>3, <3>1, <3>2, Owners DEF BoughtAhead
  <2> QED BY <2>1, <2>2, <2>3, ContractSteps
<1>4. ASSUME NEW d \in Days', epochs'[d].revealed PROVE clock' >= Start(d + 1)
  <2>1. d \in Days
    BY <1>4, RevealSteps
  <2>2. d + 1 \in Nat
    BY <2>1, EpochFields
  <2>3. Start(d + 1) \in Nat
    BY <2>2, Starts
  <2>4. CASE epochs[d].revealed
    BY <1>1, <2>1, <2>3, <2>4 DEF BoughtAhead
  <2>5. CASE wk.view.now >= Start(d + 1) + RevealDelay
    BY <1>1, <2>3, <2>5, Bounds, Fields DEF ViewWasTrue
  <2> QED BY <1>4, <2>4, <2>5, RevealSteps
<1> QED BY <1>2, <1>3, <1>4 DEF BoughtAhead

LEMMA SeedInit == Init => SeedSecretWhileNeeded
<1> SUFFICES ASSUME Init PROVE SeedSecretWhileNeeded
  OBVIOUS
<1>1. \A d \in Days : ~epochs[d].revealed
  BY DEF Init, GenThree, GenTwo, Days
<1> QED BY <1>1 DEF SeedSecretWhileNeeded

\* A contract bought ahead of the clock is in a day that is not over; later its being
\* open holds the seed back.
LEMMA SeedNext ==
    ASSUME TypeOK, GenerationFollows, PausesAreKept, ViewWasTrue, BoughtAhead, SeedSecretWhileNeeded, [Next]_vars
    PROVE  SeedSecretWhileNeeded'
<1> SUFFICES ASSUME gen' = 3, NEW b \in (Open \union Gated)', NEW n \in {buy'[b].entry, buy'[b].entry + 1},
                    DayOf(n) \in Days', epochs'[DayOf(n)].revealed
             PROVE  FALSE
  BY DEF SeedSecretWhileNeeded, Settle
<1>1. b \in Buy /\ buy'[b].st \in {"gated", "open", "failed"}
  BY DEF Open, Gated
<1>2. TypeOK' /\ BoughtAhead'
  BY TypeNext, BoughtNext
<1>3. buy'[b].entry \in Nat /\ n \in Nat /\ clock' \in Nat /\ buy'[b].entry <= n /\ n <= buy'[b].entry + 1
  <2>1. clock' \in Nat
    BY <1>2, Bounds DEF TypeOK
  <2> QED BY <1>1, <1>2, <2>1 DEF BoughtAhead
<1>4. DayOf(n) \in Nat /\ Start(DayOf(n)) <= n /\ n < Start(DayOf(n) + 1) /\ clock' >= Start(DayOf(n) + 1)
      /\ Start(DayOf(n) + 1) \in Nat /\ Start(DayOf(n)) \in Nat
  <2>1. DayOf(n) \in Nat /\ Start(DayOf(n)) <= n /\ n < Start(DayOf(n) + 1)
    BY <1>3, DayOfTick
  <2> QED BY <1>2, <2>1, Starts DEF BoughtAhead
<1>5. buy'[b].st # "gated"
  <2> SUFFICES ASSUME buy'[b].st = "gated" PROVE FALSE
    OBVIOUS
  <2>1. b \in Gated'
    BY <1>1 DEF Gated
  <2>2. buy'[b].entry > clock'
    BY <1>2, <2>1 DEF BoughtAhead
  <2> QED BY <1>3, <1>4, <2>2
<1>6. buy[b].entry = buy'[b].entry /\ b \in Open \union Gated
  BY <1>1, <1>5, ContractSteps DEF Open, Gated
<1>7. DayOf(n) \in Days
  BY RevealSteps
<1>8. CASE FinishCycle
  <2>1. UNCHANGED buy
    BY <1>8, WorkerReads
  <2>2. b \in Open
    BY <1>1, <1>5, <2>1 DEF Open
  <2>3. gen = 3
    BY <1>8, <2>2 DEF FinishCycle
  <2>4. SeedNeeded(DayOf(n))
    BY <1>3, <1>4, <1>6, <2>2, <2>3 DEF SeedNeeded, Settle
  <2>5. ~epochs[DayOf(n)].revealed
    BY <1>6, <1>7, <2>3 DEF SeedSecretWhileNeeded, Settle
  <2> QED BY <2>4, <2>5, RevealSteps
<1>9. CASE ~FinishCycle
  <2>1. gen = 3
    BY <1>9, Owners
  <2>2. ~epochs[DayOf(n)].revealed
    BY <1>6, <1>7, <2>1 DEF SeedSecretWhileNeeded, Settle
  <2> QED BY <1>9, <2>2, RevealSteps
<1> QED BY <1>8, <1>9

-----------------------------------------------------------------------------
(* Contracts and pauses *)

LEMMA KeptInit == Init => TicksAreKept
BY DEF Init, TicksAreKept

\* No step takes a tick from a contract: notice of a pause outlives the contracts that
\* are open or about to be, and the gate refuses those that would run into one.
LEMMA KeptNext ==
    ASSUME TypeOK, GenerationFollows, PausesAreKept, ViewWasTrue, BoughtAhead, TicksAreKept, [Next]_vars
    PROVE  TicksAreKept'
<1> SUFFICES ASSUME bad' = {}
             PROVE  /\ ~halted'
                    /\ gen' = 3 => \A b \in Buy : buy'[b].st \in {"gated", "open"} =>
                          /\ buy'[b].entry + 1 > Last'
                          /\ ~InPause(resume', buy'[b].entry) /\ ~InPause(resume', buy'[b].entry + 1)
  BY DEF TicksAreKept, Settle
<1>1. bad = {} /\ ~halted
  BY Owners DEF TicksAreKept
<1>2. ~halted'
  <2>1. ~Halt
    BY <1>1 DEF Halt
  <2>2. ASSUME NEW n, Published(n) PROVE ~halted'
    BY <1>1, <2>2 DEF Published
  <2> QED BY <1>1, <2>1, <2>2, Owners
<1>3. ASSUME gen' = 3, NEW b \in Buy, buy'[b].st \in {"gated", "open"}
      PROVE  /\ buy'[b].entry + 1 > Last'
             /\ ~InPause(resume', buy'[b].entry) /\ ~InPause(resume', buy'[b].entry + 1)
  <2> DEFINE e == buy'[b].entry
  <2>1. Last \in Nat /\ Last' \in Nat /\ clock \in Nat /\ Last <= clock
    BY LastGrows, LastIs
  <2>2. BoughtAhead' /\ TypeOK'
    BY BoughtNext, TypeNext
  <2>3. e \in Nat /\ clock' \in Nat /\ e <= clock' + 1
    <3>1. clock' \in Nat
      BY <2>2, Bounds DEF TypeOK
    <3> QED BY <1>3, <2>2, <3>1 DEF BoughtAhead
  <2>4. CASE gen = 2
    <3>1. FinishCycle /\ resume.status = "none" /\ UNCHANGED <<resume, ticks, buy, clock>>
      BY <1>3, <2>4, Owners, WorkerReads DEF GenerationFollows
    <3>2. buy[b].st = "gated"
      <4>1. Open = {}
        BY <1>3, <2>4, <3>1 DEF FinishCycle
      <4> QED BY <1>3, <3>1, <4>1 DEF Open
    <3>3. e > clock
      BY <3>1, <3>2 DEF BoughtAhead, Gated
    <3> QED BY <2>1, <2>3, <3>1, <3>3, SameLast DEF InPause, Waiting
  <2>5. CASE gen = 3
    <3>1. CASE BuyGate(b) /\ e = clock + 1 /\ PurchaseGate(clock + 1)
      <4>1. UNCHANGED <<ticks, resume>>
        BY <3>1 DEF BuyGate, db
      <4>2. ~PauseBlocks(clock + 1)
        BY <2>5, <3>1 DEF PurchaseGate
      <4>3. ~InPause(resume, clock + 1) /\ ~InPause(resume, clock + 1 + 1)
        BY <2>1, <4>2, Fields DEF PauseBlocks, InPause
      <4> QED BY <2>1, <3>1, <4>1, <4>3, SameLast
    <3>2. CASE e = buy[b].entry /\ buy[b].st \in {"gated", "open"}
      <4>1. e + 1 > Last /\ ~InPause(resume, e) /\ ~InPause(resume, e + 1)
        BY <1>1, <2>5, <3>2 DEF TicksAreKept, Settle
      <4> HIDE DEF e
      <4>2. ASSUME NEW n \in NextTick, Published(n)
            PROVE  e + 1 > Last' /\ ~InPause(resume', e) /\ ~InPause(resume', e + 1)
        <5>1. buy[b].st = "open" /\ Settle(b) # n
          <6>1. buy[b].st # "gated"
            BY <4>2 DEF Published, Gated
          <6>2. SettleTicks({n})
            BY <4>2 DEF Published
          <6>3. buy'[b].st = "open" => Settle(b) \notin {n}
            BY <6>2, Settled
          <6>4. buy[b].st = "open" /\ buy'[b].st # "gated"
            BY <3>2, <6>1, <6>2, Settled
          <6> QED BY <1>3, <6>3, <6>4
        <5>2. e + 1 # n
          BY <3>2, <5>1 DEF Settle
        <5>3. n \in Nat /\ Last < n /\ Last' = n
          BY <4>2, PublishedFacts
        <5>4. CASE Resuming(n)
          <6>1. n = resume.genesis + 1 /\ resume' = NoResume
            BY <4>2, <5>4, PublishedFacts
          <6>2. Waiting(resume) /\ Last = resume.pause
            BY <5>4 DEF Resuming, Waiting, PausesAreKept
          <6>3. e + 1 > resume.genesis
            BY <2>1, <2>3, <4>1, <6>2, Fields DEF InPause
          <6> QED BY <2>3, <5>2, <5>3, <6>1, <6>3, Fields DEF InPause, Waiting, NoResume
        <5>5. CASE ~Resuming(n)
          <6>1. n = Last + 1 /\ resume' = resume
            BY <4>2, <5>5, PublishedFacts
          <6> QED BY <2>1, <2>3, <4>1, <5>2, <5>3, <6>1
        <5> QED BY <5>4, <5>5
      <4>3. ASSUME UNCHANGED ticks, ~\E n \in NextTick : Published(n)
            PROVE  e + 1 > Last' /\ ~InPause(resume', e) /\ ~InPause(resume', e + 1)
        <5>1. Last' = Last
          BY <4>3, SameLast
        <5>2. ASSUME NEW d \in Named, ScheduleResume(d) PROVE ~InPause(resume', e) /\ ~InPause(resume', e + 1)
          <6>1. Start(d) - clock >= TicksPerDay /\ resume'.pause = Start(d) - PauseLead /\ resume'.pause \in Nat
            BY <1>1, <5>2, ScheduledFacts
          <6>2. Start(d) \in Nat /\ UNCHANGED clock
            BY <5>2, NamedDays, Starts DEF ScheduleResume
          <6>3. e + 1 <= resume'.pause
            BY <2>1, <2>3, <6>1, <6>2, Bounds
          <6> QED BY <2>3, <6>1, <6>3 DEF InPause
        <5>3. ASSUME resume' = NoResume \/ resume' = resume PROVE ~InPause(resume', e) /\ ~InPause(resume', e + 1)
          BY <4>1, <5>3 DEF InPause, Waiting, NoResume
        <5>4. ASSUME resume' = [resume EXCEPT !.status = "committed"] /\ resume.status = "scheduled"
              PROVE  ~InPause(resume', e) /\ ~InPause(resume', e + 1)
          <6>1. resume'.pause = resume.pause /\ resume'.genesis = resume.genesis /\ Waiting(resume)
            BY <5>4 DEF TypeOK, ResumeRow, Waiting
          <6> QED BY <4>1, <6>1 DEF InPause
        <5>5. ASSUME NEW g, Committed(g)
              PROVE  \/ resume' = resume
                     \/ resume' = [resume EXCEPT !.status = "committed"] /\ resume.status = "scheduled"
          BY <5>5 DEF Committed
        <5>6. MissResume => resume' \in {NoResume, resume}
          BY WorkerReads
        <5>7. ~InPause(resume', e) /\ ~InPause(resume', e + 1)
          BY <4>3, <5>2, <5>3, <5>4, <5>5, <5>6, Owners
        <5> QED BY <4>1, <5>1, <5>7
      <4>4. ~AdvanceV2
        BY <2>5 DEF AdvanceV2
      <4> QED BY <4>2, <4>3, <4>4, Owners DEF e
    <3> QED BY <1>3, <3>1, <3>2, ContractSteps
  <2> QED BY <2>4, <2>5 DEF TypeOK
<1> QED BY <1>2, <1>3

-----------------------------------------------------------------------------
(* Windows *)

LEMMA WindowsInit == Init => WindowsAreMet
<1> SUFFICES ASSUME Init PROVE WindowsAreMet
  OBVIOUS
<1>1. TypeOK /\ wk.pc # "commit" /\ clock = 0 /\ age = 0
  BY TypeInit DEF Init, Down
<1>2. ASSUME Days # {} PROVE GiveUp <= Start(Top(Days) + 1) - Lead
  <2>1. Top(Days) \in Nat
    BY <1>1, <1>2, TopDay
  <2>2. Start(Top(Days)) \in Nat /\ Start(Top(Days) + 1) = Start(Top(Days)) + TicksPerDay
    BY <2>1, Starts
  <2> QED BY <2>2, Bounds
<1> QED BY <1>1, <1>2, Bounds DEF WindowsAreMet

\* The window of a day that is two days away is not about to close.
LEMMA FarWindow ==
    ASSUME NEW t \in Nat, NEW d \in Nat, DayOf(t) + 1 < d
    PROVE  t + GiveUp <= Start(d) - Lead
<1>1. DayOf(t) \in Nat /\ t < Start(DayOf(t) + 1)
  BY DayOfTick
<1>2. DayOf(t) + 1 \in Nat
  BY <1>1
<1>3. Start(DayOf(t) + 1 + 1) <= Start(d) /\ Start(DayOf(t) + 1 + 1) = Start(DayOf(t) + 1) + TicksPerDay
  BY <1>2, Starts, StartsGrow
<1>4. Start(DayOf(t) + 1) \in Nat /\ Start(d) \in Nat
  BY <1>2, Starts
<1> QED BY <1>1, <1>3, <1>4, Bounds

LEMMA WindowsNext ==
    ASSUME TypeOK, GenerationFollows, PausesAreKept, ViewWasTrue, WindowsAreMet, [Next]_vars
    PROVE  WindowsAreMet'
<1> SUFFICES ASSUME ~missed'
             PROVE  /\ age' <= GiveUp =>
                         IF Days' = {} THEN clock' = age'
                         ELSE clock' - age' + GiveUp <= Start(Top(Days') + 1) - Lead
                    /\ wk'.pc = "commit" /\ wk'.age <= GiveUp => wk'.view.now <= Start(wk'.next) - Lead
  BY DEF WindowsAreMet
<1>1. ~missed
  BY Owners DEF EndCommit
<1>2. clock \in Nat /\ age \in Nat /\ GiveUp \in Nat /\ Lead \in Nat /\ wk.view.now \in Nat /\ wk.view.now <= clock
  BY LastIs, Bounds, Fields DEF TypeOK, ViewWasTrue
<1>3. /\ age <= GiveUp =>
           IF Days = {} THEN clock = age ELSE clock - age + GiveUp <= Start(Top(Days) + 1) - Lead
      /\ wk.pc = "commit" /\ wk.age <= GiveUp => wk.view.now <= Start(wk.next) - Lead
  BY <1>1 DEF WindowsAreMet
<1>4. Days # {} => Top(Days) + 1 \in Nat /\ Start(Top(Days) + 1) \in Nat
  <2>1. Days # {} => Top(Days) + 1 \in Nat
    BY TopDay
  <2> QED BY <2>1, Starts
<1>5. ASSUME NEW g \in GenesisFor, Committed(g)
      PROVE  /\ age' <= GiveUp => clock' - age' + GiveUp <= Start(Top(Days') + 1) - Lead
             /\ Days' # {}
             /\ wk'.pc = "commit" /\ wk'.age <= GiveUp => wk'.view.now <= Start(wk'.next) - Lead
  <2>1. /\ wk.next \in Nat /\ Days' = Days \union {wk.next} /\ Top(Days') = wk.next
        /\ Days # {} => wk.next = Top(Days) + 1
        /\ wk'.view = wk.view /\ wk'.next = wk.next + 1 /\ wk'.age = wk.age /\ wk.pc = "commit"
    BY <1>5, CommittedFacts DEF Committed
  <2>2. UNCHANGED <<clock, age>>
    BY <1>5 DEF Committed
  <2>3. Start(wk.next) \in Nat /\ Start(wk.next + 1) = Start(wk.next) + TicksPerDay
    BY <2>1, Starts
  <2>4. age <= GiveUp => clock - age + GiveUp <= Start(wk.next + 1) - Lead
    BY <1>2, <1>3, <2>1, <2>3, Bounds
  <2>5. wk.age <= GiveUp => wk.view.now <= Start(wk.next + 1) - Lead
    BY <1>2, <1>3, <2>1, <2>3, Bounds
  <2>6. Days' # {}
    BY <2>1
  <2> QED BY <2>1, <2>2, <2>4, <2>5, <2>6
<1>6. age' <= GiveUp =>
         IF Days' = {} THEN clock' = age' ELSE clock' - age' + GiveUp <= Start(Top(Days') + 1) - Lead
  <2>1. CASE Days' = Days /\ UNCHANGED <<clock, age>>
    BY <1>3, <2>1
  <2>2. CASE Elapse
    <3>1. clock' = clock + 1 /\ age' = (IF age > GiveUp THEN age ELSE age + 1) /\ Days' = Days
      BY <2>2 DEF Elapse, db, Days
    <3>2. age' <= GiveUp => age' = age + 1 /\ age <= GiveUp
      BY <1>2, <3>1
    <3>3. age' <= GiveUp => clock' - age' = clock - age
      BY <1>2, <3>1, <3>2
    <3> QED BY <1>2, <1>3, <3>1, <3>2, <3>3
  <2>3. CASE EndCommit
    <3>1. /\ wk.pc = "commit" /\ ~(MoreToCommit /\ WindowClosed) /\ Days' = Days /\ UNCHANGED clock
          /\ MoreToCommit => GenesisFor = {} /\ ~GivesUp
          /\ age' = IF clock - wk.view.now > GiveUp THEN GiveUp + 1 ELSE clock - wk.view.now
      BY <2>3 DEF EndCommit, db, Days
    <3>2. DayOf(wk.view.now) \in Nat
      BY <1>2, DayOfTick
    <3>3. Days # {}
      <4> SUFFICES ASSUME Days = {} PROVE FALSE
        OBVIOUS
      <4>1. wk.next <= DayOf(wk.view.now) + 1
        BY <3>1 DEF ViewWasTrue
      <4>2. MoreToCommit
        BY <3>2, <4>1, Fields, Bounds DEF MoreToCommit
      <4>3. gen = 2
        BY DEF GenerationFollows, TypeOK
      <4>4. GenesisFor # {}
        BY <4>3 DEF GenesisFor, GenerationFollows
      <4> QED BY <3>1, <4>2, <4>4
    <3>4. wk.next = Top(Days) + 1 /\ wk.next \in Nat /\ Start(wk.next) \in Nat
      BY <1>4, <3>1, <3>3 DEF ViewWasTrue
    <3>5. wk.view.now + GiveUp <= Start(wk.next) - Lead
      <4>1. CASE MoreToCommit
        BY <1>2, <3>1, <3>4, <4>1 DEF GivesUp
      <4>2. CASE ~MoreToCommit
        <5>1. DayOf(wk.view.now) + 1 < wk.next
          BY <3>2, <3>4, <4>2, Bounds DEF MoreToCommit
        <5> QED BY <1>2, <3>4, <5>1, FarWindow
      <4> QED BY <4>1, <4>2
    <3>6. age' <= GiveUp => clock - age' = wk.view.now
      BY <1>2, <3>1
    <3> QED BY <1>2, <3>1, <3>3, <3>4, <3>5, <3>6
  <2>4. UNCHANGED <<clock, age>> \/ Elapse \/ EndCommit
    BY Owners DEF EndCommit
  <2>5. Days' = Days \/ \E g \in GenesisFor : Committed(g)
    BY DaysKept
  <2> QED BY <1>5, <2>1, <2>2, <2>3, <2>4, <2>5
<1>7. wk'.pc = "commit" /\ wk'.age <= GiveUp => wk'.view.now <= Start(wk'.next) - Lead
  <2>1. CASE Calm
    BY <1>3, <2>1 DEF Calm
  <2>2. CASE BeginCycle
    <3>1. /\ wk'.view.now = clock /\ wk'.age = age
          /\ IF Days # {} THEN wk'.next = Top(Days) + 1
             ELSE IF clock <= Start(DayOf(clock)) - Lead THEN wk'.next = DayOf(clock)
             ELSE wk'.next = DayOf(clock) + 1
      BY <2>2, WorkerReads, SnapshotType
    <3>2. CASE Days # {}
      BY <1>2, <1>3, <1>4, <3>1, <3>2
    <3>3. CASE Days = {} /\ age <= GiveUp
      <4>1. clock = age
        BY <1>3, <3>3
      <4>2. Start(0) = 0 /\ 0 \in Nat /\ Start(0 + 1) = Start(0) + TicksPerDay
        BY Starts, Bounds, SMTT(30) DEF Start
      <4>3. DayOf(clock) = 0
        BY <1>2, <3>3, <4>1, <4>2, OnlyDay, Bounds
      <4>4. wk'.next = 1
        BY <1>2, <3>1, <3>3, <4>2, <4>3, Bounds
      <4> QED BY <1>2, <3>1, <3>3, <4>1, <4>2, <4>4, Bounds
    <3> QED BY <3>1, <3>2, <3>3
  <2>3. CASE MissResume
    BY <1>3, <2>3, WorkerReads
  <2>4. CASE EndCommit
    BY <2>4, WorkerReads
  <2> QED BY <1>5, <2>1, <2>2, <2>3, <2>4, Owners
<1> QED BY <1>6, <1>7

-----------------------------------------------------------------------------
(* What the runs check, for every value of the constants *)

LEMMA InvInit == Init => IInv
BY TypeInit, GenerationInit, PausesInit, ViewInit, BoughtInit, KeptInit, WindowsInit, SeedInit DEF IInv

LEMMA InvNext == IInv /\ [Next]_vars => IInv'
BY TypeNext, GenerationNext, PausesNext, ViewNext, BoughtNext, KeptNext, WindowsNext, SeedNext DEF IInv

\* The inductive invariant holds in every reachable state: with the types of the index,
\* the worker and the contracts, what the guards of the database and of the worker
\* establish together, whatever the worker, staff and customers do in between.
THEOREM EngineV3Inductive == Spec => []IInv
BY InvInit, InvNext, PTL DEF Spec

\* engine_v3_reveal_epoch, the gate and the cutover together keep the seed of a day
\* secret while a contract that is open, failed or about to be needs it.
THEOREM EngineV3SeedSecret == Spec => []SeedSecretWhileNeeded
<1>1. IInv => SeedSecretWhileNeeded
  BY DEF IInv
<1> QED BY <1>1, EngineV3Inductive, PTL

\* v3_purchase_block and the notice of a resume leave every open contract its ticks.
THEOREM EngineV3ContractsHaveTicks == Spec => []ContractsHaveTicks
<1>1. IInv => ContractsHaveTicks
  BY DEF IInv, TicksAreKept, ContractsHaveTicks
<1> QED BY <1>1, EngineV3Inductive, PTL

LEMMA MissedStep == IInv /\ [Next]_vars => [missed' /\ ~missed => wk.age > GiveUp]_vars
<1> SUFFICES ASSUME IInv, Next, missed', ~missed PROVE wk.age > GiveUp
  OBVIOUS
<1>1. TypeOK /\ ViewWasTrue /\ WindowsAreMet
  BY DEF IInv
<1>2. EndCommit
  BY <1>1, Owners
<1>3. wk.pc = "commit" /\ wk.view.now > Start(wk.next) - Lead
  BY <1>2 DEF EndCommit, WindowClosed
<1>4. wk.age \in Nat /\ GiveUp \in Nat /\ wk.view.now \in Nat /\ Start(wk.next) - Lead \in Int
  <2>1. Start(wk.next) \in Nat
    BY <1>1, Fields, Starts
  <2> QED BY <1>1, <2>1, Fields, Bounds
<1>5. ~(wk.age <= GiveUp)
  BY <1>1, <1>3, <1>4 DEF WindowsAreMet
<1> QED BY <1>4, <1>5

\* ensureCommitments misses a window only when the worker was away for longer than it
\* gives up a resume before the window closes.
THEOREM EngineV3MissedOnlyAfterOutage == Spec => MissedOnlyAfterOutage
<1>1. IInv /\ [Next]_vars => [missed' /\ ~missed => wk.age > GiveUp]_vars
  BY MissedStep
<1> QED BY <1>1, EngineV3Inductive, PTL DEF Spec, MissedOnlyAfterOutage

-----------------------------------------------------------------------------
(* Refinement of TickLog *)

LEMMA StartsDay == ASSUME NEW d \in Nat PROVE TL!Starts(Start(d))
<1>1. (d * TicksPerDay) % TicksPerDay = 0
  BY Bounds, SMTT(30)
<1> QED BY <1>1 DEF TL!Starts, Start

\* The greatest member of D below n.
LEMMA BeforeIs ==
    ASSUME NEW D \in SUBSET Nat, NEW n \in Nat, NEW m \in D, m < n, \A k \in D : k < n => k <= m
    PROVE  (CHOOSE x \in D : x < n /\ \A k \in D : k < n => k <= x) = m
<1> DEFINE x == CHOOSE x \in D : x < n /\ \A k \in D : k < n => k <= x
<1>1. x \in D /\ x < n /\ \A k \in D : k < n => k <= x
  OBVIOUS
<1>2. x \in Nat /\ m \in Nat /\ x <= m /\ m <= x
  BY <1>1
<1> QED BY <1>2

Public == {d \in Days : epochs[d].revealed}

\* The ticks of one transaction continue the log.
LEMMA LogGrows ==
    ASSUME TypeOK, GenerationFollows, PausesAreKept, ViewWasTrue, [Next]_vars,
           AdvanceV2 \/ \E n \in NextTick : Published(n)
    PROVE  TL!Publish
<1> DEFINE all == DOMAIN ticks'
           new == all \ DOMAIN ticks
           before(n) == CHOOSE m \in all : m < n /\ \A k \in all : k < n => k <= m
<1>1. UNCHANGED <<clock, first, epochs>>
  BY DEF AdvanceV2, Published
<1>2. Days' = Days /\ Public' = Public
  BY <1>1 DEF Days, Public
<1>3. \A m \in DOMAIN ticks : m \in Nat /\ m <= Last
  BY LastIs DEF TypeOK
<1>4. /\ new # {}
      /\ \A m \in DOMAIN ticks : m \in all /\ ticks'[m] = ticks[m]
      /\ \A n \in new : /\ Last < n /\ n <= clock
                        /\ ticks'[n] = before(n)
                        /\ before(n) = n - 1 \/ TL!Starts(n)
                        /\ n > first => DayOf(n) \in Days
  <2>1. CASE AdvanceV2
    <3>1. /\ Last' \in Nat /\ Last < Last' /\ Last' <= clock /\ Last' <= first
          /\ all = DOMAIN ticks \union (Last + 1..Last')
          /\ \A n \in Last + 1..Last' : ticks'[n] = n - 1
          /\ \A n \in DOMAIN ticks : ticks'[n] = ticks[n]
      BY <2>1, AdvanceFacts
    <3>2. Last \in DOMAIN ticks /\ Last \in Nat /\ clock \in Nat /\ first \in Nat
      BY LastIs, Bounds DEF TypeOK
    <3>3. new = Last + 1..Last'
      BY <1>3, <3>1, <3>2
    <3>4. all \in SUBSET Nat
      BY <1>3, <3>1, <3>2
    <3> HIDE DEF all, new
    <3>5. ASSUME NEW n \in new PROVE before(n) = n - 1
      <4>1. n \in Nat /\ n - 1 \in all /\ n - 1 < n /\ \A k \in all : k < n => k <= n - 1
        BY <3>1, <3>2, <3>3, <3>4
      <4> HIDE DEF before
      <4> QED BY <3>4, <4>1, BeforeIs DEF before
    <3> HIDE DEF before
    <3>6. \A n \in new : Last < n /\ n <= clock /\ ~(n > first) /\ ticks'[n] = n - 1
      BY <3>1, <3>2, <3>3
    <3>7. Last' \in new
      BY <3>1, <3>2, <3>3
    <3> QED BY <3>1, <3>5, <3>6, <3>7
  <2>2. ASSUME NEW n \in NextTick, Published(n)
        PROVE  /\ new = {n} /\ all = DOMAIN ticks \union {n} /\ Last < n /\ n <= clock /\ ticks'[n] = before(n)
               /\ before(n) = n - 1 \/ TL!Starts(n)
               /\ DayOf(n) \in Days /\ \A m \in DOMAIN ticks : ticks'[m] = ticks[m]
    <3>1. /\ n \in Nat /\ n <= clock /\ Last < n /\ all = DOMAIN ticks \union {n}
          /\ ticks'[n] = Last /\ DayOf(n) \in Days /\ \A m \in DOMAIN ticks : ticks'[m] = ticks[m]
          /\ IF Resuming(n) THEN n = Start(resume.epoch) /\ resume.epoch \in Nat ELSE n = Last + 1
      BY <2>2, PublishedFacts
    <3>2. Last \in DOMAIN ticks /\ Last \in Nat
      BY LastIs
    <3>3. new = {n} /\ all \in SUBSET Nat /\ Last \in all /\ \A k \in all : k < n => k <= Last
      BY <1>3, <3>1, <3>2
    <3> HIDE DEF all, new
    <3>4. before(n) = Last
      BY <3>1, <3>3, BeforeIs
    <3> HIDE DEF before
    <3>5. before(n) = n - 1 \/ TL!Starts(n)
      BY <3>1, <3>2, <3>4, StartsDay
    <3> QED BY <3>1, <3>3, <3>4, <3>5
  <2> HIDE DEF before
  <2>3. CASE \E n \in NextTick : Published(n)
    <3>1. PICK n \in NextTick : Published(n)
      BY <2>3
    <3>2. /\ new = {n} /\ all = DOMAIN ticks \union {n} /\ Last < n /\ n <= clock /\ ticks'[n] = before(n)
          /\ before(n) = n - 1 \/ TL!Starts(n)
          /\ DayOf(n) \in Days /\ \A m \in DOMAIN ticks : ticks'[m] = ticks[m]
      BY <2>2, <3>1
    <3> HIDE DEF all, new
    <3> QED BY <3>2
  <2> QED BY <2>1, <2>3
<1>5. TL!Newest = Last /\ \A n : TL!DayOf(n) = DayOf(n)
  BY DEF TL!Newest, Last, TL!DayOf, DayOf
<1> QED BY <1>1, <1>2, <1>4, <1>5 DEF TL!Publish, Public

\* Every step of the index is a step of the log, or leaves it alone.
LEMMA LogStep == IInv /\ [Next]_vars => [TL!Next]_TL!vars
<1> SUFFICES ASSUME IInv, [Next]_vars PROVE [TL!Next]_TL!vars
  OBVIOUS
<1>1. TypeOK /\ GenerationFollows /\ PausesAreKept /\ ViewWasTrue
  BY DEF IInv
<1>2. CASE Elapse
  <2>1. clock' = clock + 1 /\ UNCHANGED <<first, ticks, epochs>>
    BY <1>2 DEF Elapse, db
  <2>2. TL!Elapse
    BY <2>1 DEF TL!Elapse, Days
  <2> QED BY <2>2 DEF TL!Next
<1>3. CASE AdvanceV2 \/ \E n \in NextTick : Published(n)
  BY <1>1, <1>3, LogGrows DEF TL!Next
<1>4. CASE \E g \in GenesisFor : Committed(g)
  <2>1. PICK g \in GenesisFor : Committed(g)
    BY <1>4
  <2>2. /\ wk.next \in Nat /\ Days' = Days \union {wk.next} /\ wk.next \notin Days
        /\ epochs'[wk.next] = [genesis |-> g, receipt |-> "none", revealed |-> FALSE]
        /\ \A d \in Days : epochs'[d] = epochs[d]
    BY <1>1, <2>1, CommittedFacts
  <2>3. Public' = Public
    BY <2>2 DEF Public
  <2>4. UNCHANGED <<clock, first, ticks>> /\ clock <= Start(wk.next) - Lead
    BY <2>1 DEF Committed, CommitAccepted
  <2>5. clock < wk.next * TicksPerDay
    <3>1. clock \in Nat /\ Start(wk.next) \in Nat
      BY <1>1, <2>2, LastIs, Starts
    <3>2. clock < Start(wk.next)
      BY <2>4, <3>1, Bounds
    <3> QED BY <3>2 DEF Start
  <2>6. TL!Commit(wk.next)
    BY <2>2, <2>3, <2>4, <2>5 DEF TL!Commit, Public
  <2>7. wk.next \in Days'
    BY <2>2
  <2> QED BY <2>6, <2>7 DEF TL!Next
<1>5. CASE FinishCycle
  <2>1. UNCHANGED <<clock, first, ticks>> /\ Days' = Days
    BY <1>1, <1>5, WorkerReads DEF FinishCycle, Days
  <2>2. Public \subseteq Public'
    <3>1. ASSUME NEW d \in Days, epochs[d].revealed PROVE epochs'[d].revealed
      <4>1. epochs'[d] = [epochs[d] EXCEPT !.revealed =
                @ \/ (d \in wk.view.days /\ wk.view.now >= Start(d + 1) + RevealDelay /\ ~SeedNeeded(d))]
        BY <1>5 DEF FinishCycle
      <4> QED BY <1>1, <3>1, <4>1, EpochFields DEF EpochRow
    <3> QED BY <2>1, <3>1 DEF Public
  <2>3. ASSUME NEW d \in Public' \ Public PROVE clock >= (d + 1) * TicksPerDay
    <3>1. d \in Days' /\ epochs'[d].revealed /\ (d \in Days => ~epochs[d].revealed)
      BY <2>3 DEF Public
    <3>2. d \in Days /\ wk.view.now >= Start(d + 1) + RevealDelay
      BY <1>1, <3>1, RevealSteps
    <3>3. Start(d + 1) \in Nat /\ wk.view.now \in Nat /\ wk.view.now <= clock /\ clock \in Nat
      <4>1. d + 1 \in Nat
        BY <1>1, <3>2, EpochFields
      <4> QED BY <1>1, <4>1, Starts, Fields, LastIs DEF ViewWasTrue
    <3>4. clock >= Start(d + 1)
      BY <3>2, <3>3, Bounds
    <3> QED BY <3>4 DEF Start
  <2>4. Public' \subseteq Days
    BY <2>1 DEF Public
  <2>5. TL!Reveal
    BY <2>1, <2>2, <2>3, <2>4 DEF TL!Reveal, Public
  <2> QED BY <2>5 DEF TL!Next
<1>6. CASE UNCHANGED <<clock, first, ticks>> /\ (Receipts \/ UNCHANGED epochs)
  <2>1. Days' = Days /\ Public' = Public
    BY <1>6 DEF Receipts, Days, Public
  <2> QED BY <1>6, <2>1 DEF TL!vars, Public
<1> QED BY <1>1, <1>2, <1>3, <1>4, <1>5, <1>6, Owners

\* publishDue, engine_v3_publish_tick, the commitments and the reveals keep the promise
\* of the tick log for every day length, batch, lead and schedule of rescales.
THEOREM EngineV3KeepsTickLog == Spec => KeepsTickLog
<1>1. Init => TL!Init
  <2> SUFFICES ASSUME Init PROVE TL!Init
    OBVIOUS
  <2>1. Public = {}
    BY DEF Init, GenThree, GenTwo, Days, Public
  <2> QED BY <2>1 DEF Init, TL!Init, Public
<1> QED BY <1>1, LogStep, EngineV3Inductive, PTL DEF Spec, KeepsTickLog, TL!Spec
=============================================================================
