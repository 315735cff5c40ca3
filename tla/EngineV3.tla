------------------------------ MODULE EngineV3 ------------------------------
(***************************************************************************)
(* Engine version 3 for one index: the worker of engine/v3/service, the    *)
(* witness attestor, and the database functions they call.  The worker     *)
(* takes one step per remote call, so that purchases, staff and time come  *)
(* between any two of them, and it may die or lose a reply.                *)
(*                                                                         *)
(* Time is in ticks: tick n is due at time n and day d begins at tick      *)
(* d * TicksPerDay.  A price is named by the tick that has it: what a tick *)
(* continues is the number of an earlier tick.  Seeds, keys and hashes are *)
(* fixed by the day of a tick and left out.                                *)
(***************************************************************************)
EXTENDS Integers, FiniteSets

CONSTANTS
    TicksPerDay,      \* length of a day
    Ahead,            \* days committed in advance
    Lead,             \* commitment must precede its day by this
    GiveUp,           \* a waiting resume is given up this long before that
    PauseLead,        \* length of the pause before a planned rescale, plus one
    RevealDelay,
    Batch,            \* ticks per index and cycle
    MaxLag,           \* purchases stop when the ticks are this late
    Buy,              \* purchases
    Breaches,         \* which ticks may fall out of the price band: sets of ticks
    MaxClock, MaxFaults, MaxResumes

ASSUME DayLongEnough ==
    /\ {TicksPerDay, Ahead, Lead, GiveUp, PauseLead, Batch} \subseteq Nat \ {0}
    /\ {RevealDelay, MaxLag} \subseteq Nat
    /\ Lead + GiveUp < PauseLead
    /\ PauseLead + 2 <= TicksPerDay      \* notice of a rescale outlives any contract
    /\ {MaxClock, MaxFaults, MaxResumes} \subseteq Nat
    /\ \A B \in Breaches : B \subseteq Nat

None == -1

VARIABLES
    clock,
    gen,       \* engine_generation of the index: 2 or 3
    first,     \* genesis_tick_no of the worker's parameters
    final,     \* v2_final_tick_no or None
    epochs,    \* committed day -> [genesis, receipt, revealed]
    ticks,     \* index_ticks: number -> the tick whose price it continues
    halted,    \* v3_halted_at is set
    resume,    \* the open row of engine_v3_resumes, status "none" if there is none
    buy,       \* purchase -> [st, entry]; its contract settles one tick after entry
    bad,       \* ticks whose price falls out of the band (fixed by the seed)
    wk,        \* the worker: pc and the locals of its cycle
    age,       \* time since the state of the worker's last completed ensureCommitments
    missed,    \* the worker has reported missed_epoch
    faults, resumes

db == <<gen, first, final, epochs, ticks, halted, resume, bad>>
history == <<age, missed, faults, resumes>>
vars == <<clock, db, buy, wk, history>>

DayOf(n) == n \div TicksPerDay
Start(d) == d * TicksPerDay
Larger(a, b) == IF a > b THEN a ELSE b

Last == CHOOSE n \in DOMAIN ticks : \A m \in DOMAIN ticks : m <= n
Days == DOMAIN epochs
Top(D) == CHOOSE d \in D : \A e \in D : e <= d

NoResume == [status |-> "none", epoch |-> None, pause |-> None, genesis |-> None]
Waiting(r) == r.status \in {"scheduled", "committed"}

Settle(b) == buy[b].entry + 1
Open == {b \in Buy : buy[b].st \in {"open", "failed"}}
Gated == {b \in Buy : buy[b].st = "gated"}

\* Does tick n fall into a pause that a resume announces?
InPause(r, n) == Waiting(r) /\ n > r.pause /\ n <= r.genesis

-----------------------------------------------------------------------------
(* Purchases: the gate of version 3 and of a cutover runs inside the       *)
(* purchase, which holds the index state FOR SHARE until it commits; the   *)
(* halt, the resumes and the cutover are read without a lock.              *)

\* Mutant: the gate forgets the announced pause.
NeverPaused(entry) == FALSE

\* Would entry or settlement fall into an announced pause?
PauseBlocks(entry) == Waiting(resume) /\ entry + 1 > resume.pause /\ entry <= resume.genesis

Attested(d) == d \in Days /\ epochs[d].receipt = "valid"

PurchaseGate(entry) ==
    IF gen = 2 THEN final = None \/ entry + 1 <= final
    ELSE /\ ~halted
         /\ ~PauseBlocks(entry)
         /\ clock - Last <= MaxLag
         /\ Attested(DayOf(entry)) /\ Attested(DayOf(entry + 1))

BuyGate(b) ==
    LET entry == Larger(Last, clock) + 1 IN
    /\ buy[b].st = "none"
    /\ PurchaseGate(entry)
    /\ buy' = [buy EXCEPT ![b] = [st |-> "gated", entry |-> entry]]
    /\ UNCHANGED <<clock, db, wk, history>>

BuyCommit(b) ==
    /\ buy[b].st = "gated"
    /\ buy' = [buy EXCEPT ![b].st = "open"]
    /\ UNCHANGED <<clock, db, wk, history>>

VoidByHand(b) ==
    /\ buy[b].st = "failed"
    /\ buy' = [buy EXCEPT ![b].st = "closed"]
    /\ UNCHANGED <<clock, db, wk, history>>

-----------------------------------------------------------------------------
(* Version 2, staff, time and the attestor.                                *)

\* engine_settle_tick for each of the ticks; each settlement may fail.
SettleTicks(N) ==
    LET due == {b \in Buy : buy[b].st = "open" /\ Settle(b) \in N} IN
    \E F \in SUBSET due :
        buy' = [b \in Buy |-> IF b \in F THEN [buy[b] EXCEPT !.st = "failed"]
                              ELSE IF b \in due THEN [buy[b] EXCEPT !.st = "closed"] ELSE buy[b]]

\* A run of engine_advance: all ticks that are due, up to a scheduled cutover.
AdvanceV2 ==
    LET due == {n \in Last + 1..clock : final # None => n <= final} IN
    /\ gen = 2 /\ due # {} /\ Gated = {}
    /\ ticks' = [m \in DOMAIN ticks \union due |-> IF m \in due THEN m - 1 ELSE ticks[m]]
    /\ SettleTicks(due)
    /\ UNCHANGED <<clock, gen, first, final, epochs, halted, resume, bad, wk, history>>

ScheduleCutover(d) ==
    /\ gen = 2 /\ final = None
    /\ d \in Days
    /\ epochs[d].genesis.no = Start(d) - 1
    /\ Last < Start(d) - 1
    /\ final' = Start(d) - 1
    /\ UNCHANGED <<clock, gen, first, epochs, ticks, halted, resume, buy, bad, wk, history>>

\* A halted index resumes from its last tick; a running one is paused in advance.
ScheduleResume(d) ==
    LET pause == IF halted THEN Last ELSE Start(d) - PauseLead IN
    /\ gen = 3 /\ resumes < MaxResumes
    /\ ~Waiting(resume)
    /\ Days # {} /\ d > Top(Days)
    /\ ~halted => Start(d) - clock >= TicksPerDay /\ pause > Last
    /\ resume' = [status |-> "scheduled", epoch |-> d, pause |-> pause, genesis |-> Start(d) - 1]
    /\ resumes' = resumes + 1
    /\ UNCHANGED <<clock, gen, first, final, epochs, ticks, halted, buy, bad, wk, age, missed, faults>>

\* A purchase's statement ends before the clock moves: its timeout is short.  An
\* index that stays in version 2 is followed no further.
Elapse ==
    /\ clock < MaxClock /\ Gated = {}
    /\ gen = 2 /\ final = None => clock < first
    /\ clock' = clock + 1
    /\ age' = IF age > GiveUp THEN age ELSE age + 1
    /\ UNCHANGED <<db, buy, wk, missed, faults, resumes>>

\* The first tradable tick of the day: a receipt must be older.
Deadline(d) == Larger(Start(d), epochs[d].genesis.no + 1)

\* The attestor judges a submitted receipt by the time in its token.
Attest(d) ==
    /\ d \in Days /\ epochs[d].receipt \in {"early", "tardy"}
    /\ epochs' = [epochs EXCEPT ![d].receipt = IF @ = "early" THEN "valid" ELSE "late"]
    /\ UNCHANGED <<clock, gen, first, final, ticks, halted, resume, buy, bad, wk, history>>

-----------------------------------------------------------------------------
(* The worker.  Its view is what engine_v3_writer_state returned, its plan *)
(* what engine_v3_resume_plan did; both grow stale during a cycle.         *)

Snapshot == [now |-> clock, days |-> Days, last |-> Last, gen |-> gen, halted |-> halted]

Down == [pc |-> "down", view |-> [now |-> 0, days |-> {}, last |-> 0, gen |-> 2, halted |-> FALSE],
         plan |-> NoResume, next |-> 0, did |-> FALSE, age |-> 0, no |-> 0, due |-> 0, left |-> 0]

\* On to reveals and cutovers, which need only the state of the cycle.
Finish == wk' = [Down EXCEPT !.pc = "finish", !.view = wk.view]

\* A cycle that failed with an exception, or is over: the next one starts anew.
Idle == wk' = [Down EXCEPT !.pc = "idle"]

\* The advisory lock belongs to the database session the worker writes with.
AcquireLeadership ==
    /\ wk.pc = "down"
    /\ Idle
    /\ UNCHANGED <<clock, db, buy, history>>

\* Heartbeat, state and plan.  What staff may do between the two reads, scheduling a
\* resume or a cutover, is not in what the first returned.
BeginCycle ==
    /\ wk.pc = "idle"
    /\ LET today == DayOf(clock)
           next == IF Days # {} THEN Top(Days) + 1 ELSE IF clock <= Start(today) - Lead THEN today ELSE today + 1
       IN wk' = [wk EXCEPT !.pc = "commit", !.view = Snapshot, !.plan = resume, !.next = next, !.age = age]
    /\ UNCHANGED <<clock, db, buy, history>>

\* ensureCommitments: still a day to commit in this cycle?
MoreToCommit == wk.next <= DayOf(wk.view.now) + Ahead

WindowClosed == wk.view.now > Start(wk.next) - Lead

\* Mutant: a waiting resume is only given up when the window has closed.
NeverGivesUp == FALSE

\* "Shortly before the window closes": then the resume is missed.
GivesUp == wk.view.now > Start(wk.next) - Lead - GiveUp

\* genesisFor: none while a resume of this day waits for its pause tick.
GenesisFor ==
    IF wk.plan.status = "scheduled" /\ wk.plan.epoch = wk.next
    THEN IF wk.view.last = wk.plan.pause
         THEN {[no |-> wk.plan.genesis, base |-> wk.view.last]} ELSE {}
    ELSE IF wk.view.gen = 3 THEN {epochs[wk.next - 1].genesis} ELSE {[no |-> first, base |-> first]}

\* What engine_v3_commit_epoch accepts for day d.
CommitAccepted(d, g) ==
    /\ clock <= Start(d) - Lead
    /\ Days # {} => d = Top(Days) + 1
    /\ gen = 3 =>
        IF resume.status = "scheduled" /\ resume.epoch = d
        THEN Last = resume.pause /\ g = [no |-> resume.genesis, base |-> Last]
        ELSE Days # {} => g = epochs[Top(Days)].genesis

CommitEpoch ==
    /\ wk.pc = "commit" /\ MoreToCommit /\ ~WindowClosed
    /\ \E g \in GenesisFor :
        IF CommitAccepted(wk.next, g)
        THEN /\ epochs' = [d \in Days \union {wk.next} |->
                 IF d = wk.next THEN [genesis |-> g, receipt |-> "none", revealed |-> FALSE]
                 ELSE epochs[d]]
             /\ resume' = IF gen = 3 /\ resume.status = "scheduled" /\ resume.epoch = wk.next
                          THEN [resume EXCEPT !.status = "committed"] ELSE resume
             /\ wk' = [wk EXCEPT !.next = @ + 1, !.did = TRUE]
        ELSE Idle /\ UNCHANGED <<epochs, resume>>
    /\ UNCHANGED <<clock, gen, first, final, ticks, halted, buy, bad, history>>

\* The plan is read again afterwards; the day is then committed unchanged.
MissResume ==
    /\ wk.pc = "commit" /\ MoreToCommit /\ ~WindowClosed
    /\ GenesisFor = {} /\ GivesUp
    /\ resume' = IF resume.status = "scheduled" THEN NoResume ELSE resume
    /\ wk' = [wk EXCEPT !.plan = resume']
    /\ UNCHANGED <<clock, gen, first, final, epochs, ticks, halted, buy, bad, history>>

\* All committed, a window missed, or a resume to wait for: read the state again.
EndCommit ==
    /\ wk.pc = "commit"
    /\ MoreToCommit => WindowClosed \/ (GenesisFor = {} /\ ~GivesUp)
    /\ missed' = (missed \/ (MoreToCommit /\ WindowClosed))
    /\ age' = IF clock - wk.view.now > GiveUp THEN GiveUp + 1 ELSE clock - wk.view.now
    /\ wk' = [Down EXCEPT !.pc = "witness", !.view = Snapshot, !.plan = IF wk.did THEN resume ELSE wk.plan]
    /\ UNCHANGED <<clock, db, buy, faults, resumes>>

\* ensureWitnesses: the time stamping services answer or they do not.
Witnessed(ok) ==
    [d \in Days |-> IF ok /\ d \in wk.view.days /\ epochs[d].receipt = "none" /\ ~epochs[d].revealed
                     THEN [epochs[d] EXCEPT !.receipt = IF clock < Deadline(d) THEN "early" ELSE "tardy"]
                     ELSE epochs[d]]

\* Mutant: without a tick of its own the worker waits for one.
NoStartingPoint == IF wk.view.last > first THEN {wk.view.last} ELSE {}

\* The last published tick of version 3, or the genesis of its first day if there is none.
StartingPoint ==
    IF wk.view.last > first THEN {wk.view.last}
    ELSE IF DayOf(first + 1) \in wk.view.days THEN {epochs[DayOf(first + 1)].genesis.no} ELSE {}

\* Receipts, then the loop over indices and the start of publishDue.
Witness ==
    /\ wk.pc = "witness"
    /\ \E ok \in BOOLEAN : epochs' = Witnessed(ok)
    /\ IF wk.view.gen = 3 /\ (wk.view.halted => wk.plan.status = "committed") /\ StartingPoint # {}
       THEN \E n \in StartingPoint : wk' = [wk EXCEPT !.pc = "publish", !.due = clock, !.left = Batch, !.no = n]
       ELSE Finish
    /\ UNCHANGED <<clock, gen, first, final, ticks, halted, resume, buy, bad, history>>

\* The tick publishDue turns to, if it does not leave its loop.
NextTick ==
    LET n == wk.no + 1
        jump == wk.plan.genesis + 1
        pause == InPause(wk.plan, n)
    IN IF ~(wk.left > 0 /\ n <= wk.due) THEN {}
       ELSE IF ~pause THEN IF DayOf(n) \in wk.view.days THEN {n} ELSE {}
       ELSE IF /\ wk.plan.status = "committed" /\ wk.no = wk.plan.pause /\ jump <= wk.due
               /\ DayOf(jump) \in wk.view.days /\ epochs[DayOf(jump)].genesis.no = wk.plan.genesis
            THEN {jump} ELSE {}

\* Mutant: a tick continues the one numbered before it, whatever the configuration says.
ContinuesPrevious(n) == n - 1

\* The tick whose price tick n continues, as the worker derives it.
Continues(n) == LET g == epochs[DayOf(n)].genesis IN IF n = g.no + 1 THEN g.base ELSE n - 1

Resuming(n) == resume.status = "committed" /\ n = resume.genesis + 1

\* What engine_v3_publish_tick accepts.
TickAccepted(n) ==
    LET g == epochs[DayOf(n)].genesis IN
    /\ gen = 3 /\ ~InPause(resume, n)
    /\ halted => Resuming(n)
    /\ n <= clock
    /\ DayOf(n) \in Days
    /\ n > g.no
    /\ n = g.no + 1 \/ n - 1 \in DOMAIN ticks
    /\ IF Resuming(n) THEN Last = resume.pause /\ g.no = resume.genesis /\ g.base = Last
       ELSE Last = n - 1

\* The loop is left, or the tick's key cannot be had from custody: go on.
StopPublish ==
    /\ wk.pc = "publish"
    /\ NextTick = {} \/ faults < MaxFaults
    /\ faults' = IF NextTick = {} THEN faults ELSE faults + 1
    /\ Finish
    /\ UNCHANGED <<clock, db, buy, age, missed, resumes>>

\* The reply of the call may be lost: the tick is there and the worker goes on without it.
PublishTick ==
    /\ wk.pc = "publish" /\ Gated = {}
    /\ \E n \in NextTick \ bad :
        IF TickAccepted(n)
        THEN /\ ticks' = [m \in DOMAIN ticks \union {n} |-> IF m = n THEN Continues(n) ELSE ticks[m]]
             /\ halted' = (halted /\ ~Resuming(n))
             /\ resume' = IF Resuming(n) THEN NoResume ELSE resume
             /\ SettleTicks({n})
             /\ \/ /\ wk' = [wk EXCEPT !.no = n, !.left = (IF n = wk.no + 1 THEN @ ELSE Batch) - 1]
                   /\ UNCHANGED faults
                \/ faults < MaxFaults /\ faults' = faults + 1 /\ Finish
        ELSE Finish /\ UNCHANGED <<ticks, halted, resume, buy, faults>>
    /\ UNCHANGED <<clock, gen, first, final, epochs, bad, age, missed, resumes>>

Halt ==
    /\ wk.pc = "publish"
    /\ NextTick \intersect bad # {}
    /\ halted' = TRUE
    /\ wk' = [wk EXCEPT !.pc = "void"]
    /\ UNCHANGED <<clock, gen, first, final, epochs, ticks, resume, buy, bad, history>>

VoidUnproducible ==
    /\ wk.pc = "void"
    /\ buy' = [b \in Buy |-> IF b \in Open /\ Settle(b) > Last THEN [buy[b] EXCEPT !.st = "closed"] ELSE buy[b]]
    /\ Finish
    /\ UNCHANGED <<clock, db, history>>

\* Mutant: open contracts do not hold a seed back.
NothingNeeds(d) == FALSE

\* An open contract that touches the day holds its seed back.
SeedNeeded(d) == gen = 3 /\ \E b \in Open : Settle(b) >= Start(d) /\ buy[b].entry < Start(d + 1)

\* reveals and cutovers.
FinishCycle ==
    /\ wk.pc = "finish"
    /\ epochs' = [d \in Days |-> [epochs[d] EXCEPT !.revealed =
          @ \/ (d \in wk.view.days /\ wk.view.now >= Start(d + 1) + RevealDelay /\ ~SeedNeeded(d))]]
    /\ gen' = IF wk.view.gen = 2 /\ final # None /\ wk.view.now > final /\ wk.view.last = final /\ Open = {}
              THEN 3 ELSE gen
    /\ Idle
    /\ UNCHANGED <<clock, first, final, ticks, halted, resume, buy, bad, history>>

\* The process dies, or a call of the cycle fails: with its session goes the lock.
Crash ==
    /\ wk.pc # "down" /\ faults < MaxFaults
    /\ wk' = Down
    /\ faults' = faults + 1
    /\ UNCHANGED <<clock, db, buy, age, missed, resumes>>

-----------------------------------------------------------------------------
GenThree ==
    /\ gen = 3 /\ first = 0
    /\ epochs = [d \in {0} |-> [genesis |-> [no |-> 0, base |-> 0], receipt |-> "valid", revealed |-> FALSE]]

GenTwo ==
    /\ gen = 2 /\ first = TicksPerDay - 1
    /\ epochs = [d \in {} |-> 0]

Init ==
    /\ clock = 0
    /\ GenThree \/ GenTwo
    /\ final = None
    /\ ticks = [n \in {0} |-> 0]
    /\ halted = FALSE /\ resume = NoResume
    /\ buy = [b \in Buy |-> [st |-> "none", entry |-> None]]
    /\ bad \in Breaches
    /\ wk = Down
    /\ age = 0 /\ missed = FALSE /\ faults = 0 /\ resumes = 0

Worker ==
    \/ AcquireLeadership \/ BeginCycle \/ CommitEpoch \/ MissResume \/ EndCommit \/ Witness
    \/ StopPublish \/ PublishTick \/ Halt \/ VoidUnproducible \/ FinishCycle

Next ==
    \/ Elapse \/ AdvanceV2 \/ Worker \/ Crash
    \/ \E d \in 0..DayOf(MaxClock) + Ahead : ScheduleCutover(d) \/ ScheduleResume(d) \/ Attest(d)
    \/ \E b \in Buy : BuyGate(b) \/ BuyCommit(b) \/ VoidByHand(b)

Spec == Init /\ [][Next]_vars

\* Time passes, cron runs version 2, the worker's supervisor restarts it and its loop
\* goes on, statements of purchases end.  Staff and the attestor need not act.
FairSpec ==
    /\ Spec
    /\ WF_vars(Elapse) /\ WF_vars(AdvanceV2) /\ WF_vars(Worker)
    /\ \A b \in Buy : WF_vars(BuyCommit(b))

-----------------------------------------------------------------------------
Stage == {"down", "idle", "commit", "witness", "publish", "void", "finish"}
EpochRow == [genesis : [no : Nat, base : Nat], revealed : BOOLEAN,
             receipt : {"none", "early", "tardy", "valid", "late"}]
ResumeRow == [status : {"none", "scheduled", "committed"}, epoch : Int, pause : Int, genesis : Int]
View == [now : Nat, days : SUBSET Nat, last : Nat, gen : {2, 3}, halted : BOOLEAN]
WorkerState == [pc : Stage, view : View, plan : ResumeRow, next : Nat, did : BOOLEAN,
                age : 0..GiveUp + 1, no : Nat, due : Nat, left : 0..Batch]
Contract == [st : {"none", "gated", "open", "failed", "closed"}, entry : Nat \union {None}]

TypeOK ==
    /\ clock \in 0..MaxClock
    /\ gen \in {2, 3} /\ first \in {0, TicksPerDay - 1} /\ final \in {None, first}
    /\ Days \subseteq 0..MaxClock + Ahead /\ epochs \in [Days -> EpochRow]
    /\ 0 \in DOMAIN ticks /\ DOMAIN ticks \subseteq 0..clock
    /\ ticks \in [DOMAIN ticks -> DOMAIN ticks]
    /\ halted \in BOOLEAN /\ resume \in ResumeRow
    /\ buy \in [Buy -> Contract]
    /\ bad \in Breaches
    /\ wk \in WorkerState
    /\ age \in 0..GiveUp + 1 /\ missed \in BOOLEAN

-----------------------------------------------------------------------------
(* The inductive invariant: what the worker's stale view, the guards of    *)
(* the database and the gate of the purchase rely on together.             *)

\* Version 2 has neither resumes nor ticks of version 3; version 3 has a day.
GenerationFollows ==
    /\ gen = 3 \/ final # None => Days # {}
    /\ gen = 2 =>
        /\ first = TicksPerDay - 1 /\ Last <= first
        /\ final = None => clock <= first
        /\ resume.status = "none" /\ wk.plan.status = "none" /\ wk.view.gen = 2
        /\ \A d \in Days : epochs[d].genesis = [no |-> first, base |-> first]
    /\ \A n \in DOMAIN ticks : n > first => DayOf(n) \in Days

\* A resume starts a day; the ticks a new start leaves out are never published.
PausesAreKept ==
    /\ Waiting(resume) =>
        /\ resume.epoch \in Nat /\ resume.genesis + 1 = Start(resume.epoch)
        /\ resume.pause \in Nat /\ resume.pause <= resume.genesis
    /\ Waiting(wk.plan) => wk.plan.genesis \in Nat
    /\ resume.status = "committed" => Last = resume.pause
    /\ \A d \in Days : LET g == epochs[d].genesis IN
        /\ g.base <= g.no
        /\ \/ g.base = g.no
           \/ Last > g.no
           \/ resume.status = "committed" /\ g = [no |-> resume.genesis, base |-> resume.pause]

\* What the worker has read was true; only it commits days.
ViewWasTrue ==
    /\ wk.view.now <= clock /\ wk.view.days \subseteq Days
    /\ wk.pc = "commit" =>
        IF Days = {} THEN wk.next <= DayOf(wk.view.now) + 1 ELSE wk.next = Top(Days) + 1

\* Contracts are bought ahead of the clock, which waits for them; seeds follow it.
BoughtAhead ==
    /\ \A b \in Buy : buy[b].st # "none" => buy[b].entry \in Nat /\ buy[b].entry <= clock + 1
    /\ \A b \in Gated : buy[b].entry > clock
    /\ \A d \in Days : epochs[d].revealed => clock >= Start(d + 1)

\* No announced pause takes a tick of a contract, not even of one about to be bought.
TicksAreKept ==
    bad = {} =>
        /\ ~halted
        /\ gen = 3 => \A b \in Buy : buy[b].st \in {"gated", "open"} =>
            /\ Settle(b) > Last
            /\ ~InPause(resume, buy[b].entry) /\ ~InPause(resume, Settle(b))

\* A worker that completes its commitments every GiveUp ticks meets the next window.
WindowsAreMet ==
    ~missed =>
        /\ age <= GiveUp =>
            IF Days = {} THEN clock = age ELSE clock - age + GiveUp <= Start(Top(Days) + 1) - Lead
        /\ wk.pc = "commit" /\ wk.age <= GiveUp => wk.view.now <= Start(wk.next) - Lead

\* Every step of the worker, the database, staff and customers is a step of the tick
\* log or changes nothing there: one chain, no tick rewritten, resumes continue the
\* paused price, days committed before their ticks, seeds revealed after their day.
TL == INSTANCE TickLog WITH committed <- Days, revealed <- {d \in Days : epochs[d].revealed}

KeepsTickLog == TL!Spec

\* The seed of a day stays secret while an open or pending version 3 contract has a
\* tick in it, failed settlements and late ticks included (engine_v3_reveal_epoch).
SeedSecretWhileNeeded ==
    gen = 3 => \A b \in Open \union Gated : \A n \in {buy[b].entry, Settle(b)} :
        DayOf(n) \in Days => ~epochs[DayOf(n)].revealed

\* Without a price breach every open contract can still be settled: its ticks are not
\* skipped by a rescale, whenever staff schedule it (v3_purchase_block, publishDue).
ContractsHaveTicks ==
    gen = 3 /\ bad = {} => \A b \in Buy : buy[b].st = "open" =>
        /\ Settle(b) > Last
        /\ ~InPause(resume, buy[b].entry) /\ ~InPause(resume, Settle(b))

IInv ==
    /\ TypeOK /\ GenerationFollows /\ PausesAreKept /\ ViewWasTrue
    /\ BoughtAhead /\ TicksAreKept /\ WindowsAreMet /\ SeedSecretWhileNeeded

\* The worker misses a commitment window, which stalls the chain of days for good,
\* only if it has not completed its commitments for longer than the give-up time: a
\* resume that waits for its pause never costs the index its next day.
MissedOnlyAfterOutage == [][missed' /\ ~missed => wk.age > GiveUp]_vars

\* Once time stands still every due tick of version 3 gets published, after crashes,
\* lost replies, a cutover and a rescale, unless the index is halted or the tick falls
\* into a pause, or the chain of days has stalled.
FeedCatchesUp ==
    (gen = 3 /\ clock = MaxClock) ~> (Last = MaxClock \/ halted \/ missed \/ InPause(resume, MaxClock))
=============================================================================
