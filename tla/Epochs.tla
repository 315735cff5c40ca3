------------------------------- MODULE Epochs -------------------------------
(***************************************************************************)
(* The seeds behind the ticks of one mode: daily epochs committed by       *)
(* engine_advance, revealed once nothing open depends on them, and the     *)
(* purge of old ticks, while purchases and outages of the generator go on. *)
(*                                                                         *)
(* A run of engine_advance is one step here (DigitEngine has its inside);  *)
(* a purchase is two, because a seed could be revealed between the choice  *)
(* of its entry tick and its commit.  The clock counts due ticks.          *)
(***************************************************************************)
EXTENDS Integers, FiniteSets, FiniteSetsExt

CONSTANTS
    Buy,          \* purchase requests
    MaxCount,     \* max_ticks of the policy
    TicksPerDay,  \* ticks of one UTC day
    Batch,        \* ticks per run (50 in the code)
    FeedLag,      \* the 10 seconds of feed_stale
    Grace,        \* the 10 minutes after ends_at
    TxnLimit,     \* statement_timeout of a purchase
    Retention,    \* tick_retention_days
    MaxClock      \* bound: due ticks

ASSUME BoundsAssumption ==
    /\ {Batch, FeedLag, Grace, TxnLimit, Retention} \subseteq Nat
    /\ {MaxCount, TicksPerDay} \subseteq Nat \ {0} /\ MaxClock \in Nat
\* Ten seconds, a statement and ten ticks are far less than a day.
ASSUME DayIsLong == FeedLag + TxnLimit + MaxCount < TicksPerDay
ASSUME GraceIsLong == TxnLimit <= Grace

NoDay == -1
Never == -1
Ticks == 1..MaxClock
Day == 0..((MaxClock \div TicksPerDay) + 1)

DayOf(t) == t \div TicksPerDay
DayEnd(d) == (d + 1) * TicksPerDay

VARIABLES
    clock,      \* due ticks: floor((clock_timestamp() - t0) / interval)
    epochs,     \* engine_epochs: day -> when committed, and the day it chains to
    revealed,   \* days whose seed is public
    lastTick,   \* index_state.last_tick_no
    updatedAt,  \* index_state.updated_at
    genAt,      \* index_ticks.generated_at; Never before the tick and after its purge
    contract,   \* engine_contracts
    buy,        \* purchases that have chosen their entry tick
    revealing   \* the days a running engine_reveal_due_epochs has selected

vars == <<clock, epochs, revealed, lastTick, updatedAt, genAt, contract, buy, revealing>>

-----------------------------------------------------------------------------
(* engine_ensure_epoch, in the order one run calls it *)

Latest(days) == IF days = {} THEN NoDay ELSE Max(days)

\* "order by starts_at desc limit 1": for today, then tomorrow, then the days
\* of a backlog.
Previous(d, today) ==
    CASE d = today     -> Latest(DOMAIN epochs)
      [] d = today + 1 -> Latest(DOMAIN epochs \cup {today})
      [] OTHER         -> Latest(DOMAIN epochs \cup {today, today + 1})

Ensured(from, to) == {DayOf(clock), DayOf(clock) + 1} \cup {DayOf(t) : t \in from..to}

Commit(days) ==
    epochs' = [d \in DOMAIN epochs \cup days |->
                 IF d \in DOMAIN epochs THEN epochs[d]
                 ELSE [at |-> clock, prev |-> Previous(d, DayOf(clock))]]

OpenOn(ticks) == {b \in Buy : contract[b].state = "OPEN" /\ contract[b].settle \in ticks}

\* The engine after its first run, on the first day.
Init ==
    /\ clock = 0 /\ lastTick = 0 /\ updatedAt = 0
    /\ epochs = [d \in {0, 1} |-> [at |-> 0, prev |-> d - 1]]
    /\ revealed = {} /\ revealing = {}
    /\ genAt = [t \in Ticks |-> Never]
    /\ contract = [b \in Buy |-> [state |-> "NONE", entry |-> 0, settle |-> 0, flagged |-> FALSE]]
    /\ buy = [b \in Buy |-> [pc |-> "idle", began |-> 0, entry |-> 0, settle |-> 0]]

\* Time passes; statement_timeout ends a purchase that lasts longer.
Elapse ==
    /\ clock < MaxClock
    /\ \A b \in Buy : buy[b].pc = "entered" => clock < buy[b].began + TxnLimit
    /\ clock' = clock + 1
    /\ UNCHANGED <<epochs, revealed, lastTick, updatedAt, genAt, contract, buy, revealing>>

\* Mutant: a full batch, due or not.
LastOfRunFull == lastTick + Batch
LastOfRun == Min({clock, lastTick + Batch})

\* engine_advance: epochs, then a batch of ticks, each settled as it is
\* inserted.  A settlement may fail and leave its contract open and flagged.
\* index_state is written, so no purchase holds it shared.
Advance ==
    LET last == LastOfRun
        due == OpenOn(lastTick + 1 .. last)
    IN  /\ \A b \in Buy : buy[b].pc # "entered"
        /\ Commit(Ensured(lastTick + 1, last))
        /\ IF last > lastTick THEN lastTick' = last /\ updatedAt' = clock
                              ELSE UNCHANGED <<lastTick, updatedAt>>
        /\ genAt' = [t \in Ticks |-> IF t \in lastTick + 1 .. last THEN clock ELSE genAt[t]]
        /\ \E failed \in SUBSET due :
             contract' = [b \in Buy |-> IF b \in failed THEN [contract[b] EXCEPT !.flagged = TRUE]
                                        ELSE IF b \in due THEN [contract[b] EXCEPT !.state = "RESOLVED"]
                                        ELSE contract[b]]
        /\ UNCHANGED <<clock, revealed, buy, revealing>>

-----------------------------------------------------------------------------
(* engine_buy_contract, void_contract *)

\* Index state shared, feed fresh, entry tick chosen.  The statement may have
\* waited for its account row; the elapsed time is rounded, not floored.
BuyEnter(b) ==
    /\ buy[b].pc = "idle"
    /\ \E began \in Nat \cap (clock - TxnLimit .. clock), rounded \in {clock, clock + 1},
          count \in 1..MaxCount :
         LET entry == Max({lastTick, rounded + 1})
         IN  /\ updatedAt >= began - FeedLag
             /\ buy' = [buy EXCEPT ![b] = [pc |-> "entered", began |-> began,
                                           entry |-> entry, settle |-> entry + count - 1]]
    /\ UNCHANGED <<clock, epochs, revealed, lastTick, updatedAt, genAt, contract, revealing>>

BuyDone(b) == buy' = [buy EXCEPT ![b] = [pc |-> "done", began |-> 0, entry |-> 0, settle |-> 0]]

BuyCommit(b) ==
    /\ buy[b].pc = "entered"
    /\ contract' = [contract EXCEPT ![b] = [state |-> "OPEN", entry |-> buy[b].entry,
                                            settle |-> buy[b].settle, flagged |-> FALSE]]
    /\ BuyDone(b)
    /\ UNCHANGED <<clock, epochs, revealed, lastTick, updatedAt, genAt, revealing>>

\* Refused by a later check, or timed out.
BuyFail(b) ==
    /\ buy[b].pc = "entered"
    /\ BuyDone(b)
    /\ UNCHANGED <<clock, epochs, revealed, lastTick, updatedAt, genAt, contract, revealing>>

Void(b) ==
    /\ contract[b].state = "OPEN"
    /\ contract' = [contract EXCEPT ![b].state = "RESOLVED"]
    /\ UNCHANGED <<clock, epochs, revealed, lastTick, updatedAt, genAt, buy, revealing>>

-----------------------------------------------------------------------------
(* engine_reveal_due_epochs and engine_purge_ticks *)

InDay(t, d) == t \in d * TicksPerDay .. DayEnd(d)      \* between: both ends

DependsOn(b, d) ==
    contract[b].state = "OPEN" /\ (InDay(contract[b].entry, d) \/ InDay(contract[b].settle, d))

\* Mutant: the day's start is compared instead of its end.
RevealableByStart == {d \in DOMAIN epochs \ revealed :
                        d * TicksPerDay + Grace < clock /\ \A b \in Buy : ~DependsOn(b, d)}
\* Mutant: nothing is revealed while any epoch has an open contract.
RevealableAllOrNone == {d \in DOMAIN epochs \ revealed :
                          DayEnd(d) + Grace < clock /\ \A b \in Buy : contract[b].state # "OPEN"}
Revealable == {d \in DOMAIN epochs \ revealed :
                 DayEnd(d) + Grace < clock /\ \A b \in Buy : ~DependsOn(b, d)}

\* The loop query fixes which epochs, the updates follow with the commit.
RevealScan ==
    /\ revealing = {} /\ Revealable # {}
    /\ revealing' = Revealable
    /\ UNCHANGED <<clock, epochs, revealed, lastTick, updatedAt, genAt, contract, buy>>

RevealCommit ==
    /\ revealing # {}
    /\ revealed' = revealed \cup revealing /\ revealing' = {}
    /\ UNCHANGED <<clock, epochs, lastTick, updatedAt, genAt, contract, buy>>

\* Mutant: open contracts alone keep their ticks.
ReferencedWhileOpen(t) ==
    \E b \in Buy : contract[b].state = "OPEN" /\ t \in {contract[b].entry, contract[b].settle}
Referenced(t) ==
    \E b \in Buy : contract[b].state # "NONE" /\ t \in {contract[b].entry, contract[b].settle}

PurgeTicks ==
    LET old == {t \in Ticks : /\ genAt[t] # Never /\ genAt[t] < clock - Retention
                              /\ DayOf(t) \in revealed /\ ~Referenced(t)}
    IN  /\ old # {}
        /\ genAt' = [t \in Ticks |-> IF t \in old THEN Never ELSE genAt[t]]
        /\ UNCHANGED <<clock, epochs, revealed, lastTick, updatedAt, contract, buy, revealing>>

-----------------------------------------------------------------------------
Next ==
    \/ Elapse \/ Advance
    \/ \E b \in Buy : BuyEnter(b) \/ BuyCommit(b) \/ BuyFail(b) \/ Void(b)
    \/ RevealScan \/ RevealCommit \/ PurgeTicks

Spec == Init /\ [][Next]_vars

\* Time passes, pg_cron runs its jobs, statements end.  Nobody has to void.
Fairness ==
    /\ WF_vars(Elapse) /\ WF_vars(Advance)
    /\ WF_vars(RevealScan) /\ WF_vars(RevealCommit)
    /\ \A b \in Buy : WF_vars(BuyCommit(b) \/ BuyFail(b))

FairSpec == Spec /\ Fairness

-----------------------------------------------------------------------------
(* Properties *)

\* The type of every table; no tick is published before it is due.
TypeOK ==
    /\ clock \in 0..MaxClock /\ lastTick \in 0..clock /\ updatedAt \in 0..clock
    /\ DOMAIN epochs \subseteq Nat
    /\ \A d \in DOMAIN epochs : epochs[d] \in [at : Nat, prev : Nat \cup {NoDay}]
    /\ revealed \subseteq DOMAIN epochs /\ revealing \subseteq DOMAIN epochs
    /\ genAt \in [Ticks -> Nat \cup {Never}]
    /\ contract \in [Buy -> [state : {"NONE", "OPEN", "RESOLVED"}, entry : Nat, settle : Nat, flagged : BOOLEAN]]
    /\ buy \in [Buy -> [pc : {"idle", "entered", "done"}, began : Nat, entry : Nat, settle : Nat]]

\* The evidence for a contract outlives the purge: once its ticks have been
\* published they stay, with an epoch committed for their day.
EvidenceKept ==
    \A b \in Buy : contract[b].state # "NONE" =>
        \A t \in {contract[b].entry, contract[b].settle} :
            t <= lastTick => genAt[t] # Never /\ DayOf(t) \in DOMAIN epochs

\* The days an open contract depends on.
DaysOf(b) == IF contract[b].state = "OPEN" THEN {DayOf(contract[b].entry), DayOf(contract[b].settle)} ELSE {}

(* The inductive invariant behind the safety properties *)

\* Epochs are committed up to tomorrow, for the day of the last run and the next one.
CommitsAreTimely ==
    /\ DOMAIN epochs \subseteq 0 .. DayOf(clock) + 1
    /\ {DayOf(updatedAt), DayOf(updatedAt) + 1} \subseteq DOMAIN epochs

\* What is revealed, or selected for it, ended a grace ago; what is selected is still
\* secret and no open contract depends on it.
RevealsAreLate ==
    /\ \A d \in revealed \cup revealing : DayEnd(d) + Grace < clock
    /\ \A d \in revealing : d \notin revealed /\ \A b \in Buy : d \notin DaysOf(b)

\* A purchase that holds its entry tick is ahead of the feed and of its own start, on
\* committed days, and within its statement timeout.
PurchasesLookAhead ==
    \A b \in Buy :
        /\ buy[b].pc # "done" => contract[b].state = "NONE"
        /\ buy[b].pc = "entered" =>
             /\ lastTick < buy[b].entry /\ buy[b].began < buy[b].entry /\ buy[b].entry <= buy[b].settle
             /\ clock <= buy[b].began + TxnLimit
             /\ {DayOf(buy[b].entry), DayOf(buy[b].settle)} \subseteq DOMAIN epochs
        /\ contract[b].state # "NONE" => 0 < contract[b].entry /\ contract[b].entry <= contract[b].settle

IInv == TypeOK /\ CommitsAreTimely /\ RevealsAreLate /\ PurchasesLookAhead /\ EvidenceKept

\* Commit-reveal fairness: whatever the order of purchases, reveals, runs
\* and outages, a bet is placed on seeds that are committed and secret, and
\* no seed becomes public while an open contract depends on it.
Fair == INSTANCE CommitReveal WITH
    Bet <- Buy,
    seed <- [d \in Day |-> IF d \notin DOMAIN epochs THEN "none"
                           ELSE IF d \in revealed THEN "public" ELSE "secret"],
    on <- [b \in Buy |-> DaysOf(b)]
KeepsCommitReveal == Fair!Spec

\* Every ended epoch is revealed in the end, unless a contract whose
\* settlement failed still depends on it.
EpochsRevealed ==
    \A d \in Day : (d \in DOMAIN epochs /\ DayEnd(d) + Grace < clock)
        ~> (d \in revealed \/ \E b \in Buy : DependsOn(b, d) /\ contract[b].flagged)
=============================================================================
