----------------------------- MODULE DigitEngine -----------------------------
(***************************************************************************)
(* The digit-contract engine of one index in one mode: purchases, the tick *)
(* generator with its settlement, manual voids and practice resets, as     *)
(* Postgres READ COMMITTED transactions at the granularity of their lock   *)
(* waits.  Everything a transaction does between two lock waits is one     *)
(* step; what it writes is visible to the others when it commits.          *)
(*                                                                         *)
(* Row locks are not variables: who holds what follows from where each     *)
(* transaction stands (the section "Locks").  A transaction in a wait      *)
(* cycle may be picked by the deadlock detector.                           *)
(***************************************************************************)
EXTENDS DigitContract, FiniteSetsExt

CONSTANTS
    Account,        \* trading accounts
    Buy,            \* purchase requests; a purchase's contract carries its name
    NoBuy,          \* no contract
    Worker,         \* overlapping engine_advance() runs
    Staff,          \* owner sessions that may void
    Orders,         \* the assignments of orders to requests to be explored
    SampleDigits,   \* the digits a seed may give a tick
    Batch,          \* ticks per run (50 in the code)
    FeedLag,        \* the 10 seconds of feed_stale, in half ticks
    MaxOpen,        \* max_open_contracts
    MaxRate,        \* max_buys_per_minute; the bounded horizon is one minute
    MaxLiability,   \* max_liability_per_tick
    MinStake,       \* min_stake
    OpeningCredit,  \* practice opening credit
    MaxClock,       \* bound: half ticks that may pass
    MaxCrash        \* bound: runs that may die before they commit

\* Requests with a barrier the contract type does not take are refused by the
\* quote before anything is read or locked, and are left out.
Order == {o \in [acct : Account, key : Nat, type : ContractType, barrier : Digit,
                 stake : Nat \ {0}, count : Nat \ {0}] : o.barrier \in ValidBarriers(o.type)}

ASSUME OrdersAssumption == Orders \subseteq [Buy -> Order]
ASSUME BoundsAssumption ==
    /\ {Batch, FeedLag, MaxOpen, MaxRate, MaxLiability, MinStake, OpeningCredit} \subseteq Nat
    /\ MaxClock \in Nat /\ MaxCrash \in Nat
ASSUME RequestsAssumption == IsFiniteSet(Buy)
ASSUME DigitsAssumption == SampleDigits \subseteq Digit
ASSUME ProcessesAssumption ==
    /\ NoBuy \notin Buy
    /\ Buy \cap Worker = {} /\ Buy \cap Staff = {} /\ Worker \cap Staff = {}

Never == -1                      \* generated_at of a tick that does not exist
Ticks == 1..(MaxClock \div 2)    \* the ticks that can fall due within the bound

VARIABLES
    clock,      \* clock_timestamp() - t0, in half ticks
    order,      \* what each request asks for (rigid)
    digit,      \* the digit the committed seed gives each tick (rigid)
    lastTick,   \* index_state.last_tick_no
    updatedAt,  \* index_state.updated_at
    genAt,      \* index_ticks.generated_at, or Never
    contract,   \* engine_contracts, one row slot per request
    ledger,     \* ledger_transactions with their entries
    exposure,   \* engine_tick_exposure: settle tick -> net_loss_by_digit
    buy,        \* the purchase transactions
    run,        \* the engine_advance transactions
    void,       \* the void_contract transactions
    crashes     \* how many runs died

vars == <<clock, order, digit, lastTick, updatedAt, genAt, contract, ledger,
          exposure, buy, run, void, crashes>>
rigid == <<order, digit>>
feed == <<lastTick, updatedAt, genAt>>
book == <<contract, ledger, exposure>>

-----------------------------------------------------------------------------
(* Ledger *)

Entry == [acct : Account, key : {"open", "reset", "buy", "settle", "void"} \X (Buy \cup {NoBuy}),
          avail : Int, reserved : Int, pnl : Int]

Tx(a, op, b, avail, reserved, pnl) ==
    [acct |-> a, key |-> <<op, b>>, avail |-> avail, reserved |-> reserved, pnl |-> pnl]

\* Mutant: idempotency keys without their prefix.
HasKeyOfContract(a, key) == \E x \in ledger : x.acct = a /\ x.key[2] = key[2]
HasKey(a, key) == \E x \in ledger : x.acct = a /\ x.key = key

\* engine_post_ledger: a key already posted for the account posts nothing.
Post(txs) == ledger' = ledger \cup {x \in txs : ~HasKey(x.acct, x.key)}

LedgerOf(a) == {x \in ledger : x.acct = a}
Available(a) == SumFunctionOnSet([x \in ledger |-> x.avail], LedgerOf(a))
Reserved(a) == SumFunctionOnSet([x \in ledger |-> x.reserved], LedgerOf(a))

Stake(b) == order[b].stake
PayoutOf(b) == Payout(order[b].stake, order[b].type, order[b].barrier)
RiskOf(b) == NetLoss(order[b].stake, order[b].type, order[b].barrier)

\* Mutant: a refund under a key nothing else looks for.
RefundUnnamed(op, b) == Tx(order[b].acct, "refund", b, Stake(b), -Stake(b), 0)
Refund(op, b) == Tx(order[b].acct, op, b, Stake(b), -Stake(b), 0)

\* Mutant: a delayed contract is refunded its payout.
SettlementAtPayout(b, verdict) ==
    Tx(order[b].acct, "settle", b, IF verdict = "LOST" THEN 0 ELSE PayoutOf(b), -Stake(b), 0)

Settlement(b, verdict) ==
    CASE verdict = "WON"  -> Tx(order[b].acct, "settle", b, PayoutOf(b), -Stake(b), Stake(b) - PayoutOf(b))
      [] verdict = "LOST" -> Tx(order[b].acct, "settle", b, 0, -Stake(b), Stake(b))
      [] verdict = "VOID" -> Refund("settle", b)

OpenOf(a) == {b \in Buy : order[b].acct = a /\ contract[b].state = "OPEN"}
OpenOn(t) == {b \in Buy : contract[b].state = "OPEN" /\ contract[b].settle = t}
BoughtOn(t) == {b \in Buy : contract[b].state # "NONE" /\ contract[b].settle = t}
BoughtBy(a) == {b \in Buy : order[b].acct = a /\ contract[b].state # "NONE"}

-----------------------------------------------------------------------------
(* Locks: who holds each row, who waits for whom *)

Advancing(w) == run[w].pc \notin {"idle", "snapshot"}          \* advisory lock held
\* Mutant: a row read without a lock (account, feed state, contract).
AccountUnlocked(a) == {}
AccountForUpdate(a) == {b \in Buy : order[b].acct = a /\ buy[b].pc \in {"account", "entered"}}
AccountKeyShare(a) == {w \in Worker : \E b \in run[w].settled : order[b].acct = a}
StateUnlocked == {}
StateShared == {b \in Buy : buy[b].pc = "entered"}
StateWritten == {w \in Worker : Advancing(w) /\ run[w].cur > run[w].from}
ContractUnlocked(b) == {}
ContractLocked(b) ==
    {w \in Worker : b \in run[w].settled \cup run[w].flagged
                    \/ (run[w].pc = "posting" /\ run[w].cid = b)}
    \cup {v \in Staff : void[v].pc = "locked" /\ void[v].cid = b}

WaitsFor(p) ==
    IF p \in Buy THEN
        CASE buy[p].pc = "start"   -> AccountForUpdate(order[p].acct) \cup AccountKeyShare(order[p].acct)
          [] buy[p].pc = "account" -> StateWritten
          [] OTHER                 -> {}
    ELSE IF p \in Worker THEN
        CASE run[p].pc = "running" -> StateShared
          [] run[p].pc \in {"locking", "flagging"} -> ContractLocked(run[p].cid) \ {p}
          [] run[p].pc = "posting" -> AccountForUpdate(order[run[p].cid].acct)
          [] OTHER                 -> {}
    ELSE
        CASE void[p].pc = "waiting" -> ContractLocked(void[p].cid)
          [] void[p].pc = "locked"  -> AccountForUpdate(order[void[p].cid].acct)
          [] OTHER                  -> {}

\* Cycles have two members (a run and a purchase) or three (with a void).
Deadlocked(p) == \E q \in WaitsFor(p) : p \in WaitsFor(q) \/ \E r \in WaitsFor(q) : p \in WaitsFor(r)

-----------------------------------------------------------------------------
(* Initial state: enrolled accounts, the seed's digits fixed in advance *)

IdleRun == [pc |-> "idle", began |-> 0, from |-> 0, due |-> 0, cur |-> 0, todo |-> {},
            cid |-> NoBuy, settled |-> {}, flagged |-> {}, cleared |-> {}]
IdleVoid == [pc |-> "idle", cid |-> NoBuy]

Init ==
    /\ clock = 0
    /\ order \in Orders
    /\ digit \in [Ticks -> SampleDigits]
    /\ lastTick = 0 /\ updatedAt = 0
    /\ genAt = [t \in Ticks |-> Never]
    /\ contract = [b \in Buy |-> [state |-> "NONE", entry |-> 0, settle |-> 0, flagged |-> FALSE]]
    /\ ledger = {Tx(a, "open", NoBuy, OpeningCredit, 0, -OpeningCredit) : a \in Account}
    /\ exposure = [t \in {} |-> [d \in Digit |-> 0]]
    /\ buy = [b \in Buy |-> [pc |-> "idle", began |-> 0, entry |-> 0]]
    /\ run = [w \in Worker |-> IdleRun]
    /\ void = [v \in Staff |-> IdleVoid]
    /\ crashes = 0

\* Time passes whatever the transactions do.
Elapse ==
    /\ clock < MaxClock
    /\ clock' = clock + 1
    /\ UNCHANGED <<rigid, feed, book, buy, run, void, crashes>>

-----------------------------------------------------------------------------
(* engine_buy_contract *)

BuyIs(b, tx) == buy' = [buy EXCEPT ![b] = tx]
BuyEnds(b) == BuyIs(b, [pc |-> "done", began |-> 0, entry |-> 0])

BuyStart(b) ==
    /\ buy[b].pc = "idle"
    /\ BuyIs(b, [pc |-> "start", began |-> clock, entry |-> 0])
    /\ UNCHANGED <<clock, rigid, feed, book, run, void, crashes>>

\* Account row FOR UPDATE, then the checks that need no other lock.  Access,
\* trading restriction, module, index and stake-range refusals depend on
\* state kept elsewhere: the request may be refused here whatever this holds.
BuyLockAccount(b) ==
    /\ buy[b].pc = "start" /\ WaitsFor(b) = {}
    /\ \/ /\ Quotable(order[b].stake, order[b].type, order[b].barrier)
          /\ Stake(b) >= MinStake
          /\ Cardinality(OpenOf(order[b].acct)) < MaxOpen
          /\ BuyIs(b, [buy[b] EXCEPT !.pc = "account"])
       \/ BuyEnds(b)
    /\ UNCHANGED <<clock, rigid, feed, book, run, void, crashes>>

\* Mutant: no replay lookup.
NoReplay(b) == {}
SameKey(b) == {c \in BoughtBy(order[b].acct) : order[c].key = order[b].key}

\* Mutant: the tick falling due now instead of the next.
EntryTickDue(last, now) == Max({last, (now + 1) \div 2})

\* greatest(last_tick_no, round(elapsed) + 1): the cast to bigint rounds.
EntryTick(last, now) == Max({last, ((now + 1) \div 2) + 1})

\* index_state FOR SHARE; a stale feed, a replayed or conflicting key and a
\* short balance all end the request, otherwise the entry tick is fixed.
BuyLockIndex(b) ==
    /\ buy[b].pc = "account" /\ WaitsFor(b) = {}
    /\ IF updatedAt < buy[b].began - FeedLag \/ SameKey(b) # {} \/ Available(order[b].acct) < Stake(b)
       THEN BuyEnds(b)
       ELSE BuyIs(b, [buy[b] EXCEPT !.pc = "entered", !.entry = EntryTick(lastTick, clock)])
    /\ UNCHANGED <<clock, rigid, feed, book, run, void, crashes>>

NoRisk == [d \in Digit |-> 0]
\* Mutant: the row is overwritten by the last purchase.
RiskForgotten(t) == NoRisk
RiskAt(t) == IF t \in DOMAIN exposure THEN exposure[t] ELSE NoRisk
RiskWith(b, t) == [d \in Digit |-> RiskAt(t)[d] + RiskOf(b)[d]]

\* The insert with its guardrail trigger (rate and liability), the
\* reservation and the commit; the exposure row is locked from here to it.
BuyCommit(b) ==
    LET settle == buy[b].entry + order[b].count - 1
    IN  /\ buy[b].pc = "entered"
        /\ IF \/ Cardinality(BoughtBy(order[b].acct)) >= MaxRate
              \/ \E d \in Digit : RiskWith(b, settle)[d] > MaxLiability
           THEN UNCHANGED book
           ELSE /\ contract' = [contract EXCEPT ![b] =
                      [state |-> "OPEN", entry |-> buy[b].entry, settle |-> settle, flagged |-> FALSE]]
                /\ exposure' = [t \in DOMAIN exposure \cup {settle} |->
                                  IF t = settle THEN RiskWith(b, settle) ELSE exposure[t]]
                /\ Post({Tx(order[b].acct, "buy", b, -Stake(b), Stake(b), 0)})
        /\ BuyEnds(b)
        /\ UNCHANGED <<clock, rigid, feed, run, void, crashes>>

-----------------------------------------------------------------------------
(* engine_advance and engine_settle_tick *)

RunIs(w, tx) == run' = [run EXCEPT ![w] = tx]

\* The loop query reads index_state before any lock is taken.
AdvSnapshot(w) ==
    /\ run[w].pc = "idle"
    /\ RunIs(w, [IdleRun EXCEPT !.pc = "snapshot", !.began = clock,
                                !.from = lastTick, !.cur = lastTick])
    /\ UNCHANGED <<clock, rigid, feed, book, buy, void, crashes>>

\* pg_try_advisory_xact_lock: a busy index is skipped.
AdvTryLock(w) ==
    /\ run[w].pc = "snapshot"
    /\ RunIs(w, IF \E x \in Worker : Advancing(x) THEN IdleRun
                ELSE [run[w] EXCEPT !.pc = "running", !.due = clock \div 2])
    /\ UNCHANGED <<clock, rigid, feed, book, buy, void, crashes>>

\* Mutant: the tick that has just fallen due is left for the next run.
LastOfRunExclusive(w) == Min({run[w].due - 1, run[w].from + Batch})
LastOfRun(w) == Min({run[w].due, run[w].from + Batch})

\* Insert the next tick, write index_state (waits for shared holders) and
\* read the contracts that settle on it.
AdvTick(w) ==
    /\ run[w].pc = "running" /\ run[w].cur < LastOfRun(w) /\ WaitsFor(w) = {}
    /\ RunIs(w, [run[w] EXCEPT !.pc = "settling", !.cur = @ + 1,
                               !.todo = OpenOn(run[w].cur + 1)])
    /\ UNCHANGED <<clock, rigid, feed, book, buy, void, crashes>>

AdvNext(w, b) ==
    /\ run[w].pc = "settling" /\ b \in run[w].todo
    /\ RunIs(w, [run[w] EXCEPT !.pc = "locking", !.cid = b, !.todo = @ \ {b}])
    /\ UNCHANGED <<clock, rigid, feed, book, buy, void, crashes>>

\* engine_settle_contract: contract row FOR UPDATE, a resolved one is left alone.
AdvLockContract(w) ==
    /\ run[w].pc = "locking" /\ WaitsFor(w) = {}
    /\ RunIs(w, [run[w] EXCEPT !.pc = IF contract[run[w].cid].state = "OPEN" THEN "posting" ELSE "settling"])
    /\ UNCHANGED <<clock, rigid, feed, book, buy, void, crashes>>

\* The ledger insert needs the account row FOR KEY SHARE.
AdvPost(w) ==
    /\ run[w].pc = "posting" /\ WaitsFor(w) = {}
    /\ RunIs(w, [run[w] EXCEPT !.pc = "settling", !.settled = @ \cup {run[w].cid}])
    /\ UNCHANGED <<clock, rigid, feed, book, buy, void, crashes>>

\* exception when others: count the attempt on a contract that is still open.
AdvFlag(w) ==
    /\ run[w].pc = "flagging" /\ WaitsFor(w) = {}
    /\ RunIs(w, [run[w] EXCEPT !.pc = "settling",
                               !.flagged = IF contract[run[w].cid].state = "OPEN"
                                           THEN @ \cup {run[w].cid} ELSE @])
    /\ UNCHANGED <<clock, rigid, feed, book, buy, void, crashes>>

\* The exposure row goes when nothing on the tick is left open.
AdvTickDone(w) ==
    /\ run[w].pc = "settling" /\ run[w].todo = {}
    /\ RunIs(w, [run[w] EXCEPT !.pc = "running",
                     !.cleared = IF OpenOn(run[w].cur) \subseteq run[w].settled
                                 THEN @ \cup {run[w].cur} ELSE @])
    /\ UNCHANGED <<clock, rigid, feed, book, buy, void, crashes>>

\* Mutant: on conflict do update.
TickTimeOfRun(w, t) == run[w].began

\* An existing tick keeps its row: insert ... on conflict do nothing.
TickTime(w, t) == IF genAt[t] = Never THEN run[w].began ELSE genAt[t]

\* Mutant: settled by the digit of the entry tick.
VerdictAtEntry(w, b) ==
    Verdict(order[b].type, order[b].barrier, contract[b].settle,
            digit[contract[b].entry], TickTime(w, contract[b].settle))

VerdictOf(w, b) ==
    Verdict(order[b].type, order[b].barrier, contract[b].settle,
            digit[contract[b].settle], TickTime(w, contract[b].settle))

AdvCommit(w) ==
    /\ run[w].pc = "running" /\ run[w].cur >= LastOfRun(w)
    /\ genAt' = [t \in Ticks |-> IF t \in run[w].from + 1 .. run[w].cur THEN TickTime(w, t) ELSE genAt[t]]
    /\ IF run[w].cur > run[w].from
       THEN lastTick' = run[w].cur /\ updatedAt' = run[w].began
       ELSE UNCHANGED <<lastTick, updatedAt>>
    /\ contract' = [b \in Buy |->
                      IF b \in run[w].settled THEN [contract[b] EXCEPT !.state = VerdictOf(w, b)]
                      ELSE IF b \in run[w].flagged THEN [contract[b] EXCEPT !.flagged = TRUE]
                      ELSE contract[b]]
    /\ Post({Settlement(b, VerdictOf(w, b)) : b \in run[w].settled})
    /\ exposure' = [t \in DOMAIN exposure \ run[w].cleared |-> exposure[t]]
    /\ RunIs(w, IdleRun)
    /\ UNCHANGED <<clock, rigid, buy, void, crashes>>

\* A connection lost or a statement cancelled: nothing of the run remains.
AdvCrash(w) ==
    /\ Advancing(w) /\ crashes < MaxCrash
    /\ crashes' = crashes + 1
    /\ RunIs(w, IdleRun)
    /\ UNCHANGED <<clock, rigid, feed, book, buy, void>>

-----------------------------------------------------------------------------
(* void_contract and reset_practice_balance *)

VoidIs(v, tx) == void' = [void EXCEPT ![v] = tx]

VoidStart(v, b) ==
    /\ void[v].pc = "idle" /\ contract[b].state = "OPEN"
    /\ VoidIs(v, [pc |-> "waiting", cid |-> b])
    /\ UNCHANGED <<clock, rigid, feed, book, buy, run, crashes>>

VoidLock(v) ==
    /\ void[v].pc = "waiting" /\ WaitsFor(v) = {}
    /\ VoidIs(v, IF contract[void[v].cid].state = "OPEN"
                 THEN [void[v] EXCEPT !.pc = "locked"] ELSE IdleVoid)
    /\ UNCHANGED <<clock, rigid, feed, book, buy, run, crashes>>

\* The refund and the commit; the exposure row is not touched.
VoidCommit(v) ==
    /\ void[v].pc = "locked" /\ WaitsFor(v) = {}
    /\ contract' = [contract EXCEPT ![void[v].cid].state = "VOID"]
    /\ Post({Refund("void", void[v].cid)})
    /\ VoidIs(v, IdleVoid)
    /\ UNCHANGED <<clock, rigid, feed, exposure, buy, run, crashes>>

\* Once in 24 hours, that is once within the bounded horizon.
Reset(a) ==
    /\ AccountForUpdate(a) = {} /\ AccountKeyShare(a) = {}
    /\ OpenOf(a) = {} /\ ~HasKey(a, <<"reset", NoBuy>>) /\ Available(a) < MinStake
    /\ \E amount \in 0..OpeningCredit :
         /\ Available(a) + amount = OpeningCredit
         /\ Post({Tx(a, "reset", NoBuy, amount, 0, -amount)})
    /\ UNCHANGED <<clock, rigid, feed, contract, exposure, buy, run, void, crashes>>

-----------------------------------------------------------------------------
(* deadlock_timeout: one transaction of a wait cycle gets deadlock_detected *)

\* In a settlement it is caught and flags the contract; in the handler
\* itself it escapes and takes the run with it.
BuyVictim(b) ==
    /\ Deadlocked(b)
    /\ BuyEnds(b)
    /\ UNCHANGED <<clock, rigid, feed, book, run, void, crashes>>

AdvVictim(w) ==
    /\ Deadlocked(w)
    /\ RunIs(w, IF run[w].pc \in {"locking", "posting"}
                THEN [run[w] EXCEPT !.pc = "flagging"] ELSE IdleRun)
    /\ UNCHANGED <<clock, rigid, feed, book, buy, void, crashes>>

VoidVictim(v) ==
    /\ Deadlocked(v)
    /\ VoidIs(v, IdleVoid)
    /\ UNCHANGED <<clock, rigid, feed, book, buy, run, crashes>>

-----------------------------------------------------------------------------
BuyStep(b) == BuyLockAccount(b) \/ BuyLockIndex(b) \/ BuyCommit(b)
AdvStep(w) ==
    \/ AdvSnapshot(w) \/ AdvTryLock(w) \/ AdvTick(w) \/ AdvTickDone(w)
    \/ (\E b \in Buy : AdvNext(w, b))
    \/ AdvLockContract(w) \/ AdvPost(w) \/ AdvFlag(w) \/ AdvCommit(w)
VoidStep(v) == VoidLock(v) \/ VoidCommit(v)
Victim ==
    \/ \E b \in Buy : BuyVictim(b)
    \/ \E w \in Worker : AdvVictim(w)
    \/ \E v \in Staff : VoidVictim(v)

Next ==
    \/ Elapse
    \/ \E b \in Buy : BuyStart(b) \/ BuyStep(b)
    \/ \E w \in Worker : AdvStep(w) \/ AdvCrash(w)
    \/ \E v \in Staff : VoidStep(v) \/ \E b \in Buy : VoidStart(v, b)
    \/ \E a \in Account : Reset(a)
    \/ Victim

Spec == Init /\ [][Next]_vars

\* Time passes, cron starts a run every second, a transaction that can go on
\* does, row locks are granted in turn (a waiter is not overtaken for ever),
\* and deadlock_timeout breaks every cycle.
Fairness ==
    /\ WF_vars(Elapse)
    /\ \A b \in Buy : SF_vars(BuyStep(b))
    /\ \A w \in Worker : SF_vars(AdvStep(w))
    /\ \A v \in Staff : SF_vars(VoidStep(v))
    /\ WF_vars(Victim)

FairSpec == Spec /\ Fairness

-----------------------------------------------------------------------------
(* Properties *)

ContractState == {"NONE", "OPEN", "WON", "LOST", "VOID"}
Row == [state : ContractState, entry : Nat, settle : Nat, flagged : BOOLEAN]
Purchase == [pc : {"idle", "start", "account", "entered", "done"}, began : Nat, entry : Nat]
Voiding == [pc : {"idle", "waiting", "locked"}, cid : Buy \cup {NoBuy}]
Run == [pc : {"idle", "snapshot", "running", "settling", "locking", "posting", "flagging"},
        began : Nat, from : Nat, due : Nat, cur : Nat, todo : SUBSET Buy, cid : Buy \cup {NoBuy},
        settled : SUBSET Buy, flagged : SUBSET Buy, cleared : SUBSET Nat]

\* The type of every table and of every transaction's local state.
TypeOK ==
    /\ clock \in Nat /\ crashes \in Nat
    /\ order \in Orders /\ digit \in [Ticks -> SampleDigits]
    /\ lastTick \in Nat /\ updatedAt \in Nat
    /\ genAt \in [Ticks -> Nat \cup {Never}]
    /\ contract \in [Buy -> Row]
    /\ ledger \subseteq Entry
    /\ DOMAIN exposure \subseteq Nat
    /\ \A t \in DOMAIN exposure : exposure[t] \in [Digit -> Int]
    /\ buy \in [Buy -> Purchase]
    /\ run \in [Worker -> Run]
    /\ void \in [Staff -> Voiding]

Published(t) == t \in Ticks /\ genAt[t] # Never
Settled(b) == HasKey(order[b].acct, <<"settle", b>>)
Voided(b) == HasKey(order[b].acct, <<"void", b>>)

\* A contract's row and the ledger agree: no resolution is posted before the
\* contract is resolved, and a resolved one is paid out or refunded exactly
\* once, though engine_settle_contract and void_contract post under
\* different idempotency keys and only the row lock keeps them apart.
ResolvedOnce ==
    \A b \in Buy :
        /\ contract[b].state \in {"NONE", "OPEN"} => ~Settled(b) /\ ~Voided(b)
        /\ contract[b].state \in {"WON", "LOST"} => Settled(b) /\ ~Voided(b)
        /\ contract[b].state = "VOID" => (Settled(b) <=> ~Voided(b))

\* The money reserved in an account is the stakes of its open contracts.
ReservedIsOpenStakes ==
    \A a \in Account : Reserved(a) = SumFunctionOnSet([b \in Buy |-> Stake(b)], OpenOf(a))

\* Concurrent purchases never spend the same balance twice.
NoOverdraft == \A a \in Account : Available(a) >= 0

\* Concurrent duplicates and retries under one idempotency key buy once.
OneContractPerKey ==
    \A b, c \in Buy :
        /\ contract[b].state # "NONE" /\ contract[c].state # "NONE"
        /\ order[b].acct = order[c].acct /\ order[b].key = order[c].key
        => b = c

\* What settlement posted is what the published settle tick says, whichever
\* run inserted the tick and whichever run settled the contract.
SettledByItsTick ==
    \A b \in Buy : Settled(b) =>
        LET t == contract[b].settle
        IN  /\ Published(t)
            /\ contract[b].state = Verdict(order[b].type, order[b].barrier, t, digit[t], genAt[t])

\* A published tick leaves no contract behind that settlement did not see:
\* what is still open on it has failed and is flagged for the owner.
NoMissedSettlement ==
    \A b \in Buy : contract[b].state = "OPEN" /\ Published(contract[b].settle) => contract[b].flagged

\* The exposure row of a tick holds the risk of every contract bought on it
\* (no concurrent purchase is lost), stays while one is open, and is never
\* above the limit.
ExposureAccountsForPurchases ==
    /\ \A b \in Buy : contract[b].state = "OPEN" => contract[b].settle \in DOMAIN exposure
    /\ \A t \in DOMAIN exposure, d \in Digit :
         /\ exposure[t][d] = SumFunctionOnSet([b \in Buy |-> RiskOf(b)[d]], BoughtOn(t))
         /\ exposure[t][d] <= MaxLiability

\* No look-ahead: when a purchase commits, neither its entry tick nor any
\* later one exists, even when a run was writing ticks all along.
BetsOnTheFuture ==
    [][\A b \in Buy : contract[b].state = "NONE" /\ contract'[b].state = "OPEN"
           => \A t \in Ticks : t >= contract'[b].entry => genAt'[t] = Never]_vars

\* A published tick never changes, and ticks are published without gaps,
\* under overlapping runs and runs that die.
TicksArePermanent ==
    [][\A t \in Ticks :
          /\ genAt[t] # Never => genAt'[t] = genAt[t]
          /\ genAt'[t] # Never => \A s \in 1..t : genAt'[s] # Never]_vars

\* Every contract whose settle tick falls due is resolved or flagged:
\* waits and deadlocks between buyers, runs and voids always end.
DueContractsHandled ==
    \A b \in Buy :
        (contract[b].state = "OPEN" /\ contract[b].settle \in Ticks)
            ~> (contract[b].state # "OPEN" \/ contract[b].flagged)

\* The bookkeeping a customer sees: contracts and balances move together.
Book == INSTANCE ContractLedger WITH
    status <- [b \in Buy |-> contract[b].state],
    available <- [a \in Account |-> Available(a)],
    reserved <- [a \in Account |-> Reserved(a)]
KeepsBook == Book!Spec

(* The inductive invariant behind ResolvedOnce and NoMissedSettlement *)

Holds(w) == IF run[w].pc \in {"locking", "posting", "flagging"} THEN {run[w].cid} ELSE {}

\* One run at a time is past the advisory lock, the others hold nothing, and
\* a contract somebody has locked to resolve is open and locked by nobody else.
LocksExclude ==
    /\ \A w \in Worker :
         /\ ~Advancing(w) => run[w].settled = {} /\ run[w].flagged = {}
         /\ run[w].pc \in {"locking", "posting", "flagging"} => run[w].cid \in Buy
         /\ run[w].pc = "posting" => contract[run[w].cid].state = "OPEN"
         /\ \A b \in run[w].settled : contract[b].state = "OPEN"
         /\ \A x \in Worker : Advancing(w) /\ Advancing(x) => w = x
    /\ \A v \in Staff :
         /\ void[v].pc # "idle" => void[v].cid \in Buy
         /\ void[v].pc = "locked" =>
              /\ contract[void[v].cid].state = "OPEN"
              /\ \A w \in Worker : /\ void[v].cid \notin run[w].settled
                                   /\ run[w].pc = "posting" => run[w].cid # void[v].cid
              /\ \A u \in Staff : void[u].pc = "locked" /\ void[u].cid = void[v].cid => u = v
    /\ \A b \in Buy : buy[b].pc # "done" => contract[b].state = "NONE"

\* A run publishes only ticks that are due, while no purchase stands between
\* its entry tick and its commit; such a purchase enters after every
\* published tick; and on a tick the run has written, every open contract is
\* settled, flagged or still to be visited.
RunCoversTicks ==
    /\ \A t \in Ticks : genAt[t] # Never => 2 * t <= clock
    /\ \A w \in Worker : run[w].pc = "snapshot" => run[w].cur = run[w].from
    /\ \A w \in Worker : Advancing(w) =>
         /\ run[w].from <= run[w].cur /\ 2 * run[w].due <= clock
         /\ run[w].cur > run[w].from => run[w].cur <= run[w].due
         /\ \A b \in Buy : /\ contract[b].state = "OPEN"
                           /\ contract[b].settle \in run[w].from + 1 .. run[w].cur
              => \/ b \in run[w].settled \cup run[w].flagged
                 \/ /\ contract[b].settle = run[w].cur /\ run[w].pc # "running"
                    /\ b \in run[w].todo \cup Holds(w)
    /\ \A b \in Buy : buy[b].pc = "entered" =>
         /\ \A w \in Worker : Advancing(w) => run[w].cur = run[w].from
         /\ \A t \in Ticks : genAt[t] # Never => t < buy[b].entry

IInv == TypeOK /\ LocksExclude /\ RunCoversTicks /\ ResolvedOnce /\ NoMissedSettlement

(* The inductive invariant behind keys, money, settlement and exposure *)

\* A purchase that has its account row has it alone; one that has its entry
\* tick was found to be new and covered, and still is; and what is not bought
\* is not paid for.
BuyersExclude ==
    \A b \in Buy :
        /\ contract[b].state = "NONE" => ~HasKey(order[b].acct, <<"buy", b>>)
        /\ buy[b].pc \in {"account", "entered"} => AccountForUpdate(order[b].acct) = {b}
        /\ buy[b].pc = "entered" => SameKey(b) = {} /\ Available(order[b].acct) >= Stake(b)

\* A run resolves contracts of the ticks it writes only, and drops an exposure
\* row once it has resolved all that is open on the tick; a dropped row is that
\* of a published tick.
RunSettlesItsTicks ==
    /\ clock <= MaxClock
    /\ \A w \in Worker : ~Advancing(w) => run[w].todo = {} /\ run[w].cleared = {}
    /\ \A w \in Worker : Advancing(w) =>
         /\ run[w].pc # "running" => run[w].from < run[w].cur
         /\ \A b \in run[w].settled : contract[b].settle \in run[w].from + 1 .. run[w].cur
         /\ \A b \in run[w].todo \cup Holds(w) :
              contract[b].state # "NONE" /\ contract[b].settle = run[w].cur
         /\ run[w].cleared \subseteq run[w].from + 1 .. run[w].cur
         /\ \A t \in run[w].cleared : OpenOn(t) \subseteq run[w].settled
    /\ \A b \in Buy : contract[b].state = "NONE" \/ contract[b].settle \in DOMAIN exposure
                         \/ Published(contract[b].settle)

MoneyInv ==
    /\ BuyersExclude /\ RunSettlesItsTicks
    /\ OneContractPerKey /\ ReservedIsOpenStakes /\ NoOverdraft
    /\ SettledByItsTick /\ ExposureAccountsForPurchases

(* What the documents say, and the code does otherwise *)

\* "A failing contract is flagged, retried on the next run."
FlaggedIsRetried ==
    \A b \in Buy : (contract[b].state = "OPEN" /\ contract[b].flagged) ~> contract[b].state # "OPEN"

\* "For each possible exit digit, the house's net loss if that digit lands [...] Reject
\* [...] if max(net_loss_by_digit) would exceed [...] max_liability_per_tick": no purchase
\* takes the loss over what is open on its tick above the limit.
OpenLoss(t, d) == SumFunctionOnSet([b \in Buy |-> RiskOf(b)[d]], OpenOn(t))
OverLimitIsRejected ==
    [][\A b \in Buy : contract[b].state = "NONE" /\ contract'[b].state = "OPEN" =>
          \A t \in {contract'[b].settle}, d \in Digit : OpenLoss(t, d)' <= Max({MaxLiability, OpenLoss(t, d)})]_vars
=============================================================================
