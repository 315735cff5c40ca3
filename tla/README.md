# TLA+ models of the vn trading platform

This directory specifies, model-checks and proves properties of the parts of
the platform that move money, make promises about fairness, or show people what
is theirs. The program is a web site over a Supabase (Postgres) database: SQL
functions under `src/supabase/migrations/`, called by the pages of the browser
(`src/assets/js/`), by `pg_cron` jobs, by Edge Functions
(`src/supabase/functions/`) and, for engine version 3, by a worker process
(`src/engine/v3/service/`). Paths below are relative to `src/`; migrations are
named by their number, pages by their file in `assets/js`.

What makes the system hard is not the arithmetic of one call but what happens
between calls: Postgres transactions at READ COMMITTED that wait for each
other's row locks and may be picked as deadlock victims, a tick generator that
runs late, overlaps itself or dies, daily secrets that must be committed before
they are used and revealed after they are needed, a payment provider whose
answers arrive late, twice, out of order or never, and pages whose calls are
answered after their user has switched the account, signed out or sent the same
thing again.

## 1. Inventory

### Digit contract engine
- **State.** `index_state` (last tick, time of the last write), `index_ticks`,
  `engine_contracts`, `engine_tick_exposure` (per settle tick, the house's loss
  for every digit), policies, the ledger.
- **Operations.** `engine_buy_contract` (20260920390000), its guardrail trigger
  (20260920400000), `engine_advance` (20260924110000, cron every second),
  `engine_settle_tick` and `engine_settle_contract` (20260920430000),
  `void_contract` (20260920550000), `reset_practice_balance` (20260920440000).
- **Interaction.** Purchase, generator, void and reset share rows: the account
  row (`FOR UPDATE` in a purchase, `FOR KEY SHARE` by every posting's foreign
  key), `index_state` (`FOR SHARE` in a purchase, written by a run), the
  contract row, the exposure row. Runs exclude each other with an advisory lock
  that is taken *after* the loop query has read `last_tick_no`.
- **Hard.** Interleavings, wait cycles of two and three transactions, a
  settlement that fails inside its loop, overlapping runs, a run that dies.
- **Correct when.** Balances are never overspent and reserved money is exactly
  the open stakes; a retried request buys once; a bet is on ticks that do not
  exist yet; a published tick never changes; settlement misses no contract,
  pays what its tick says and resolves it once; the exposure row accounts for
  every purchase; due contracts are always dealt with.

### Ledger and trading accounts
- **State.** `ledger_transactions` with unique (account, idempotency key), and
  `ledger_entries` (20260912150000). **Operations.** `engine_post_ledger`,
  enrolment, reads. **Hard.** Keys with different prefixes do not exclude each
  other. **Correct when.** Every posting moves together with the state it is for.

### Epoch lifecycle (version 2 commit-reveal)
- **State.** `engine_epochs` (commitment, chained hash, reveal time), ticks.
- **Operations.** `engine_ensure_epoch` (20260920460000) from each run,
  `engine_reveal_due_epochs` and `engine_purge_ticks` (20260920380000).
- **Hard.** Outages over midnight, a purchase between entry and commit while a
  reveal runs, failed settlements that hold a day's seed.
- **Correct when.** Every bet is on committed, secret seeds; no seed is public
  while an open contract needs it; ended epochs are revealed; the evidence for a
  contract outlives the purge.

### Engine version 3
- **State.** `engine_v3_epochs`, `index_ticks`, `engine_v3_resumes`, halts and
  generation of an index (20260924110000, 20260925100000, 20260928100000); the
  worker's snapshot of them.
- **Operations.** The worker's cycle (`worker.mjs`): commit days ahead, obtain
  receipts, publish due ticks, halt and void, reveal, cut over; the attestor;
  staff schedule a cutover or a resume after a pause.
- **Interaction.** The worker decides on what it read at the start of a cycle;
  every call of the database checks again. Purchases pass a gate that reads
  halts, resumes and the cutover without a lock.
- **Hard.** A lost reply followed by another tick for the same number; a missed
  commitment window after which the day-by-day chain cannot continue; staff who
  act between two reads of the worker; a purchase in flight over a cutover.
- **Correct when.** Ticks form one permanent chain from committed days; a seed is
  secret while a contract needs it; contracts keep their ticks; the ticks catch up.

### Generator and verifiers
- **State.** None but their input: seeds, configurations, a proof package; on the
  fairness page the ticks and epochs read so far.
- **Operations.** `generator.mjs` makes ticks and commitments, the database
  exports a range of them, `verifier/v3/verify.mjs` judges it, recomputing all
  arithmetic independently; `fairness.js` does so for ticks of versions 1 and 2
  read page by page while the engine goes on.
- **Correct when.** What the generator made is never called invalid, and what is
  called fully verified is what was published, in time.

### M-Pesa sandbox deposits
- **State.** `funding.payments`, provider events, statement items, two-person
  staff actions, test-balance ledger, KES clearing (20260926100000).
- **Operations.** Begin (20260926120000), record initiation, callback, status,
  sweep, statement lines, request and approve (20260926110000), driven by
  `functions/_shared/funding-flow.mjs`.
- **Interaction.** The Edge Function calls the database, then the provider,
  then the database; the provider calls back with untrusted claims; a scheduled
  sweep queries what is open; owners decide what is left.
- **Hard.** Function death between two calls, callback before answer, late and
  contradicting results, replay, limits checked twice with waits between.
- **Correct when.** Nothing is credited on a callback's word or twice, checkout
  ids stay with their payment, limits hold at the credit, money received is
  never declared failed, and no payment stays in progress for ever.

### Edge Functions and deposit sheet
- **State.** The payment's row and prompt; the sheet's step, phone and quote.
- **Operations.** `funding-flow.mjs`, `daraja.mjs`; `deposit-sheet.js`.
- **Hard.** A function killed between two calls; a quote sent twice; the sheet
  closed, or a number saved, while calls are under way.
- **Correct when.** A quote puts at most one prompt on a phone, and real money is
  announced before it can be charged.

### Trade page
- **State.** A window of ticks, a channel and a queue of reads; an order with its
  idempotency key, the list of contracts, what was told; the companion's bubble.
- **Hard.** Lost and repeated broadcasts, calls overtaking each other, a lost
  answer to a purchase, account and index switched meanwhile.
- **Correct when.** The chart has no hole and catches up; a retry buys once; a
  result is told once; a closed explanation stays closed.

### Account switch, dashboard, shell, notifications
- **State.** The account, its balance and figures; toasts; the paged sheet.
- **Correct when.** No account's figures appear under another's name nor go back;
  a toast that is read stays and each is read out once; no notification is skipped.

### Sign-in, welcome questions, consent
- **State.** Sessions in two storages, limiters, answers and settings kept in the
  tab, the consent record of each page.
- **Correct when.** Attempts are limited over reloads; who signs in is who is
  found; settings follow the customer's own answers; preferences are stored by
  consent, as far as one page can know of another's choice (section 7).

### Staff console, support, contact form
- **State.** A session shared by all tabs, the context it was verified for, cards
  and forms; drafts, versions and request ids.
- **Hard.** The session changes in another tab, a second factor is asked for in
  the middle of an action, answers are lost, the other side writes too.
- **Correct when.** What is shown belongs to the member it is open for; what is
  confirmed is what is done, once; drafts are given up only when they were saved
  or their author leaves them or loses the ticket. The first does not hold of the
  console's funding panel (section 7).

### The rest
- **Retired spot module** (`modules/crypto-spot`): its page and quote cache are
  modelled because their retry and lease logic is the most intricate of the
  browser's; the module itself is disabled.
- **Reference rate and treasury** (20260927*), **Real gate and modules**
  (20260920280000, 20260920450000), **restrictions** (20260917100000): their
  effect on the rest is a refusal.
- **Presentation**: layout, help pages, pictures, banners.

## 2. Plan

1. *Digit engine, ledger and version 2 epochs*, with the proofs of the engine's
   invariant. Done.
2. *M-Pesa deposits* against their promise, and the Edge Functions call by call.
   Done, but for the daily reconciliation.
3. *Engine version 3*: an abstract tick log, worker and database. Done, but for
   checkpoints.
4. *Generator, proof packages and verifiers.* Done for `verifyPackage` and for the
   fairness page's check of versions 1 and 2.
5. *Pages*: one module per component, each against its model of the server. Done
   for those with state that outlives a call.
6. *Proofs.* Done: the inductive invariants of `DigitEngine`, `Epochs`, `EngineV3`
   and `Funding` with every safety property their runs check, the refinement of
   all four abstract specifications, the properties of every page, function
   and cache of `Clients` but the types, and the verdicts on what was published, of
   versions 1 and 2 and in packages of version 3. Left: what a fully verified
   package of version 3 says after alterations, which section 6 says why. No module
   has a RECURSIVE operator.

## 3. Modules

| Module | Models |
| --- | --- |
| `DigitContract` | Winning digits, payout, risk vector, verdict of a tick: pure operators |
| `ContractLedger` | Abstract: what customers are promised about contracts and balances |
| `DigitEngine` | Purchase, generation, settlement, void, reset of one index in one mode; implements `ContractLedger` |
| `CommitReveal` | Abstract: bets on secret seeds, reveals of unneeded ones |
| `Epochs` | Commit, chain, reveal, purge of daily epochs with purchases and outages; implements `CommitReveal` |
| `TickLog` | Abstract: what version 3 promises about the ticks of an index |
| `EngineV3` | Worker, attestor, database and purchases of version 3; implements `TickLog` |
| `Verifier` | The arithmetic of version 3, as generator, database and verifier each compute it; `verifyPackage`: the verdict on a proof package |
| `ProofPackage` | Generated histories, their export, alterations, and the verdict; uses `Verifier` and `DigitContract` |
| `DigitProof` | Version 1 and 2 ticks as the engine computes them, and the fairness page's check of a range of them |
| `Deposits` | Abstract: what a deposit promises |
| `Funding` | Payments, provider, owners; implements `Deposits` |
| `DepositSheet` | The Edge Functions of deposits, one step per call, and the deposit sheet that calls them |
| `TickFeed`, `TradePage`, `Companion` | The trade page: ticks, orders and contracts, the companion |
| `AccountShell`, `Toasts`, `Notifications` | Account switch and dashboard, toasts, the notification sheet |
| `SignIn`, `Welcome`, `Consent` | Forms and sessions, welcome questions and settings, cookie choice |
| `StaffConsole`, `StaffForms` | The console's access, cards and decisions; what it sends once |
| `SupportDesk`, `ContactForm` | Support conversations; requests of the contact page |
| `SpotPage`, `QuoteCache` | The retired spot page and its quote cache |
| `Slots` | The eighteen variables that a program of `Clients` uses |
| `MarketPages` | Instances: trade page (feed, orders, companion), deposit sheet, spot page, quote cache |
| `MessagePages` | Instances: notification sheet, support desk, contact form, staff console and its forms |
| `SessionPages` | Instances: sign-in, welcome questions, account switch, cookie choice, toasts; the fairness page's tick check |
| `Clients` | All programs side by side, with `ProofPackage`, and their properties |
| `MCDigitEngine`, `MCClients` | Small instances for TLC; those of `Epochs`, `EngineV3` and `Funding` need no definitions, only values |
| `DigitEngineProofs` | Proofs about `DigitEngine`: contracts, ticks, money, that it implements `ContractLedger`; lemmas about finite sums |
| `EpochsProofs`, `EngineV3Proofs`, `FundingProofs` | Proofs about `Epochs`, `EngineV3` and `Funding`, with their refinements |
| `MarketPageProofs`, `MessagePageProofs`, `SessionPageProofs` | An invariant of each program of these modules: that it holds at first, after every step, and what follows from it; the third also one of `ProofPackage`, with the lemmas on the arithmetic of version 3, histories, packages and the verdict |
| `ClientProofs` | The theorems about `Clients`, each from the invariants of its programs |

Operators introduced with a comment `Mutant:` or `A plausible error:` are
deliberately wrong variants of the definition below them. Nothing uses them;
`PROJECT.json` names, for every checked property, the variant under which TLC
finds it violated.

### DigitEngine
Each kind of transaction is a small process whose `pc` says where it stands; a
step covers what it does between two lock waits. What a transaction has written
is buffered in its local record and copied to the tables by its commit action,
which is what READ COMMITTED shows the others.

- *Locks* are not variables. `AccountForUpdate`, `AccountKeyShare`,
  `StateShared`, `StateWritten` and `ContractLocked` derive the holders from the
  program counters; `WaitsFor` is the wait-for relation; `Deadlocked` finds
  cycles, and a victim's transaction ends as the code makes it end (inside a
  settlement the exception is caught and the contract flagged; elsewhere the
  whole transaction is gone).
- *Purchase*: `BuyStart`, `BuyLockAccount` (account row, quote and count
  refusals), `BuyLockIndex` (feed state, replay, balance, entry tick),
  `BuyCommit` (trigger with rate and liability, insert, posting).
- *Run*: `AdvSnapshot` (loop query), `AdvTryLock`, then per tick `AdvTick`,
  and per contract `AdvNext`, `AdvLockContract`, `AdvPost` or `AdvFlag`,
  `AdvTickDone`, and `AdvCommit` for the whole run. `AdvCrash` loses it.
- *Void* and *reset* as in the code; a void waits for the contract and the
  account, a reset reads its conditions with the account row locked.

Simplifications. Time is in half ticks, because the cast in the entry formula
rounds (`EntryTick`). One house margin per instance. Money is in cents. Prices
are left out: a tick is its last digit, fixed by the seed in the initial state.
Refusals by restriction, module switch, policy or index status depend on state
of other components and may happen at any time. The exposure row of a purchase
is locked only inside its last step, so two purchases of different accounts are
serialised there, as its `FOR UPDATE` does. "Once in 24 hours" and "per minute"
span the whole bounded run. The lock on the exposure row is thus assumed, not
checked: an update lost between its read and its write is not a behaviour of the
model.

### Epochs
A run of `engine_advance` is one step here, purchases are two steps, reveal is
two (the loop query, then the updates). Outages are simply runs that do not
happen. `TxnLimit` is the statement timeout of a purchase: without it a purchase
could stand between entry and commit for a day. `DayIsLong` and `GraceIsLong`
state what the code's constants satisfy by a wide margin (ten seconds and ten
ticks against a day; a statement against ten minutes). The initial state is the
engine after its first run.

### Funding
Every RPC locks the payment row first and commits at the end, so each RPC is
one action; a refusal by exception rolls back and so is a disabled action. What
lies between RPCs is state: `edge` (where the deposit function of a payment
is), `prompted` and `paid` (the provider's truth), `answers` (results of status
queries not yet recorded, so any answer may be late and out of order).
`Callback` accepts any claimed checkout and result against any payment whose
token exists: callbacks are untrusted. The provider may report a failure and
take the money afterwards, the case the design's rule on final states is for.

Simplifications. All deposits are of one size, so both limits of 24 hours are
one limit on a number; a deposit counts while less than `Day` has passed since it
was credited (20260926110000:219 compares strictly). `owner` is chosen at first. Coverage by the treasury may
refuse at any credit.
Quotes, access and coverage refusals at the start leave no row and are requests
that do not begin. A claimed receipt is part of the result code of the dedupe
key. Since a payment is pushed once, the branch of `record_initiation` for a
second, different checkout is unreachable, and so is the branch of
`record_status` for a differing callback amount (a callback with another amount
is not applied). Malformed callbacks change nothing but the event table. A
statement line without reference carries the customer's phone, so it fits every
payment of the same customer in the window.

### EngineV3
One index; the worker takes one step per remote call, so that purchases, staff
and time come between any two. `wk.view` is what `engine_v3_writer_state`
returned and `wk.plan` what `engine_v3_resume_plan` did; both grow stale during
a cycle, and the actions of the database (`CommitAccepted`, `TickAccepted`, the
reveal and cutover conditions) check again on what is true now. A price is named
by the tick that has it, so continuing the wrong one shows. A purchase is two
steps, because its gate reads halts, resumes and the cutover without a lock;
what it locks (`index_state FOR SHARE`) keeps ticks from being published
meanwhile (`Gated = {}`). Seeds and hashes are fixed by the day and left out.
A breach of the price band is a property of a tick, fixed in the initial state.

### ProofPackage, Verifier
Hashes are injective, so the hash of a record is the record; a signature names
its key and subject; a receipt its subject, service and time. The scales of the
fixed-point arithmetic are parameters, small in the run and such that roundings
differ from exact division in both signs. What generator, database and verifier
compute independently are separate definitions: variance, moves, rescaled prices,
and the deadline of a day, which the database exports
(`v3_witness_deadline`) and the verifier computes again (`witnessDeadline`) and
compares (`DeadlineNotes`); an alteration may move the exported one. The history
of a package (seeds,
pause, resume, receipts, reveals) is chosen in the initial state; then a range is
exported, possibly altered once, and judged. Alterations are what can happen to
a package on its way: a tick altered with or without its hashes made good,
ticks, days, receipts, signatures or seeds left out, a contract's result
changed, the series rewritten from other seeds and signed with any key.

### DigitProof
The engine's arithmetic is SQL (`round`, `trunc`, numeric division), the page's is
BigInt; both are written out over whole numbers of smallest units, with the parts
of the HMAC block they use (`Block`: digit, sum of twelve bytes, residue, parity)
given by a table per seed and tick. The price of version 1 is drawn by logarithm
and is `tens` of that table; the page does not compute it again. The engine goes
on publishing, revealing and purging while the page reads ticks page by page and
then the epochs; the server may show one digit, one previous price or one seed
that it did not publish (`Alterations`). One verification at a time: the form's
checks of its range are the set `Ranges`, and the limit of 500 epochs is beyond
what is published. `engine_reveal_due_epochs` has no contracts here (`Epochs` has
them); the purge may keep any ticks of a day, as if a contract named them.

### Pages and functions
Each module holds one program: its variables are those of the closure or class,
its actions the handlers, cut at every `await`, since that is where other
handlers of the same page come in. A call is a record from the moment it is
sent; it reads or changes the server at one moment and is answered at another,
in any order; its answer may be lost after the work was done. Guards against
late answers (`loadId`, `generation`, `authVersion`, `epoch`, `detailVersion`)
are counters in the code; a model keeps, for a call, what those counters tell
apart. The server is modelled by what the page can see of it: one contract per
key, one receipt per request id, ticks that are only added.

- *TickFeed*: `queue` is the serialised chain of `serial`, `wire` the
  broadcasts on their way; a task reads pages until it meets its end.
- *TradePage*: `purchase` is the call of `buy`, `key` its idempotency key,
  `unsure` the contract whose confirmation was lost.
- *AccountShell*: a figure is the number of changes an account has had, so an
  older one is smaller.
- *StaffConsole*: `login` is the shared session, `session` and `context` what the
  page knows of it; `decisions` are protected actions between confirmation, code
  and call. `clear` empties the nodes the code lists (`Emptied`), which are not those
  of the funding panel. Its initial states choose a budget of events, reads, submissions and
  failures, so that each kind of race is bounded on its own.
- *SupportDesk*: `away` are the tickets taken from their author; a load or a save of
  one is refused (`not_found`), which drops the ticket and what was typed. `first`
  is the first click on *Send* of the draft, a note for the properties.
- *Consent*: any number of pages, each with the record it read or made; `elsewhere`
  notes whether at the last choice another open page still had one that allows
  settings, which no code of this one can know.
- *DepositSheet*: `sending` holds the requests of `sendPrompt` under way: after
  *Back* and a new quote a second may be sent before the first is answered.
- *SignIn* and *StaffForms* choose in the initial state which of their forms a
  behaviour is about.
- *Companion*: `evaluate` runs after every change (its observers' callbacks run
  before anything else does), so it is part of each action.
- *QuoteCache*: time is left out; a snapshot may grow old and a lease run out at
  any moment, a lease always after the snapshots taken before it.

## 4. Runs

| Run | Checks | Shows |
| --- | --- | --- |
| `DigitEngineBuy` | `NoOverdraft`, `OneContractPerKey`, `ReservedIsOpenStakes`, `ExposureAccountsForPurchases`, `SettledByItsTick`, `MoneyInv`, `BetsOnTheFuture` | Two purchases of one account (both affordable, one affordable, the same key twice) or of two accounts sharing exposure rows (hedging or adding up to the limit), against the generator and a reset, two possible digits per tick; the invariant of the proofs about money |
| `DigitEngineVoid` | `ResolvedOnce`, `NoMissedSettlement`, `IInv`, `KeepsBook`, `DueContractsHandled` | Purchase, settlement and void on one account: the smallest instance with wait cycles of two and of three; the proofs' invariant; every step is one of `ContractLedger`; under fairness every due contract is resolved or flagged |
| `DigitEngineOverlap` | `TicksArePermanent` | Two overlapping runs with a backlog, one may die |
| `Epochs` | `IInv`, `EvidenceKept`, `KeepsCommitReveal`, `EpochsRevealed` | A purchase, days of four ticks, outages of any length, failing settlements, reveals, purge; under fairness ended epochs are revealed unless a failed settlement holds them |
| `EngineV3` | `IInv`, `SeedSecretWhileNeeded`, `ContractsHaveTicks`, `KeepsTickLog`, `MissedOnlyAfterOutage`, `FeedCatchesUp` | A cutover from version 2 or an index in version 3, a price breach or none, one planned or unplanned resume, one crash, lost reply or unreachable key, one purchase |
| `Funding` | `IInv`, `CreditIsProven`, `CreditsWithinLimit` | Two payments of one customer, callbacks of either against either, late answers, three owners |
| `FundingOne` | `KeepsPromise`, `ProgressEnds` | One payment, two contradicting callbacks, two decisions; with a silent provider it still reaches the owners |
| `Clients` | see below | Eighteen programs around the database, each alone |
| `FlaggedIsRetried`, `OverLimitIsRejected`, `NotPlacedIsTrue`, `WarnedBeforeCharge` | one property each | Disagreements of code and documents, section 7 |

`Clients` holds the programs side by side: `program` says which one a behaviour
is of, and the slots `v1 .. v18` stand for its variables. The programs share no
state, so nothing is lost by running them alone; what they share in the system
is the database, and each has its model of that. `MCClients` gives its constants
their values. Its properties gather what the
modules state, by what they have in common:

| Property | Stated in |
| --- | --- |
| `ListsAreRight` | `TickFeed.NoGaps`, `OnlyForward`; `Notifications.InboxNoGaps`; `ContactForm.ListsOwnRequests` |
| `FeedCatchesUp` | `TickFeed.UpToDate` (liveness) |
| `RetriesDoItOnce` | `TradePage.BuysOnce`, `SpotPage.RetryOrdersOnce`, `DepositSheet.PromptedOnce`, `SupportDesk.RetryPostsOnce`, `ContactForm.RetrySendsOnce`, `StaffForms.DoneOnce` |
| `ResultsToldOnce` | `TradePage.ToldOnce`, `Toasts.ReadOutOnce` |
| `ShowsItsOwner` | `AccountShell.BalanceIsCurrent`, `StaffConsole.ShowsItsStaff`, `Welcome.FollowsOwnAnswers` |
| `HeedsItsUser` | `StaffConsole.ActsAsConfirmed`, `Companion.LimitIsSaid`, `ClosedStaysClosed`, `Toasts.FocusHoldsOpen` |
| `DraftsAreKept` | `SupportDesk.KeepsDraft` |
| `StoredAsAsked` | `Consent.StoredByConsent`, `KeepsSettings`; `SignIn.NoSessionLeft`, `SignsInWhoAsked` |
| `AsksSparingly` | `QuoteCache.OneFreshSnapshot`, `LeaseIsExclusive`; `SignIn.AttemptsLimited`; `Companion.BreaksAreApart` |
| `GeneratedVerifies` | `ProofPackage.NeverBeyondLimit`, `HonestVerifies`; `DigitProof.HonestTicksVerify`, `RangeIsWhole` |
| `VerifiedIsTrue` | `ProofPackage.VerifiedTicks`, `VerifiedIsTimely`, `VerifiedResults`; `DigitProof.VerifiedFollows` |

**Bounds and why they suffice.** *DigitEngine*: two purchases and one void are
what the lock conflicts are made of; an account row has one exclusive holder and
the cycles found have at most three members. Two ticks (`MaxClock = 4` half
ticks) give an entry and a settle tick on both sides of a run; `Batch` 1 or 2
lets a run end before the backlog does. A stake pair that leaves less than a
minimum stake (so that a reset is due), one that exceeds the balance by one
order, and a liability limit that one order reaches alone and two exceed put the
boundaries inside. *Epochs*: four ticks are the shortest day its assumptions
allow with a two-tick contract; the clock of 9 gives two full days, the reveal
of the first with a contract open across midnight, and a purge (`Retention` 3).
*EngineV3*: days of five ticks are the shortest that hold the notice of a
rescale; the clock of 6 reaches the second day, so a cutover, a planned resume
at its start, and the ticks after it; one fault, because a crash loses all the
worker's state and the second starts from what the first left in the database.
*Funding*: two payments are needed for anything that crosses payments (checkout,
statement line, limit 1); one customer is the interesting case because customers
share nothing else. `Day = 1`, `MaxClock = 2` let a limit window close and a
payment expire. Owners are interchangeable there, and so are the payments of one
customer: symmetry of both is used (that run checks no liveness). Three owners
are the number a confirmation needs. *Clients*: two of everything that can be
confused (accounts, members, customers, cards, pairs, texts), as many calls as
overtake each other, one lost answer, three of what a limit of two refuses; two
pages and three choices of cookies, which is what it takes to refuse on one page while another allows;
proof packages of three days of two ticks, two seeds per day, one alteration.
`DigitProof` has six ticks, two a day, the change to version 2 at any day or never,
pages of two, one failed call and a retention of a day: a range of four needs three
pages and may end in a day not yet revealed, and the first day may be purged under it.
Bounds are named: `Max...` constants and, for the console, `Budgets`.

`CHECK_DEADLOCK` is off in the Funding configurations, because every payment may
be final with the clock and the bounds used up, and in `Clients` and the runs of
single pages, because a page with its bounds used up rests. Everywhere
else the check is on.

## 5. Fairness

- *DigitEngine*: time passes (`WF` on `Elapse`); `pg_cron` starts a run every
  second and a transaction that can continue does. `SF` on the steps of each
  transaction, because Postgres grants a row lock from a queue: a waiter that is
  enabled again and again is not overtaken for ever. `WF` on `Victim`:
  `deadlock_timeout` breaks every cycle. No fairness for crashes, voids by hand,
  new purchases or resets.
- *Epochs*: time, the cron jobs of advance and reveal, and the end of a
  statement. Nobody has to void, and the purge need not run.
- *EngineV3*: time, the cron run of version 2, the worker's loop (its supervisor
  restarts it) and the end of a purchase's statement. Staff and the attestor need
  not act.
- *Funding*: time, the sweep's `expire_stale`, and that for an open payment some
  answer of a query (or its absence after a day) is recorded, which is the loop
  of `reconcileOpenPayments`. Nobody has to pay, call back or decide.
- *Clients*: the feed's timers fire, its queue goes on and its calls are answered
  or fail. No broadcast need arrive.

## 6. Proofs

Everything here holds for every value of the constants that meets the named
assumptions of the modules; TLC evaluates those assumptions on every run.

| Assumption | Says |
| --- | --- |
| `DigitContract`: `MarginAssumption`, `MaxDelayAssumption` | the margin and the delay are in the ranges the tables allow |
| `DigitEngine`: `OrdersAssumption`, `BoundsAssumption`, `DigitsAssumption`, `ProcessesAssumption`, `RequestsAssumption` | orders are well formed, bounds are naturals, digits are digits, processes are distinct, requests are finitely many (a sum over contracts must exist) |
| `Epochs`: `BoundsAssumption`, `DayIsLong`, `GraceIsLong` | ten seconds, a statement and ten ticks are less than a day; a statement is no longer than the grace before a reveal |
| `EngineV3`: `DayLongEnough` | lead and give-up time fit before the notice of a rescale, and that notice outlives any contract |
| `Funding`: `NobodyAssumption`, `PaymentAssumption`, `BoundsAssumption` | payments are finitely many; an initiation is given up within the limit's 24 hours |
| `MarketPages`: `MarketAssumptions` | tick numbers rise; pages and windows of ticks hold at least one; no order is "none"; some account is no preview; a contract has a result; quotes are numbered from one; breaks come after at least one contract and minute; each request of the quote cache runs on an instance; bounds are naturals |
| `MessagePages`: `MessageAssumptions` | notifications have finitely many stamps, pages hold at least one; no reply is blank; each member of staff has capabilities; bounds are naturals |
| `SessionPages`: `SessionAssumptions` | a limiter allows at least one attempt and its pause is no longer than its window; the two accounts differ; staff have accounts; days and pages have ticks, numeric columns at most three decimals; bounds are naturals |
| `Verifier`: `Scales` | the scales of the fixed-point arithmetic are positive |
| `ProofPackage`: `Bounds`, `Drawing`, `ResumeIsThere` | the bounds are positive; the volatility has a variance, and a seed yields a draw for every slot of a day; the day of the resume begins with some tick |

| Theorem | States |
| --- | --- |
| `DigitEngineProofs!InvariantHolds` | `Spec => []IInv` |
| `TypeCorrect`, `ContractsResolvedOnce`, `SettlementMissesNone` | `[]TypeOK`, `[]ResolvedOnce`, `[]NoMissedSettlement` |
| `NoLookAhead`, `PublishedTicksStay` | `BetsOnTheFuture`, `TicksArePermanent` |
| `MoneyInvariant` | `Spec => []MoneyInv` |
| `BalancesCovered`, `KeysBuyOnce`, `ReservationsExact` | `[]NoOverdraft`, `[]OneContractPerKey`, `[]ReservedIsOpenStakes` |
| `TicksDecideContracts`, `ExposureIsComplete` | `[]SettledByItsTick`, `[]ExposureAccountsForPurchases` |
| `EngineKeepsBook` | `Spec => KeepsBook`: the engine implements `ContractLedger` |
| `EpochsProofs!EpochsInductive`, `EpochsKeepEvidence` | `[]IInv`, `[]EvidenceKept` |
| `EpochsKeepCommitReveal` | `Spec => KeepsCommitReveal`: the epochs implement `CommitReveal` |
| `EngineV3Proofs!EngineV3Inductive` | `Spec => []IInv` |
| `EngineV3SeedSecret`, `EngineV3ContractsHaveTicks` | `[]SeedSecretWhileNeeded`, `[]ContractsHaveTicks` |
| `EngineV3MissedOnlyAfterOutage` | `MissedOnlyAfterOutage` |
| `EngineV3KeepsTickLog` | `Spec => KeepsTickLog`: version 3 implements `TickLog` |
| `FundingProofs!FundingInductive` | `Spec => []IInv` |
| `FundingCreditIsProven`, `FundingCreditsWithinLimit` | `[]CreditIsProven`, `[]CreditsWithinLimit` |
| `FundingKeepsPromise` | `Spec => KeepsPromise`: the deposits implement `Deposits` |
| `ClientProofs!WhatIsRetriedIsDoneOnce` | `ClientSpec => RetriesDoItOnce` |
| `ListsLeaveNothingOut` | `ClientSpec => ListsAreRight` |
| `ResultsAreToldOnce`, `OwnersAreShown` | `[]ResultsToldOnce`, `[]ShowsItsOwner` |
| `UserIsHeeded`, `NothingAskedTooOften` | `[]HeedsItsUser`, `[]AsksSparingly` |
| `RepliesAreKept` | `ClientSpec => DraftsAreKept` |
| `DeviceKeepsWhatWasAsked` | `ClientSpec => StoredAsAsked`, for any number of pages |
| `TicksAreJudgedRight` | The parts of `GeneratedVerifies` and `VerifiedIsTrue` about `DigitProof`: `HonestTicksVerify`, `RangeIsWhole`, `VerifiedFollows` |
| `GeneratedIsNeverWrong` | `ClientSpec => []GeneratedVerifies` |

Each proof has one lemma per conjunct of its invariant (and, where many actions
disturb it, per group of actions), one step per action in it, and a theorem that
joins them. The temporal steps are in the theorems only.

**Digit engine: contracts and ticks.** `ResolvedOnce` is not inductive: a void
and a settlement post under different keys, so what excludes the second is that
whoever is about to resolve a contract has locked an *open* row and nobody else
has. `NoMissedSettlement` is not inductive either: a purchase about to commit
could land on a tick just published. `IInv` adds

- `LocksExclude`: one run past the advisory lock; the contracts a run or a void
  has locked to resolve are open and disjoint; an unfinished purchase has no row;
- `RunCoversTicks`: published ticks are due; on every tick a run has written,
  each open contract is settled, flagged or still to be visited; while a
  purchase stands between its entry tick and its commit no run has written a
  tick, and every published tick precedes its entry tick.

`NoLookAhead` follows from the invariant at the moment of the commit.
`PublishedTicksStay` uses `Contiguous`, which ties the published ticks to
`last_tick_no` and to the snapshots of runs: a stale snapshot may make a run redo
ticks, and it must then keep their rows.

**Digit engine: money.** Balances, reservations and exposure rows are sums over
the ledger and over contracts. `MoneyInv` joins the five properties with what
makes them inductive:

- `BuyersExclude`: a purchase past its account lock is the only one to hold it,
  and from its entry tick on its key is new and its stake covered, since nobody
  else posts to the account meanwhile; what is not bought is not paid for;
- `RunSettlesItsTicks`: a run resolves contracts of the ticks it writes only,
  and drops an exposure row once it has resolved all that is open on the tick.

`MoneySupport` adds `IInv`, `Contiguous` and that an account has finitely many
entries. The proofs look at a step in three ways: `AccountStep` says which entries
it posts to an account (none, or those of one purchase, resolution or reset);
`ContractStep` and `BuyerStep` what it does to contracts and purchases; from the
amounts of the entries (`BoughtMoney`, `ResolvedMoney`, `ResetMoney`) follow the
sums. A settlement is right because the run that commits it publishes the tick it
used: its digits are those of the seed, and a row already there has the same
(`SettlesNext`, `SettledNext`). `BookStep` maps a commit of a purchase, of a void and
of a reset to the action of that name, a commit of a run to the resolution of
the set it settled, and every other step to a stutter.

The library defines a finite sum by a fold that chooses its order.
`DigitEngineProofs` proves that adding, removing, renaming and splitting behave as
they should, without a recursive definition of its own: partial sums are functions
on subsets, and a smallest subset on which two of them disagree cannot exist.

**Epochs.** `EvidenceKept` needs to know that a purge cannot reach a tick a
purchase is about to name, and the refinement that no bet falls on a revealed
seed. `CommitsAreTimely` has the days of the last run and the next one committed;
`RevealsAreLate` has everything revealed, or selected for it, a grace behind
the clock; `PurchasesLookAhead` has a purchase between entry and commit ahead of
the feed, on committed days, within its statement timeout. So a day a purchase
names ends after the reveals reach it (`EnteredDaysAreSecret`).

**Engine version 3.** `ContractsHaveTicks` depends on what the worker has read, on
what staff scheduled and on purchases in flight over a cutover. `GenerationFollows`
says what version 2 cannot have yet, `PausesAreKept` that a resume starts a day
and what it skips is never published, `ViewWasTrue` that the worker's reading was
true when made and only it commits days, `BoughtAhead` that contracts lie
ahead of the clock and reveals behind it, `TicksAreKept` is the property extended to
purchases in flight, `WindowsAreMet` the timing behind `MissedOnlyAfterOutage`: a
worker that completed its commitments no longer than the give-up time ago meets
the next window. Without `GenerationFollows` a tick of version 3 could be accepted
while version 2 still publishes; `TickAccepted` states the condition on the
generation that the database checks first (20260924110000:359). `LogStep` maps every
step of worker, database, staff and customers to one of the tick log or to none.

**Deposits.** `BooksFollowState` ties credit, reversal and cash book to the
payment's state; `EvidenceIsSound` says that answers and statement lines are true,
that no line is bound twice, and that every credit is paid or `Vouched`: a
statement line whose recorder, requester and approver differ. `CreditIsProven`
follows by counting the three; `CreditsWithinLimit` because a credit is either
within the limit at its moment or held for review, and time only takes credits
out of the window. The promise is made for each payment, and `StepPromised` shows
it of each; the sweep is the one transaction that moves several.

**The programs of `Clients`.** A behaviour is of one program, so a theorem about
`ClientSpec` follows from one invariant per program (`ClientSteps` turns a step of
`ClientNext` into one of the program's). Each invariant is the property with what
its own module lists as needed by the proofs, and was checked by TLC on that
program's instance first.

- *What is sent again.* Of all requests with a deposit quote one at most is between
  the beginning of the payment and the record of its push, nothing has been shown
  before it pushes, and a payment declared rejected has nobody left to push it
  (`OneSender`). The purchase under way carries the key of the order the page shows
  unless the account was changed, and the key stays until the contract it bought is
  confirmed (`KeyOfOrder`); that a new key is new is a counting argument
  (`FreshKey`). The spot page's intent is that of every order after which no other
  was sent (`OrdersFollowIntents`). At the support desk, what was sent with one
  version of the ticket and text is one request id, and what was saved was posted
  (`OneVersionEach`, `SavedIsPosted`); on the contact page id and text go together
  (`OneIdEach`). The staff's forms: calls of one request id are for one purpose, and
  versions that were used are over (`PurposesAreKept`, `VersionsAreOver`).
- *Ticks.* What the chart holds is always the run of published ticks between two
  positions (`HoldsRun`). Broadcasts and queued receipts are in order
  (`WaitingInOrder`), and a page is asked for after the last tick held or, with none
  held, in order to reach the newest (`ReadsOn`); so whatever is appended continues the
  run, or replaces nothing but what the window drops. The number shown never goes back
  because, while less is held than was shown, all that waits is newer.
- *Notifications, requests.* An answered page is sorted and whole, and the one call
  whose answer will be used starts at the last entry listed (`LoadsContinue`). That
  a page is what `order by ... limit` returns is a counting argument over places
  (`PageIs`). A contact list that will be shown is the user's (`LoadsAreVersions`).
- *Results, toasts.* What was told was noted for as long as the account stays. Toasts
  are numbered as they are made, and what is shown, timed, in focus or waiting to be
  read was made (`Numbered`).
- *Owners.* Of the account switch's calls one at most is wanted, and it will not show
  less than is shown (`OneIsWanted`). What the console's wanted calls bring belongs to
  the context they were made in, which only the present owner has (`WantedByOwner`).
  The answers the tab keeps are a customer's own (`KeptAsSaved`), and it asks only for
  those it does not know (`AsksUnknown`).
- *Decisions, bubbles.* A decision confirmed carries the card it was confirmed for to
  the call (`DecidesAsConfirmed`). The bubble remembers what was closed
  (`RemembersClosed`) until another message takes its place.
- *Limits, leases.* The attempts that count are the latest recorded, and none before
  them lies within a pause of one that may still be recorded (`CountsTheLatest`,
  `OthersAreOver`); the bound over a window follows from an order of times. A lease of
  the quote cache that runs is the lock's, and while Redis answers a fresh snapshot
  is the shared one or its owner is about to share it (`LeaseOfOwner`, `OwnerAlone`,
  `FreshIsShared`).
- *The device.* Before the first choice no page has one, and after a refusal that
  left no open page with consent none has it since and nothing is stored
  (`RefusalHolds`), so whoever writes, writes to memory; who tries to sign in is an
  account (`WhoTries`), and the session is stored by the step that ends the attempt.
- *Ticks judged.* The engine's numeric arithmetic and the page's BigInt arithmetic
  give the same price for every seed, tick and prior price (`PricesAgree`); the
  difficulty is that `round` and an added half agree below every power of ten, and
  that two decimals multiplied first lose nothing. The engine's series is the function
  each of whose ticks follows from the one before (`SeriesIs`), proved by the
  smallest number at which two candidates differ. What the page holds is what the
  server shows of ticks that were published (`ReadsAreShown`); of those in the table
  all the time it holds every one from the beginning of the range to where it stands,
  since a page is the first so many after it (`ReadsAreWhole`, `PageReads`).
- *Packages of version 3.* Newton's iteration and bisection both end at the integer
  root (`SigmasAgree`); the generator's quotient, stepped down when BigInt rounded it
  up, and the verifier's floor are the same number (`FloorsAgree`, `UnitsAgree`); no
  draw moves a price beyond the limit (`WithinLimit`). The recursive prices,
  commitments and chain are unfolded at each number by the least one at which they
  would not be what their definition says (`PricesAre`, `CommitmentsAre`, `TicksAre`).
  A tick continues the one published before it, or starts anew at the scaled price
  (`Follows`, `Continues`); it lies at or after the deadline of its day (`DeadlineIs`,
  `RecordIs`), and its price is found again from the seed (`PriceAgain`). `Exported`
  says what of all this is in the package, and of each group of the verifier's notes
  it is shown that it is empty or says only that something is missing or not yet
  revealed (`TicksPass`, `EpochsPass`, `AnchorsPass`, `WitnessesPass`,
  `CheckpointsPass`, `ContractsPass`); the verdict is read off these
  (`HonestVerdict`). The invariant of the states is `Made`: the history was chosen
  at first, and as long as nothing was altered the package is an export of it.

**Model-checked only.** Liveness (`DueContractsHandled`, `EpochsRevealed`,
`ProgressEnds`, both `FeedCatchesUp`): liveness under fairness and `ENABLED` are
out of the prover's reach. `VerifiedIsTrue` in its part about `ProofPackage`: its
`VerifiedTicks` says that a verified tick has the price of the history, which rests
on the seeds, scales and alterations of the instance (with other scales, prices of
two seeds may agree where it counts on their differing). `ClientsTypeOK`: the types
of the eighteen programs are proved as far as their invariants need them.

## 7. Findings

Shown by a run:

1. **A failed settlement is never retried** (`FlaggedIsRetried`). A run settles
   only the ticks it inserts; `indices build.md:290` says a failing contract is
   retried on the next run. Only a manual void resolves it.
2. **A void leaves the exposure row** (`OverLimitIsRejected`). The row still
   counts a refunded bet, so a purchase whose loss is above the limit is admitted
   as the hedge of a contract that is gone; `indices build.md:297-298` has it
   rejected.
3. **"Order not placed" for a filled order** (`NotPlacedIsTrue`). The list read
   after a purchase fails in the same `try`, when the key is already retired.
4. **Real money without the warning** (`WarnedBeforeCharge`). A number whose
   saving is answered after the quote is on screen becomes the selected one.

Seen while modelling, without a run: the properties say where they stop.

5. **The funding panel outlives its reader.** `admin.js:96` discards "all
   old-identity data"; `admin-operations.js:1013-1016` empties no node of the funding
   panel, and the next member of staff who may open it sees treasury and pending
   decisions as the former one read them, until their own load answers.
   `ShowsItsStaff` therefore speaks of every other panel.
6. **A refused save erases the draft.** `not_found`, when a ticket has been given to
   another agent, clears reply and note (`support-ui.js:100`), against
   `ADMIN_DASHBOARD_FOUNDATION.md:390-391`. `KeepsDraft` allows it for tickets taken
   away.
7. **Withdrawn on one page, stored by another.** A page reads the record of consent
   once (`consent.js:60`) and goes on storing preferences after consent was
   withdrawn on another, against `pages/cookies.html:101`. `StoredByConsent` leaves
   out the time in which such a page may be open.

More of these, by component; the models have the code's behaviour, and the comments
of the properties say where they stop.

*Database, version 2.* The entry tick rounds elapsed time and adds one only to
the clock's side, against `indices build.md:280`; `feed_stale` judges the time of
the last write and not the age of the last tick, against line 278; a day's
commitment is late after an outage, against `pages/guide-fairness.html:41`;
epochs are chained in the order of their creation (20260920460000:9), so that
after an outage of more than a day the skipped day is chained to tomorrow's,
against line 42. A success callback of a payment whose checkout was never bound
leaves one that the owners resolved `FAILED` as it is (20260926110000:465),
against `docs/REAL_FUNDING_DESIGN.md:89`.

*Version 3.* Halt and void are two calls (`worker.mjs:250-251`): a crash between
them leaves contracts unrefunded on a halted index, against
`docs/runbooks/engine-v3.md:154`. The exit of `main.mjs:65` on a nondeterminism
error is unreachable, because the cycle catches what `publishDue` throws
(runbook, line 153). A halt made after a resume was committed is cleared by the
tick of the resume. A committed resume whose first tick cannot be produced can
neither be missed nor scheduled again. A waiting resume of one index shrinks the
commitment margin of all to the give-up time, and a missed window stalls the
chain for good. A cutover can be scheduled without notice; the 48 hours are a
matter of the runbook. A seed may become public while late ticks of its day are
still to be published, if no contract needs them.

*Verifier.* The comment of `verify.mjs:237` lets a later valid receipt supersede
an invalid one, but line 233 has already degraded the verdict. A tick directly
before a pause can be left out unnoticed if the scaled price fits, because a
configuration does not tell when the pause began (line 316).

*Trade page.* A failed reload empties the tick buffer while the page still says
live; polls queue up behind a call that hangs; a freshly read old tick counts as
fresh for three intervals. Changing the index empties the list, so the stop-loss
guard is open until it is read again; a contract whose answer was lost never
counts for the session; an order sent again after another one was sent in
between has a new key. The OK of a limit's bubble closes nothing; a block that
gives way to another and comes back stays closed although `trade-companion.js:78`
says "until it changes".

*Shell, dashboard, notifications.* Two answers for the same account may reach the
dashboard out of order. `clearToasts` leaves pending announcements, so a result
of the former account may be read out after a switch; focus leaving a toast
under the pointer starts its timer (`shell.js:656`). Notifications with the same
`created_at` at the edge of a page are skipped; an older answer brings a
dismissed announcement back; "mark all read" marks what arrived later.

*Deposits.* `daraja.mjs` says it never throws, but the body's read may time out,
which leaves the payment `INITIATING` until the sweep. After ten minutes pending
the sheet stops following until it is opened again.

*Sign-in, welcome, consent.* Signing in with "remember me" while the tab keeps
another session writes the new one to the device, and the next page reads the
former first (`auth.js:12`). A staff sign-out that fails leaves a customer's
session in the staff slot. Answers that arrive between the clearing and the
sign-out of `logout` write the tailoring key again. A failed read of the answers
resets settings to the defaults.

*Staff console, support, contact.* A rate decision reads `approve` before and the
observation after the verification; the treasury form and a role change read
their fields after it. A late audience count shows the confirmation again with
the old title after an edit, and publishes the new, unreviewed draft
(`admin-operations.js:804`). The request id is kept across an edit after a lost
answer, so that the edited text is answered as a duplicate and reported as sent.
Reading older messages of a conversation renews its version, so that a reply
whose answer was lost is posted twice, against
`ADMIN_DASHBOARD_FOUNDATION.md:389`; `RetryPostsOnce` stops there. On the contact
page a change of session between edit and event sends one person's text under
another's name.

*Spot page.* Candles and ticks of the former pair are drawn under the new one's
label; an order goes to the pair selected after its quote was awaited; the
comment of `refresh-market-quote/index.ts:67` on failed followers does not hold.

*Fairness page.* Its form knows versions 1 and 2 only (`fairness.js:75-84`): the
ticks of an index moved to version 3 would be mismatches there. The text of a
verification names neither index nor account, and one that ends after the account
was changed fills the cleared output again (`fairness.js:149-153`).

*Not modelled, but noticed.* In `avatars.js` a read started after a pick but
before it is saved puts the former picture back, and so does a realtime message
that comes a second after the pick, since it counts from its arrival (line 56,
against lines 38-40); dismissing
an engine notice after a failed read overwrites earlier dismissals
(`engine-notice.js:74`); the file of `fairness-v3.js:92` is named after the form
as it is when the answer comes.

## 8. Not modelled, and why

- Hashes, signatures, encryption, encodings, time stamp tokens: what the
  protocol needs of them is that they are injective and cannot be forged. The
  sampling of a draw from a seed is a table of draws.
- Checkpoints of version 3 (`worker.mjs:282-296`): evidence for readers, which no
  later step depends on; in a proof package they are anchors. Registration of
  keys, providers and configurations: one-time steps of the operators.
- Several indices in one run or cycle: they share the loop and the commitment
  window only.
- Policy versions, per-customer limits, pausing an index, restrictions, the Real
  gate and modules: refusals of a purchase that may come at any time.
- Daily reconciliation and treasury: sums over statement totals, done once a day
  under one lock; coverage is a refusal that may come at any time. The fifty-payment
  limit of the sweep needs more payments than can be explored; a payment leaves
  its list after a day by itself. That there is one undecided action per payment
  and no cancelling is in `Funding`; that somebody decides is not promised.
- Producers of notifications, read marks and retention; queues and assignment of
  support; pagination and filters of the console's tables: no property here
  depends on them.
- Market strip and charts, navigation and dialogs, pictures and names, help
  pages, memory, network formats, layout, wording and logging.
