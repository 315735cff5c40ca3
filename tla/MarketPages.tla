----------------------------- MODULE MarketPages ----------------------------
(***************************************************************************)
(* The programs of a page that trades: ticks, orders, the retired spot     *)
(* page and the quote cache behind it, deposits, and the companion.        *)
(***************************************************************************)
EXTENDS Slots

CONSTANTS  \* the constants of each program: a record of them
    Feed, Trade, Spot, Deposit, Coach, Quotes

-----------------------------------------------------------------------------
\* The ticks of an index on the trade page.
F == INSTANCE TickFeed WITH
    Numbers <- Feed.Numbers, PageSize <- Feed.PageSize, Window <- Feed.Window,
    MaxQueue <- Feed.MaxQueue, MaxFailures <- Feed.MaxFailures, published <- v1,
    wire <- v2, ticks <- v3, phase <- v4, subscribed <- v5, fresh <- v6, armed <- v7,
    queue <- v8, task <- v9, seen <- v10, shown <- v11, failures <- v12

\* Orders on the trade page.
T == INSTANCE TradePage WITH
    Accounts <- Trade.Accounts, Preview <- Trade.Preview, Orders <- Trade.Orders,
    Results <- Trade.Results, StopLoss <- Trade.StopLoss, MaxBuys <- Trade.MaxBuys,
    MaxSwitches <- Trade.MaxSwitches, MaxFailures <- Trade.MaxFailures, server <- v1,
    account <- v2, opened <- v3, intent <- v4, key <- v5, purchase <- v6,
    contracts <- v7, loaded <- v8, loads <- v9, purchased <- v10, notified <- v11,
    session <- v12, status <- v13, switches <- v14, failures <- v15, told <- v16,
    unsure <- v17

\* The retired spot page.
O == INSTANCE SpotPage WITH
    Pairs <- Spot.Pairs, Orderable <- Spot.Orderable, Decimals <- Spot.Decimals,
    Sides <- Spot.Sides, Amounts <- Spot.Amounts, MaxSwitches <- Spot.MaxSwitches,
    MaxClicks <- Spot.MaxClicks, MaxFaults <- Spot.MaxFaults, symbol <- v1, field <- v2,
    price <- v3, precision <- v4, reading <- v5, stream <- v6, closing <- v7,
    timers <- v8, last <- v9, step <- v10, order <- v11, intent <- v12, quoted <- v13,
    orders <- v14, sent <- v15, notice <- v16, switches <- v17, faults <- v18

\* The deposit sheet and the edge functions.
D == INSTANCE DepositSheet WITH
    Quotes <- Deposit.Quotes, MaxRequests <- Deposit.MaxRequests,
    MaxFaults <- Deposit.MaxFaults, MaxSaves <- Deposit.MaxSaves, rows <- v1,
    requests <- v2, prompts <- v3, faults <- v4, step <- v5, enrolled <- v6,
    listed <- v7, phone <- v8, quote <- v9, asking <- v10, saving <- v11,
    sending <- v12, sendable <- v13, poll <- v14, payment <- v15, saves <- v16,
    waiting <- v17

\* The companion of the trade page.
B == INSTANCE Companion WITH
    Blocks <- Coach.Blocks, Guards <- Coach.Guards, BREAK_TRADES <- Coach.BREAK_TRADES,
    BREAK_MINUTES <- Coach.BREAK_MINUTES, Steps <- Coach.Steps,
    MaxTrades <- Coach.MaxTrades, MaxTime <- Coach.MaxTime,
    MaxEvents <- Coach.MaxEvents, page <- v1, now <- v2, bubble <- v3, session <- v4,
    hidden <- v5, offering <- v6, closed <- v7, placed <- v8, breaks <- v9,
    events <- v10

\* The quote cache.
Q == INSTANCE QuoteCache WITH
    Requests <- Quotes.Requests, Instances <- Quotes.Instances, Host <- Quotes.Host,
    MaxFaults <- Quotes.MaxFaults, usable <- v1, micro <- v2, shared <- v3, lock <- v4,
    made <- v5, fresh <- v6, calls <- v7, leased <- v8, outrun <- v9, faults <- v10

-----------------------------------------------------------------------------
(* What the constants of the modules have to be *)

ASSUME MarketAssumptions ==
    /\ F!FeedNumbers /\ F!FeedBounds
    /\ T!TradeAccounts /\ T!TradeResults /\ T!TradeOrders /\ T!TradeBounds
    /\ O!SpotAssumption
    /\ D!EdgeBounds /\ D!SheetBounds
    /\ B!CompanionBounds
    /\ Q!QuoteCacheAssumption
=============================================================================
