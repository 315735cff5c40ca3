------------------------------ MODULE SpotPage ------------------------------
(***************************************************************************)
(* The trade page of the retired spot module,                              *)
(* modules/crypto-spot/assets/js/trade.js with order-form.js: the pair on  *)
(* screen, its historical candles and live stream, and the market order,   *)
(* which first has the server persist a quote and then submits under an    *)
(* idempotency key kept for an unchanged intent.                           *)
(*                                                                         *)
(* The chart, the order book and the wording are left out.  A price is     *)
(* named by the pair it is of; it decides the decimals an amount is cut to.*)
(***************************************************************************)
EXTENDS Naturals, Sequences, FiniteSets

CONSTANTS
    Pairs,
    Orderable,      \* pairs that are tradable and not paused in the catalog
    Decimals,       \* pair -> decimals of a quantity at that pair's price
    Sides,
    Amounts,        \* what the form may hold
    MaxSwitches,    \* bound: changes of pair or timeframe
    MaxClicks,      \* bound: presses of buy or sell
    MaxFaults       \* bound: answers lost, streams dropped

SpotAssumption ==
    Orderable \subseteq Pairs /\ {MaxSwitches, MaxClicks, MaxFaults} \subseteq Nat

VARIABLES
    symbol,     \* liveMarket.symbol
    field,      \* the amount in the form, or Empty
    price,      \* the pair liveMarket.currentPrice is of, or NoPair
    precision,  \* liveMarket.quantityDecimals
    reading,    \* pairs whose candles are being read
    stream,     \* liveMarket.ws: [pair, open]
    closing,    \* replaced sockets whose close event has not come yet
    timers,     \* reconnects armed; clearTimeout reaches the last one only
    last,       \* whether the last one armed is still pending
    step,       \* of placeOrder
    order,      \* what placeOrder holds on to: [row, side, amount, quoted, print, key]
    intent,     \* the intent store: [print, key]
    quoted,     \* server: pairs with a quote less than a minute old
    orders,     \* server: orders, as [print, key, at]
    sent,       \* the intents sent so far, in order
    notice,     \* the status line
    switches, faults

spotVars == <<symbol, field, price, precision, reading, stream, closing, timers, last, step,
              order, intent, quoted, orders, sent, notice, switches, faults>>

NoPair == "none"
Empty == 0
NoPrint == <<>>
NoOrder == [row |-> NoPair, side |-> "none", amount |-> Empty, quoted |-> NoPair, print |-> NoPrint, key |-> 0]

Init ==
    /\ symbol \in Orderable
    /\ field = Empty /\ price = NoPair /\ precision = 4
    /\ reading = {symbol}                       \* initBinanceChart
    /\ stream = [pair |-> NoPair, open |-> FALSE]
    /\ closing = 0 /\ timers = 0 /\ last = FALSE
    /\ step = "idle" /\ order = NoOrder /\ intent = [print |-> NoPrint, key |-> 0]
    /\ quoted = {} /\ orders = <<>> /\ sent = <<>>
    /\ notice = "clear" /\ switches = 0 /\ faults = 0

formVars == <<step, order, intent, quoted, orders, sent>>
Fault == faults < MaxFaults /\ faults' = faults + 1

-----------------------------------------------------------------------------
(* The market shown.                                                       *)

(* connectBinanceWebSocket: the former socket is closed, whose close event *)
(* will arm a reconnect of its own.                                        *)
Connect(pair) ==
    /\ stream' = [pair |-> pair, open |-> TRUE]
    /\ closing' = closing + (IF stream.open THEN 1 ELSE 0)

Arm == timers' = timers + 1 /\ last' = TRUE

Priced(pair) == price' = pair /\ precision' = Decimals[pair]

(* loadDataAndConnect: the answer is used whatever pair is selected by     *)
(* now; without candles the former stream is left as it is.                *)
CandlesRead(pair) ==
    /\ pair \in reading
    /\ reading' = reading \ {pair}
    /\ \/ /\ Priced(pair) /\ Connect(pair)
          /\ timers' = timers - (IF last THEN 1 ELSE 0) /\ last' = FALSE
          /\ UNCHANGED faults
       \/ Fault /\ UNCHANGED <<price, precision, stream, closing, timers, last>>
    /\ UNCHANGED <<symbol, field, notice, switches, formVars>>

\* A candle sets the price alone, a ticker message the decimals too.
Tick ==
    /\ stream.open
    /\ price' = stream.pair /\ precision' \in {precision, Decimals[stream.pair]}
    /\ UNCHANGED <<symbol, field, reading, stream, closing, timers, last, notice, switches,
                   faults, formVars>>

SocketCloses ==
    /\ \/ closing > 0 /\ closing' = closing - 1 /\ UNCHANGED <<stream, faults>>
       \/ stream.open /\ Fault /\ stream' = [stream EXCEPT !.open = FALSE] /\ UNCHANGED closing
    /\ Arm
    /\ UNCHANGED <<symbol, field, price, precision, reading, notice, switches, formVars>>

Reconnects ==
    /\ timers > 0
    /\ LET superseded == IF last /\ timers > 1 THEN 2 ELSE 1
       IN timers' = timers - superseded
    /\ last' = FALSE
    /\ Connect(symbol)
    /\ UNCHANGED <<symbol, field, price, precision, reading, notice, switches, faults, formVars>>

(* A pair of the catalog, or the same pair with another timeframe.         *)
switchAsset(pair) ==
    /\ switches < MaxSwitches /\ switches' = switches + 1
    /\ symbol' = pair
    /\ reading' = reading \cup {pair}
    /\ \/ field' = Empty /\ price' = NoPair /\ notice' = "clear"
       \/ pair = symbol /\ UNCHANGED <<field, price, notice>>         \* setTimeframe
    /\ UNCHANGED <<precision, stream, closing, timers, last, faults, formVars>>

-----------------------------------------------------------------------------
(* The order.                                                              *)

marketVars == <<symbol, price, precision, reading, stream, closing, timers, last, switches>>

EditAmount(amount) ==
    /\ field # amount
    /\ symbol \in Orderable                     \* applyTradability
    /\ field' = amount /\ notice' = "clear"
    /\ UNCHANGED <<marketVars, faults, formVars>>

placeOrder(side) ==
    /\ step = "idle" /\ Len(sent) < MaxClicks
    /\ symbol \in Orderable /\ field # Empty
    /\ step' = "client" /\ notice' = "clear"
    /\ order' = [NoOrder EXCEPT !.row = symbol, !.side = side, !.amount = field]
    /\ UNCHANGED <<marketVars, field, faults, intent, quoted, orders, sent>>

Ends(outcome) == step' = "idle" /\ order' = NoOrder /\ notice' = outcome

(* refresh-market-quote persists a quote of the pair selected by now, if   *)
(* the registry offers it; its answer may be lost.                         *)
QuoteAsked ==
    /\ step = "client"
    /\ order' = [order EXCEPT !.quoted = symbol]
    /\ step' = "quote"
    /\ UNCHANGED <<marketVars, field, notice, faults, intent, quoted, orders, sent>>

(* An unchanged intent keeps its key.                                      *)
keyFor(print) == IF intent.print = print THEN intent ELSE [print |-> print, key |-> intent.key + 1]

(* intentFingerprint, with the amount cut to the decimals of the price     *)
(* shown now and the pair selected now.                                    *)
Fingerprint == <<symbol, order.side, order.amount, precision>>

QuoteAnswered ==
    /\ step = "quote"
    /\ \/ /\ order.quoted \in Orderable
          /\ quoted' = quoted \cup {order.quoted}
          /\ intent' = keyFor(Fingerprint)
          /\ order' = [order EXCEPT !.print = Fingerprint, !.key = intent'.key]
          /\ sent' = Append(sent, Fingerprint)
          /\ step' = "order" /\ UNCHANGED <<notice, faults>>
       \/ /\ order.quoted \notin Orderable
          /\ Ends("failed") /\ UNCHANGED <<intent, quoted, sent, faults>>
       \/ /\ Fault
          /\ quoted' \in {quoted, quoted \cup ({order.quoted} \cap Orderable)}
          /\ Ends("failed") /\ UNCHANGED <<intent, sent>>
    /\ UNCHANGED <<marketVars, field, orders>>

Known == \E i \in 1 .. Len(orders) : orders[i].key = order.key

(* submit_demo_order returns the order a key already has, wants a quote of *)
(* the pair, and fills a market order at once; it refuses for other        *)
(* reasons (balance, limits) as it likes.                                  *)
submit_demo_order ==
    IF Known \/ order.print[1] \notin Orderable \cap quoted THEN orders
    ELSE Append(orders, [print |-> order.print, key |-> order.key, at |-> Len(sent)])

OrderAnswered ==
    /\ step = "order"
    /\ \/ orders' = submit_demo_order /\ UNCHANGED faults
          /\ Ends(IF Known \/ orders' # orders THEN "placed" ELSE "failed")
       \/ Fault /\ orders' \in {orders, submit_demo_order} /\ Ends("failed")
    /\ UNCHANGED <<marketVars, field, intent, quoted, sent>>

QuoteAges ==
    /\ quoted # {}
    /\ quoted' = {}
    /\ UNCHANGED <<marketVars, field, notice, faults, step, order, intent, orders, sent>>

Next ==
    \/ \E pair \in Pairs : CandlesRead(pair) \/ switchAsset(pair)
    \/ Tick \/ SocketCloses \/ Reconnects
    \/ \E amount \in Amounts : EditAmount(amount)
    \/ \E side \in Sides : placeOrder(side)
    \/ QuoteAsked \/ QuoteAnswered \/ OrderAnswered \/ QuoteAges

Spec == Init /\ [][Next]_spotVars

-----------------------------------------------------------------------------
TypeOK ==
    /\ symbol \in Pairs /\ price \in Pairs \cup {NoPair}
    /\ reading \subseteq Pairs
    /\ stream.pair \in Pairs \cup {NoPair} /\ stream.open \in BOOLEAN
    /\ {closing, timers} \subseteq Nat /\ (last => timers > 0)
    /\ step \in {"idle", "client", "quote", "order"}
    /\ step = "idle" <=> order = NoOrder
    /\ notice \in {"clear", "failed", "placed"}

(* What the proofs need: the intent is of the last order sent, and still   *)
(* that of every order after which nothing else was sent.                  *)
OrdersFollowIntents ==
    /\ sent = [n \in 1 .. Len(sent) |-> sent[n]] /\ orders = [i \in 1 .. Len(orders) |-> orders[i]]
    /\ {Len(sent), Len(orders)} \subseteq Nat
    /\ intent = [print |-> intent.print, key |-> intent.key]
    /\ order = [row |-> order.row, side |-> order.side, amount |-> order.amount,
                quoted |-> order.quoted, print |-> order.print, key |-> order.key]
    /\ step = "order" => /\ Len(sent) > 0 /\ sent[Len(sent)] = order.print
                         /\ intent = [print |-> order.print, key |-> order.key]
    /\ \A i \in 1 .. Len(orders) :
          /\ orders[i].at \in 1 .. Len(sent)
          /\ (\A n \in orders[i].at .. Len(sent) : sent[n] = orders[i].print)
                => intent = [print |-> orders[i].print, key |-> orders[i].key]

(* A retry orders once: two orders of the same pair, side and quantity     *)
(* come from presses with a different order sent in between, whatever      *)
(* answers were lost and whatever pair was looked at meanwhile.            *)
RetryOrdersOnce ==
    \A i, j \in 1 .. Len(orders) : i < j /\ orders[i].print = orders[j].print =>
        \E n \in orders[i].at .. orders[j].at : sent[n] # orders[i].print
=============================================================================
