------------------------------ MODULE TradePage ------------------------------
(***************************************************************************)
(* The order ticket and the contract list of the trading page (start,      *)
(* assets/js/trade.js) against a server that keeps one contract per key    *)
(* (DigitEngine).  Calls are answered late, fail, or do their work and     *)
(* lose their answer; the customer switches account or index meanwhile.    *)
(* TickFeed models the prices; here a feed is loading or gives ticks.      *)
(***************************************************************************)
EXTENDS Naturals, Integers, Sequences, FiniteSets, SequencesExt

CONSTANTS
    Accounts,   \* the accounts the mode switch offers
    Preview,    \* those among them without a trading account (the Real view)
    Orders,     \* what the ticket can ask for: index, type, barrier, stake, ticks
    Results,    \* how contracts can end, among WON, LOST and VOID
    StopLoss,   \* session loss, in stakes, at which the customer stops
    MaxBuys,    \* bound: contracts on the server
    MaxSwitches,\* bound: changes of account or index
    MaxFailures \* bound: failed or lost calls

TradeAccounts == Preview \subseteq Accounts /\ Accounts \ Preview # {}
TradeResults == Results # {} /\ Results \subseteq {"WON", "LOST", "VOID"}
TradeOrders == "none" \notin Orders
TradeBounds == {StopLoss, MaxBuys, MaxSwitches, MaxFailures} \subseteq Nat

VARIABLES
    server,     \* sequence of contracts: [account, order, key, state]
    account,    \* window.smartProfitAccount
    opened,     \* of subscribe(): "loading", "listing", "joined", "failed", "preview"
    intent,     \* the order the key was made for, or NoOrder
    key,        \* idempotencyKey; 0 is the empty string
    purchase,   \* the purchase call under way, or NoCall
    contracts,  \* the list the page shows: contract number -> state
    loaded,     \* contractsLoaded
    loads,      \* list_my_contracts calls under way
    purchased, notified, session, \* purchasedIds, notifiedIds, sessionIds
    status,     \* what the page says of the last order: "", "filled", "not placed"
    switches, failures,
    told,       \* ghost: results shown since the trade state was cleared, per contract
    unsure      \* ghost: contract bought by the last order sent, its answer not yet had

tradeVars == <<server, account, opened, intent, key, purchase, contracts, loaded,
               loads, purchased, notified, session, switches, failures, told, unsure, status>>
pageVars == <<account, opened, intent, key, contracts, loaded, purchased, notified,
              session, switches, told, status>>

NoOrder == "none"
NoCall == [step |-> "none"]
Ids == 1 .. MaxBuys
Buying == purchase # NoCall

\* A key no contract has.
uuid == CHOOSE k \in 1 .. MaxBuys + 1 : \A i \in DOMAIN server : server[i].key # k

Mine(a) == {i \in DOMAIN server : server[i].account = a}
ListOf(a) == [i \in Mine(a) |-> server[i].state]

\* contractNet and sessionStats: the result, in stakes, of the settled contracts this
\* session bought that are on the list (a win pays one stake more here).
Count(state) == Cardinality({i \in session \cap DOMAIN contracts : contracts[i] = state})
sessionNet == Count("WON") - Count("LOST")
guardReason == StopLoss > 0 /\ sessionNet <= -StopLoss

Fail == failures < MaxFailures /\ failures' = failures + 1

Start(a) == IF a \in Preview THEN "preview" ELSE "loading"

Init ==
    /\ server = <<>> /\ account \in Accounts /\ opened = Start(account)
    /\ intent = NoOrder /\ key = 0 /\ purchase = NoCall
    /\ contracts = <<>> /\ loaded = FALSE /\ loads = {}
    /\ purchased = {} /\ notified = {} /\ session = {}
    /\ switches = 0 /\ failures = 0
    /\ told = [i \in Ids |-> 0] /\ unsure = 0 /\ status = ""

-----------------------------------------------------------------------------
(***************************************************************************)
(* list_my_contracts: `by` says who asked, "open" the subscription, "buy"  *)
(* the purchase, "event" a change event or a tick.  Only the latest call's *)
(* answer is used (contractLoadId), and none from before a teardown: of an *)
(* overtaken call only the code that waits for it is kept here.            *)
(***************************************************************************)
Superseded(calls) ==
    {[c EXCEPT !.latest = FALSE, !.read = TRUE, !.rows = <<>>] : c \in {d \in calls : d.by # "event"}}
Load(by, calls) == Superseded(calls) \cup
                   {[by |-> by, account |-> account, latest |-> TRUE, read |-> FALSE, rows |-> <<>>]}
Left(calls) == {c \in Superseded(calls) : c.by = "buy"}
Free(by) == \A c \in loads : c.by # by

\* The server reads the list at some moment before the page has the answer.
ReadList ==
    \E c \in loads :
        /\ ~c.read
        /\ loads' = (loads \ {c}) \cup {[c EXCEPT !.read = TRUE, !.rows = ListOf(c.account)]}
        /\ UNCHANGED <<pageVars, server, purchase, failures, unsure>>

\* The waiting code goes on: the subscription joins the change events of its account,
\* unless the page left it; the purchase is over.
Resume(c) ==
    /\ opened' = IF c.by = "open" THEN "joined" ELSE opened
    /\ purchase' = IF c.by = "buy" THEN NoCall ELSE purchase

\* Results told: of contracts seen open before, or bought here.
Told(rows, isPurchased) ==
    {i \in DOMAIN rows : /\ rows[i] \in Results /\ i \notin notified
                         /\ \/ loaded /\ i \in DOMAIN contracts /\ contracts[i] = "OPEN"
                            \/ isPurchased[i]}

\* A plausible error: a result is told whenever the list has it.
TellsAgain(c) ==
    LET news == {i \in DOMAIN c.rows : c.rows[i] \in Results /\ i \in purchased}
    IN  /\ contracts' = c.rows /\ loaded' = TRUE
        /\ notified' = notified \cup news
        /\ told' = [i \in Ids |-> IF i \in news THEN told[i] + 1 ELSE told[i]]
        /\ purchased' = purchased

\* The list is replaced and its new results are told.
ShowList(c) ==
    LET news == Told(c.rows, [i \in Ids |-> i \in purchased])
    IN  /\ contracts' = c.rows /\ loaded' = TRUE
        /\ notified' = notified \cup news
        /\ told' = [i \in Ids |-> IF i \in news THEN told[i] + 1 ELSE told[i]]
        /\ purchased' = purchased \ {i \in DOMAIN c.rows : c.rows[i] \in Results /\ i \notin notified}

Current(c) == c.latest /\ c.account = account

loadContracts ==
    \E c \in loads :
        /\ c.read
        /\ loads' = loads \ {c}
        /\ Resume(c)
        /\ IF Current(c) THEN ShowList(c)
           ELSE UNCHANGED <<contracts, loaded, notified, told, purchased>>
        /\ UNCHANGED <<server, account, intent, key, session, switches, failures, unsure, status>>

\* The call fails: the subscription never joins, and a purchase that was filled is
\* reported like one that was not.
LoadFails ==
    \E c \in loads :
        /\ Fail
        /\ loads' = loads \ {c}
        /\ opened' = IF c.by = "open" THEN "failed" ELSE opened
        /\ purchase' = IF c.by = "buy" THEN NoCall ELSE purchase
        /\ status' = IF c.by = "buy" THEN "not placed" ELSE status
        /\ UNCHANGED <<server, account, intent, key, contracts, loaded, purchased,
                       notified, session, switches, told, unsure>>

-----------------------------------------------------------------------------
(***************************************************************************)
(* buy(): one key per intended contract.                                   *)
(***************************************************************************)
\* A side is buyable with ticks on the page, an account, no purchase under way and
\* no session limit reached (updateBuy).
Buyable == opened \notin {"loading", "preview"} /\ ~Buying /\ ~guardReason

\* The key is kept while the same order is tried again.
ChooseKey(order) ==
    IF order # intent \/ key = 0
    THEN key' = uuid /\ intent' = order
    ELSE UNCHANGED <<key, intent>>

Retried(order) == order = intent /\ \E i \in DOMAIN server : server[i].key = key
buy ==
    \E order \in Orders :
        /\ Buyable /\ (Len(server) < MaxBuys \/ Retried(order))
        /\ ChooseKey(order)
        /\ purchase' = [step |-> "sent", account |-> account, order |-> order, key |-> key', number |-> 0]
        /\ unsure' = IF order # intent THEN 0 ELSE unsure
        /\ status' = ""
        /\ UNCHANGED <<server, account, opened, contracts, loaded, loads, purchased, notified,
                       session, switches, failures, told>>

\* engine_buy_contract: a repeated key answers with its contract.
SameKey == {i \in DOMAIN server : server[i].account = purchase.account /\ server[i].key = purchase.key}
ServerBuys ==
    /\ purchase # NoCall /\ purchase.step = "sent"
    /\ IF SameKey # {} THEN UNCHANGED server
       ELSE server' = Append(server, [account |-> purchase.account, order |-> purchase.order,
                                      key |-> purchase.key, state |-> "OPEN"])
    /\ LET number == IF SameKey # {} THEN CHOOSE i \in SameKey : TRUE ELSE Len(server')
       IN  /\ purchase' = [purchase EXCEPT !.step = "filled", !.number = number]
           /\ unsure' = IF purchase.account = account /\ intent = purchase.order THEN number ELSE unsure
    /\ UNCHANGED <<pageVars, loads, failures>>

ServerRefuses ==
    /\ purchase # NoCall /\ purchase.step = "sent"
    /\ purchase' = [purchase EXCEPT !.step = "refused"]
    /\ UNCHANGED <<pageVars, server, loads, failures, unsure>>

\* The request is lost, or its answer.
CallLost ==
    /\ purchase # NoCall /\ purchase.step \in {"sent", "filled"} /\ Fail
    /\ purchase' = [purchase EXCEPT !.step = "lost"]
    /\ UNCHANGED <<pageVars, server, loads, unsure>>

\* After the answer, an account changed meanwhile ends the handler at once.
AnswerDropped ==
    /\ purchase # NoCall /\ purchase.step \in {"filled", "refused", "lost"}
    /\ purchase.account # account
    /\ purchase' = NoCall
    /\ UNCHANGED <<pageVars, server, loads, failures, unsure>>

\* A refusal or a lost call is reported as an order not placed; the key stays.
NotPlaced ==
    /\ purchase # NoCall /\ purchase.step \in {"refused", "lost"}
    /\ purchase.account = account
    /\ purchase' = NoCall
    /\ status' = "not placed"
    /\ UNCHANGED <<server, account, opened, intent, key, contracts, loaded, loads, purchased,
                   notified, session, switches, failures, told, unsure>>

\* A filled order retires its key and belongs to the session; then the list is read again.
Filled ==
    /\ purchase # NoCall /\ purchase.step = "filled" /\ purchase.account = account
    /\ key' = 0
    /\ purchased' = purchased \cup {purchase.number}
    /\ session' = session \cup {purchase.number}
    /\ purchase' = [purchase EXCEPT !.step = "listing"]
    /\ loads' = Load("buy", loads)
    /\ unsure' = 0
    /\ status' = "filled"
    /\ UNCHANGED <<server, account, opened, intent, contracts, loaded, notified, switches,
                   failures, told>>

-----------------------------------------------------------------------------
\* The engine settles an open contract.
Settle ==
    \E i \in DOMAIN server, result \in Results :
        /\ server[i].state = "OPEN"
        /\ server' = [server EXCEPT ![i].state = result]
        /\ UNCHANGED <<pageVars, purchase, loads, failures, unsure>>

\* A change event of the account's contracts.
ContractChanged ==
    /\ opened = "joined" /\ Free("event") /\ contracts # ListOf(account)
    /\ loads' = Load("event", loads)
    /\ UNCHANGED <<pageVars, server, purchase, failures, unsure>>

\* onTicks: a listed open contract whose tick is out is read again, at every tick.
onTicks ==
    /\ opened \notin {"loading", "preview"} /\ Free("event")
    /\ \E i \in DOMAIN contracts : contracts[i] = "OPEN" /\ server[i].state # "OPEN"
    /\ loads' = Load("event", loads)
    /\ UNCHANGED <<pageVars, server, purchase, failures, unsure>>

-----------------------------------------------------------------------------
\* subscribe(): everything of the former subscription is left, and the list is empty.
subscribe(a) ==
    /\ opened' = Start(a)
    /\ loads' = Left(loads)
    /\ contracts' = <<>> /\ loaded' = FALSE

\* The feed has its ticks and its channel: the list is read.
FeedOpened ==
    /\ opened = "loading"
    /\ opened' = "listing"
    /\ loads' = Load("open", loads)
    /\ UNCHANGED <<server, account, intent, key, purchase, contracts, loaded, purchased,
                   notified, session, switches, failures, told, unsure, status>>

\* Another index.
ChangeIndex ==
    /\ switches < MaxSwitches /\ switches' = switches + 1
    /\ subscribe(account)
    /\ UNCHANGED <<server, account, intent, key, purchase, purchased, notified, session,
                   failures, told, unsure, status>>

\* Another account: the trade state is cleared, then the page subscribes again.
ChangeAccount ==
    \E a \in Accounts \ {account} :
        /\ switches < MaxSwitches /\ switches' = switches + 1
        /\ account' = a
        /\ subscribe(a)
        /\ purchased' = {} /\ notified' = {} /\ session' = {}
        /\ intent' = NoOrder /\ key' = 0
        /\ told' = [i \in Ids |-> 0] /\ unsure' = 0 /\ status' = ""
        /\ UNCHANGED <<server, purchase, failures>>

\* The customer starts a new session after a limit.
ResumeSession ==
    /\ guardReason
    /\ session' = {}
    /\ UNCHANGED <<server, account, opened, intent, key, purchase, contracts, loaded, loads,
                   purchased, notified, switches, failures, told, unsure, status>>

Next ==
    \/ ReadList \/ loadContracts \/ LoadFails
    \/ buy \/ ServerBuys \/ ServerRefuses \/ CallLost \/ AnswerDropped \/ NotPlaced \/ Filled
    \/ Settle \/ ContractChanged \/ onTicks
    \/ FeedOpened \/ ChangeIndex \/ ChangeAccount \/ ResumeSession

\* Calls are answered or fail, and ticks keep coming.
Fairness ==
    /\ WF_tradeVars(ReadList) /\ WF_tradeVars(loadContracts) /\ WF_tradeVars(onTicks)
    /\ WF_tradeVars(Filled) /\ WF_tradeVars(FeedOpened)
Spec == Init /\ [][Next]_tradeVars /\ Fairness

-----------------------------------------------------------------------------
Contract == [account : Accounts, order : Orders, key : Nat \ {0}, state : {"OPEN"} \cup Results]
Call == [step : {"sent", "filled", "refused", "lost", "listing"}, account : Accounts,
         order : Orders, key : Nat \ {0}, number : Nat]

TypeOK ==
    /\ account \in Accounts
    /\ server \in Seq(Contract) /\ purchase \in {NoCall} \cup Call
    /\ opened \in {"loading", "listing", "joined", "failed", "preview"}
    /\ intent \in Orders \cup {NoOrder} /\ key \in 0 .. MaxBuys + 1
    /\ DOMAIN contracts \subseteq Ids /\ loaded \in BOOLEAN
    /\ purchased \cup notified \cup session \subseteq DOMAIN server

\* Trying the same order again after a lost answer buys nothing twice: while the
\* contract of the last order is not confirmed, that order makes no other.
BuysOnce ==
    Len(server') > Len(server) /\ unsure # 0 =>
        \/ purchase.account # account
        \/ purchase.order # server[unsure].order

\* The invariant behind it: the call under way carries the key of the order the page
\* shows, unless the account was changed; a contract with that key is of that order; and
\* the key is kept until the contract it bought is confirmed.
KeyOfOrder ==
    /\ purchase.step = "sent" =>
         IF key = 0 THEN intent = NoOrder
         ELSE purchase.account = account /\ purchase.order = intent /\ purchase.key = key
    /\ key # 0 => \A i \in DOMAIN server :
         server[i].key = key => server[i].account = account /\ server[i].order = intent
    /\ unsure # 0 => unsure \in DOMAIN server /\ server[unsure].key = key

\* A result is told at most once, while the trade state is not cleared.
ToldOnce == \A i \in Ids : told[i] <= 1

\* An order the page says was not placed can be tried again without buying twice:
\* either it was refused or lost and its key is kept, or nothing was bought.
NotPlacedIsTrue == status = "not placed" => key # 0
=============================================================================
