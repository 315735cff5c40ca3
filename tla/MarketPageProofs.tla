-------------------------- MODULE MarketPageProofs --------------------------
(***************************************************************************)
(* Proofs about the programs of MarketPages, for any constants: orders,    *)
(* deposits, the spot page, the companion, the quote cache and the ticks   *)
(* of an index.                                                            *)
(***************************************************************************)
EXTENDS MarketPages, FiniteSetTheorems, SequenceTheorems, TLAPS

-----------------------------------------------------------------------------
(* The trade page: v1 is server, v2 account, v4 intent, v5 key,            *)
(* v6 purchase, v11 notified, v16 told, v17 unsure                         *)

\* While the server has fewer contracts than there are keys, one is free.
LEMMA FreshKey ==
    ASSUME v1 \in Seq(T!Contract), Trade.MaxBuys \in Nat, Len(v1) < Trade.MaxBuys
    PROVE  T!uuid \in Nat \ {0} /\ \A i \in DOMAIN v1 : v1[i].key # T!uuid
<1> DEFINE Used == {v1[i].key : i \in DOMAIN v1}
<1>1. DOMAIN v1 = 1 .. Len(v1) /\ Len(v1) \in Nat
  OBVIOUS
<1>2. IsFiniteSet(1 .. Len(v1)) /\ Cardinality(1 .. Len(v1)) = Len(v1)
  <2>1. 1 \in Int /\ Len(v1) \in Int
    BY <1>1
  <2>2. /\ IsFiniteSet(1 .. Len(v1))
        /\ Cardinality(1 .. Len(v1)) = IF 1 > Len(v1) THEN 0 ELSE Len(v1) - 1 + 1
    BY <2>1, FS_Interval, Zenon
  <2> QED BY <1>1, <2>2
<1>3. IsFiniteSet(Used) /\ Cardinality(Used) <= Len(v1)
  <2> DEFINE f == [i \in DOMAIN v1 |-> v1[i].key]
  <2>1. f \in Surjection(1 .. Len(v1), Used)
    BY <1>1 DEF Surjection
  <2> HIDE DEF f, Used
  <2> QED BY <1>2, <2>1, FS_Surjection
<1>4. \E k \in 1 .. Trade.MaxBuys + 1 : k \notin Used
  <2> SUFFICES ASSUME 1 .. Trade.MaxBuys + 1 \subseteq Used PROVE FALSE
    OBVIOUS
  <2>1. Cardinality(1 .. Trade.MaxBuys + 1) = Trade.MaxBuys + 1
    <3> DEFINE m == Trade.MaxBuys + 1
    <3>1. 1 \in Int /\ m \in Int /\ m > 1 - 1
      OBVIOUS
    <3> HIDE DEF m
    <3>2. Cardinality(1 .. m) = IF 1 > m THEN 0 ELSE m - 1 + 1
      BY <3>1, FS_Interval, Zenon
    <3>3. Cardinality(1 .. m) = m
      BY <3>1, <3>2
    <3> QED BY <3>3 DEF m
  <2>2. Cardinality(1 .. Trade.MaxBuys + 1) <= Cardinality(Used)
    BY <1>3, FS_Subset
  <2>3. Cardinality(Used) \in Nat
    BY <1>3, FS_CardinalityType
  <2> QED BY <2>1, <2>2, <2>3, <1>1, <1>3
<1>5. \E k \in 1 .. Trade.MaxBuys + 1 : \A i \in DOMAIN v1 : v1[i].key # k
  BY <1>4
<1> DEFINE IsNew(k) == \A i \in DOMAIN v1 : v1[i].key # k
<1>6. T!uuid \in 1 .. Trade.MaxBuys + 1 /\ IsNew(T!uuid)
  <2>1. \E k \in 1 .. Trade.MaxBuys + 1 : IsNew(k)
    BY <1>5
  <2>2. T!uuid = CHOOSE k \in 1 .. Trade.MaxBuys + 1 : IsNew(k)
    BY Zenon DEF T!uuid
  <2> HIDE DEF IsNew
  <2> QED BY <2>1, <2>2, Zenon
<1> QED BY <1>6

\* What the proofs need of the types.
OrdersAreOrders ==
    /\ v2 \in Trade.Accounts /\ v1 \in Seq(T!Contract) /\ v6 \in {T!NoCall} \cup T!Call
    /\ v4 \in Trade.Orders \cup {T!NoOrder} /\ v5 \in Nat /\ v17 \in Nat

orderVars == <<v1, v2, v4, v5, v6, v17>>

\* What a step may do to an order, its key and the contract it bought: nothing, end or
\* answer the call, or one of five actions.
CallEnds ==
    /\ UNCHANGED <<v1, v2, v4, v5, v17>>
    /\ \/ v6' = T!NoCall
       \/ \E s \in {"refused", "lost"} : v6 # T!NoCall /\ v6' = [v6 EXCEPT !.step = s]

LEMMA OrderSteps ==
    ASSUME [T!Next]_T!tradeVars
    PROVE  UNCHANGED orderVars \/ CallEnds \/ T!buy \/ T!ServerBuys \/ T!Filled \/ T!Settle \/ T!ChangeAccount
<1> USE DEF orderVars, T!pageVars, CallEnds
<1>1. CASE T!ReadList \/ T!ContractChanged \/ T!onTicks \/ T!FeedOpened \/ T!ChangeIndex \/ T!ResumeSession
           \/ UNCHANGED T!tradeVars
  BY <1>1 DEF T!ReadList, T!ContractChanged, T!onTicks, T!FeedOpened, T!ChangeIndex, T!ResumeSession, T!tradeVars
<1>2. CASE T!loadContracts \/ T!LoadFails
  <2>1. UNCHANGED <<v1, v2, v4, v5, v17>> /\ (v6' = v6 \/ v6' = T!NoCall)
    BY <1>2 DEF T!loadContracts, T!LoadFails, T!Resume
  <2> QED BY <2>1
<1>3. CASE T!ServerRefuses \/ T!CallLost \/ T!AnswerDropped \/ T!NotPlaced
  BY <1>3 DEF T!ServerRefuses, T!CallLost, T!AnswerDropped, T!NotPlaced
<1> QED BY <1>1, <1>2, <1>3 DEF T!Next

\* The order that is tried, and the key it is tried with.
LEMMA KeyChosen ==
    ASSUME OrdersAreOrders, T!KeyOfOrder, T!TradeBounds, NEW order \in Trade.Orders, T!ChooseKey(order),
           Len(v1) < Trade.MaxBuys \/ T!Retried(order)
    PROVE  /\ v4' = order /\ v5' \in Nat \ {0}
           /\ \/ order = v4 /\ v5' = v5
              \/ \A i \in DOMAIN v1 : v1[i].key # v5'
<1>1. \A i \in DOMAIN v1 : v1[i].key # 0
  <2> TAKE i \in DOMAIN v1
  <2>1. v1[i] \in T!Contract
    BY DEF OrdersAreOrders
  <2> QED BY <2>1 DEF T!Contract
<1>2. CASE order # v4 \/ v5 = 0
  <2>1. Len(v1) < Trade.MaxBuys
    BY <1>1, <1>2 DEF T!Retried
  <2>2. Trade.MaxBuys \in Nat
    BY DEF T!TradeBounds
  <2> QED BY <1>2, <2>1, <2>2, FreshKey DEF T!ChooseKey, OrdersAreOrders
<1>3. CASE ~(order # v4 \/ v5 = 0)
  BY <1>3 DEF T!ChooseKey, OrdersAreOrders
<1> QED BY <1>2, <1>3

\* The contract that answers the call, with its key and account.
LEMMA ServerAnswers ==
    ASSUME OrdersAreOrders, T!ServerBuys
    PROVE  \E n \in DOMAIN v1' :
             /\ v1'[n].account = v6.account /\ v1'[n].key = v6.key
             /\ \/ v1' = v1 /\ n \in T!SameKey
                \/ /\ T!SameKey = {} /\ v1'[n].order = v6.order /\ v1' \in Seq(T!Contract)
                   /\ DOMAIN v1' = DOMAIN v1 \cup {n} /\ n \notin DOMAIN v1
                   /\ \A i \in DOMAIN v1 : v1'[i] = v1[i]
             /\ n \in Nat \ {0}
             /\ v6' = [v6 EXCEPT !.step = "filled", !.number = n]
             /\ v17' = IF v6.account = v2 /\ v4 = v6.order THEN n ELSE v17
<1>0. v1 \in Seq(T!Contract) /\ v6 \in T!Call
  BY DEF OrdersAreOrders, T!ServerBuys
<1>1. CASE T!SameKey # {}
  <2> DEFINE n == CHOOSE i \in T!SameKey : TRUE
  <2>1. n \in T!SameKey /\ T!SameKey \subseteq DOMAIN v1
    BY <1>1 DEF T!SameKey
  <2>2. v1' = v1
    BY <1>1 DEF T!ServerBuys
  <2>3. n \in Nat \ {0} /\ v1[n].account = v6.account /\ v1[n].key = v6.key
    <3> HIDE DEF n
    <3> QED BY <1>0, <2>1 DEF T!SameKey
  <2>4. /\ v6' = [v6 EXCEPT !.step = "filled", !.number = n]
        /\ v17' = IF v6.account = v2 /\ v4 = v6.order THEN n ELSE v17
    BY <1>1 DEF T!ServerBuys
  <2> HIDE DEF n
  <2> QED BY <2>1, <2>2, <2>3, <2>4
<1>2. CASE T!SameKey = {}
  <2> DEFINE c == [account |-> v6.account, order |-> v6.order, key |-> v6.key,
                   state |-> "OPEN"]
  <2>1. v1' = Append(v1, c) /\ c \in T!Contract
    BY <1>0, <1>2 DEF T!ServerBuys, T!Contract, T!Call
  <2>2. /\ v6' = [v6 EXCEPT !.step = "filled", !.number = Len(v1')]
        /\ v17' = IF v6.account = v2 /\ v4 = v6.order THEN Len(v1') ELSE v17
    BY <1>2 DEF T!ServerBuys
  <2>3. /\ Len(v1') \in Nat \ {0} /\ Len(v1') \in DOMAIN v1' /\ v1'[Len(v1')] = c
        /\ v1' \in Seq(T!Contract) /\ Len(v1') \notin DOMAIN v1
        /\ DOMAIN v1' = DOMAIN v1 \cup {Len(v1')}
        /\ \A i \in DOMAIN v1 : v1'[i] = v1[i]
    BY <1>0, <2>1
  <2>4. c.account = v6.account /\ c.key = v6.key /\ c.order = v6.order
    OBVIOUS
  <2> DEFINE n == Len(v1')
  <2> HIDE DEF c, n
  <2> SUFFICES /\ n \in DOMAIN v1' /\ n \in Nat \ {0}
               /\ v1'[n].account = v6.account /\ v1'[n].key = v6.key
               /\ T!SameKey = {} /\ v1'[n].order = v6.order /\ v1' \in Seq(T!Contract)
               /\ DOMAIN v1' = DOMAIN v1 \cup {n} /\ n \notin DOMAIN v1
               /\ \A i \in DOMAIN v1 : v1'[i] = v1[i]
               /\ v6' = [v6 EXCEPT !.step = "filled", !.number = n]
               /\ v17' = IF v6.account = v2 /\ v4 = v6.order THEN n ELSE v17
    OBVIOUS
  <2> QED BY <1>2, <2>2, <2>3, <2>4 DEF n
<1> QED BY <1>1, <1>2

\* Settlement changes no key, order or account.
LEMMA SettleKeeps ==
    ASSUME OrdersAreOrders, T!Settle
    PROVE  /\ v1' \in Seq(T!Contract) /\ DOMAIN v1' = DOMAIN v1
           /\ \A i \in DOMAIN v1 :
                /\ v1'[i].key = v1[i].key /\ v1'[i].order = v1[i].order
                /\ v1'[i].account = v1[i].account
<1>1. PICK i \in DOMAIN v1, result \in Trade.Results : v1' = [v1 EXCEPT ![i].state = result]
  BY DEF T!Settle
<1>2. \A j \in DOMAIN v1 : v1[j] \in T!Contract
  BY DEF OrdersAreOrders
<1>3. [v1[i] EXCEPT !.state = result] \in T!Contract
  BY <1>2 DEF T!Contract
<1> QED BY <1>1, <1>2, <1>3 DEF OrdersAreOrders, T!Contract

-----------------------------------------------------------------------------
(* The invariant *)

LEMMA KeyInit == T!Init => OrdersAreOrders /\ T!KeyOfOrder
<1> SUFFICES ASSUME T!Init PROVE OrdersAreOrders /\ T!KeyOfOrder
  OBVIOUS
<1>1. /\ v2 \in Trade.Accounts /\ v1 = <<>> /\ v6 = T!NoCall /\ v4 = T!NoOrder
      /\ v5 = 0 /\ v17 = 0
  BY Zenon DEF T!Init
<1> QED BY <1>1 DEF OrdersAreOrders, T!KeyOfOrder, T!NoCall

LEMMA KeyNext ==
    ASSUME T!TradeOrders, T!TradeBounds
    PROVE  OrdersAreOrders /\ T!KeyOfOrder /\ [T!Next]_T!tradeVars => OrdersAreOrders' /\ T!KeyOfOrder'
<1> SUFFICES ASSUME OrdersAreOrders, T!KeyOfOrder, [T!Next]_T!tradeVars PROVE OrdersAreOrders' /\ T!KeyOfOrder'
  OBVIOUS
<1>0. T!NoOrder \notin Trade.Orders /\ T!NoCall.step = "none"
  BY DEF T!TradeOrders, T!NoOrder, T!NoCall
<1>1. CASE UNCHANGED orderVars
  BY <1>1 DEF orderVars, OrdersAreOrders, T!KeyOfOrder
<1>2. CASE CallEnds
  <2>1. v6' \in {T!NoCall} \cup T!Call /\ v6'.step # "sent"
    BY <1>0, <1>2 DEF CallEnds, OrdersAreOrders, T!Call
  <2> QED BY <1>2, <2>1 DEF CallEnds, OrdersAreOrders, T!KeyOfOrder
<1>3. CASE T!buy
  <2>1. PICK order \in Trade.Orders :
          /\ Len(v1) < Trade.MaxBuys \/ T!Retried(order)
          /\ T!ChooseKey(order)
          /\ v6' = [step |-> "sent", account |-> v2, order |-> order, key |-> v5', number |-> 0]
          /\ v17' = IF order # v4 THEN 0 ELSE v17
    BY <1>3 DEF T!buy
  <2>2. /\ v4' = order /\ v5' \in Nat \ {0}
        /\ \/ order = v4 /\ v5' = v5
           \/ \A i \in DOMAIN v1 : v1[i].key # v5'
    BY <2>1, KeyChosen
  <2>3. UNCHANGED <<v1, v2>>
    BY <1>3 DEF T!buy
  <2>4. v6' \in T!Call
    BY <2>1, <2>2 DEF T!Call, OrdersAreOrders
  <2>5. OrdersAreOrders'
    BY <2>1, <2>2, <2>3, <2>4 DEF OrdersAreOrders
  <2>6. \A i \in DOMAIN v1 : v1[i].key = v5' => v1[i].account = v2 /\ v1[i].order = order
    BY <2>2 DEF T!KeyOfOrder
  <2>7. v17' # 0 => v17' \in DOMAIN v1 /\ v1[v17'].key = v5'
    <3> SUFFICES ASSUME v17' # 0 PROVE v17' \in DOMAIN v1 /\ v1[v17'].key = v5'
      OBVIOUS
    <3>1. order = v4 /\ v17' = v17 /\ v17 \in DOMAIN v1 /\ v1[v17].key = v5
      BY <2>1 DEF T!KeyOfOrder
    <3>2. v1[v17] \in T!Contract
      BY <3>1 DEF OrdersAreOrders
    <3>3. v5 # 0
      BY <3>1, <3>2 DEF T!Contract
    <3>4. v5' = v5
      BY <2>1, <3>1, <3>3 DEF T!ChooseKey
    <3> QED BY <3>1, <3>4
  <2>8. /\ v6'.step = "sent" /\ v6'.account = v2 /\ v6'.order = order
        /\ v6'.key = v5'
    BY <2>1
  <2> QED BY <2>2, <2>3, <2>5, <2>6, <2>7, <2>8 DEF T!KeyOfOrder
<1>4. CASE T!ServerBuys
  <2>1. PICK n \in DOMAIN v1' :
             /\ v1'[n].account = v6.account /\ v1'[n].key = v6.key
             /\ \/ v1' = v1 /\ n \in T!SameKey
                \/ /\ T!SameKey = {} /\ v1'[n].order = v6.order /\ v1' \in Seq(T!Contract)
                   /\ DOMAIN v1' = DOMAIN v1 \cup {n} /\ n \notin DOMAIN v1
                   /\ \A i \in DOMAIN v1 : v1'[i] = v1[i]
             /\ n \in Nat \ {0}
             /\ v6' = [v6 EXCEPT !.step = "filled", !.number = n]
             /\ v17' = IF v6.account = v2 /\ v4 = v6.order THEN n ELSE v17
    BY <1>4, ServerAnswers
  <2>2. UNCHANGED <<v2, v4, v5>>
    BY <1>4 DEF T!ServerBuys, T!pageVars
  <2>3. v6 \in T!Call /\ v6.step = "sent"
    BY <1>4 DEF T!ServerBuys, OrdersAreOrders
  <2>4. v6.key # 0 /\ v6.order # T!NoOrder
    BY <1>0, <2>3 DEF T!Call
  <2>5. v6' \in T!Call /\ v6'.step = "filled"
    BY <2>1, <2>3 DEF T!Call
  <2>6. OrdersAreOrders'
    BY <2>1, <2>2, <2>5 DEF OrdersAreOrders
  <2>7. v5 # 0 => v6.account = v2 /\ v6.order = v4 /\ v6.key = v5
    BY <2>3 DEF T!KeyOfOrder
  <2>8. v5 # 0 => \A i \in DOMAIN v1' :
           v1'[i].key = v5 => v1'[i].account = v2 /\ v1'[i].order = v4
    BY <2>1, <2>7 DEF T!KeyOfOrder
  <2>9. v17' # 0 => v17' \in DOMAIN v1' /\ v1'[v17'].key = v5
    <3>1. CASE v6.account = v2 /\ v4 = v6.order
      <4>1. v5 # 0
        BY <2>3, <2>4, <3>1 DEF T!KeyOfOrder
      <4> QED BY <2>1, <2>7, <3>1, <4>1
    <3>2. CASE ~(v6.account = v2 /\ v4 = v6.order)
      BY <2>1, <3>2 DEF T!KeyOfOrder
    <3> QED BY <3>1, <3>2
  <2> QED BY <2>2, <2>5, <2>6, <2>8, <2>9 DEF T!KeyOfOrder
<1>5. CASE T!Filled
  <2>1. /\ v6 \in T!Call /\ v6' = [v6 EXCEPT !.step = "listing"]
        /\ v5' = 0 /\ v17' = 0 /\ UNCHANGED <<v1, v2, v4>>
    BY <1>5 DEF T!Filled, OrdersAreOrders
  <2>2. v6' \in T!Call /\ v6'.step # "sent"
    BY <2>1 DEF T!Call
  <2> QED BY <2>1, <2>2 DEF OrdersAreOrders, T!KeyOfOrder
<1>6. CASE T!Settle
  <2>1. UNCHANGED <<v2, v4, v5, v6, v17>>
    BY <1>6 DEF T!Settle, T!pageVars
  <2> QED BY <1>6, <2>1, SettleKeeps DEF OrdersAreOrders, T!KeyOfOrder
<1>7. CASE T!ChangeAccount
  <2>1. /\ v2' \in Trade.Accounts /\ v4' = T!NoOrder /\ v5' = 0 /\ v17' = 0
        /\ UNCHANGED <<v1, v6>>
    BY <1>7, Zenon DEF T!ChangeAccount
  <2> QED BY <2>1 DEF OrdersAreOrders, T!KeyOfOrder
<1> QED BY <1>1, <1>2, <1>3, <1>4, <1>5, <1>6, <1>7, OrderSteps

\* A new contract is not of the order whose contract is not confirmed yet.
LEMMA BuysStep ==
    ASSUME OrdersAreOrders, T!KeyOfOrder, T!TradeOrders, [T!Next]_T!tradeVars
    PROVE  T!BuysOnce
<1> SUFFICES ASSUME Len(v1') > Len(v1), v17 # 0,
                    v6.account = v2, v6.order = v1[v17].order
             PROVE  FALSE
  BY DEF T!BuysOnce
<1>1. T!ServerBuys /\ T!SameKey = {}
  <2>1. Len(v1) \in Nat
    BY DEF OrdersAreOrders
  <2>2. v1' # v1
    BY <2>1
  <2>3. T!Settle => Len(v1') = Len(v1)
    BY SettleKeeps DEF OrdersAreOrders
  <2>4. UNCHANGED orderVars \/ CallEnds \/ T!buy \/ T!Filled \/ T!ChangeAccount => UNCHANGED v1
    BY Zenon DEF orderVars, CallEnds, T!buy, T!Filled, T!ChangeAccount
  <2>5. ~T!Settle
    BY <2>1, <2>3
  <2>6. UNCHANGED orderVars \/ CallEnds \/ T!buy \/ T!ServerBuys \/ T!Filled \/ T!Settle \/ T!ChangeAccount
    BY OrderSteps
  <2>7. T!ServerBuys
    BY <2>2, <2>4, <2>5, <2>6, Zenon
  <2> QED BY <2>2, <2>7 DEF T!ServerBuys
<1>2. v6.step = "sent" /\ v17 \in DOMAIN v1 /\ v1[v17].key = v5
  BY <1>1 DEF T!ServerBuys, T!KeyOfOrder
<1>3. v1[v17] \in T!Contract
  BY <1>2 DEF OrdersAreOrders
<1>4. v5 # 0
  BY <1>2, <1>3 DEF T!Contract
<1>5. v6.key = v5 /\ v1[v17].account = v2
  BY <1>2, <1>4 DEF T!KeyOfOrder
<1>6. v17 \in T!SameKey
  BY <1>2, <1>5 DEF T!SameKey
<1> QED BY <1>1, <1>6

-----------------------------------------------------------------------------
(* Telling results *)

\* A result counts as told from the moment it is.
NotedWhenTold == v16 \in [T!Ids -> Nat] /\ \A i \in T!Ids : v16[i] = IF i \in v11 THEN 1 ELSE 0

LEMMA NotedNext == NotedWhenTold /\ [T!Next]_T!tradeVars => NotedWhenTold'
<1> SUFFICES ASSUME NotedWhenTold, [T!Next]_T!tradeVars PROVE NotedWhenTold'
  OBVIOUS
<1>1. ASSUME NEW c, T!ShowList(c) PROVE NotedWhenTold'
  <2> DEFINE news == T!Told(c.rows, [i \in T!Ids |-> i \in v10])
  <2>1. /\ v11' = v11 \cup news
        /\ v16' = [i \in T!Ids |-> IF i \in news THEN v16[i] + 1 ELSE v16[i]]
    BY <1>1 DEF T!ShowList
  <2>2. \A i \in news : i \notin v11
    BY DEF T!Told
  <2> HIDE DEF news
  <2> QED BY <2>1, <2>2 DEF NotedWhenTold
<1>2. CASE T!loadContracts
  BY <1>1, <1>2 DEF T!loadContracts, NotedWhenTold
<1>3. CASE T!ChangeAccount
  <2>1. v16' = [i \in T!Ids |-> 0] /\ v11' = {}
    BY <1>3, Zenon DEF T!ChangeAccount
  <2> QED BY <2>1 DEF NotedWhenTold
<1>4. CASE ~T!loadContracts /\ ~T!ChangeAccount
  <2>1. UNCHANGED <<v16, v11>>
    BY <1>4, Zenon DEF T!Next, T!ReadList, T!LoadFails, T!buy, T!ServerBuys, T!ServerRefuses, T!CallLost, T!AnswerDropped,
       T!NotPlaced, T!Filled, T!Settle, T!ContractChanged, T!onTicks, T!FeedOpened, T!ChangeIndex, T!ResumeSession, T!pageVars,
       T!tradeVars
  <2> QED BY <2>1 DEF NotedWhenTold
<1> QED BY <1>2, <1>3, <1>4

TradeInv == NotedWhenTold /\ OrdersAreOrders /\ T!KeyOfOrder

LEMMA TradeInit == T!Init => TradeInv
<1>1. T!Init => v16 = [i \in T!Ids |-> 0] /\ v11 = {}
  BY Zenon DEF T!Init
<1> QED BY <1>1, KeyInit DEF TradeInv, NotedWhenTold

LEMMA TradeNext == TradeInv /\ [T!Next]_T!tradeVars => TradeInv'
<1>1. T!TradeOrders /\ T!TradeBounds
  BY MarketAssumptions, Zenon DEF MarketAssumptions
<1> QED BY <1>1, NotedNext, KeyNext DEF TradeInv

LEMMA TradeTells == TradeInv => T!ToldOnce
BY DEF TradeInv, NotedWhenTold, T!ToldOnce

LEMMA TradeBuys == TradeInv /\ [T!Next]_T!tradeVars => T!BuysOnce
<1>1. T!TradeOrders
  BY MarketAssumptions, Zenon DEF MarketAssumptions
<1> QED BY <1>1, BuysStep DEF TradeInv

-----------------------------------------------------------------------------
(* The deposit sheet: v1 is rows, v2 requests, v3 prompts, v8 phone,       *)
(* v9 quote                                                                *)

\* A step of a request keeps the type of all of them.
LEMMA GoesType ==
    ASSUME D!EdgeTypeOK, NEW i \in DOMAIN v2, NEW to \in D!Sending \cup {"arrived", "reply", "error"},
           NEW s \in D!States,
           \/ D!Goes(i, to)
           \/ D!Replies(i, s)
    PROVE  v2' \in Seq(D!Requested)
<1>1. v2[i] \in D!Requested
  BY DEF D!EdgeTypeOK
<1>2. [v2[i] EXCEPT !.step = to] \in D!Requested
  BY <1>1 DEF D!Requested
<1>3. [v2[i] EXCEPT !.step = "reply", !.state = s] \in D!Requested
  BY <1>1 DEF D!Requested
<1>4. \E r \in D!Requested : v2' = [v2 EXCEPT ![i] = r]
  BY <1>2, <1>3 DEF D!Goes, D!Replies
<1> QED BY <1>4 DEF D!EdgeTypeOK

LEMMA EdgeTypeNext == ASSUME D!EdgeTypeOK, D!EdgeNext PROVE D!EdgeTypeOK'
<1>0. v1 \in [Deposit.Quotes -> D!States] /\ v2 \in Seq(D!Requested) /\ v3 \in Seq(D!Prompt)
  BY DEF D!EdgeTypeOK
<1>a. \A i \in DOMAIN v2 : v2[i] \in D!Requested /\ v2[i].quote \in Deposit.Quotes
                                 /\ v1[v2[i].quote] \in D!States
  <2> TAKE i \in DOMAIN v2
  <2>1. v2[i] \in D!Requested
    BY <1>0
  <2> QED BY <1>0, <2>1 DEF D!Requested
<1>b. {"INITIATING", "PENDING", "UNKNOWN", "VERIFYING", "REJECTED", "CONFIRMED", "FAILED",
       "MANUAL_REVIEW"} \subseteq D!States
  BY DEF D!States, D!InProgress
<1>1. ASSUME NEW i \in DOMAIN v2, D!Refused(i) PROVE D!EdgeTypeOK'
  BY <1>0, <1>1, <1>b, GoesType DEF D!Refused, D!EdgeTypeOK
<1>2. ASSUME NEW i \in DOMAIN v2, D!BeginPayment(i) PROVE D!EdgeTypeOK'
  <2>1. \/ D!Replies(i, v1[v2[i].quote]) /\ UNCHANGED v1
        \/ D!Goes(i, "error") /\ UNCHANGED v1
        \/ D!Goes(i, "begun") /\ v1' = [v1 EXCEPT ![v2[i].quote] = "INITIATING"]
    BY <1>2 DEF D!BeginPayment
  <2>2. v2' \in Seq(D!Requested)
    BY <2>1, <1>a, <1>b, GoesType DEF D!Sending
  <2>3. v1' \in [Deposit.Quotes -> D!States]
    BY <2>1, <1>0, <1>a, <1>b
  <2> QED BY <1>0, <1>2, <2>2, <2>3 DEF D!BeginPayment, D!EdgeTypeOK
<1>3. ASSUME NEW i \in DOMAIN v2, D!stkPush(i) PROVE D!EdgeTypeOK'
  <2>1. PICK response \in D!Responses :
          /\ D!Goes(i, D!Outcome(response))
          /\ \E reached \in D!Reaches(response) :
               v3' = IF reached
                          THEN Append(v3, [quote |-> v2[i].quote, phone |-> v2[i].phone,
                                                warned |-> v2[i].warned])
                          ELSE v3
    BY <1>3 DEF D!stkPush
  <2>2. D!Outcome(response) \in D!Sending \cup {"error"}
    BY DEF D!Outcome, D!Responses, D!Sent, D!Sending
  <2>3. v2' \in Seq(D!Requested)
    BY <2>1, <2>2, <1>b, GoesType
  <2>4. [quote |-> v2[i].quote, phone |-> v2[i].phone, warned |-> v2[i].warned] \in D!Prompt
    BY <1>a DEF D!Requested, D!Prompt
  <2>5. v3' \in Seq(D!Prompt)
    BY <2>1, <2>4, <1>0
  <2> QED BY <1>0, <1>3, <2>3, <2>5 DEF D!stkPush, D!EdgeTypeOK
<1>4. ASSUME NEW i \in DOMAIN v2, D!RecordInitiation(i) PROVE D!EdgeTypeOK'
  <2> DEFINE q == v2[i].quote  s == D!Initiated(v2[i].step, v1[q])
  <2>1. s \in D!States
    BY <1>4, <1>a, <1>b DEF D!RecordInitiation, D!Initiated
  <2>2. v1' = [v1 EXCEPT ![q] = s] /\ v1'[q] = s /\ D!Replies(i, v1'[q])
    BY <1>4, <1>0, <1>a DEF D!RecordInitiation
  <2>3. D!Replies(i, s)
    BY <2>2 DEF D!Replies
  <2> HIDE DEF s
  <2>4. v2' \in Seq(D!Requested)
    BY <2>1, <2>3, GoesType DEF D!Sending
  <2> QED BY <1>0, <1>4, <2>1, <2>2, <2>4 DEF D!RecordInitiation, D!EdgeTypeOK
<1>5. ASSUME NEW q \in Deposit.Quotes, D!handleCallback(q) \/ D!verifyPayment(q) \/ D!reconcileOpenPayments(q)
      PROVE  D!EdgeTypeOK'
  <2>1. \E s \in D!States : v1' = [v1 EXCEPT ![q] = s]
    BY <1>5, <1>b DEF D!handleCallback, D!verifyPayment, D!reconcileOpenPayments
  <2> QED BY <1>0, <1>5, <2>1 DEF D!handleCallback, D!verifyPayment, D!reconcileOpenPayments, D!EdgeTypeOK
<1> QED BY <1>1, <1>2, <1>3, <1>4, <1>5 DEF D!EdgeNext

\* The sheet's quotes are quotes, its phones phones.
LEMMA RequestType ==
    ASSUME D!EdgeTypeOK, NEW q \in Deposit.Quotes, NEW p \in D!Phone, NEW w \in BOOLEAN, D!Request(q, p, w),
           UNCHANGED <<v1, v3>>
    PROVE  D!EdgeTypeOK'
<1>1. [quote |-> q, phone |-> p, warned |-> w, step |-> "arrived", state |-> "NONE"] \in D!Requested
  BY DEF D!Requested, D!States
<1> QED BY <1>1 DEF D!Request, D!EdgeTypeOK

\* What the sheet sends is a quote it has been given, with a phone of its list.
QuotesAreQuotes ==
    /\ D!EdgeTypeOK /\ v8 \in D!Phone
    /\ v9 \in {D!NoQuote} \cup [id : Deposit.Quotes, phone : D!Phone, warned : BOOLEAN]

\* Most of the sheet's steps call no function.
CallsNothing == UNCHANGED <<v1, v2, v3>>

\* The session is read before a request is made; every other step of the sheet only
\* waits for functions, and quotes come from the server.
LEMMA SheetSteps ==
    ASSUME QuotesAreQuotes, [D!Next]_D!depositVars
    PROVE  /\ v8' \in D!Phone
           /\ v9' \in {D!NoQuote} \cup [id : Deposit.Quotes, phone : D!Phone, warned : BOOLEAN]
           /\ \/ D!EdgeNext
              \/ CallsNothing
              \/ /\ \E q \in Deposit.Quotes, p \in D!Phone, w \in BOOLEAN : D!Request(q, p, w)
                 /\ UNCHANGED <<v1, v3>>
<1> USE DEF QuotesAreQuotes, CallsNothing, D!edgeVars
<1>1. CASE D!EdgeNext /\ UNCHANGED D!sheetVars
  BY <1>1 DEF D!sheetVars
<1>2. CASE D!load \/ D!ChoosePhone \/ D!SaveOwnPhone \/ D!ServerSaves \/ D!renderPhones \/ D!SaveFails
  BY <1>2 DEF D!load, D!ChoosePhone, D!SaveOwnPhone, D!ServerSaves, D!renderPhones, D!SaveFails, D!Phone
<1>3. CASE D!showQuote
  <2>1. PICK id \in Deposit.Quotes : v9' = [id |-> id, phone |-> v8, warned |-> v8 = "own" /\ v7]
    BY <1>3 DEF D!showQuote
  <2>2. (v8 = "own" /\ v7) \in BOOLEAN
    OBVIOUS
  <2>3. v9' \in [id : Deposit.Quotes, phone : D!Phone, warned : BOOLEAN]
    BY <2>1, <2>2
  <2> QED BY <1>3, <2>3 DEF D!showQuote
<1>4. CASE D!requestQuote \/ D!QuoteFails \/ D!QuoteExpires \/ D!Back \/ D!sendPrompt \/ D!SendFails \/ D!showPayment
           \/ D!Polled \/ D!PollEnds \/ D!Again \/ UNCHANGED D!depositVars
  BY <1>4 DEF D!requestQuote, D!QuoteFails, D!QuoteExpires, D!Back, D!sendPrompt, D!SendFails, D!showPayment,
     D!Polled, D!PollEnds, D!Again, D!depositVars, D!sheetVars
<1>5. CASE D!SessionRead
  BY <1>5 DEF D!SessionRead, D!NoQuote
<1> QED BY <1>1, <1>2, <1>3, <1>4, <1>5 DEF D!Next

LEMMA SheetInit == D!Init => QuotesAreQuotes
BY DEF D!Init, D!EdgeInit, QuotesAreQuotes, D!EdgeTypeOK, D!Phone, D!States

LEMMA SheetNext == QuotesAreQuotes /\ [D!Next]_D!depositVars => QuotesAreQuotes'
<1> SUFFICES ASSUME QuotesAreQuotes, [D!Next]_D!depositVars PROVE QuotesAreQuotes'
  OBVIOUS
<1>1. D!EdgeTypeOK'
  BY SheetSteps, EdgeTypeNext, RequestType DEF QuotesAreQuotes, CallsNothing, D!EdgeTypeOK
<1> QED BY <1>1, SheetSteps DEF QuotesAreQuotes, D!NoQuote

-----------------------------------------------------------------------------
(* One request sends the prompt of a quote *)

\* A request that moves on by itself, without starting or sending anything.
LEMMA MovesOn ==
    ASSUME D!EdgeTypeOK, D!OneSender, UNCHANGED v3, NEW i \in DOMAIN v2,
           DOMAIN v2' = DOMAIN v2,
           \A j \in DOMAIN v2 : v2'[j].quote = v2[j].quote,
           \A j \in DOMAIN v2 : j # i => v2'[j].step = v2[j].step,
           v2'[i].step \notin D!Sending,
           \A q \in Deposit.Quotes : v1'[q] = v1[q] \/ q = v2[i].quote,
           v2[i].step \notin D!Sending => UNCHANGED v1,
           v1'[v2[i].quote] = "NONE" => UNCHANGED v1,
           v1'[v2[i].quote] = "REJECTED" => UNCHANGED v1 \/ v2[i].step = "REJECTED"
    PROVE  D!OneSender'
<1>1. \A j \in DOMAIN v2 : v2[j].quote \in Deposit.Quotes
  <2> TAKE j \in DOMAIN v2
  <2>1. v2[j] \in D!Requested
    BY DEF D!EdgeTypeOK
  <2> QED BY <2>1 DEF D!Requested
<1>2. \A q : D!Prompted(q)' <=> D!Prompted(q)
  BY DEF D!Prompted
<1>3. \A j \in DOMAIN v2 : v2'[j].step \in D!Sending => j # i
  OBVIOUS
<1>4. \A j \in DOMAIN v2 :
        v2'[j].step \in D!Sending =>
           v1'[v2[j].quote] = v1[v2[j].quote]
  <2> SUFFICES ASSUME NEW j \in DOMAIN v2, v2'[j].step \in D!Sending
               PROVE  v1'[v2[j].quote] = v1[v2[j].quote]
    OBVIOUS
  <2>1. j # i /\ v2[j].step \in D!Sending
    BY <1>3
  <2>2. CASE v2[i].step \in D!Sending
    <3>1. v2[j].quote # v2[i].quote
      BY <2>1, <2>2 DEF D!OneSender
    <3> QED BY <3>1, <1>1
  <2>3. CASE v2[i].step \notin D!Sending
    BY <2>3
  <2> QED BY <2>2, <2>3
<1>5. \A q \in Deposit.Quotes : v1'[q] \in {"NONE", "REJECTED"} => ~D!Prompted(q)
  <2> SUFFICES ASSUME NEW q \in Deposit.Quotes, v1'[q] \in {"NONE", "REJECTED"} PROVE ~D!Prompted(q)
    OBVIOUS
  <2>1. CASE v1'[q] = v1[q]
    BY <2>1 DEF D!OneSender
  <2>2. CASE v1'[q] # v1[q]
    <3>1. q = v2[i].quote /\ v2[i].step = "REJECTED"
      BY <2>2
    <3> QED BY <3>1 DEF D!OneSender
  <2> QED BY <2>1, <2>2
<1>6. \A j, k \in DOMAIN v2 :
         v2'[j].quote = v2'[k].quote /\ {v2'[j].step, v2'[k].step} \subseteq D!Sending
             => j = k
  BY <1>3 DEF D!OneSender
<1>7. \A j \in DOMAIN v2 :
         /\ v2'[j].step \in D!Sending => v1'[v2'[j].quote] \notin {"NONE", "REJECTED"}
         /\ v2'[j].step \in {"begun", "REJECTED"} => ~D!Prompted(v2'[j].quote)
  BY <1>3, <1>4 DEF D!OneSender, D!Sending
<1> QED BY <1>2, <1>5, <1>6, <1>7 DEF D!OneSender

\* A request begins a payment: nobody else has, and nothing has been shown.
LEMMA BeginsAlone ==
    ASSUME D!EdgeTypeOK, D!OneSender, NEW i \in DOMAIN v2, D!Goes(i, "begun"), UNCHANGED v3,
           v1[v2[i].quote] = "NONE",
           v1' = [v1 EXCEPT ![v2[i].quote] = "INITIATING"]
    PROVE  D!OneSender'
<1> DEFINE q == v2[i].quote
<1>0. v1 \in [Deposit.Quotes -> D!States] /\ \A j \in DOMAIN v2 : v2[j].quote \in Deposit.Quotes
  <2>1. \A j \in DOMAIN v2 : v2[j] \in D!Requested
    BY DEF D!EdgeTypeOK
  <2> QED BY <2>1 DEF D!EdgeTypeOK, D!Requested
<1>1. /\ DOMAIN v2' = DOMAIN v2
      /\ v2'[i].quote = q /\ v2'[i].step = "begun"
      /\ \A j \in DOMAIN v2 : j # i => v2'[j] = v2[j]
  <2>1. v2[i] \in D!Requested /\ v2 \in Seq(D!Requested)
    BY DEF D!EdgeTypeOK
  <2> QED BY <2>1 DEF D!Goes, D!Requested
<1>2. \A p : D!Prompted(p)' <=> D!Prompted(p)
  BY DEF D!Prompted
<1>3. ~D!Prompted(q) /\ \A j \in DOMAIN v2 : v2[j].quote = q => v2[j].step \notin D!Sending
  BY <1>0 DEF D!OneSender
<1>4. \A p \in Deposit.Quotes : p # q => v1'[p] = v1[p]
  BY <1>0
<1>5. v1'[q] = "INITIATING"
  BY <1>0
<1>6. \A j, k \in DOMAIN v2 :
         v2'[j].quote = v2'[k].quote /\ {v2'[j].step, v2'[k].step} \subseteq D!Sending
             => j = k
  BY <1>1, <1>3 DEF D!OneSender
<1>7. \A j \in DOMAIN v2 :
         /\ v2'[j].step \in D!Sending => v1'[v2'[j].quote] \notin {"NONE", "REJECTED"}
         /\ v2'[j].step \in {"begun", "REJECTED"} => ~D!Prompted(v2'[j].quote)
  <2> TAKE j \in DOMAIN v2
  <2>1. CASE j = i
    BY <2>1, <1>1, <1>3, <1>5
  <2>2. CASE j # i
    BY <2>2, <1>0, <1>1, <1>3, <1>4 DEF D!OneSender, D!Sending
  <2> QED BY <2>1, <2>2
<1>8. \A p \in Deposit.Quotes : v1'[p] \in {"NONE", "REJECTED"} => ~D!Prompted(p)
  BY <1>4, <1>5 DEF D!OneSender
<1> QED BY <1>1, <1>2, <1>6, <1>7, <1>8 DEF D!OneSender

\* The push shows the first prompt of the quote, and only if it is not refused.
LEMMA PushesOnce == ASSUME D!EdgeTypeOK, D!OneSender, NEW i \in DOMAIN v2, D!stkPush(i) PROVE D!OneSender'
<1> DEFINE q == v2[i].quote
           new == [quote |-> q, phone |-> v2[i].phone, warned |-> v2[i].warned]
           After(p) == \E k \in DOMAIN v3' : v3'[k].quote = p
<1>0. /\ v2 \in Seq(D!Requested) /\ v3 \in Seq(D!Prompt)
      /\ v2[i] \in D!Requested /\ v2[i].step = "begun"
      /\ UNCHANGED v1
      /\ \A j \in DOMAIN v2 : v2[j].quote \in Deposit.Quotes
  <2>1. \A j \in DOMAIN v2 : v2[j] \in D!Requested
    BY DEF D!EdgeTypeOK
  <2> QED BY <2>1 DEF D!EdgeTypeOK, D!Requested, D!stkPush, D!At
<1>1. PICK response \in D!Responses :
        /\ D!Goes(i, D!Outcome(response))
        /\ \E reached \in D!Reaches(response) : v3' = IF reached THEN Append(v3, new) ELSE v3
  BY DEF D!stkPush
<1>2. /\ DOMAIN v2' = DOMAIN v2
      /\ v2'[i].quote = q /\ v2'[i].step = D!Outcome(response)
      /\ \A j \in DOMAIN v2 : j # i => v2'[j] = v2[j]
  BY <1>0, <1>1 DEF D!Goes, D!Requested
<1>3. D!Outcome(response) # "begun" /\ (D!Outcome(response) = "REJECTED" => D!Reaches(response) = {FALSE})
  BY DEF D!Outcome, D!Responses, D!Reaches, D!Sent
<1>4. ~D!Prompted(q) /\ v1[q] \notin {"NONE", "REJECTED"}
  BY <1>0 DEF D!OneSender, D!Sending
<1>5. /\ \A p : p # q => (After(p) <=> D!Prompted(p))
      /\ v3' = v3 => \A p : After(p) <=> D!Prompted(p)
  <2>1. CASE v3' = v3
    BY <2>1 DEF D!Prompted
  <2>2. CASE v3' = Append(v3, new)
    BY <1>0, <2>2, SMTT(20) DEF D!Prompted
  <2> QED BY <1>1, <2>1, <2>2
<1>6. D!Outcome(response) = "REJECTED" => v3' = v3
  BY <1>1, <1>3
<1>7. \A j, k \in DOMAIN v3' : v3'[j].quote = v3'[k].quote => j = k
  <2>1. CASE v3' = v3
    BY <2>1 DEF D!OneSender
  <2>2. CASE v3' = Append(v3, new)
    <3>1. /\ DOMAIN v3' = 1 .. Len(v3) + 1 /\ DOMAIN v3 = 1 .. Len(v3)
          /\ v3'[Len(v3) + 1] = new /\ Len(v3) \in Nat
          /\ \A j \in DOMAIN v3 : v3'[j] = v3[j]
      BY <1>0, <2>2
    <3>2. \A j \in DOMAIN v3 : v3'[j].quote # q
      BY <1>4, <3>1 DEF D!Prompted
    <3> SUFFICES ASSUME NEW j \in DOMAIN v3', NEW k \in DOMAIN v3',
                        v3'[j].quote = v3'[k].quote
                 PROVE  j = k
      OBVIOUS
    <3>3. CASE j \in DOMAIN v3 /\ k \in DOMAIN v3
      BY <3>1, <3>3 DEF D!OneSender
    <3>4. CASE j = Len(v3) + 1 \/ k = Len(v3) + 1
      <4>1. new.quote = q
        OBVIOUS
      <4> QED BY <3>1, <3>2, <3>4, <4>1
    <3> QED BY <3>1, <3>3, <3>4
  <2> QED BY <1>1, <2>1, <2>2
<1>8. \A j, k \in DOMAIN v2 :
         v2'[j].quote = v2'[k].quote /\ {v2'[j].step, v2'[k].step} \subseteq D!Sending
             => j = k
  <2>1. \A j \in DOMAIN v2 :
          v2'[j].quote = v2[j].quote /\ (v2'[j].step \in D!Sending => v2[j].step \in D!Sending)
    BY <1>0, <1>2 DEF D!Sending
  <2> QED BY <2>1 DEF D!OneSender
<1>9. \A j \in DOMAIN v2 :
         /\ v2'[j].step \in D!Sending => v1[v2'[j].quote] \notin {"NONE", "REJECTED"}
         /\ v2'[j].step \in {"begun", "REJECTED"} => ~After(v2'[j].quote)
  <2> TAKE j \in DOMAIN v2
  <2>1. CASE j = i
    <3> HIDE DEF After
    <3> QED BY <2>1, <1>2, <1>3, <1>4, <1>5, <1>6
  <2>2. CASE j # i
    <3>1. v2[j].step \in D!Sending => v2[j].quote # q
      BY <1>0, <2>2 DEF D!OneSender, D!Sending
    <3> HIDE DEF After
    <3> QED BY <2>2, <3>1, <1>2, <1>5 DEF D!OneSender, D!Sending
  <2> QED BY <2>1, <2>2
<1>10. \A p \in Deposit.Quotes : v1[p] \in {"NONE", "REJECTED"} => ~After(p)
  BY <1>4, <1>5 DEF D!OneSender
<1> HIDE DEF q, new
<1> QED BY <1>0, <1>2, <1>7, <1>8, <1>9, <1>10 DEF D!OneSender, D!Prompted

\* A new request sends nothing yet.
LEMMA RequestWaits ==
    ASSUME D!EdgeTypeOK, D!OneSender, NEW q \in Deposit.Quotes, NEW p \in D!Phone, NEW w \in BOOLEAN, D!Request(q, p, w),
           UNCHANGED <<v1, v3>>
    PROVE  D!OneSender'
<1> DEFINE n == Len(v2) + 1
<1>1. /\ DOMAIN v2' = DOMAIN v2 \cup {n} /\ v2'[n].step = "arrived" /\ n \notin DOMAIN v2
      /\ \A j \in DOMAIN v2 : v2'[j] = v2[j]
  BY DEF D!Request, D!EdgeTypeOK
<1>2. \A r : D!Prompted(r)' <=> D!Prompted(r)
  BY DEF D!Prompted
<1>3. \A j \in DOMAIN v2' : v2'[j].step \in D!Sending => j \in DOMAIN v2
  BY <1>1 DEF D!Sending
<1> HIDE DEF n
<1>4. \A j, k \in DOMAIN v2' :
         v2'[j].quote = v2'[k].quote /\ {v2'[j].step, v2'[k].step} \subseteq D!Sending
             => j = k
  BY <1>1, <1>3 DEF D!OneSender
<1>5. \A j \in DOMAIN v2' :
         /\ v2'[j].step \in D!Sending => v1[v2'[j].quote] \notin {"NONE", "REJECTED"}
         /\ v2'[j].step \in {"begun", "REJECTED"} => ~D!Prompted(v2'[j].quote)
  BY <1>1, <1>3 DEF D!OneSender, D!Sending
<1> QED BY <1>2, <1>4, <1>5 DEF D!OneSender

\* Callbacks, status queries and the sweep declare nothing rejected.
LEMMA LaterNews ==
    ASSUME D!EdgeTypeOK, D!OneSender, NEW q \in Deposit.Quotes, UNCHANGED <<v2, v3>>, v1[q] \notin {"NONE"},
           NEW s \in D!States \ {"NONE", "REJECTED"}, v1' = [v1 EXCEPT ![q] = s]
    PROVE  D!OneSender'
<1>1. \A p \in Deposit.Quotes : v1'[p] \in {"NONE", "REJECTED"} => v1'[p] = v1[p]
  BY DEF D!EdgeTypeOK
<1>2. \A j \in DOMAIN v2 : v2[j].quote \in Deposit.Quotes
  <2> TAKE j \in DOMAIN v2
  <2>1. v2[j] \in D!Requested
    BY DEF D!EdgeTypeOK
  <2> QED BY <2>1 DEF D!Requested
<1> QED BY <1>1, <1>2 DEF D!OneSender, D!Prompted

LEMMA SenderInit == D!Init => D!OneSender
BY DEF D!Init, D!EdgeInit, D!OneSender, D!Prompted

LEMMA SenderNext == QuotesAreQuotes /\ D!OneSender /\ [D!Next]_D!depositVars => D!OneSender'
<1> SUFFICES ASSUME QuotesAreQuotes, D!OneSender, [D!Next]_D!depositVars PROVE D!OneSender'
  OBVIOUS
<1>0. D!EdgeTypeOK
  BY DEF QuotesAreQuotes
<1>a. \A j \in DOMAIN v2 : v2[j] \in D!Requested
  BY <1>0 DEF D!EdgeTypeOK
<1>1. ASSUME NEW i \in DOMAIN v2, D!Refused(i) PROVE D!OneSender'
  <2>1. /\ DOMAIN v2' = DOMAIN v2 /\ v2'[i].step = "error"
        /\ \A j \in DOMAIN v2 : v2'[j].quote = v2[j].quote
        /\ \A j \in DOMAIN v2 : j # i => v2'[j].step = v2[j].step
    BY <1>0, <1>1, <1>a DEF D!Refused, D!Goes, D!Requested, D!EdgeTypeOK
  <2>2. UNCHANGED <<v1, v3>>
    BY <1>1 DEF D!Refused
  <2> QED BY <1>0, <2>1, <2>2, MovesOn DEF D!Sending
<1>2. ASSUME NEW i \in DOMAIN v2, D!BeginPayment(i) PROVE D!OneSender'
  <2>1. CASE UNCHANGED v1 /\ (D!Goes(i, "error") \/ D!Replies(i, v1[v2[i].quote]))
    <3>1. /\ DOMAIN v2' = DOMAIN v2 /\ v2'[i].step \in {"error", "reply"}
          /\ \A j \in DOMAIN v2 : v2'[j].quote = v2[j].quote
          /\ \A j \in DOMAIN v2 : j # i => v2'[j].step = v2[j].step
      <4>1. CASE D!Goes(i, "error")
        BY <1>0, <4>1, <1>a DEF D!Goes, D!Requested, D!EdgeTypeOK
      <4>2. CASE D!Replies(i, v1[v2[i].quote])
        BY <1>0, <4>2, <1>a DEF D!Replies, D!Requested, D!EdgeTypeOK
      <4> QED BY <2>1, <4>1, <4>2
    <3> QED BY <1>0, <1>2, <2>1, <3>1, MovesOn DEF D!Sending, D!BeginPayment
  <2>2. CASE ~(UNCHANGED v1 /\ (D!Goes(i, "error") \/ D!Replies(i, v1[v2[i].quote])))
    BY <1>0, <1>2, <2>2, BeginsAlone DEF D!BeginPayment, D!Existing
  <2> QED BY <2>1, <2>2
<1>3. ASSUME NEW i \in DOMAIN v2, D!RecordInitiation(i) PROVE D!OneSender'
  <2> DEFINE q == v2[i].quote
  <2>1. /\ DOMAIN v2' = DOMAIN v2 /\ v2'[i].step = "reply"
        /\ \A j \in DOMAIN v2 : v2'[j].quote = v2[j].quote
        /\ \A j \in DOMAIN v2 : j # i => v2'[j].step = v2[j].step
    BY <1>0, <1>3, <1>a DEF D!RecordInitiation, D!Replies, D!Requested, D!EdgeTypeOK
  <2>2. q \in Deposit.Quotes /\ v2[i].step \in {"ACCEPTED", "REJECTED", "AMBIGUOUS"} /\ UNCHANGED v3
    BY <1>3, <1>a DEF D!RecordInitiation, D!Requested
  <2>3. /\ \A p \in Deposit.Quotes : v1'[p] = v1[p] \/ p = q
        /\ v1'[q] = D!Initiated(v2[i].step, v1[q])
        /\ v1'[q] = v1[q] => UNCHANGED v1
    BY <1>0, <1>3, <2>2 DEF D!RecordInitiation, D!EdgeTypeOK
  <2>4. /\ v1'[q] = "NONE" => UNCHANGED v1
        /\ v1'[q] = "REJECTED" => UNCHANGED v1 \/ v2[i].step = "REJECTED"
    BY <2>2, <2>3 DEF D!Initiated
  <2> QED BY <1>0, <2>1, <2>2, <2>3, <2>4, MovesOn DEF D!Sending
<1>4. ASSUME NEW q \in Deposit.Quotes, D!handleCallback(q) \/ D!verifyPayment(q) \/ D!reconcileOpenPayments(q)
      PROVE  D!OneSender'
  <2>1. \E s \in D!States \ {"NONE", "REJECTED"} : v1' = [v1 EXCEPT ![q] = s]
    BY <1>4 DEF D!handleCallback, D!verifyPayment, D!reconcileOpenPayments, D!States, D!InProgress
  <2>2. v1[q] # "NONE" /\ UNCHANGED <<v2, v3>>
    BY <1>4 DEF D!handleCallback, D!verifyPayment, D!reconcileOpenPayments, D!Bound
  <2> QED BY <1>0, <2>1, <2>2, LaterNews
<1>5. D!EdgeNext => D!OneSender'
  BY <1>0, <1>1, <1>2, <1>3, <1>4, PushesOnce DEF D!EdgeNext
<1>6. CallsNothing => D!OneSender'
  BY DEF CallsNothing, D!OneSender, D!Prompted
<1> QED BY <1>0, <1>5, <1>6, SheetSteps, RequestWaits

\* One sender at most means one prompt at most.
LEMMA SenderPromptsOnce == D!OneSender => D!PromptedOnce
<1> SUFFICES ASSUME D!OneSender, NEW q \in Deposit.Quotes
             PROVE  /\ D!Cardinality({i \in DOMAIN v3 : v3[i].quote = q}) <= 1
                    /\ v1[q] = "REJECTED" => D!Cardinality({i \in DOMAIN v3 : v3[i].quote = q}) = 0
  BY DEF D!PromptedOnce
<1> DEFINE S == {i \in DOMAIN v3 : v3[i].quote = q}
<1>0. D!Cardinality(S) = Cardinality(S)
  BY Zenon DEF D!Cardinality, Cardinality
<1>1. CASE S = {}
  <2>1. Cardinality(S) = 0
    BY <1>1, FS_EmptySet
  <2> QED BY <1>0, <2>1
<1>2. CASE S # {}
  <2>1. PICK i \in S : S = {i}
    BY <1>2 DEF D!OneSender
  <2>2. v1[q] # "REJECTED"
    BY <2>1 DEF D!OneSender, D!Prompted
  <2>3. Cardinality(S) = 1
    BY <2>1, FS_Singleton
  <2> QED BY <1>0, <2>2, <2>3
<1> QED BY <1>1, <1>2

DepositInv == QuotesAreQuotes /\ D!OneSender

LEMMA DepositInit == D!Init => DepositInv
BY SheetInit, SenderInit DEF DepositInv

LEMMA DepositNext == DepositInv /\ [D!Next]_D!depositVars => DepositInv'
BY SheetNext, SenderNext DEF DepositInv

LEMMA DepositPrompts == DepositInv => D!PromptedOnce
BY SenderPromptsOnce DEF DepositInv

-----------------------------------------------------------------------------
(* The retired spot page: v10 is step, v11 order, v12 intent, v14 orders,  *)
(* v15 sent                                                                *)

\* A sequence of anything, by one longer.
IsSequence(s) == Len(s) \in Nat /\ s = [i \in 1 .. Len(s) |-> s[i]]
LEMMA OneLonger ==
    ASSUME NEW s, IsSequence(s), NEW x
    PROVE  /\ IsSequence(Append(s, x)) /\ Len(Append(s, x)) = Len(s) + 1
           /\ Append(s, x)[Len(s) + 1] = x /\ \A i \in 1 .. Len(s) : Append(s, x)[i] = s[i]
<1> DEFINE elements == {s[i] : i \in 1 .. Len(s)} \cup {x}
<1>1. s \in [1 .. Len(s) -> elements] /\ x \in elements
  BY DEF IsSequence
<1> HIDE DEF elements
<1>2. s \in Seq(elements)
  BY <1>1, SeqDef DEF IsSequence
<1>3. Append(s, x) \in Seq(elements)
  BY <1>1, <1>2
<1>4. Len(Append(s, x)) = Len(s) + 1 /\ Append(s, x)[Len(s) + 1] = x
      /\ \A i \in 1 .. Len(s) : Append(s, x)[i] = s[i]
  BY <1>1, <1>2
<1>5. \A t \in Seq(elements) : Len(t) \in Nat /\ t = [i \in 1 .. Len(t) |-> t[i]]
  OBVIOUS
<1> QED BY <1>3, <1>4, <1>5, Zenon DEF IsSequence

SpotInv == O!OrdersFollowIntents /\ O!RetryOrdersOnce

LEMMA SpotInit == O!Init => SpotInv
  BY DEF O!Init, SpotInv, O!OrdersFollowIntents, O!RetryOrdersOnce, O!NoOrder

\* What an order is: anything of these parts.
IsOrder(o) == o = [row |-> o.row, side |-> o.side, amount |-> o.amount, quoted |-> o.quoted,
                   print |-> o.print, key |-> o.key]

\* Nothing is sent, and nothing placed.
SpotSame == /\ UNCHANGED <<v12, v14, v15>> /\ IsOrder(v11')
            /\ v10' # "order" \/ UNCHANGED <<v10, v11>>
LEMMA SpotStays == ASSUME SpotInv, SpotSame PROVE SpotInv'
  BY DEF SpotInv, SpotSame, IsOrder, O!OrdersFollowIntents, O!RetryOrdersOnce

\* An order is sent: what was ordered before is followed by it.
LEMMA SpotSent ==
    ASSUME SpotInv, NEW print, v15' = Append(v15, print), v14' = v14, v12' = O!keyFor(print),
           v11' = [v11 EXCEPT !.print = print, !.key = v12'.key]
    PROVE  SpotInv'
<1>1. /\ IsSequence(v15) /\ IsSequence(v14) /\ v12 = [print |-> v12.print, key |-> v12.key] /\ IsOrder(v11)
      /\ \A i \in 1 .. Len(v14) :
            /\ v14[i].at \in 1 .. Len(v15)
            /\ (\A n \in v14[i].at .. Len(v15) : v15[n] = v14[i].print) => v12 = [print |-> v14[i].print, key |-> v14[i].key]
  BY DEF SpotInv, O!OrdersFollowIntents, IsSequence, IsOrder
<1>2. /\ IsSequence(v15') /\ Len(v15') = Len(v15) + 1 /\ v15'[Len(v15) + 1] = print
      /\ \A n \in 1 .. Len(v15) : v15'[n] = v15[n]
  BY <1>1, OneLonger
<1>3. v12' = [print |-> print, key |-> v12'.key] /\ v12'.print = print /\ (v12.print = print => v12' = v12)
  <2>1. CASE v12.print = print
    BY <1>1, <2>1 DEF O!keyFor
  <2>2. CASE v12.print # print
    BY <1>1, <2>2 DEF O!keyFor
  <2> QED BY <2>1, <2>2
<1>4. IsOrder(v11') /\ v11'.print = print /\ v11'.key = v12'.key
  <2>1. v11 = [row |-> v11.row, side |-> v11.side, amount |-> v11.amount, quoted |-> v11.quoted,
               print |-> v11.print, key |-> v11.key]
    BY <1>1 DEF IsOrder
  <2>2. v11' = [row |-> v11'.row, side |-> v11'.side, amount |-> v11'.amount, quoted |-> v11'.quoted,
                print |-> v11'.print, key |-> v11'.key]
    BY <2>1
  <2>3. v11'.print = print /\ v11'.key = v12'.key
    BY <2>1
  <2> QED BY <2>2, <2>3 DEF IsOrder
<1>5. ASSUME NEW i \in 1 .. Len(v14)
      PROVE  /\ v14[i].at \in 1 .. Len(v15')
             /\ (\A n \in v14[i].at .. Len(v15') : v15'[n] = v14[i].print)
                   => v12' = [print |-> v14[i].print, key |-> v14[i].key]
  <2>1. Len(v15) \in Nat /\ v14[i].at \in 1 .. Len(v15)
    BY <1>1 DEF IsSequence
  <2> SUFFICES ASSUME \A n \in v14[i].at .. Len(v15') : v15'[n] = v14[i].print
               PROVE  v12' = [print |-> v14[i].print, key |-> v14[i].key]
    BY <1>2, <2>1
  <2>2. v15'[Len(v15) + 1] = v14[i].print
    BY <1>2, <2>1
  <2>3. \A n \in v14[i].at .. Len(v15) : v15[n] = v14[i].print
    BY <1>2, <2>1
  <2>4. v12 = [print |-> v14[i].print, key |-> v14[i].key] /\ print = v14[i].print
    BY <1>1, <1>2, <2>2, <2>3
  <2> QED BY <1>3, <2>4
<1>6. O!OrdersFollowIntents'
  <2>1. Len(v15') \in Nat /\ Len(v15') > 0 /\ v15'[Len(v15')] = v11'.print
    BY <1>1, <1>2, <1>4 DEF IsSequence
  <2>2. v12' = [print |-> v12'.print, key |-> v12'.key] /\ v12' = [print |-> v11'.print, key |-> v11'.key]
    BY <1>3, <1>4
  <2>3. /\ v15' = [n \in 1 .. Len(v15') |-> v15'[n]] /\ v14' = [i \in 1 .. Len(v14') |-> v14'[i]]
        /\ {Len(v15'), Len(v14')} \subseteq Nat
    BY <1>1, <1>2 DEF IsSequence
  <2>4. \A i \in 1 .. Len(v14') :
            /\ v14'[i].at \in 1 .. Len(v15')
            /\ (\A n \in v14'[i].at .. Len(v15') : v15'[n] = v14'[i].print)
                  => v12' = [print |-> v14'[i].print, key |-> v14'[i].key]
    BY <1>5
  <2> QED BY <1>4, <2>1, <2>2, <2>3, <2>4, Zenon DEF O!OrdersFollowIntents, IsOrder
<1>7. O!RetryOrdersOnce'
  <2> SUFFICES ASSUME NEW i \in 1 .. Len(v14), NEW j \in 1 .. Len(v14), i < j, v14[i].print = v14[j].print
               PROVE  \E n \in v14[i].at .. v14[j].at : v15'[n] # v14[i].print
    BY DEF O!RetryOrdersOnce
  <2>1. PICK n \in v14[i].at .. v14[j].at : v15[n] # v14[i].print
    BY DEF SpotInv, O!RetryOrdersOnce
  <2>2. n \in 1 .. Len(v15)
    BY <1>1, <2>1 DEF IsSequence
  <2> QED BY <1>2, <2>1, <2>2
<1> QED BY <1>6, <1>7 DEF SpotInv

\* An order is placed under a key no other has: what was ordered alike before was
\* followed by something else.
LEMMA SpotPlaced ==
    ASSUME SpotInv, v10 = "order", ~O!Known, v10' = "idle", v11' = O!NoOrder, UNCHANGED <<v12, v15>>,
           v14' = Append(v14, [print |-> v11.print, key |-> v11.key, at |-> Len(v15)])
    PROVE  SpotInv'
<1> DEFINE new == [print |-> v11.print, key |-> v11.key, at |-> Len(v15)]
           last == Len(v14) + 1
<1>1. /\ IsSequence(v15) /\ IsSequence(v14)
      /\ Len(v15) > 0 /\ v15[Len(v15)] = v11.print /\ v12 = [print |-> v11.print, key |-> v11.key]
      /\ \A i \in 1 .. Len(v14) :
            /\ v14[i].at \in 1 .. Len(v15)
            /\ (\A n \in v14[i].at .. Len(v15) : v15[n] = v14[i].print) => v12 = [print |-> v14[i].print, key |-> v14[i].key]
  BY DEF SpotInv, O!OrdersFollowIntents, IsSequence
<1>2. new.print = v11.print /\ new.key = v11.key /\ new.at = Len(v15)
  OBVIOUS
<1>3. Len(v14) \in Nat /\ Len(v15) \in Nat /\ last \in Nat
  BY <1>1 DEF IsSequence
<1> HIDE DEF new
<1>4. IsSequence(v14') /\ Len(v14') = last /\ v14'[last] = new /\ \A i \in 1 .. Len(v14) : v14'[i] = v14[i]
  BY <1>1, OneLonger DEF new
<1> HIDE DEF last
<1>5. \A i \in 1 .. last : i = last \/ i \in 1 .. Len(v14)
  BY <1>3 DEF last
<1>6. O!OrdersFollowIntents'
  <2>1. O!NoOrder = [row |-> O!NoOrder.row, side |-> O!NoOrder.side, amount |-> O!NoOrder.amount,
                     quoted |-> O!NoOrder.quoted, print |-> O!NoOrder.print, key |-> O!NoOrder.key]
    BY DEF O!NoOrder
  <2>2. \A i \in 1 .. Len(v14') :
            /\ v14'[i].at \in 1 .. Len(v15)
            /\ (\A n \in v14'[i].at .. Len(v15) : v15[n] = v14'[i].print)
                  => v12 = [print |-> v14'[i].print, key |-> v14'[i].key]
    BY <1>1, <1>2, <1>3, <1>4, <1>5
  <2> QED BY <1>1, <1>3, <1>4, <2>1, <2>2 DEF O!OrdersFollowIntents, IsSequence
<1>7. O!RetryOrdersOnce'
  <2> SUFFICES ASSUME NEW i \in 1 .. last, NEW j \in 1 .. last, i < j, v14'[i].print = v14'[j].print
               PROVE  \E n \in v14'[i].at .. v14'[j].at : v15[n] # v14'[i].print
    BY <1>4 DEF O!RetryOrdersOnce
  <2>1. i \in 1 .. Len(v14) /\ v14'[i] = v14[i]
    BY <1>3, <1>4, <1>5 DEF last
  <2>2. CASE j = last
    <3>1. v14[i].print = v11.print /\ v14'[j].at = Len(v15)
      BY <1>2, <1>4, <2>1, <2>2
    <3>2. v14[i].key # v11.key
      BY <2>1 DEF O!Known
    <3>3. v12.key = v11.key /\ v12 # [print |-> v14[i].print, key |-> v14[i].key]
      BY <1>1, <3>2
    <3> QED BY <1>1, <2>1, <3>1, <3>3
  <2>3. CASE j \in 1 .. Len(v14)
    BY <1>4, <2>1, <2>3 DEF SpotInv, O!RetryOrdersOnce
  <2> QED BY <1>5, <2>2, <2>3
<1> QED BY <1>6, <1>7 DEF SpotInv

LEMMA SpotNext == SpotInv /\ [O!Next]_O!spotVars => SpotInv'
<1> SUFFICES ASSUME SpotInv, [O!Next]_O!spotVars PROVE SpotInv'
  OBVIOUS
<1>1. IsOrder(v11) /\ IsOrder(O!NoOrder)
  BY DEF SpotInv, O!OrdersFollowIntents, IsOrder, O!NoOrder
<1>2. CASE UNCHANGED O!formVars
  <2>1. SpotSame
    BY <1>1, <1>2 DEF SpotSame, O!formVars
  <2> QED BY <2>1, SpotStays
<1>3. CASE (\E pair \in Spot.Pairs : O!CandlesRead(pair) \/ O!switchAsset(pair)) \/ O!Tick \/ O!SocketCloses
           \/ O!Reconnects \/ (\E amount \in Spot.Amounts : O!EditAmount(amount))
  BY <1>2, <1>3 DEF O!CandlesRead, O!switchAsset, O!Tick, O!SocketCloses, O!Reconnects, O!EditAmount
<1>4. ASSUME NEW side, O!placeOrder(side) PROVE SpotInv'
  <2>1. /\ v10' = "client" /\ UNCHANGED <<v12, v14, v15>>
        /\ v11' = [O!NoOrder EXCEPT !.row = v1, !.side = side, !.amount = v2]
    BY <1>4 DEF O!placeOrder
  <2>2. v11' = [row |-> v1, side |-> side, amount |-> v2, quoted |-> O!NoOrder.quoted,
                print |-> O!NoOrder.print, key |-> O!NoOrder.key]
    BY <2>1 DEF O!NoOrder
  <2>3. SpotSame
    BY <2>1, <2>2 DEF SpotSame, IsOrder
  <2> QED BY <2>3, SpotStays
<1>5. CASE O!QuoteAsked
  <2>1. v10' = "quote" /\ UNCHANGED <<v12, v14, v15>> /\ v11' = [v11 EXCEPT !.quoted = v1]
    BY <1>5 DEF O!QuoteAsked
  <2>2. IsOrder(v11')
    BY <1>1, <2>1 DEF IsOrder
  <2>3. SpotSame
    BY <2>1, <2>2 DEF SpotSame
  <2> QED BY <2>3, SpotStays
<1>6. CASE O!QuoteAnswered
  <2>1. \/ /\ v12' = O!keyFor(O!Fingerprint) /\ v15' = Append(v15, O!Fingerprint) /\ v14' = v14
           /\ v11' = [v11 EXCEPT !.print = O!Fingerprint, !.key = v12'.key]
        \/ v10' = "idle" /\ v11' = O!NoOrder /\ UNCHANGED <<v12, v14, v15>>
    BY <1>6 DEF O!QuoteAnswered, O!Ends
  <2>2. CASE v10' = "idle" /\ v11' = O!NoOrder /\ UNCHANGED <<v12, v14, v15>>
    <3>1. SpotSame
      BY <1>1, <2>2 DEF SpotSame
    <3> QED BY <3>1, SpotStays
  <2> QED BY <2>1, <2>2, SpotSent
<1>7. CASE O!OrderAnswered
  <2>1. /\ v10 = "order" /\ v10' = "idle" /\ v11' = O!NoOrder /\ UNCHANGED <<v12, v15>>
        /\ v14' \in {v14, O!submit_demo_order}
    BY <1>7 DEF O!OrderAnswered, O!Ends
  <2>2. CASE v14' = v14
    <3>1. SpotSame
      BY <1>1, <2>1, <2>2 DEF SpotSame
    <3> QED BY <3>1, SpotStays
  <2>3. CASE v14' # v14
    BY <2>1, <2>3, SpotPlaced DEF O!submit_demo_order
  <2> QED BY <2>2, <2>3
<1>8. CASE O!QuoteAges
  <2>1. SpotSame
    BY <1>1, <1>8 DEF SpotSame, O!QuoteAges
  <2> QED BY <2>1, SpotStays
<1>9. CASE UNCHANGED O!spotVars
  <2>1. SpotSame
    BY <1>1, <1>9 DEF SpotSame, O!spotVars
  <2> QED BY <2>1, SpotStays
<1> QED BY <1>3, <1>4, <1>5, <1>6, <1>7, <1>8, <1>9 DEF O!Next

-----------------------------------------------------------------------------
(* Companion: v1 is page, v2 now, v3 bubble, v4 session, v5 hidden,        *)
(* v7 closed, v8 placed, v9 breaks                                         *)

CompanionInv == B!CompanionTyped /\ B!LimitIsSaid /\ B!ClosedStaysClosed /\ B!RemembersClosed
                /\ B!BreaksToGo /\ B!BreaksAreApart

\* The steps of a break are counted in naturals.
LEMMA BreakSteps == Coach.BREAK_TRADES \in Nat \ {0} /\ Coach.BREAK_MINUTES \in Nat \ {0}
  BY MarketAssumptions DEF MarketAssumptions, B!CompanionBounds

LEMMA CompanionInit == B!Init => CompanionInv
  BY BreakSteps DEF B!Init, CompanionInv, B!CompanionTyped, B!LimitIsSaid, B!ClosedStaysClosed, B!RemembersClosed,
     B!BreaksToGo, B!BreaksAreApart, B!Bubble, B!Messages, B!None, B!Message, B!Nothing

\* What evaluate makes of a bubble b, of which the block d is closed.
LEMMA BubbleEvaluated ==
    ASSUME NEW b \in B!Bubble, NEW d, d # B!None => b.dismissed = d /\ b.message # B!Message("block", d),
           B!evaluate(b, d), v1'.block \in Coach.Blocks \cup {B!None}, v1'.guard \in Coach.Guards \cup {B!None}
    PROVE  v3' \in B!Bubble /\ (B!LimitIsSaid /\ B!ClosedStaysClosed /\ B!RemembersClosed)'
<1> USE DEF B!Bubble, B!Messages, B!Messages, B!None, B!Nothing, B!Message, B!Said
<1>1. v7' = IF v1'.block = d THEN d ELSE B!None
  BY DEF B!evaluate
<1>2. CASE b.pinned \/ v5'
  <2>1. v3' = b
    BY <1>2 DEF B!evaluate
  <2> QED BY <1>1, <1>2, <2>1 DEF B!LimitIsSaid, B!ClosedStaysClosed, B!RemembersClosed
<1>3. CASE ~(b.pinned \/ v5') /\ v1'.guard # B!None
  <2>1. v3' = B!Said(b, "guard", v1'.guard)
    BY <1>3 DEF B!evaluate
  <2> QED BY <1>1, <1>3, <2>1 DEF B!LimitIsSaid, B!ClosedStaysClosed, B!RemembersClosed
<1>4. CASE v1'.guard = B!None /\ v3' = B!Said(b, "break", B!None)
  BY <1>1, <1>4 DEF B!LimitIsSaid, B!ClosedStaysClosed, B!RemembersClosed
<1>5. CASE v1'.guard = B!None /\ v3' = b
  BY <1>1, <1>5 DEF B!LimitIsSaid, B!ClosedStaysClosed, B!RemembersClosed
<1>6. CASE v1'.guard = B!None /\ v3' = B!Explained(b)
  BY <1>1, <1>6 DEF B!Explained, B!LimitIsSaid, B!ClosedStaysClosed, B!RemembersClosed
<1> QED BY <1>2, <1>3, <1>4, <1>5, <1>6 DEF B!evaluate

\* What it makes of the breaks: a break is suggested only when none is to go.
LEMMA BreaksEvaluated ==
    ASSUME CompanionInv, NEW b, NEW d, B!evaluate(b, d), {v2', v8', v1'.trades} \subseteq Nat,
           v2 <= v2', v8 <= v8', v8 - v1.trades <= v8' - v1'.trades,
           v1'.trades < v4.trades => \A x \in v9 : x[1] <= v8' - v1'.trades
    PROVE  /\ v4' \in [trades : Nat, at : Nat, time : Nat] /\ v9' \subseteq Nat \X Nat
           /\ B!BreaksToGo' /\ B!BreaksAreApart'
<1> DEFINE Trades == Coach.BREAK_TRADES
           Minutes == Coach.BREAK_MINUTES
<1> USE BreakSteps
<1>1. /\ B!Seen \in [trades : Nat, at : Nat, time : Nat] /\ B!Seen.trades = v1'.trades
      /\ \A x \in v9 : x[1] + Trades <= v8' - v1'.trades + B!Seen.at /\ x[2] + Minutes <= B!Seen.time
  BY DEF CompanionInv, B!CompanionTyped, B!BreaksToGo, B!Seen, B!NextBreak
<1>2. \A x \in v9 : x \in Nat \X Nat /\ x[1] <= v8' /\ x[2] <= v2'
  BY DEF CompanionInv, B!CompanionTyped, B!BreaksToGo
<1>3. CASE v4' = v4 /\ v9' = v9
  <2>1. \A x \in v9 : /\ x[1] + Trades <= v8' - v1'.trades + v4.at /\ x[2] + Minutes <= v4.time
    BY DEF CompanionInv, B!CompanionTyped, B!BreaksToGo
  <2> QED BY <1>2, <1>3, <2>1 DEF CompanionInv, B!CompanionTyped, B!BreaksToGo, B!BreaksAreApart
<1>4. CASE v4' = B!Seen /\ v9' = v9
  BY <1>1, <1>2, <1>4 DEF CompanionInv, B!CompanionTyped, B!BreaksToGo, B!BreaksAreApart
<1>5. CASE B!breakDue /\ v4' = B!NextBreak(v1'.trades) /\ v9' = v9 \cup {<<v8', v2'>>}
  <2>1. v4' = [trades |-> v1'.trades, at |-> v1'.trades + Trades, time |-> v2' + Minutes]
    BY <1>5 DEF B!NextBreak
  <2>2. \A x \in v9 : x[1] + Trades <= v8' \/ x[2] + Minutes <= v2'
    BY <1>1, <1>2, <1>5 DEF B!breakDue
  <2>3. B!BreaksToGo'
    BY <1>2, <1>5, <2>1 DEF B!BreaksToGo
  <2>4. B!BreaksAreApart'
    BY <1>2, <1>5, <2>2 DEF B!BreaksAreApart, CompanionInv
  <2> QED BY <1>2, <1>5, <2>1, <2>3, <2>4
<1> QED BY <1>3, <1>4, <1>5 DEF B!evaluate

LEMMA CompanionNext == CompanionInv /\ [B!Next]_B!companionVars => CompanionInv'
<1> SUFFICES ASSUME CompanionInv, [B!Next]_B!companionVars PROVE CompanionInv'
  OBVIOUS
<1>1. /\ v1 \in [block : Coach.Blocks \cup {B!None}, guard : Coach.Guards \cup {B!None}, trades : Nat]
      /\ v3 \in B!Bubble /\ {v2, v8} \subseteq Nat
      /\ v7 # B!None => v3.dismissed = v7 /\ v3.message # B!Message("block", v7)
      /\ \A x \in v9 : x \in Nat \X Nat /\ x[1] <= v8
                       /\ (v1.trades < v4.trades => x[1] <= v8 - v1.trades)
  BY DEF CompanionInv, B!CompanionTyped, B!ClosedStaysClosed, B!RemembersClosed, B!BreaksToGo
\* A step that ends in evaluate, on a page that stays, counts up or starts over.
<1>2. ASSUME NEW b \in B!Bubble, NEW d, d # B!None => b.dismissed = d /\ b.message # B!Message("block", d),
             B!evaluate(b, d),
             v1' \in [block : Coach.Blocks \cup {B!None}, guard : Coach.Guards \cup {B!None}, trades : Nat],
             {v2', v8'} \subseteq Nat, v2 <= v2',
             \/ v1'.trades = v1.trades /\ v8' = v8
             \/ v1'.trades = v1.trades + 1 /\ v8' = v8 + 1
             \/ v1'.trades = 0 /\ v8' = v8
      PROVE  CompanionInv'
  <2>1. v8 <= v8' /\ v8 - v1.trades <= v8' - v1'.trades /\ {v2', v8', v1'.trades} \subseteq Nat
    BY <1>1, <1>2
  <2>2. v1'.trades < v4.trades => \A x \in v9 : x[1] <= v8' - v1'.trades
    BY <1>1, <1>2 DEF CompanionInv, B!CompanionTyped
  <2>3. /\ v4' \in [trades : Nat, at : Nat, time : Nat] /\ v9' \subseteq Nat \X Nat
        /\ B!BreaksToGo' /\ B!BreaksAreApart'
    BY <1>2, <2>1, <2>2, BreaksEvaluated
  <2>4. v3' \in B!Bubble /\ (B!LimitIsSaid /\ B!ClosedStaysClosed /\ B!RemembersClosed)'
    <3>1. v1'.block \in Coach.Blocks \cup {B!None} /\ v1'.guard \in Coach.Guards \cup {B!None}
      BY <1>2
    <3> QED BY <1>2, <3>1, BubbleEvaluated
  <2> QED BY <1>2, <2>3, <2>4 DEF CompanionInv, B!CompanionTyped
<1>3. CASE B!BlockChanges
  BY <1>1, <1>2, <1>3 DEF B!BlockChanges
<1>4. CASE B!ContractDecided
  <2>1. PICK g \in Coach.Guards \cup {B!None} : v1' = [v1 EXCEPT !.trades = @ + 1, !.guard = g]
    BY <1>4 DEF B!ContractDecided
  <2>2. v8' = v8 + 1 /\ v2' = v2 /\ B!evaluate(v3, v7)
    BY <1>4 DEF B!ContractDecided
  <2>3. /\ v1' \in [block : Coach.Blocks \cup {B!None}, guard : Coach.Guards \cup {B!None}, trades : Nat]
        /\ v1'.trades = v1.trades + 1
    <3>1. v1' = [block |-> v1.block, guard |-> g, trades |-> v1.trades + 1]
      BY <1>1, <2>1
    <3> QED BY <1>1, <3>1
  <2> QED BY <1>1, <1>2, <2>2, <2>3
<1>5. CASE B!SessionRestarts
  <2>1. v1' = [v1 EXCEPT !.trades = 0, !.guard = B!None] /\ v8' = v8 /\ v2' = v2 /\ B!evaluate(v3, v7)
    BY <1>5 DEF B!SessionRestarts
  <2>2. /\ v1' \in [block : Coach.Blocks \cup {B!None}, guard : Coach.Guards \cup {B!None}, trades : Nat]
        /\ v1'.trades = 0
    BY <1>1, <2>1
  <2> QED BY <1>1, <1>2, <2>1, <2>2
<1>6. CASE B!MinutePasses
  BY <1>1, <1>2, <1>6 DEF B!MinutePasses
<1>7. CASE B!close
  <2> DEFINE of(block) == IF v3.message.kind = "block" THEN v3.message.about ELSE block
             b == [message |-> B!Nothing, pinned |-> FALSE, dismissed |-> of(v3.dismissed)]
  <2>1. B!evaluate(b, of(v7)) /\ UNCHANGED <<v1, v2, v8>>
    BY <1>7 DEF B!close
  <2>2. b \in B!Bubble
    BY <1>1 DEF B!Bubble, B!Messages, B!Nothing, B!None, B!Message
  <2>3. of(v7) # B!None => b.dismissed = of(v7) /\ b.message # B!Message("block", of(v7))
    BY <1>1 DEF B!Nothing, B!None, B!Message
  <2> HIDE DEF b, of
  <2> QED BY <1>1, <1>2, <2>1, <2>2, <2>3
<1>8. CASE B!show
  BY <1>1, <1>2, <1>8 DEF B!show
\* The others say nothing, or what the person opened.
<1>9. ASSUME v3' \in B!Bubble, v3'.dismissed = v3.dismissed, UNCHANGED <<v1, v2, v4, v7, v8, v9>>,
             \/ v3' = v3 /\ (v5' \/ v5' = v5)
             \/ v3'.message.kind \in {"help", "tour"} /\ v5' = v5 /\ (v3'.pinned \/ v3'.message = B!Message("tour", 0))
      PROVE  CompanionInv'
  <2>1. B!LimitIsSaid'
    BY <1>9 DEF CompanionInv, B!LimitIsSaid
  <2>2. B!ClosedStaysClosed'
    BY <1>9 DEF CompanionInv, B!ClosedStaysClosed, B!Message
  <2> QED BY <1>9, <2>1, <2>2 DEF CompanionInv, B!CompanionTyped, B!RemembersClosed, B!BreaksToGo, B!BreaksAreApart
<1> USE DEF B!Opens, B!Said, B!Message, B!Bubble, B!Messages, B!None
<1>10. CASE B!showHelp
  BY <1>1, <1>9, <1>10 DEF B!showHelp
<1>11. CASE B!tour
  <2>1. PICK n \in Nat : B!Opens("tour", n)
    <3>1. v3.message.kind = "tour" => v3.message.about + 1 \in Nat
      BY <1>1
    <3> QED BY <1>11, <3>1 DEF B!tour
  <2> QED BY <1>1, <1>9, <1>11, <2>1 DEF B!tour
<1>12. CASE B!SettingsRead
  <2>1. CASE B!Opens("tour", 1)
    BY <1>1, <1>9, <2>1
  <2>2. CASE v3' = B!Said(v3, "tour", 0) /\ UNCHANGED <<v1, v2, v4, v5, v7, v8, v9>>
    BY <1>1, <1>9, <2>2
  <2>3. CASE UNCHANGED <<v1, v2, v3, v4, v5, v7, v8, v9>>
    BY <1>1, <1>9, <2>3
  <2> QED BY <1>12, <2>1, <2>2, <2>3 DEF B!SettingsRead
<1>13. CASE B!hide
  BY <1>1, <1>9, <1>13 DEF B!hide
<1>14. CASE UNCHANGED B!companionVars
  BY <1>1, <1>9, <1>14 DEF B!companionVars
<1> QED BY <1>3, <1>4, <1>5, <1>6, <1>7, <1>8, <1>10, <1>11, <1>12, <1>13, <1>14 DEF B!Next

-----------------------------------------------------------------------------
(* Quote cache: v1 is usable, v3 shared, v4 lock, v5 made, v6 fresh,       *)
(* v7 calls, v8 leased, v9 outrun                                          *)

QuotesInv ==
    /\ Q!CallsAreCalls /\ Q!LeaseOfOwner
    /\ Q!Healthy => Q!OwnerAlone /\ Q!FreshIsShared /\ Q!OneFresh

LEMMA QuotesAssumed == Quotes.Host \in [Quotes.Requests -> Quotes.Instances] /\ Q!NoOne \notin Quotes.Requests
  BY MarketAssumptions DEF MarketAssumptions, Q!QuoteCacheAssumption

LEMMA QuotesInit == Q!Init => QuotesInv
<1> SUFFICES ASSUME Q!Init PROVE QuotesInv
  OBVIOUS
<1>1. \A r \in Quotes.Requests : v7[r] = [at |-> "idle", locked |-> FALSE, took |-> 0]
  BY DEF Q!Init, Q!Idle, Q!None
<1>2. v7 \in [Quotes.Requests -> [at : Q!Steps, locked : BOOLEAN, took : Nat]]
  BY DEF Q!Init, Q!Idle, Q!None, Q!Steps
<1>3. Q!OwnerAlone
  BY <1>1 DEF Q!OwnerAlone
<1> QED BY <1>2, <1>3 DEF Q!Init, QuotesInv, Q!CallsAreCalls, Q!LeaseOfOwner, Q!FreshIsShared, Q!OneFresh, Q!None

\* What is asked of Redis and fails leaves the good case for good.
LEMMA Degraded ==
    ASSUME NEW r \in Quotes.Requests, Q!Degrade(r), QuotesInv
    PROVE  ~Q!Healthy' /\ v1' \in [Quotes.Instances -> BOOLEAN]
<1>1. Q!On(r) \in Quotes.Instances
  BY QuotesAssumed DEF Q!On
<1> QED BY <1>1 DEF Q!Degrade, Q!Healthy, QuotesInv, Q!CallsAreCalls

LEMMA QuotesNext == QuotesInv /\ [Q!Next]_Q!quoteVars => QuotesInv'
<1> SUFFICES ASSUME QuotesInv, [Q!Next]_Q!quoteVars PROVE QuotesInv'
  OBVIOUS
<1> USE QuotesAssumed DEF Q!Steps
<1>1. /\ v1 \in [Quotes.Instances -> BOOLEAN] /\ v5 \in Nat
      /\ v7 \in [Quotes.Requests -> [at : Q!Steps, locked : BOOLEAN, took : Nat]]
      /\ v4 \in Quotes.Requests \cup {Q!NoOne} /\ v8 \subseteq Quotes.Requests /\ v9 \in BOOLEAN
      /\ \A r \in v8 : r = v4
  BY DEF QuotesInv, Q!CallsAreCalls, Q!LeaseOfOwner
<1>2. ASSUME NEW r \in Quotes.Requests, NEW call \in [at : Q!Steps, locked : BOOLEAN, took : Nat],
             v7' = [v7 EXCEPT ![r] = call],
             v1' \in [Quotes.Instances -> BOOLEAN], v5' \in Nat, v9' \in BOOLEAN,
             v4' \in Quotes.Requests \cup {Q!NoOne}, v8' \subseteq Quotes.Requests, \A s \in v8' : s = v4',
             Q!Healthy' => 
                /\ Q!Healthy
                /\ v4 # v4' => r \in {v4, v4'} /\ {v4, v4'} = {r, Q!NoOne}
                /\ v6' # v6 \/ v3' # v3 => v4 = r /\ v4' = r
                /\ call.at \in {"recheck", "fetch", "publish", "unlock"} =>
                     /\ v4' = r /\ call.locked
                     /\ call.at \in {"recheck", "unlock"} => v6' \subseteq {v3'}
                     /\ call.at = "fetch" => v6' = {}
                     /\ call.at = "publish" => v6' \subseteq {call.took}
                /\ Q!FreshIsShared' /\ Q!OneFresh'
      PROVE  QuotesInv'
  <2>1. v7' \in [Quotes.Requests -> [at : Q!Steps, locked : BOOLEAN, took : Nat]] /\ v7'[r] = call
        /\ \A s \in Quotes.Requests : s # r => v7'[s] = v7[s]
    BY <1>1, <1>2
  <2>2. ASSUME Q!Healthy' PROVE Q!OwnerAlone'
    <3> SUFFICES ASSUME NEW s \in Quotes.Requests, v7'[s].at \in {"recheck", "fetch", "publish", "unlock"}
                 PROVE  /\ v4' = s /\ v7'[s].locked
                        /\ v7'[s].at \in {"recheck", "unlock"} => v6' \subseteq {v3'}
                        /\ v7'[s].at = "fetch" => v6' = {}
                        /\ v7'[s].at = "publish" => v6' \subseteq {v7'[s].took}
      BY DEF Q!OwnerAlone
    <3>1. CASE s = r
      BY <1>2, <2>1, <2>2, <3>1
    <3>2. CASE s # r
      <4>1. v7'[s] = v7[s] /\ v4 = s
        BY <1>2, <2>1, <2>2, <3>2 DEF QuotesInv, Q!OwnerAlone
      <4>2. v4' = v4 /\ v6' = v6 /\ v3' = v3
        BY <1>2, <2>2, <3>2, <4>1
      <4> QED BY <1>2, <2>2, <4>1, <4>2 DEF QuotesInv, Q!OwnerAlone
    <3> QED BY <3>1, <3>2
  <2> QED BY <1>2, <2>1, <2>2 DEF QuotesInv, Q!CallsAreCalls, Q!LeaseOfOwner
<1>3. ASSUME NEW r \in Quotes.Requests
      PROVE  /\ v7[r] \in [at : Q!Steps, locked : BOOLEAN, took : Nat] /\ Q!On(r) \in Quotes.Instances
             /\ Q!Healthy => Q!FreshIsShared /\ Q!OneFresh /\ v1[Q!On(r)]
             /\ Q!Healthy /\ v7[r].at \in {"recheck", "fetch", "publish", "unlock"} =>
                  /\ v4 = r /\ v7[r].locked
                  /\ v7[r].at \in {"recheck", "unlock"} => v6 \subseteq {v3}
                  /\ v7[r].at = "fetch" => v6 = {}
                  /\ v7[r].at = "publish" => v6 \subseteq {v7[r].took}
  BY <1>1 DEF QuotesInv, Q!OwnerAlone, Q!Healthy, Q!On
\* A step that only moves the call on.
<1>4. ASSUME NEW r \in Quotes.Requests, NEW at \in Q!Steps, Q!Goto(r, at),
             UNCHANGED <<v3, v4, v5, v6, v8, v9>>,
             \/ UNCHANGED v1 /\ (Q!Healthy /\ at \in {"recheck", "fetch", "publish", "unlock"} =>
                     /\ v4 = r /\ v7[r].locked
                     /\ at \in {"recheck", "unlock"} => v6 \subseteq {v3}
                     /\ at = "fetch" => v6 = {}
                     /\ at = "publish" => v6 \subseteq {v7[r].took})
             \/ Q!Degrade(r)
      PROVE  QuotesInv'
  <2> DEFINE call == [v7[r] EXCEPT !.at = at]
  <2>1. call \in [at : Q!Steps, locked : BOOLEAN, took : Nat] /\ call.at = at /\ call.locked = v7[r].locked
        /\ call.took = v7[r].took
    BY <1>3
  <2>2. v7' = [v7 EXCEPT ![r] = call]
    BY <1>4 DEF Q!Goto
  <2> HIDE DEF call
  <2>3. CASE UNCHANGED v1
    <3>1. Q!Healthy' => Q!Healthy
      BY <1>4, <2>3 DEF Q!Healthy
    <3>2. Q!Healthy' => Q!FreshIsShared' /\ Q!OneFresh'
      BY <1>3, <1>4, <3>1 DEF Q!FreshIsShared, Q!OneFresh
    <3> QED BY <1>1, <1>2, <1>4, <2>1, <2>2, <2>3, <3>1, <3>2, Degraded
  <2>4. CASE Q!Degrade(r)
    <3>1. ~Q!Healthy' /\ v1' \in [Quotes.Instances -> BOOLEAN]
      BY <2>4, Degraded
    <3> QED BY <1>1, <1>2, <1>4, <2>1, <2>2, <3>1
  <2> QED BY <1>4, <2>3, <2>4
<1> USE DEF Q!KeepRedis
<1>5. ASSUME NEW r \in Quotes.Requests, Q!getSnapshot(r) PROVE QuotesInv'
  BY <1>3, <1>4, <1>5 DEF Q!getSnapshot
<1>6. ASSUME NEW r \in Quotes.Requests, Q!ReadShared(r) PROVE QuotesInv'
  BY <1>3, <1>4, <1>6 DEF Q!ReadShared
<1>7. ASSUME NEW r \in Quotes.Requests, Q!TakeLock(r) PROVE QuotesInv'
  <2>1. CASE /\ v1[Q!On(r)] /\ v4 = Q!NoOne /\ v4' = r /\ v8' = v8 \cup {r}
             /\ v7' = [v7 EXCEPT ![r].at = "recheck", ![r].locked = TRUE] /\ UNCHANGED <<v1, v3, v5, v6, v9>>
    <3> DEFINE call == [v7[r] EXCEPT !.at = "recheck", !.locked = TRUE]
    <3>1. call \in [at : Q!Steps, locked : BOOLEAN, took : Nat] /\ call.at = "recheck" /\ call.locked
          /\ v7' = [v7 EXCEPT ![r] = call]
      BY <1>3, <2>1
    <3> HIDE DEF call
    <3>2. v8' = {r}
      BY <1>1, <2>1
    <3>3. Q!Healthy' => Q!Healthy
      BY <2>1 DEF Q!Healthy
    <3>4. Q!Healthy => v6 \subseteq {v3}
      BY <1>3, <2>1 DEF Q!FreshIsShared
    <3>5. Q!Healthy' => Q!FreshIsShared' /\ Q!OneFresh'
      BY <1>3, <2>1, <3>3, <3>4 DEF Q!FreshIsShared, Q!OneFresh
    <3>6. /\ v1' \in [Quotes.Instances -> BOOLEAN] /\ v5' \in Nat /\ v9' \in BOOLEAN
          /\ v4' \in Quotes.Requests \cup {Q!NoOne} /\ v8' \subseteq Quotes.Requests /\ \A s \in v8' : s = v4'
      BY <1>1, <2>1, <3>2
    <3>7. Q!Healthy' =>
            /\ Q!Healthy /\ r \in {v4, v4'} /\ {v4, v4'} = {r, Q!NoOne} /\ v6' = v6 /\ v3' = v3
            /\ v4' = r /\ call.locked /\ v6' \subseteq {v3'} /\ Q!FreshIsShared' /\ Q!OneFresh'
      BY <2>1, <3>1, <3>3, <3>4, <3>5
    <3> QED BY <1>2, <3>1, <3>6, <3>7
  <2>2. CASE /\ Q!Degrade(r) /\ Q!Goto(r, "fetch") /\ v4' \in {v4, IF v4 = Q!NoOne THEN r ELSE v4}
             /\ UNCHANGED <<v3, v5, v6, v8, v9>>
    <3> DEFINE call == [v7[r] EXCEPT !.at = "fetch"]
    <3>1. call \in [at : Q!Steps, locked : BOOLEAN, took : Nat] /\ v7' = [v7 EXCEPT ![r] = call]
      BY <1>3, <2>2 DEF Q!Goto
    <3> HIDE DEF call
    <3>2. \A s \in v8' : s = v4'
      BY <1>1, <2>2
    <3>3. ~Q!Healthy' /\ v1' \in [Quotes.Instances -> BOOLEAN]
      BY <2>2, Degraded
    <3>4. v4' \in Quotes.Requests \cup {Q!NoOne}
      BY <1>1, <2>2
    <3> QED BY <1>1, <1>2, <2>2, <3>1, <3>2, <3>3, <3>4
  <2>3. CASE Q!Goto(r, "done") /\ UNCHANGED <<v1, v3, v4, v5, v6, v8, v9>>
    BY <1>4, <2>3
  <2>4. CASE ~v1[Q!On(r)] /\ Q!Goto(r, "fetch") /\ UNCHANGED <<v1, v3, v4, v5, v6, v8, v9>>
    BY <1>3, <1>4, <2>4
  <2> QED BY <1>7, <2>1, <2>2, <2>3, <2>4 DEF Q!TakeLock
<1>8. ASSUME NEW r \in Quotes.Requests, Q!Recheck(r) PROVE QuotesInv'
  <2>1. Q!Healthy => v4 = r /\ v7[r].locked /\ v6 \subseteq {v3} /\ v1[Q!On(r)]
    BY <1>3, <1>8 DEF Q!Recheck
  <2>2. Q!AfterRecheck(r) \in {"unlock", "fetch"}
        /\ (Q!Healthy /\ Q!AfterRecheck(r) = "fetch" => v6 = {})
    BY <2>1 DEF Q!AfterRecheck
  <2>3. CASE Q!Goto(r, Q!AfterRecheck(r)) /\ UNCHANGED <<v1, v3, v4, v5, v6, v8, v9>>
    BY <1>4, <2>1, <2>2, <2>3
  <2>4. CASE Q!Degrade(r) /\ Q!Goto(r, "fetch") /\ UNCHANGED <<v3, v4, v5, v6, v8, v9>>
    BY <1>4, <2>4
  <2> QED BY <1>8, <2>3, <2>4 DEF Q!Recheck
<1>9. ASSUME NEW r \in Quotes.Requests, Q!Fetch(r) PROVE QuotesInv'
  <2>1. Q!Healthy => v4 = r /\ v7[r].locked /\ v6 = {}
    BY <1>3, <1>9 DEF Q!Fetch
  <2>2. CASE /\ v5' = v5 + 1 /\ v6' = v6 \cup {v5 + 1}
             /\ v7' = [v7 EXCEPT ![r].at = "publish", ![r].took = v5 + 1] /\ UNCHANGED <<v1, v3, v4, v8, v9>>
    <3> DEFINE call == [v7[r] EXCEPT !.at = "publish", !.took = v5 + 1]
    <3>4. v5 + 1 \in Nat
      BY <1>1
    <3>5. call = [at |-> "publish", locked |-> v7[r].locked, took |-> v5 + 1]
      <4>1. PICK a \in Q!Steps, l \in BOOLEAN, t \in Nat : v7[r] = [at |-> a, locked |-> l, took |-> t]
        <5>1. \A c \in [at : Q!Steps, locked : BOOLEAN, took : Nat] : c = [at |-> c.at, locked |-> c.locked, took |-> c.took]
          OBVIOUS
        <5> QED BY <1>3, <5>1
      <4>2. call = [[at |-> a, locked |-> l, took |-> t] EXCEPT !.at = "publish", !.took = v5 + 1]
        BY <4>1
      <4> HIDE DEF call
      <4>3. call = [at |-> "publish", locked |-> l, took |-> v5 + 1]
        BY <4>2
      <4> QED BY <4>1, <4>3
    <3>6. v7' = [v7 EXCEPT ![r] = call]
      BY <2>2
    <3>1. call \in [at : Q!Steps, locked : BOOLEAN, took : Nat] /\ call.at = "publish" /\ call.took = v5 + 1
          /\ call.locked = v7[r].locked /\ v7' = [v7 EXCEPT ![r] = call] /\ v5' \in Nat
      BY <1>3, <2>2, <3>4, <3>5, <3>6
    <3> HIDE DEF call
    <3>2. Q!Healthy' => Q!Healthy
      BY <2>2 DEF Q!Healthy
    <3>3. Q!Healthy' => Q!FreshIsShared' /\ Q!OneFresh' /\ v6' \subseteq {call.took}
      BY <2>1, <2>2, <3>1, <3>2 DEF Q!FreshIsShared, Q!OneFresh
    <3> QED BY <1>1, <1>2, <2>1, <2>2, <3>1, <3>2, <3>3
  <2>3. CASE Q!Goto(r, Q!Released(r)) /\ UNCHANGED <<v1, v3, v4, v5, v6, v8, v9>>
    <3>1. Q!Released(r) \in {"unlock", "done"}
      BY DEF Q!Released
    <3> QED BY <1>4, <2>1, <2>3, <3>1
  <2> QED BY <1>9, <2>2, <2>3 DEF Q!Fetch
<1>10. ASSUME NEW r \in Quotes.Requests, Q!Publish(r) PROVE QuotesInv'
  <2> DEFINE call == [v7[r] EXCEPT !.at = Q!Released(r)]
  <2>1. Q!Released(r) \in {"unlock", "done"}
        /\ (Q!Healthy => v4 = r /\ v7[r].locked /\ v6 \subseteq {v7[r].took} /\ v1[Q!On(r)])
    BY <1>3, <1>10 DEF Q!Publish, Q!Released
  <2>2. call \in [at : Q!Steps, locked : BOOLEAN, took : Nat] /\ call.at = Q!Released(r)
        /\ call.locked = v7[r].locked /\ v7' = [v7 EXCEPT ![r] = call] /\ UNCHANGED <<v4, v5, v6, v8, v9>>
    BY <1>3, <1>10, <2>1 DEF Q!Publish, Q!Goto
  <2> HIDE DEF call
  <2>3. CASE v3' = (IF v1[Q!On(r)] THEN v7[r].took ELSE v3) /\ UNCHANGED v1
    <3>1. Q!Healthy' => Q!Healthy
      BY <2>2, <2>3 DEF Q!Healthy
    <3>2. Q!Healthy' => Q!FreshIsShared' /\ Q!OneFresh' /\ v6' \subseteq {v3'}
      BY <1>3, <2>1, <2>2, <2>3, <3>1 DEF Q!FreshIsShared, Q!OneFresh
    <3> QED BY <1>1, <1>2, <2>1, <2>2, <2>3, <3>1, <3>2
  <2>4. CASE Q!Degrade(r)
    <3>1. ~Q!Healthy' /\ v1' \in [Quotes.Instances -> BOOLEAN]
      BY <2>4, Degraded
    <3> QED BY <1>1, <1>2, <2>2, <3>1
  <2> QED BY <1>10, <2>3, <2>4 DEF Q!Publish
<1>11. ASSUME NEW r \in Quotes.Requests, Q!Unlock(r) PROVE QuotesInv'
  <2> DEFINE call == [v7[r] EXCEPT !.at = "done", !.locked = FALSE]
  <2>1. Q!Healthy => v4 = r /\ v6 \subseteq {v3}
    BY <1>3, <1>11 DEF Q!Unlock
  <2>2. call \in [at : Q!Steps, locked : BOOLEAN, took : Nat] /\ call.at = "done"
        /\ v7' = [v7 EXCEPT ![r] = call] /\ UNCHANGED <<v3, v5, v6, v9>> /\ v8' = v8 \ {r}
    BY <1>3, <1>11 DEF Q!Unlock
  <2> HIDE DEF call
  <2>3. v4' \in {v4, Q!AfterUnlock(r)} /\ Q!AfterUnlock(r) = IF v4 = r THEN Q!NoOne ELSE v4
    BY <1>11 DEF Q!Unlock, Q!AfterUnlock
  <2>4. (\A s \in v8' : s = v4') /\ v8' \subseteq Quotes.Requests /\ v4' \in Quotes.Requests \cup {Q!NoOne}
    BY <1>1, <2>2, <2>3
  <2>5. CASE UNCHANGED v1
    <3>1. Q!Healthy' => Q!Healthy
      BY <2>2, <2>5 DEF Q!Healthy
    <3>2. Q!Healthy' => Q!FreshIsShared' /\ Q!OneFresh'
      BY <1>3, <2>1, <2>2, <3>1 DEF Q!FreshIsShared, Q!OneFresh
    <3> QED BY <1>1, <1>2, <2>1, <2>2, <2>3, <2>4, <2>5, <3>1, <3>2
  <2>6. CASE Q!Degrade(r)
    <3>1. ~Q!Healthy' /\ v1' \in [Quotes.Instances -> BOOLEAN]
      BY <2>6, Degraded
    <3> QED BY <1>1, <1>2, <2>2, <2>4, <3>1
  <2> QED BY <1>11, <2>5, <2>6 DEF Q!Unlock
<1>12. ASSUME NEW r \in Quotes.Requests, Q!Dies(r) PROVE QuotesInv'
  BY <1>4, <1>12 DEF Q!Dies
<1> USE <1>1 DEF QuotesInv, Q!CallsAreCalls, Q!LeaseOfOwner, Q!Healthy, Q!OwnerAlone, Q!FreshIsShared, Q!OneFresh
<1>13. CASE Q!SnapshotAges
  BY <1>13 DEF Q!SnapshotAges
<1>14. CASE Q!LeaseRunsOut
  BY <1>14 DEF Q!LeaseRunsOut
<1>15. CASE UNCHANGED Q!quoteVars
  BY <1>15 DEF Q!quoteVars
<1> QED BY <1>5, <1>6, <1>7, <1>8, <1>9, <1>10, <1>11, <1>12, <1>13, <1>14, <1>15, Zenon DEF Q!Next

\* A set whose elements are all the same has at most one.
LEMMA AtMostOne ==
    ASSUME NEW set, \A s, t \in set : s = t
    PROVE  Q!Cardinality(set) <= 1
<1>1. Q!Cardinality(set) = Cardinality(set)
  BY Zenon DEF Q!Cardinality, Cardinality
<1>2. CASE set = {}
  BY <1>1, <1>2, FS_EmptySet
<1>3. CASE set # {}
  <2>1. PICK s \in set : set = {s}
    BY <1>3
  <2>2. Cardinality({s}) = 1
    BY FS_Singleton, Zenon
  <2> QED BY <1>1, <2>1, <2>2
<1> QED BY <1>2, <1>3

LEMMA QuotesSparing == QuotesInv => Q!OneFreshSnapshot /\ Q!LeaseIsExclusive
<1> SUFFICES ASSUME QuotesInv PROVE Q!OneFreshSnapshot /\ Q!LeaseIsExclusive
  OBVIOUS
<1>1. Q!OneFreshSnapshot
  BY AtMostOne DEF QuotesInv, Q!OneFresh, Q!OneFreshSnapshot
<1>2. Q!LeaseIsExclusive
  BY AtMostOne DEF QuotesInv, Q!LeaseOfOwner, Q!LeaseIsExclusive
<1> QED BY <1>1, <1>2

-----------------------------------------------------------------------------
(* The ticks of an index: v1 is published, v2 wire, v3 ticks, v4 phase,    *)
(* v8 queue, v9 task, v10 seen                                             *)

\* The order of the natural numbers as a set of pairs, which the provers can handle.
Less == {pair \in Nat \X Nat : pair[1] < pair[2]}

LEMMA LessWellFounded == IsWellFoundedOn(Less, Nat)
BY NatLessThanWellFounded DEF OpToRel, Less

\* A set of natural numbers that is not empty has a least element.
LEMMA LeastNatural ==
    ASSUME NEW set \in SUBSET Nat, set # {}
    PROVE  \E m \in set : \A q \in set : m <= q
<1>1. PICK x \in set : \A y \in set : ~(<<y, x>> \in Less)
  BY LessWellFounded, WFMin, Zenon
<1>2. \A a, b \in Nat : <<a, b>> \in Less <=> a < b
  BY DEF Less
<1>3. \A y \in set : ~(y < x) /\ x \in Nat /\ y \in Nat
  BY <1>1, <1>2
<1> QED BY <1>1, <1>3

At(j) == IF j = 0 THEN 0 ELSE Feed.Numbers[j]

\* The numbers of the ticks grow.
LEMMA FeedGrows ==
    /\ Feed.Numbers \in Seq(Nat \ {0}) /\ Len(Feed.Numbers) \in Nat \ {0}
    /\ Feed.Window \in Nat \ {0} /\ Feed.PageSize \in Nat \ {0}
    /\ \A i \in 1 .. Len(Feed.Numbers) : Feed.Numbers[i] \in Nat \ {0}
    /\ \A i, j \in 0 .. Len(Feed.Numbers) : At(i) \in Nat /\ (i < j <=> At(i) < At(j))
<1>1. /\ Feed.Numbers \in Seq(Nat \ {0}) /\ Feed.Numbers # <<>>
      /\ \A i, j \in DOMAIN Feed.Numbers : i < j => Feed.Numbers[i] < Feed.Numbers[j]
      /\ Feed.Window \in Nat \ {0} /\ Feed.PageSize \in Nat \ {0}
  BY MarketAssumptions DEF MarketAssumptions, F!FeedNumbers, F!FeedBounds
<1>2. /\ Len(Feed.Numbers) \in Nat \ {0} /\ DOMAIN Feed.Numbers = 1 .. Len(Feed.Numbers)
      /\ \A i \in 1 .. Len(Feed.Numbers) : Feed.Numbers[i] \in Nat \ {0}
  BY <1>1
<1>3. ASSUME NEW i \in 0 .. Len(Feed.Numbers), NEW j \in 0 .. Len(Feed.Numbers)
      PROVE  At(i) \in Nat /\ (i < j <=> At(i) < At(j))
  <2>1. At(i) \in Nat /\ At(j) \in Nat
    BY <1>2 DEF At
  <2>2. \A k, m \in 1 .. Len(Feed.Numbers) : k < m => Feed.Numbers[k] < Feed.Numbers[m]
    BY <1>1, <1>2
  <2>3. \A k, m \in 0 .. Len(Feed.Numbers) : k < m => At(k) < At(m)
    <3> TAKE k, m \in 0 .. Len(Feed.Numbers)
    <3>1. CASE k = 0
      BY <3>1, <1>2 DEF At
    <3>2. CASE k # 0
      BY <3>2, <1>2, <2>2 DEF At
    <3> QED BY <3>1, <3>2
  <2>4. i < j \/ i = j \/ j < i
    OBVIOUS
  <2> QED BY <2>1, <2>3, <2>4
<1> QED BY <1>1, <1>2, <1>3

\* A run of ticks: how many, which, and the last.
LEMMA RunFacts ==
    ASSUME NEW j \in 0 .. Len(Feed.Numbers), NEW i \in 0 .. j
    PROVE  /\ F!Run(i, j) \in Seq(Nat) /\ Len(F!Run(i, j)) = j - i
           /\ \A k \in 1 .. j - i : F!Run(i, j)[k] = Feed.Numbers[i + k]
           /\ F!Run(i, j) = <<>> <=> i = j
           /\ F!last(F!Run(i, j)) = IF i = j THEN 0 ELSE At(j)
<1> DEFINE run == SubSeq(Feed.Numbers, i + 1, j)
<1>1. /\ run \in Seq(Nat) /\ Len(run) = j - i
      /\ \A k \in 1 .. j - i : run[k] = Feed.Numbers[i + k]
  BY FeedGrows, SubSeqProperties, \A k \in i + 1 .. j : Feed.Numbers[k] \in Nat
<1>2. run = <<>> <=> i = j
  BY <1>1
<1>3. run # <<>> => F!Last(run) = At(j)
  BY <1>1, <1>2 DEF F!Last, At
<1> QED BY <1>1, <1>2, <1>3 DEF F!Run, F!last

\* Ticks newer than a number are a run, too.
LEMMA RunNewer ==
    ASSUME NEW j \in 0 .. Len(Feed.Numbers), NEW i \in 0 .. j, NEW k \in i .. j, NEW n \in Nat,
           \A q \in i + 1 .. j : Feed.Numbers[q] <= n <=> q <= k
    PROVE  F!newer(F!Run(i, j), n) = F!Run(k, j)
<1> DEFINE run == F!Run(i, j)
           Splits(o) == \A q \in DOMAIN run : run[q] <= n <=> q <= o
           old == CHOOSE o \in 0 .. Len(run) : Splits(o)
<1>1. /\ run \in Seq(Nat) /\ Len(run) = j - i /\ \A q \in 1 .. j - i : run[q] = Feed.Numbers[i + q]
  BY RunFacts
<1> HIDE DEF run
<1>2. k - i \in 0 .. Len(run) /\ Splits(k - i)
  <2>1. DOMAIN run = 1 .. j - i
    BY <1>1
  <2>2. ASSUME NEW q \in 1 .. j - i PROVE run[q] <= n <=> q <= k - i
    <3>1. i + q \in i + 1 .. j /\ run[q] = Feed.Numbers[i + q]
      BY <1>1
    <3> QED BY <3>1
  <2> QED BY <1>1, <2>1, <2>2
<1>3. \A o \in 0 .. Len(run) : Splits(o) => o = k - i
  <2> SUFFICES ASSUME NEW o \in 0 .. Len(run), Splits(o), o # k - i PROVE FALSE
    OBVIOUS
  <2>1. CASE o < k - i
    BY <2>1, <1>1, <1>2, k - i \in DOMAIN run
  <2>2. CASE o > k - i
    BY <2>2, <1>1, <1>2, o \in DOMAIN run
  <2> QED BY <2>1, <2>2, <1>1
<1>4. old = k - i
  BY <1>2, <1>3
<1>5. SubSeq(run, k - i + 1, Len(run)) = F!Run(k, j)
  <2> DEFINE rest == SubSeq(run, k - i + 1, Len(run))
  <2>1. /\ rest \in Seq(Nat) /\ Len(rest) = j - k /\ \A q \in 1 .. j - k : rest[q] = run[k - i + q]
    BY <1>1, SubSeqProperties, \A q \in k - i + 1 .. Len(run) : run[q] \in Nat
  <2>2. /\ F!Run(k, j) \in Seq(Nat) /\ Len(F!Run(k, j)) = j - k
        /\ \A q \in 1 .. j - k : F!Run(k, j)[q] = Feed.Numbers[k + q]
    BY RunFacts, k \in 0 .. j
  <2>3. ASSUME NEW q \in 1 .. j - k PROVE rest[q] = F!Run(k, j)[q]
    <3>1. k - i + q \in 1 .. j - i /\ i + (k - i + q) = k + q
      OBVIOUS
    <3> QED BY <1>1, <2>1, <2>2, <3>1
  <2> HIDE DEF rest
  <2>4. rest = F!Run(k, j)
    BY <2>1, <2>2, <2>3, SeqEqual
  <2> QED BY <2>4 DEF rest
<1>6. F!newer(run, n) = SubSeq(run, old + 1, Len(run))
  BY DEF F!newer
<1> QED BY <1>4, <1>5, <1>6 DEF run

\* Every number divides the published ticks.
LEMMA RankOf ==
    ASSUME NEW p \in 0 .. Len(Feed.Numbers), NEW n \in Nat
    PROVE  \E k \in 0 .. p : \A q \in 1 .. p : Feed.Numbers[q] <= n <=> q <= k
<1> DEFINE Above == {q \in 1 .. p : Feed.Numbers[q] > n}
<1>1. CASE Above = {}
  <2>1. \A q \in 1 .. p : Feed.Numbers[q] \in Nat
    BY FeedGrows
  <2>2. \A q \in 1 .. p : Feed.Numbers[q] <= n <=> q <= p
    BY <1>1, <2>1
  <2> QED BY <2>2, p \in 0 .. p
<1>2. CASE Above # {}
  <2>1. PICK m \in Above : \A q \in Above : m <= q
    BY <1>2, LeastNatural, Above \in SUBSET Nat
  <2>2. m - 1 \in 0 .. p
    BY <2>1
  <2>3. \A q \in 1 .. p : Feed.Numbers[q] <= n <=> q <= m - 1
    <3>1. ASSUME NEW q \in 1 .. p, q < m PROVE Feed.Numbers[q] <= n
      BY <2>1, <3>1, FeedGrows, SMTT(20)
    <3>2. ASSUME NEW q \in 1 .. p, q >= m PROVE Feed.Numbers[q] > n
      <4>1. m \in 1 .. p /\ Feed.Numbers[m] > n
        BY <2>1
      <4>2. q \in 0 .. Len(Feed.Numbers) /\ m \in 0 .. Len(Feed.Numbers) /\ (m = q \/ m < q)
        BY <3>2, <4>1, FeedGrows
      <4>3. At(q) \in Nat /\ At(m) \in Nat /\ (m < q => At(m) < At(q))
        BY <4>2, FeedGrows
      <4>4. At(q) = Feed.Numbers[q] /\ At(m) = Feed.Numbers[m]
        BY <4>1 DEF At
      <4> QED BY <4>1, <4>2, <4>3, <4>4
    <3>3. m \in 1 .. p
      BY <2>1
    <3>4. \A q \in 1 .. p : Feed.Numbers[q] \in Nat
      BY FeedGrows
    <3> QED BY <3>1, <3>2, <3>3, <3>4
  <2> QED BY <2>2, <2>3
<1> QED BY <1>1, <1>2

\* The first ticks, as a run: their last, and which they are.
LEMMA FirstTicks ==
    ASSUME NEW p \in 0 .. Len(Feed.Numbers)
    PROVE  /\ F!last(F!Run(0, p)) = At(p)
           /\ \A n : n \in F!ToSet(F!Run(0, p)) <=> \E k \in 1 .. p : n = At(k)
<1>1. /\ F!Run(0, p) \in Seq(Nat) /\ Len(F!Run(0, p)) = p
      /\ \A k \in 1 .. p : F!Run(0, p)[k] = Feed.Numbers[k]
      /\ F!last(F!Run(0, p)) = IF 0 = p THEN 0 ELSE At(p)
  <2>1. 0 \in 0 .. p /\ p - 0 = p /\ \A k \in 1 .. p : 0 + k = k
    OBVIOUS
  <2>2. /\ F!Run(0, p) \in Seq(Nat) /\ Len(F!Run(0, p)) = p - 0
        /\ \A k \in 1 .. p - 0 : F!Run(0, p)[k] = Feed.Numbers[0 + k]
        /\ F!last(F!Run(0, p)) = IF 0 = p THEN 0 ELSE At(p)
    BY <2>1, RunFacts, Zenon
  <2> QED BY <2>1, <2>2
<1>2. \A k \in 1 .. p : At(k) = Feed.Numbers[k]
  BY DEF At
<1>3. F!last(F!Run(0, p)) = At(p)
  BY <1>1 DEF At
<1>4. DOMAIN F!Run(0, p) = 1 .. p
  BY <1>1
<1> QED BY <1>1, <1>2, <1>3, <1>4 DEF F!ToSet

\* What is published now, and after a step.
LEMMA PublishedIsRun ==
    ASSUME v1 \in 0 .. Len(Feed.Numbers)
    PROVE  /\ F!Published = F!Run(0, v1) /\ F!Newest = At(v1)
           /\ \A n : n \in F!ToSet(F!Published) <=> \E k \in 1 .. v1 : n = At(k)
<1>1. F!Published = F!Run(0, v1)
  BY DEF F!Published, F!Run
<1> QED BY <1>1, FirstTicks DEF F!Newest

LEMMA PublishedNext ==
    ASSUME v1' \in 0 .. Len(Feed.Numbers)
    PROVE  /\ F!Newest' = At(v1')
           /\ \A n : n \in F!ToSet(F!Published)' <=> \E k \in 1 .. v1' : n = At(k)
<1>1. F!Published' = F!Run(0, v1') /\ F!Newest' = F!last(F!Published')
      /\ F!ToSet(F!Published)' = F!ToSet(F!Published')
  BY DEF F!Published, F!Run, F!Newest, F!last, F!ToSet
<1> QED BY <1>1, FirstTicks

\* Rows that follow what is held are appended as a run, of at most the window.
LEMMA AppendRun ==
    ASSUME NEW b \in 0 .. Len(Feed.Numbers), NEW a \in 0 .. b,
           NEW j \in 0 .. Len(Feed.Numbers), NEW i \in 0 .. j, j - i <= Feed.Window,
           i = j \/ a = j
    PROVE  \E c \in 0 .. b : /\ F!append(F!Run(i, j), F!Run(a, b)) = F!Run(c, b)
                             /\ b - c <= Feed.Window /\ (a < b \/ i < j => c < b)
<1> DEFINE held == F!Run(i, j)
           rows == F!Run(a, b)
           first == IF i = j THEN a ELSE i
           added == held \o F!newer(rows, F!last(held))
           c == IF b - first <= Feed.Window THEN first ELSE b - Feed.Window
<1>1. first \in 0 .. b /\ c \in 0 .. b /\ b - c <= Feed.Window /\ (a < b \/ i < j => c < b)
  <2>1. Feed.Window \in Nat \ {0} /\ b \in Nat
    BY FeedGrows
  <2>2. first \in 0 .. b /\ (a < b \/ i < j => first < b)
    <3>1. CASE i = j
      BY <2>1, <3>1
    <3>2. CASE i # j
      BY <2>1, <3>2
    <3> QED BY <3>1, <3>2
  <2> HIDE DEF first
  <2> QED BY <2>1, <2>2
<1>2. F!newer(rows, F!last(held)) = rows
  <2>1. F!last(held) = IF i = j THEN 0 ELSE At(j)
    BY RunFacts
  <2>2. a \in a .. b /\ F!last(held) \in Nat
    BY <2>1, FeedGrows
  <2>3. ASSUME NEW q \in a + 1 .. b PROVE Feed.Numbers[q] <= F!last(held) <=> q <= a
    <3>1. q \in 1 .. Len(Feed.Numbers) /\ ~(q <= a) /\ Feed.Numbers[q] = At(q) /\ Feed.Numbers[q] \in Nat \ {0}
      BY FeedGrows DEF At
    <3>2. CASE i = j
      BY <3>1, <3>2, <2>1
    <3>3. CASE i # j
      <4>1. F!last(held) = At(j) /\ j < q /\ j \in 0 .. Len(Feed.Numbers) /\ q \in 0 .. Len(Feed.Numbers)
        BY <3>1, <3>3, <2>1
      <4>2. At(j) < At(q) /\ At(j) \in Nat
        BY <4>1, FeedGrows
      <4> QED BY <3>1, <4>1, <4>2
    <3> QED BY <3>2, <3>3
  <2> HIDE DEF held
  <2> QED BY <2>2, <2>3, RunNewer
<1>3. held \o rows = F!Run(first, b)
  <2>1. held \in Seq(Nat) /\ rows \in Seq(Nat) /\ (i = j => held = <<>>)
    BY RunFacts
  <2>2. CASE i = j
    BY <2>1, <2>2, ConcatEmptySeq
  <2>3. CASE i # j
    <3>1. i + 1 \in 1 .. Len(Feed.Numbers) + 1 /\ j \in i + 1 - 1 .. Len(Feed.Numbers) /\ b \in j .. Len(Feed.Numbers)
      BY <2>3, FeedGrows
    <3>2. SubSeq(Feed.Numbers, i + 1, j) \o SubSeq(Feed.Numbers, j + 1, b) = SubSeq(Feed.Numbers, i + 1, b)
      <4>1. Feed.Numbers \in Seq(Nat \ {0})
        BY FeedGrows
      <4> DEFINE m == i + 1
      <4>2. m \in 1 .. Len(Feed.Numbers) + 1 /\ j \in m - 1 .. Len(Feed.Numbers)
        BY <3>1
      <4> HIDE DEF m
      <4>3. SubSeq(Feed.Numbers, m, j) \o SubSeq(Feed.Numbers, j + 1, b) = SubSeq(Feed.Numbers, m, b)
        BY <3>1, <4>1, <4>2, ConcatAdjacentSubSeq
      <4> QED BY <4>3 DEF m
    <3> QED BY <2>3, <3>2 DEF F!Run
  <2> QED BY <2>2, <2>3
<1>4. Len(F!Run(first, b)) = b - first
  BY <1>1, RunFacts
<1>5. CASE b - first <= Feed.Window
  <2>1. F!append(held, rows) = F!Run(c, b)
    BY <1>2, <1>3, <1>4, <1>5 DEF F!append
  <2> QED BY <1>1, <2>1
<1>6. CASE ~(b - first <= Feed.Window)
  <2> DEFINE run == F!Run(first, b)
             tail == SubSeq(run, Len(run) - Feed.Window + 1, Len(run))
  <2>1. run \in Seq(Nat) /\ Len(run) = b - first /\ \A q \in 1 .. b - first : run[q] = Feed.Numbers[first + q]
    BY <1>1, RunFacts
  <2>2. F!append(held, rows) = tail
    BY <1>2, <1>3, <1>4, <1>6 DEF F!append
  <2>3. /\ F!Run(c, b) \in Seq(Nat) /\ Len(F!Run(c, b)) = b - c
        /\ \A q \in 1 .. b - c : F!Run(c, b)[q] = Feed.Numbers[c + q]
    BY <1>1, RunFacts
  <2> HIDE DEF run
  <2>4. /\ tail \in Seq(Nat) /\ Len(tail) = Feed.Window
        /\ \A q \in 1 .. Feed.Window : tail[q] = run[b - first - Feed.Window + q]
    <3> DEFINE from == Len(run) - Feed.Window + 1
    <3>0. from \in Int /\ Len(run) - from + 1 = Feed.Window
          /\ \A q \in Nat : from + q - 1 = b - first - Feed.Window + q
      <4>1. Feed.Window \in Nat /\ first \in Int /\ b \in Nat /\ Len(run) = b - first
        BY <1>1, <2>1, FeedGrows, SMTT(20)
      <4> HIDE DEF first
      <4> QED BY <4>1
    <3>1. Feed.Window \in Nat \ {0} /\ first \in 0 .. b /\ b \in Nat
      BY <1>1, FeedGrows
    <3> HIDE DEF first
    <3>2. from \in 1 .. Len(run) /\ Len(run) \in Nat /\ from = b - first - Feed.Window + 1
      <4>1. Len(run) = b - first /\ ~(b - first <= Feed.Window)
        BY <2>1, <1>6
      <4> QED BY <3>1, <4>1
    <3> HIDE DEF from
    <3>3. \A q \in from .. Len(run) : run[q] \in Nat
      BY <2>1, <3>2
    <3>4. /\ SubSeq(run, from, Len(run)) \in Seq(Nat)
          /\ Len(SubSeq(run, from, Len(run))) = IF from <= Len(run) THEN Len(run) - from + 1 ELSE 0
          /\ \A q \in 1 .. Len(run) - from + 1 : SubSeq(run, from, Len(run))[q] = run[from + q - 1]
      BY <3>2, <3>3, SubSeqProperties, from \in Int /\ Len(run) \in Int
    <3>6. tail = SubSeq(run, from, Len(run))
      BY DEF from
    <3> HIDE DEF tail
    <3>7. tail \in Seq(Nat) /\ Len(tail) = Feed.Window
      BY <3>0, <3>2, <3>4, <3>6
    <3>8. ASSUME NEW q \in 1 .. Feed.Window PROVE tail[q] = run[b - first - Feed.Window + q]
      <4>1. q \in Nat /\ q \in 1 .. Len(run) - from + 1
        BY <3>0, <3>1, SMTT(20)
      <4>2. tail[q] = run[from + q - 1]
        BY <4>1, <3>4, <3>6
      <4> QED BY <3>0, <4>1, <4>2
    <3> QED BY <3>7, <3>8
  <2>5. ASSUME NEW q \in 1 .. Feed.Window PROVE tail[q] = F!Run(c, b)[q]
    <3>1. /\ b - first - Feed.Window + q \in 1 .. b - first /\ c + q = first + (b - first - Feed.Window + q)
          /\ b - c = Feed.Window
      <4>1. c = b - Feed.Window /\ first \in 0 .. b /\ Feed.Window \in Nat \ {0} /\ ~(b - first <= Feed.Window)
        BY <1>1, <1>6, FeedGrows
      <4> HIDE DEF c, first
      <4> QED BY <4>1
    <3> HIDE DEF tail, c, first
    <3> QED BY <2>1, <2>3, <2>4, <3>1
  <2>6. b - c = Feed.Window
    BY <1>1, <1>6, FeedGrows
  <2> HIDE DEF tail, c, first
  <2>7. tail = F!Run(c, b)
    BY <2>3, <2>4, <2>5, <2>6, SeqEqual
  <2> QED BY <1>1, <2>2, <2>7
<1> QED BY <1>5, <1>6

\* get_ticks_since answers with a run; one that is not full ends with the newest tick.
LEMMA SinceIsRun ==
    ASSUME v1 \in 0 .. Len(Feed.Numbers), NEW n \in Nat
    PROVE  \E k \in 0 .. v1 : \E e \in k .. v1 :
              /\ F!TicksSince(n) = F!Run(k, e) /\ Len(F!TicksSince(n)) = e - k
              /\ \A q \in 1 .. v1 : At(q) <= n <=> q <= k
              /\ e - k < Feed.PageSize => e = v1
<1>1. PICK k \in 0 .. v1 : \A q \in 1 .. v1 : Feed.Numbers[q] <= n <=> q <= k
  BY RankOf
<1> DEFINE rows == F!newer(F!Published, n)
           e == IF v1 - k <= Feed.PageSize THEN v1 ELSE k + Feed.PageSize
<1>2. rows = F!Run(k, v1)
  <2>1. 0 \in 0 .. v1 /\ \A q \in 0 + 1 .. v1 : Feed.Numbers[q] <= n <=> q <= k
    BY <1>1
  <2>2. F!newer(F!Run(0, v1), n) = F!Run(k, v1)
    BY <2>1, RunNewer
  <2> QED BY <2>2, PublishedIsRun
<1>3. e \in k .. v1 /\ (e - k < Feed.PageSize => e = v1)
  BY FeedGrows
<1>4. /\ F!Run(k, v1) \in Seq(Nat) /\ Len(F!Run(k, v1)) = v1 - k
      /\ \A q \in 1 .. v1 - k : F!Run(k, v1)[q] = Feed.Numbers[k + q]
  BY RunFacts
<1>5. /\ F!Run(k, e) \in Seq(Nat) /\ Len(F!Run(k, e)) = e - k
      /\ \A q \in 1 .. e - k : F!Run(k, e)[q] = Feed.Numbers[k + q]
  <2>1. e \in 0 .. Len(Feed.Numbers) /\ k \in 0 .. e
    BY <1>3, FeedGrows, SMTT(20)
  <2> HIDE DEF e
  <2> QED BY <2>1, RunFacts
<1>6. F!TicksSince(n) = F!Run(k, e)
  <2>1. CASE v1 - k <= Feed.PageSize
    BY <1>2, <1>4, <2>1 DEF F!TicksSince
  <2>2. CASE ~(v1 - k <= Feed.PageSize)
    <3> DEFINE page == SubSeq(F!Run(k, v1), 1, Feed.PageSize)
    <3>1. F!TicksSince(n) = page
      BY <1>2, <1>4, <2>2 DEF F!TicksSince
    <3>2. \A q \in 1 .. Feed.PageSize : q \in 1 .. v1 - k /\ F!Run(k, v1)[q] \in Nat
      <4>1. Feed.PageSize \in Nat \ {0} /\ v1 \in Nat /\ k \in 0 .. v1
        BY FeedGrows
      <4>2. \A q \in 1 .. Feed.PageSize : q \in 1 .. v1 - k
        BY <2>2, <4>1
      <4>3. \A q \in 1 .. v1 - k : F!Run(k, v1)[q] \in Nat
        BY <1>4, <4>1
      <4> QED BY <4>2, <4>3
    <3>3. /\ page \in Seq(Nat) /\ Len(page) = Feed.PageSize
          /\ \A q \in 1 .. Feed.PageSize : page[q] = F!Run(k, v1)[q]
      BY <3>2, FeedGrows, SubSeqProperties
    <3>4. e - k = Feed.PageSize
      BY <2>2, FeedGrows
    <3>5. \A q \in 1 .. Feed.PageSize : page[q] = F!Run(k, e)[q]
      BY <1>4, <1>5, <3>2, <3>3, <3>4
    <3> HIDE DEF page, e
    <3>6. page = F!Run(k, e)
      BY <1>5, <3>3, <3>4, <3>5, SeqEqual
    <3> QED BY <3>1, <3>6
  <2> QED BY <2>1, <2>2
<1>7. \A q \in 1 .. v1 : At(q) = Feed.Numbers[q]
  BY DEF At
<1> HIDE DEF e
<1> QED BY <1>1, <1>3, <1>5, <1>6, <1>7

-----------------------------------------------------------------------------
FeedInv == F!HoldsRun /\ F!WaitingInOrder /\ F!ReadsOn

LEMMA FeedInit == F!Init => FeedInv
<1> SUFFICES ASSUME F!Init PROVE FeedInv
  OBVIOUS
<1>1. /\ v1 \in {0, 1} /\ v2 = <<>> /\ v3 = <<>> /\ v8 = <<[kind |-> "load"]>> /\ v9 = F!Idle /\ v10 = 0
  BY DEF F!Init
<1>2. v1 \in 0 .. Len(Feed.Numbers) /\ 0 \in 0 .. v1 /\ 0 \in 0 .. Len(Feed.Numbers)
  BY <1>1, FeedGrows
<1>3. F!Run(0, 0) = <<>>
  BY <1>2, RunFacts, 0 \in 0 .. 0
<1>4. F!HoldsRun
  BY <1>1, <1>2, <1>3, FeedGrows DEF F!HoldsRun
<1>5. F!WaitingInOrder
  BY <1>1 DEF F!WaitingInOrder
<1>6. F!last(<<>>) = 0
  BY DEF F!last
<1>7. F!ReadsOn
  BY <1>1, <1>6 DEF F!ReadsOn, F!Idle
<1> QED BY <1>4, <1>5, <1>7 DEF FeedInv

\* What the invariant says of the ticks held and those waiting.
LEMMA FeedParts ==
    ASSUME FeedInv
    PROVE  /\ v1 \in 0 .. Len(Feed.Numbers)
           /\ F!ToSet(F!Published) \subseteq Nat \ {0}
           /\ \A n \in F!ToSet(F!Published) : n <= F!Newest
           /\ F!Newest \in Nat /\ v10 \in Nat /\ v10 <= F!Newest
           /\ \E j \in 0 .. v1 : \E i \in 0 .. j :
                /\ j - i <= Feed.Window /\ v3 = F!Run(i, j) /\ (v3 = <<>> <=> i = j)
                /\ F!last(v3) = IF i = j THEN 0 ELSE At(j)
<1>1. v1 \in 0 .. Len(Feed.Numbers)
  BY DEF FeedInv, F!HoldsRun
<1>2. F!Newest = At(v1) /\ \A n : n \in F!ToSet(F!Published) <=> \E k \in 1 .. v1 : n = At(k)
  BY <1>1, PublishedIsRun
<1>3. \A k \in 1 .. v1 : At(k) \in Nat \ {0} /\ At(k) <= At(v1) /\ At(v1) \in Nat
  <2> TAKE k \in 1 .. v1
  <2>1. k \in 0 .. Len(Feed.Numbers) /\ 0 \in 0 .. Len(Feed.Numbers) /\ (k = v1 \/ k < v1) /\ 0 < k /\ At(0) = 0
    BY <1>1 DEF At
  <2>2. At(k) \in Nat /\ At(v1) \in Nat
    BY <1>1, <2>1, FeedGrows
  <2>3. At(0) < At(k)
    BY <2>1, FeedGrows
  <2>4. k < v1 => At(k) < At(v1)
    BY <1>1, <2>1, FeedGrows
  <2> QED BY <2>1, <2>2, <2>3, <2>4
<1>4. At(v1) \in Nat
  BY <1>1, FeedGrows
<1>5. v10 \in F!ToSet(F!Published) \cup {0}
  BY DEF FeedInv, F!ReadsOn
<1>6. v10 \in Nat /\ v10 <= F!Newest
  BY <1>2, <1>3, <1>4, <1>5
<1>7. PICK i \in 0 .. v1, j \in 0 .. v1 : i <= j /\ j - i <= Feed.Window /\ v3 = F!Run(i, j)
  BY DEF FeedInv, F!HoldsRun
<1>8. j \in 0 .. Len(Feed.Numbers) /\ i \in 0 .. j
  BY <1>1, <1>7
<1>9. (v3 = <<>> <=> i = j) /\ F!last(v3) = IF i = j THEN 0 ELSE At(j)
  BY <1>7, <1>8, RunFacts
<1> QED BY <1>1, <1>2, <1>3, <1>4, <1>6, <1>7, <1>8, <1>9

\* A run that ends with a published tick, to be held.
LEMMA HoldsIs ==
    ASSUME v1' \in 0 .. Len(Feed.Numbers), NEW j \in 0 .. v1', NEW i \in 0 .. j, j - i <= Feed.Window,
           v3' = F!Run(i, j)
    PROVE  F!HoldsRun' /\ F!last(v3') = IF i = j THEN 0 ELSE At(j)
<1>1. j \in 0 .. Len(Feed.Numbers) /\ i \in 0 .. v1' /\ i <= j
  OBVIOUS
<1>2. F!HoldsRun'
  BY <1>1 DEF F!HoldsRun, F!Run
<1> QED BY <1>1, <1>2, RunFacts

\* A sequence without its first element, and one longer by one.
LEMMA TailIs ==
    ASSUME NEW S, NEW s \in Seq(S), s # <<>>
    PROVE  /\ 1 \in DOMAIN s /\ Head(s) = s[1] /\ s[1] \in S
           /\ Tail(s) \in Seq(S) /\ DOMAIN Tail(s) = 1 .. Len(s) - 1
           /\ \A m \in DOMAIN Tail(s) : m + 1 \in DOMAIN s /\ 1 < m + 1 /\ Tail(s)[m] = s[m + 1]
<1>1. /\ Tail(s) \in Seq(S) /\ DOMAIN Tail(s) = 1 .. Len(s) - 1 /\ Len(s) \in Nat \ {0}
      /\ \A m \in 1 .. Len(s) - 1 : Tail(s)[m] = s[m + 1]
  OBVIOUS
<1>2. Head(s) = s[1] /\ DOMAIN s = 1 .. Len(s) /\ \A m \in 1 .. Len(s) : s[m] \in S
  OBVIOUS
<1> QED BY <1>1, <1>2

LEMMA LongerIs ==
    ASSUME NEW S, NEW s \in Seq(S), NEW x \in S
    PROVE  /\ Append(s, x) \in Seq(S) /\ DOMAIN Append(s, x) = 1 .. Len(s) + 1
           /\ Append(s, x)[Len(s) + 1] = x /\ \A k \in DOMAIN s : Append(s, x)[k] = s[k] /\ k < Len(s) + 1
           /\ \A k \in DOMAIN Append(s, x) : k \in DOMAIN s \/ k = Len(s) + 1
<1>1. /\ Append(s, x) \in Seq(S) /\ Len(Append(s, x)) = Len(s) + 1 /\ Len(s) \in Nat
      /\ Append(s, x)[Len(s) + 1] = x /\ \A k \in 1 .. Len(s) : Append(s, x)[k] = s[k]
  OBVIOUS
<1>2. DOMAIN s = 1 .. Len(s) /\ DOMAIN Append(s, x) = 1 .. Len(s) + 1
  BY <1>1
<1> QED BY <1>1, <1>2

\* A step that takes from what waits, or adds to the tasks, keeps the invariant.
LEMMA FeedWaits ==
    ASSUME FeedInv, UNCHANGED <<v1, v3, v9, v10>>,
           \/ UNCHANGED v8 /\ (UNCHANGED v2 \/ v2' = <<>> \/ (v2 # <<>> /\ v2' = Tail(v2)))
           \/ v8' = <<>> /\ v2' = <<>>
           \/ UNCHANGED v2 /\ v8' = Append(v8, [kind |-> "catchUp"])
           \/ v2 # <<>> /\ v2' = Tail(v2) /\ v8' = Append(v8, [kind |-> "receive", tick |-> Head(v2)])
    PROVE  FeedInv'
<1> DEFINE seen == F!ToSet(F!Published)
           Job == [kind : {"load", "catchUp"}] \cup [kind : {"receive"}, tick : seen]
<1>1. seen' = seen /\ F!Newest' = F!Newest
  BY DEF F!Published, F!ToSet, F!Newest, F!last
<1>2. F!HoldsRun'
  BY DEF FeedInv, F!HoldsRun, F!Run
<1>3. /\ v2 \in Seq(seen) /\ v8 \in Seq(Job) /\ seen \subseteq Nat
      /\ \A k, m \in DOMAIN v2 : k < m => v2[k] < v2[m]
      /\ \A k, m \in DOMAIN v8 :
            v8[k].kind = "receive" /\ k < m /\ v8[m].kind = "receive" => v8[k].tick < v8[m].tick
      /\ \A k \in DOMAIN v8, m \in DOMAIN v2 : v8[k].kind = "receive" => v8[k].tick < v2[m]
      /\ \A k \in DOMAIN v8 : v8[k].kind = "load" => k = 1 /\ v9 = F!Idle /\ v3 = <<>> /\ v10 = 0
  BY FeedParts, Zenon DEF FeedInv, F!WaitingInOrder
<1> HIDE DEF seen
<1>4. Head(v2) = v2[1] /\ DOMAIN v2 = 1 .. Len(v2) /\ DOMAIN v8 = 1 .. Len(v8) /\ Len(v2) \in Nat /\ Len(v8) \in Nat
  BY <1>3
<1>a. ASSUME v2 # <<>>, v2' = Tail(v2)
      PROVE  /\ v2' \in Seq(seen) /\ \A k, m \in DOMAIN v2' : k < m => v2'[k] < v2'[m]
             /\ \A m \in DOMAIN v2' : \E n \in DOMAIN v2 : v2'[m] = v2[n] /\ v2[1] < v2[n]
  <2>1. /\ 1 \in DOMAIN v2 /\ v2' \in Seq(seen) /\ DOMAIN v2' = 1 .. Len(v2) - 1
        /\ \A m \in DOMAIN v2' : m + 1 \in DOMAIN v2 /\ 1 < m + 1 /\ v2'[m] = v2[m + 1]
    BY <1>3, <1>a, TailIs, Zenon
  <2>2. \A k, m \in DOMAIN v2' : k < m => v2'[k] < v2'[m]
    <3> TAKE k, m \in DOMAIN v2'
    <3>1. k \in Nat /\ m \in Nat
      BY <1>4, <2>1
    <3> QED BY <1>3, <2>1, <3>1
  <2> QED BY <1>3, <2>1, <2>2
<1>5. CASE UNCHANGED v8 /\ (UNCHANGED v2 \/ v2' = <<>> \/ (v2 # <<>> /\ v2' = Tail(v2)))
  <2>1. /\ v2' \in Seq(seen)
        /\ \A k, m \in DOMAIN v2' : k < m => v2'[k] < v2'[m]
        /\ \A m \in DOMAIN v2' : \E n \in DOMAIN v2 : v2'[m] = v2[n]
    <3>1. CASE v2 # <<>> /\ v2' = Tail(v2)
      BY <1>a, <3>1
    <3>2. CASE UNCHANGED v2
      BY <3>2, <1>3
    <3>3. CASE v2' = <<>>
      BY <3>3
    <3> QED BY <1>5, <3>1, <3>2, <3>3
  <2>2. F!WaitingInOrder'
    BY <1>1, <1>3, <1>5, <2>1 DEF F!WaitingInOrder, seen
  <2>3. F!WaitingIsNewer => F!WaitingIsNewer'
    BY <1>5, <2>1 DEF F!WaitingIsNewer
  <2> QED BY <1>1, <1>2, <2>2, <2>3 DEF FeedInv, F!ReadsOn, seen
<1>6. CASE v8' = <<>> /\ v2' = <<>>
  <2>1. F!WaitingInOrder' /\ F!WaitingIsNewer'
    BY <1>6 DEF F!WaitingInOrder, F!WaitingIsNewer
  <2> QED BY <1>1, <1>2, <2>1 DEF FeedInv, F!ReadsOn, seen
<1>b. ASSUME NEW job \in Job, job.kind # "load", v8' = Append(v8, job)
      PROVE  /\ v8' \in Seq(Job) /\ DOMAIN v8' = 1 .. Len(v8) + 1 /\ v8'[Len(v8) + 1] = job
             /\ \A k \in DOMAIN v8 : v8'[k] = v8[k] /\ k < Len(v8) + 1
             /\ \A k \in DOMAIN v8' : k \in DOMAIN v8 \/ k = Len(v8) + 1
  <2>1. v8 \in Seq(Job)
    BY <1>3
  <2> HIDE DEF Job
  <2> DEFINE more == Append(v8, job)
  <2>2. /\ more \in Seq(Job) /\ DOMAIN more = 1 .. Len(v8) + 1 /\ more[Len(v8) + 1] = job
        /\ \A k \in DOMAIN v8 : more[k] = v8[k] /\ k < Len(v8) + 1
        /\ \A k \in DOMAIN more : k \in DOMAIN v8 \/ k = Len(v8) + 1
    BY <2>1, LongerIs, ZenonT(30)
  <2>3. v8' = more
    BY <1>b
  <2> HIDE DEF more
  <2> QED BY <2>2, <2>3
<1>7. CASE UNCHANGED v2 /\ v8' = Append(v8, [kind |-> "catchUp"])
  <2> DEFINE job == [kind |-> "catchUp"]
  <2>1. job \in Job /\ job.kind = "catchUp"
    OBVIOUS
  <2> HIDE DEF Job, job
  <2>2. /\ v8' \in Seq(Job) /\ DOMAIN v8' = 1 .. Len(v8) + 1 /\ v8'[Len(v8) + 1] = job
        /\ \A k \in DOMAIN v8 : v8'[k] = v8[k]
        /\ \A k \in DOMAIN v8' : k \in DOMAIN v8 \/ k = Len(v8) + 1
    BY <1>7, <1>b, <2>1 DEF job
  <2>3. \A k \in DOMAIN v8' : v8'[k].kind # "catchUp" => k \in DOMAIN v8 /\ v8'[k] = v8[k]
    BY <2>1, <2>2
  <2>4. F!WaitingInOrder'
    <3>1. v8' \in Seq([kind : {"load", "catchUp"}] \cup [kind : {"receive"}, tick : seen])
      BY <2>2 DEF Job
    <3> QED BY <1>1, <1>3, <1>7, <2>3, <3>1 DEF F!WaitingInOrder, seen
  <2>5. F!WaitingIsNewer => F!WaitingIsNewer'
    BY <1>7, <2>3 DEF F!WaitingIsNewer
  <2> QED BY <1>1, <1>2, <2>4, <2>5 DEF FeedInv, F!ReadsOn, seen
<1>8. CASE v2 # <<>> /\ v2' = Tail(v2) /\ v8' = Append(v8, [kind |-> "receive", tick |-> Head(v2)])
  <2> DEFINE job == [kind |-> "receive", tick |-> Head(v2)]
  <2>0. 1 \in DOMAIN v2 /\ v2[1] \in seen
    BY <1>3, <1>8, TailIs, Zenon
  <2>1. job \in Job /\ job.kind = "receive" /\ job.tick = v2[1]
    BY <1>4, <2>0
  <2> HIDE DEF Job, job
  <2>2. /\ v8' \in Seq(Job) /\ DOMAIN v8' = 1 .. Len(v8) + 1 /\ v8'[Len(v8) + 1] = job
        /\ \A k \in DOMAIN v8 : v8'[k] = v8[k]
        /\ \A k \in DOMAIN v8' : k \in DOMAIN v8 \/ k = Len(v8) + 1
    BY <1>8, <1>b, <2>1 DEF job
  <2>3. /\ v2' \in Seq(seen) /\ \A k, m \in DOMAIN v2' : k < m => v2'[k] < v2'[m]
        /\ \A m \in DOMAIN v2' : \E n \in DOMAIN v2 : v2'[m] = v2[n] /\ v2[1] < v2[n]
    BY <1>8, <1>a
  <2>4. F!WaitingInOrder'
    <3>1. v8' \in Seq([kind : {"load", "catchUp"}] \cup [kind : {"receive"}, tick : seen])
      BY <2>2 DEF Job
    <3>2. \A k, m \in DOMAIN v8' :
            v8'[k].kind = "receive" /\ k < m /\ v8'[m].kind = "receive" => v8'[k].tick < v8'[m].tick
      <4> SUFFICES ASSUME NEW k \in DOMAIN v8', NEW m \in DOMAIN v8', v8'[k].kind = "receive", k < m,
                          v8'[m].kind = "receive"
                   PROVE  v8'[k].tick < v8'[m].tick
        OBVIOUS
      <4>1. k \in DOMAIN v8 /\ v8'[k] = v8[k]
        BY <1>4, <2>2
      <4> QED BY <1>3, <2>0, <2>1, <2>2, <4>1
    <3>3. \A k \in DOMAIN v8', m \in DOMAIN v2' : v8'[k].kind = "receive" => v8'[k].tick < v2'[m]
      BY <1>3, <2>1, <2>2, <2>3
    <3>4. \A k \in DOMAIN v8' : v8'[k].kind = "load" => k = 1 /\ v9 = F!Idle /\ v3 = <<>> /\ v10 = 0
      BY <1>3, <2>1, <2>2
    <3> QED BY <1>1, <2>3, <3>1, <3>2, <3>3, <3>4 DEF F!WaitingInOrder, seen
  <2>5. F!WaitingIsNewer => F!WaitingIsNewer'
    BY <2>0, <2>1, <2>2, <2>3 DEF F!WaitingIsNewer
  <2> QED BY <1>1, <1>2, <2>4, <2>5 DEF FeedInv, F!ReadsOn, seen
<1> QED BY <1>5, <1>6, <1>7, <1>8

\* A tick published.
LEMMA FeedPublishes == FeedInv /\ F!PublishTick => FeedInv'
<1> SUFFICES ASSUME FeedInv, F!PublishTick PROVE FeedInv'
  OBVIOUS
<1> DEFINE seen == F!ToSet(F!Published)
           Job(set) == [kind : {"load", "catchUp"}] \cup [kind : {"receive"}, tick : set]
           new == Feed.Numbers[v1 + 1]
<1>1. /\ v1 < Len(Feed.Numbers) /\ v1' = v1 + 1 /\ UNCHANGED <<v3, v8, v9, v10>>
      /\ v2' = v2 \/ v2' = Append(v2, new)
  BY Zenon DEF F!PublishTick
<1>2. v1 \in 0 .. Len(Feed.Numbers) /\ v1' \in 0 .. Len(Feed.Numbers) /\ v1 < v1'
  <2>1. v1 \in 0 .. Len(Feed.Numbers) /\ Len(Feed.Numbers) \in Nat
    BY FeedParts, FeedGrows
  <2> QED BY <1>1, <2>1
<1>3. /\ \A n : n \in seen <=> \E k \in 1 .. v1 : n = At(k)
      /\ F!Newest = At(v1)
  BY <1>2, PublishedIsRun
<1>4. /\ \A n : n \in seen' <=> \E k \in 1 .. v1' : n = At(k)
      /\ F!Newest' = At(v1')
  BY <1>2, PublishedNext
<1>5. seen \subseteq seen' /\ new \in seen' /\ new = At(v1')
  <2>1. v1 \in Nat /\ v1' \in 1 .. v1' /\ new = At(v1')
    BY <1>1, <1>2 DEF At
  <2>2. 1 .. v1 \subseteq 1 .. v1'
    BY <1>1, <2>1
  <2> QED BY <1>3, <1>4, <2>1, <2>2
<1>6. /\ seen \subseteq Nat /\ new \in Nat /\ v10 \in seen \cup {0} /\ F!Newest < F!Newest'
      /\ F!Newest \in Nat /\ F!Newest' \in Nat
      /\ \A n \in seen \cup {0} : n < new
  <2>1. At(v1) \in Nat /\ At(v1') \in Nat /\ At(v1) < At(v1')
    BY <1>2, FeedGrows
  <2>2. seen \subseteq Nat /\ \A n \in seen : n <= F!Newest
    BY FeedParts
  <2>3. v10 \in seen \cup {0}
    BY DEF FeedInv, F!ReadsOn
  <2> HIDE DEF seen, new
  <2> QED BY <1>3, <1>4, <1>5, <2>1, <2>2, <2>3
<1>7. F!HoldsRun'
  <2>1. PICK i \in 0 .. v1, j \in 0 .. v1 : i <= j /\ j - i <= Feed.Window /\ v3 = F!Run(i, j)
    BY DEF FeedInv, F!HoldsRun
  <2>2. i \in 0 .. v1' /\ j \in 0 .. v1'
    BY <1>1, <1>2
  <2> QED BY <1>1, <1>2, <2>1, <2>2 DEF F!HoldsRun, F!Run
<1>8. /\ v2 \in Seq(seen) /\ \A k, m \in DOMAIN v2 : k < m => v2[k] < v2[m]
      /\ v8 \in Seq(Job(seen))
      /\ \A k, m \in DOMAIN v8 :
            v8[k].kind = "receive" /\ k < m /\ v8[m].kind = "receive" => v8[k].tick < v8[m].tick
      /\ \A k \in DOMAIN v8, m \in DOMAIN v2 : v8[k].kind = "receive" => v8[k].tick < v2[m]
      /\ \A k \in DOMAIN v8 : v8[k].kind = "load" => k = 1 /\ v9 = F!Idle /\ v3 = <<>> /\ v10 = 0
  BY Zenon DEF FeedInv, F!WaitingInOrder
<1>9. v8 \in Seq(Job(seen')) /\ v2 \in Seq(seen')
  <2>1. Job(seen) \subseteq Job(seen')
    BY <1>5
  <2> HIDE DEF Job, seen
  <2> QED BY <1>5, <1>8, <2>1
<1>10. \A k \in DOMAIN v8 : v8[k].kind = "receive" => v8[k].tick \in seen
  <2> TAKE k \in DOMAIN v8
  <2>1. v8[k] \in Job(seen)
    <3> HIDE DEF Job
    <3> QED BY <1>8
  <2> QED BY <2>1
<1>11. \A k \in DOMAIN v2 : v2[k] \in seen
  BY <1>8
<1>12. /\ v2' \in Seq(seen') /\ \A k, m \in DOMAIN v2' : k < m => v2'[k] < v2'[m]
       /\ \A m \in DOMAIN v2' : (m \in DOMAIN v2 /\ v2'[m] = v2[m]) \/ v2'[m] = new
  <2>1. CASE v2' = v2
    BY <1>8, <1>9, <2>1
  <2>2. CASE v2' = Append(v2, new)
    <3>1. /\ v2' \in Seq(seen') /\ DOMAIN v2' = 1 .. Len(v2) + 1
          /\ v2'[Len(v2) + 1] = new /\ \A k \in DOMAIN v2 : v2'[k] = v2[k] /\ k < Len(v2) + 1
          /\ \A k \in DOMAIN v2' : k \in DOMAIN v2 \/ k = Len(v2) + 1
      <4> HIDE DEF seen, new
      <4> QED BY <1>5, <1>9, <2>2, LongerIs
    <3>2. \A k \in DOMAIN v2 : k \in Nat /\ v2[k] < new
      BY <1>6, <1>8, <1>11
    <3>3. \A k, m \in DOMAIN v2' : k < m => v2'[k] < v2'[m]
      <4> HIDE DEF seen, new
      <4> TAKE k, m \in DOMAIN v2'
      <4>1. Len(v2) \in Nat
        BY <1>8
      <4>2. k < m => k \in DOMAIN v2
        BY <3>1, <3>2, <4>1
      <4> QED BY <1>8, <3>1, <3>2, <4>2
    <3> QED BY <3>1, <3>3
  <2> QED BY <1>1, <2>1, <2>2
<1>13. F!WaitingInOrder'
  <2>1. \A k \in DOMAIN v8, m \in DOMAIN v2' : v8[k].kind = "receive" => v8[k].tick < v2'[m]
    BY <1>6, <1>8, <1>10, <1>12
  <2>2. v8 \in Seq([kind : {"load", "catchUp"}] \cup [kind : {"receive"}, tick : F!ToSet(F!Published)'])
    BY <1>9
  <2>3. v2' \in Seq(F!ToSet(F!Published)')
    BY <1>12
  <2> HIDE DEF seen, new, Job
  <2> QED BY <1>1, <1>8, <1>12, <2>1, <2>2, <2>3 DEF F!WaitingInOrder
<1>14. F!WaitingIsNewer => F!WaitingIsNewer'
  <2> HIDE DEF seen, new, Job
  <2> QED BY <1>1, <1>6, <1>12 DEF F!WaitingIsNewer
<1>15. F!ReadsOn'
  <2>1. v9 \in {F!Idle} \cup [step : {"latest", "page"}, after : Nat, tick : seen \cup {0}, before : Nat]
    BY DEF FeedInv, F!ReadsOn
  <2>2. v9 \in {F!Idle} \cup [step : {"latest", "page"}, after : Nat, tick : seen' \cup {0}, before : Nat]
    BY <1>5, <2>1
  <2>3. v9.step = "page" => v9.after \in Nat
    BY <2>1 DEF F!Idle
  <2>4. v9.step = "page" => IF v3 = <<>> THEN v9.after < F!Newest' ELSE v9.after = F!last(v3)
    BY <1>6, <2>3 DEF FeedInv, F!ReadsOn
  <2>5. v9.step = "latest" \/ F!last(v3) < v10 => F!WaitingIsNewer
    BY Zenon DEF FeedInv, F!ReadsOn
  <2>6. v10 \in seen' \cup {0} /\ F!last(v3)' = F!last(v3)
    BY <1>1, <1>5, <1>6 DEF F!last, F!Last
  <2> QED BY <1>1, <1>14, <2>2, <2>4, <2>5, <2>6, Zenon DEF F!ReadsOn
<1> QED BY <1>7, <1>13, <1>15 DEF FeedInv

\* A task takes its turn.
LEMMA FeedTurns == FeedInv /\ F!serial => FeedInv' /\ F!OnlyForward
<1> SUFFICES ASSUME FeedInv, F!serial PROVE FeedInv' /\ F!OnlyForward
  OBVIOUS
<1> DEFINE seen == F!ToSet(F!Published)
           Job == [kind : {"load", "catchUp"}] \cup [kind : {"receive"}, tick : seen]
           job == Head(v8)
           current == F!last(v3)
<1>1. v4 # "closed" /\ v9 = F!Idle /\ v8 # <<>> /\ v8' = Tail(v8) /\ F!Handles(job)
  BY Zenon DEF F!serial
<1>2. /\ v2 \in Seq(seen) /\ \A k, m \in DOMAIN v2 : k < m => v2[k] < v2[m]
      /\ v8 \in Seq(Job)
      /\ \A k, m \in DOMAIN v8 :
            v8[k].kind = "receive" /\ k < m /\ v8[m].kind = "receive" => v8[k].tick < v8[m].tick
      /\ \A k \in DOMAIN v8, m \in DOMAIN v2 : v8[k].kind = "receive" => v8[k].tick < v2[m]
      /\ \A k \in DOMAIN v8 : v8[k].kind = "load" => k = 1 /\ v9 = F!Idle /\ v3 = <<>> /\ v10 = 0
  BY Zenon DEF FeedInv, F!WaitingInOrder
<1>3. seen \subseteq Nat \ {0} /\ v10 \in Nat /\ v10 \in seen \cup {0}
  BY FeedParts, Zenon DEF FeedInv, F!ReadsOn
<1>4. current \in Nat /\ (v3 = <<>> => current = 0)
  <2>1. PICK j \in 0 .. v1 : \E i \in 0 .. j : current = IF i = j THEN 0 ELSE At(j)
    BY FeedParts, Zenon
  <2>2. j \in 0 .. Len(Feed.Numbers)
    BY FeedParts, FeedGrows
  <2>3. At(j) \in Nat
    BY <2>2, FeedGrows
  <2>4. current \in Nat
    BY <2>1, <2>3
  <2> QED BY <2>4 DEF F!last
<1>5. current < v10 => F!WaitingIsNewer
  BY Zenon DEF FeedInv, F!ReadsOn
<1> HIDE DEF seen, current
<1>6. /\ 1 \in DOMAIN v8 /\ job = v8[1] /\ job \in Job /\ v8' \in Seq(Job) /\ DOMAIN v8' = 1 .. Len(v8) - 1
      /\ \A m \in DOMAIN v8' : m + 1 \in DOMAIN v8 /\ 1 < m + 1 /\ v8'[m] = v8[m + 1]
  <2> DEFINE rest == Tail(v8)
  <2> HIDE DEF Job
  <2>1. /\ 1 \in DOMAIN v8 /\ job = v8[1] /\ v8[1] \in Job /\ rest \in Seq(Job) /\ DOMAIN rest = 1 .. Len(v8) - 1
        /\ \A m \in DOMAIN rest : m + 1 \in DOMAIN v8 /\ 1 < m + 1 /\ rest[m] = v8[m + 1]
    BY <1>1, <1>2, TailIs, Zenon
  <2>2. v8' = rest
    BY <1>1
  <2> HIDE DEF rest
  <2> QED BY <2>1, <2>2
<1> HIDE DEF job
<1>7. /\ \A m \in DOMAIN v8' : v8'[m].kind # "load"
      /\ \A k, m \in DOMAIN v8' :
            v8'[k].kind = "receive" /\ k < m /\ v8'[m].kind = "receive" => v8'[k].tick < v8'[m].tick
      /\ \A k \in DOMAIN v8', m \in DOMAIN v2 : v8'[k].kind = "receive" => v8'[k].tick < v2[m]
      /\ job.kind = "receive" => /\ \A m \in DOMAIN v8' : v8'[m].kind = "receive" => job.tick < v8'[m].tick
                                 /\ \A m \in DOMAIN v2 : job.tick < v2[m]
  <2> HIDE DEF Job
  <2>1. \A m \in DOMAIN v8' : v8'[m].kind # "load"
    <3> TAKE m \in DOMAIN v8'
    <3>1. m \in Nat /\ m + 1 # 1
      BY <1>6
    <3> QED BY <1>2, <1>6, <3>1
  <2>2. \A k, m \in DOMAIN v8' :
            v8'[k].kind = "receive" /\ k < m /\ v8'[m].kind = "receive" => v8'[k].tick < v8'[m].tick
    <3> TAKE k, m \in DOMAIN v8'
    <3>1. k \in Nat /\ m \in Nat /\ (k < m => k + 1 < m + 1)
      BY <1>6
    <3> QED BY <1>2, <1>6, <3>1
  <2> QED BY <1>2, <1>6, <2>1, <2>2
<1>8. /\ \A m \in DOMAIN v8' : v8'[m].kind = "receive" => v8'[m].tick \in Nat \ {0}
      /\ \A m \in DOMAIN v2 : v2[m] \in Nat \ {0}
      /\ job.kind = "receive" => job.tick \in seen /\ job.tick \in Nat \ {0}
      /\ job.kind \in {"load", "catchUp", "receive"}
  <2>1. \A m \in DOMAIN v8' : v8'[m] \in Job
    <3> HIDE DEF Job
    <3> QED BY <1>6
  <2>2. \A m \in DOMAIN v2 : v2[m] \in seen
    BY <1>2
  <2>3. \A x \in Job : x.kind = "receive" => x.tick \in seen
    OBVIOUS
  <2> HIDE DEF Job
  <2>4. \A m \in DOMAIN v8' : v8'[m].kind = "receive" => v8'[m].tick \in seen
    BY <2>1, <2>3
  <2>5. job.kind = "receive" => job.tick \in seen
    BY <1>6, <2>3
  <2>6. job.kind \in {"load", "catchUp", "receive"}
    BY <1>6 DEF Job
  <2> QED BY <1>3, <2>2, <2>4, <2>5, <2>6
<1>9. UNCHANGED v1 => seen' = seen /\ F!Newest' = F!Newest
  BY DEF F!Published, F!ToSet, F!Newest, F!last, seen
<1>10. UNCHANGED <<v1, v2>> => F!WaitingInOrder'
  <2> SUFFICES ASSUME UNCHANGED <<v1, v2>> PROVE F!WaitingInOrder'
    OBVIOUS
  <2>1. v8' \in Seq([kind : {"load", "catchUp"}] \cup [kind : {"receive"}, tick : F!ToSet(F!Published)'])
    BY <1>6, <1>9 DEF seen
  <2>2. v2' \in Seq(F!ToSet(F!Published)')
    BY <1>2, <1>9 DEF seen
  <2> HIDE DEF Job
  <2> QED BY <1>2, <1>7, <2>1, <2>2 DEF F!WaitingInOrder
<1>11. /\ \A m \in DOMAIN v8' : \E n \in DOMAIN v8 : v8'[m] = v8[n]
       /\ F!WaitingIsNewer /\ UNCHANGED <<v2, v10>> => F!WaitingIsNewer'
  <2>1. \A m \in DOMAIN v8' : \E n \in DOMAIN v8 : v8'[m] = v8[n]
    BY <1>6
  <2> QED BY <2>1 DEF F!WaitingIsNewer
<1>12. UNCHANGED <<v2, v10>> /\ (v10 = 0 \/ (job.kind = "receive" /\ v10 < job.tick)) => F!WaitingIsNewer'
  BY <1>3, <1>7, <1>8 DEF F!WaitingIsNewer
<1>13. UNCHANGED v3 => F!last(v3)' = current
  BY DEF current, F!last, F!Last
\* Nothing happens to what is held: the task starts to read, or is done.
<1>14. ASSUME UNCHANGED <<v1, v2, v3, v10>>,
              \/ UNCHANGED v9
              \/ /\ \E step \in {"latest", "page"}, after \in Nat, tick \in seen \cup {0}, before \in Nat :
                       v9' = [step |-> step, after |-> after, tick |-> tick, before |-> before]
                 /\ v9'.step = "page" => current # 0 /\ v9'.after = current
                 /\ v9'.step = "latest" => F!WaitingIsNewer'
       PROVE  FeedInv' /\ F!OnlyForward
  <2>1. F!HoldsRun'
    BY <1>14 DEF FeedInv, F!HoldsRun, F!Run
  <2>2. v9' \in {F!Idle} \cup [step : {"latest", "page"}, after : Nat, tick : seen' \cup {0}, before : Nat]
    BY <1>1, <1>9, <1>14
  <2>3. v9'.step = "page" => v3' # <<>> /\ v9'.after = F!last(v3)'
    BY <1>1, <1>4, <1>13, <1>14 DEF F!Idle
  <2>4. v9'.step = "latest" => F!WaitingIsNewer'
    BY <1>1, <1>14 DEF F!Idle
  <2>5. F!last(v3)' < v10' => F!WaitingIsNewer'
    BY <1>5, <1>11, <1>13, <1>14
  <2>6. v10' \in F!ToSet(F!Published)' \cup {0}
    BY <1>3, <1>9, <1>14 DEF seen
  <2>7. F!ReadsOn'
    BY <2>2, <2>3, <2>4, <2>5, <2>6, Zenon DEF F!ReadsOn, seen
  <2>8. F!OnlyForward
    BY <1>3, <1>14 DEF F!OnlyForward
  <2> QED BY <1>10, <1>14, <2>1, <2>7, <2>8 DEF FeedInv
\* A reading with its beginning.
<1>15. ASSUME NEW step \in {"latest", "page"}, NEW after \in Nat, NEW tick \in seen \cup {0},
              F!Read(step, after, tick), step = "page" => current # 0 /\ after = current,
              step = "latest" => (UNCHANGED <<v2, v10>> => F!WaitingIsNewer')
       PROVE  FeedInv' /\ F!OnlyForward
  <2>1. v9' = [step |-> step, after |-> after, tick |-> tick, before |-> current]
        /\ UNCHANGED <<v1, v2, v3, v10>>
    BY <1>15, Zenon DEF F!Read, F!Reading, current
  <2>2. v9'.step = step /\ v9'.after = after
    BY <2>1
  <2> QED BY <1>4, <1>14, <1>15, <2>1, <2>2
<1>16. CASE job.kind = "load"
  <2>1. F!Read("latest", 0, 0)
    BY <1>1, <1>16 DEF F!Handles
  <2>2. v10 = 0
    BY <1>2, <1>6, <1>16
  <2> QED BY <1>12, <1>15, <2>1, <2>2
<1>17. CASE job.kind = "catchUp"
  <2>1. IF current > 0 THEN F!Read("page", current, 0) ELSE F!Read("latest", 0, 0)
    BY <1>1, <1>17 DEF F!Handles, current
  <2>2. CASE current > 0
    BY <1>4, <1>15, <2>1, <2>2
  <2>3. CASE ~(current > 0)
    <3>1. v10 = 0 \/ F!WaitingIsNewer
      BY <1>3, <1>4, <1>5, <2>3
    <3> QED BY <1>11, <1>12, <1>15, <2>1, <2>3, <3>1
  <2> QED BY <2>2, <2>3
<1>18. CASE job.kind = "receive"
  <2> DEFINE tick == job.tick
  <2>1. IF tick <= current THEN UNCHANGED <<v1, v2, v3, v9, v10>>
        ELSE IF current > 0 /\ tick = current + 1
        THEN v3' = F!append(v3, <<tick>>) /\ v10' = tick /\ UNCHANGED <<v1, v2, v9>>
        ELSE IF current = 0 \/ tick - current > Feed.Window
        THEN F!Read("latest", 0, tick)
        ELSE F!Read("page", current, tick)
    BY <1>1, <1>18 DEF F!Handles, current
  <2>2. tick \in seen /\ tick \in Nat \ {0}
    BY <1>8, <1>18
  <2>3. tick > current => v10 < tick \/ F!WaitingIsNewer
    BY <1>3, <1>4, <1>5, <2>2
  <2> HIDE DEF tick
  <2>4. CASE tick <= current
    BY <1>14, <2>1, <2>4
  <2>5. CASE tick > current /\ current > 0 /\ tick = current + 1
    <3>0. v3' = F!append(v3, <<tick>>) /\ v10' = tick /\ UNCHANGED <<v1, v2, v9>>
      BY <1>4, <2>1, <2>2, <2>5
    <3>1. PICK j \in 0 .. v1 : \E i \in 0 .. j :
             /\ j - i <= Feed.Window /\ v3 = F!Run(i, j) /\ (v3 = <<>> <=> i = j)
             /\ current = IF i = j THEN 0 ELSE At(j)
      BY FeedParts, Zenon DEF current
    <3>2. PICK i \in 0 .. j : /\ j - i <= Feed.Window /\ v3 = F!Run(i, j) /\ (v3 = <<>> <=> i = j)
                              /\ current = IF i = j THEN 0 ELSE At(j)
      BY <3>1
    <3>3. v1 \in 0 .. Len(Feed.Numbers) /\ i # j /\ current = At(j)
      BY <2>5, <3>2, FeedParts
    <3>4. PICK k \in 1 .. v1 : tick = At(k)
      BY <2>2, <3>3, PublishedIsRun DEF seen
    <3>5. k = j + 1
      <4>1. k \in 0 .. Len(Feed.Numbers) /\ j \in 0 .. Len(Feed.Numbers)
        BY <3>3
      <4>2. At(j) \in Nat /\ At(k) = At(j) + 1
        BY <4>1, <2>5, <3>3, <3>4, FeedGrows
      <4>3. j < k
        BY <4>1, <4>2, FeedGrows
      <4>4. j + 1 < k => At(j) < At(j + 1) /\ At(j + 1) < At(k) /\ At(j + 1) \in Nat
        <5>1. j + 1 < k => j + 1 \in 0 .. Len(Feed.Numbers) /\ j < j + 1
          BY <4>1
        <5> QED BY <4>1, <5>1, FeedGrows
      <4> QED BY <4>1, <4>2, <4>3, <4>4
    <3>6. <<tick>> = F!Run(j, k) /\ F!Run(j, k) \in Seq(Nat)
      <4>1. k \in 0 .. Len(Feed.Numbers) /\ j \in 0 .. k /\ k - j = 1
        BY <3>3, <3>5
      <4>2. F!Run(j, k) \in Seq(Nat) /\ Len(F!Run(j, k)) = 1 /\ F!Run(j, k)[1] = Feed.Numbers[j + 1]
        <5>1. /\ F!Run(j, k) \in Seq(Nat) /\ Len(F!Run(j, k)) = k - j
              /\ \A q \in 1 .. k - j : F!Run(j, k)[q] = Feed.Numbers[j + q]
          BY <4>1, RunFacts
        <5> QED BY <4>1, <5>1
      <4>3. tick = Feed.Numbers[j + 1]
        BY <3>4, <3>5 DEF At
      <4> QED BY <4>2, <4>3
    <3>7. \E c \in 0 .. k : F!append(F!Run(i, j), F!Run(j, k)) = F!Run(c, k) /\ k - c <= Feed.Window /\ c < k
      <4>1. k \in 0 .. Len(Feed.Numbers) /\ j \in 0 .. k /\ j \in 0 .. Len(Feed.Numbers) /\ i \in 0 .. j /\ j < k
        BY <3>3, <3>5
      <4> QED BY <3>2, <4>1, AppendRun
    <3>8. PICK c \in 0 .. k : v3' = F!Run(c, k) /\ k - c <= Feed.Window /\ c < k
      BY <3>0, <3>2, <3>6, <3>7
    <3>9. F!HoldsRun' /\ F!last(v3') = tick
      <4>1. v1' \in 0 .. Len(Feed.Numbers) /\ k \in 0 .. v1' /\ c \in 0 .. k
        BY <3>0, <3>3
      <4> QED BY <3>4, <3>8, <4>1, HoldsIs
    <3>10. F!last(v3)' = tick
      BY <3>9 DEF F!last, F!Last
    <3>11. F!ReadsOn'
      <4>1. v10' \in F!ToSet(F!Published)' \cup {0}
        BY <2>2, <3>0, <1>9 DEF seen
      <4>2. v9' = F!Idle /\ v9'.step = "idle"
        BY <1>1, <3>0 DEF F!Idle
      <4>3. ~(F!last(v3)' < v10')
        BY <2>2, <3>0, <3>10
      <4> QED BY <4>1, <4>2, <4>3 DEF F!ReadsOn
    <3>12. F!OnlyForward
      <4>1. v10 <= tick
        <5>1. CASE F!WaitingIsNewer
          BY <5>1, <1>2, <1>3, <1>6, <1>18, <2>2 DEF F!WaitingIsNewer, tick
        <5>2. CASE v10 < tick
          BY <5>2, <1>3, <2>2
        <5> QED BY <2>3, <2>5, <5>1, <5>2
      <4> QED BY <1>1, <3>0, <4>1, <1>3, <2>2 DEF F!OnlyForward
    <3> QED BY <1>10, <3>0, <3>9, <3>11, <3>12 DEF FeedInv
  <2>6. CASE tick > current /\ ~(current > 0 /\ tick = current + 1)
    <3>1. UNCHANGED <<v2, v10>> => F!WaitingIsNewer'
      BY <1>11, <1>12, <1>18, <2>3, <2>6 DEF tick
    <3>2. CASE current = 0 \/ tick - current > Feed.Window
      BY <1>4, <1>15, <2>1, <2>2, <2>6, <3>1, <3>2
    <3>3. CASE ~(current = 0 \/ tick - current > Feed.Window)
      BY <1>4, <1>15, <2>1, <2>2, <2>6, <3>3
    <3> QED BY <3>2, <3>3
  <2> QED BY <1>4, <2>2, <2>4, <2>5, <2>6
<1> QED BY <1>8, <1>16, <1>17, <1>18

\* A task under way: nothing is left of the first load, and the feed is open.
LEMMA FeedWorks ==
    ASSUME FeedInv, v9 # F!Idle
    PROVE  /\ v9 \in [step : {"latest", "page"}, after : Nat,
                      tick : F!ToSet(F!Published) \cup {0}, before : Nat]
           /\ v9.tick \in Nat /\ v9.tick <= F!Newest /\ v9.before \in Nat /\ v9.after \in Nat
           /\ \A i \in DOMAIN v8 : v8[i].kind # "load"
           /\ UNCHANGED <<v1, v2, v8>> => F!WaitingInOrder'
           /\ UNCHANGED <<v2, v8, v10>> /\ F!WaitingIsNewer => F!WaitingIsNewer'
<1> DEFINE seen == F!ToSet(F!Published)
<1>1. v9 \in [step : {"latest", "page"}, after : Nat, tick : seen \cup {0}, before : Nat]
  BY DEF FeedInv, F!ReadsOn
<1>2. v9.tick \in seen \cup {0} /\ v9.before \in Nat /\ v9.after \in Nat
  BY <1>1
<1>3. v9.tick \in Nat /\ v9.tick <= F!Newest
  BY <1>2, FeedParts
<1>4. \A i \in DOMAIN v8 : v8[i].kind # "load"
  BY Zenon DEF FeedInv, F!WaitingInOrder
<1>5. UNCHANGED <<v1, v2, v8>> => F!WaitingInOrder'
  BY <1>4, Zenon DEF FeedInv, F!WaitingInOrder, F!Published, F!ToSet
<1>6. UNCHANGED <<v2, v8, v10>> /\ F!WaitingIsNewer => F!WaitingIsNewer'
  BY DEF F!WaitingIsNewer
<1> QED BY <1>1, <1>2, <1>3, <1>4, <1>5, <1>6, Zenon

\* A task ends with ticks that are held: all that are published, or nothing new.
LEMMA FeedFinishes ==
    ASSUME FeedInv, v9 # F!Idle, v4 # "closed", NEW held, F!Finish(held, v9.before),
           UNCHANGED v1, F!HoldsRun', F!last(held) = F!Newest
    PROVE  FeedInv' /\ F!OnlyForward
<1>1. /\ v3' = held /\ v9' = F!Idle /\ UNCHANGED <<v1, v2, v8>>
      /\ v10' = F!last(held) \/ v10' = v10
  BY Zenon DEF F!Finish
<1>2. v10 \in Nat /\ v10 <= F!Newest /\ F!Newest \in Nat /\ v10 \in F!ToSet(F!Published) \cup {0}
  BY FeedParts DEF FeedInv, F!ReadsOn
<1>3. F!ToSet(F!Published)' = F!ToSet(F!Published) /\ F!Newest \in F!ToSet(F!Published) \cup {0}
  <2>1. F!ToSet(F!Published)' = F!ToSet(F!Published)
    BY DEF F!Published, F!ToSet
  <2>2. v1 \in 0 .. Len(Feed.Numbers)
    BY FeedParts
  <2>3. CASE v1 = 0
    BY <2>1, <2>2, <2>3, PublishedIsRun DEF At
  <2>4. CASE v1 # 0
    <3>1. v1 \in 1 .. v1 /\ F!Newest = At(v1)
      BY <2>2, <2>4, PublishedIsRun
    <3>2. F!Newest \in F!ToSet(F!Published)
      BY <2>2, <3>1, PublishedIsRun
    <3> QED BY <2>1, <3>2
  <2> QED BY <2>1, <2>3, <2>4
<1>4. F!last(v3)' = F!Newest
  BY <1>1 DEF F!last, F!Last
<1>5. v10' \in F!ToSet(F!Published)' \cup {0} /\ v10' >= v10 /\ ~(F!last(v3)' < v10')
  BY <1>1, <1>2, <1>3, <1>4
<1>6. F!ReadsOn'
  <2>1. v9'.step = "idle"
    BY <1>1 DEF F!Idle
  <2> QED BY <1>1, <1>5, <2>1 DEF F!ReadsOn
<1>7. F!WaitingInOrder'
  BY <1>1, FeedWorks, Zenon
<1> QED BY <1>5, <1>6, <1>7 DEF FeedInv, F!OnlyForward

\* The newest tick is asked for.
LEMMA FeedAsks == FeedInv /\ F!loadLatest => FeedInv' /\ F!OnlyForward
<1> SUFFICES ASSUME FeedInv, F!loadLatest PROVE FeedInv' /\ F!OnlyForward
  OBVIOUS
<1>1. v9 # F!Idle /\ v9.step = "latest" /\ v4 # "closed" /\ F!WaitingIsNewer
  BY Zenon DEF F!loadLatest, FeedInv, F!ReadsOn
<1>2. v1 \in 0 .. Len(Feed.Numbers) /\ F!Newest = At(v1)
  BY FeedParts, PublishedIsRun
<1>3. CASE v1 = 0
  <2>1. F!Newest = 0 /\ v3 = <<>> /\ F!last(v3) = 0
    <3>1. PICK j \in 0 .. v1 : \E i \in 0 .. j : (v3 = <<>> <=> i = j)
      BY FeedParts, Zenon
    <3>2. v3 = <<>>
      BY <1>3, <3>1
    <3> QED BY <1>2, <1>3, <3>2 DEF At, F!last
  <2>2. v9.tick = 0
    BY <1>1, <2>1, FeedWorks
  <2>3. F!WithTick(v3, v9.tick) = v3
    BY <2>1, <2>2 DEF F!WithTick
  <2>4. F!Finish(v3, v9.before)
    BY <1>3, <2>3, Zenon DEF F!loadLatest
  <2>5. UNCHANGED v1 /\ v3' = v3
    BY <2>4 DEF F!Finish
  <2>6. F!HoldsRun'
    BY <2>5 DEF FeedInv, F!HoldsRun, F!Run
  <2> QED BY <1>1, <2>1, <2>4, <2>5, <2>6, FeedFinishes
<1>4. CASE v1 # 0
  <2>1. /\ v3' = <<>> /\ UNCHANGED <<v1, v2, v8, v10>>
        /\ v9' = [v9 EXCEPT !.step = "page", !.after = IF F!Newest > Feed.Window THEN F!Newest - Feed.Window ELSE 0]
    BY <1>4, Zenon DEF F!loadLatest
  <2>2. F!Newest \in Nat \ {0}
    <3>1. At(0) = 0 /\ 0 < v1 /\ 0 \in 0 .. Len(Feed.Numbers)
      BY <1>2, <1>4 DEF At
    <3> QED BY <1>2, <3>1, FeedGrows
  <2> DEFINE after == IF F!Newest > Feed.Window THEN F!Newest - Feed.Window ELSE 0
  <2>3. after \in Nat /\ after < F!Newest
    BY <2>2, FeedGrows
  <2> HIDE DEF after
  <2>4. /\ v9' \in [step : {"latest", "page"}, after : Nat, tick : F!ToSet(F!Published) \cup {0}, before : Nat]
        /\ v9'.step = "page" /\ v9'.after = after
    <3>1. v9 \in [step : {"latest", "page"}, after : Nat, tick : F!ToSet(F!Published) \cup {0}, before : Nat]
      BY <1>1, FeedWorks
    <3>2. v9' = [v9 EXCEPT !.step = "page", !.after = after]
      BY <2>1 DEF after
    <3> QED BY <2>3, <3>1, <3>2
  <2>5. F!ToSet(F!Published)' = F!ToSet(F!Published) /\ F!Newest' = F!Newest
    BY <2>1 DEF F!Published, F!ToSet, F!Newest, F!last, F!Last
  <2>6. v10 \in F!ToSet(F!Published) \cup {0} /\ v10 \in Nat
    BY FeedParts DEF FeedInv, F!ReadsOn
  <2>7. F!WaitingInOrder' /\ F!WaitingIsNewer'
    BY <1>1, <2>1, FeedWorks, Zenon
  <2>8. F!ReadsOn'
    BY <2>1, <2>3, <2>4, <2>5, <2>6, <2>7 DEF F!ReadsOn
  <2>9. F!HoldsRun'
    <3>1. v1' \in 0 .. Len(Feed.Numbers) /\ 0 \in 0 .. v1' /\ 0 \in 0 .. Len(Feed.Numbers) /\ 0 \in 0 .. 0
      BY <1>2, <2>1
    <3>2. F!Run(0, 0) = <<>>
      BY <3>1, RunFacts
    <3> QED BY <2>1, <3>1, <3>2, HoldsIs, FeedGrows
  <2>10. F!OnlyForward
    BY <1>1, <2>1, <2>6 DEF F!OnlyForward
  <2> QED BY <2>7, <2>8, <2>9, <2>10 DEF FeedInv
<1> QED BY <1>3, <1>4

\* A page of ticks is read and appended.
LEMMA FeedReads == FeedInv /\ F!pageFrom => FeedInv' /\ F!OnlyForward
<1> SUFFICES ASSUME FeedInv, F!pageFrom PROVE FeedInv' /\ F!OnlyForward
  OBVIOUS
<1> DEFINE page == F!TicksSince(v9.after)
           held == F!append(v3, page)
<1>1. /\ v9 # F!Idle /\ v9.step = "page" /\ v4 # "closed"
      /\ IF Len(page) < Feed.PageSize
         THEN F!Finish(F!WithTick(held, v9.tick), v9.before)
         ELSE v3' = held /\ v9' = [v9 EXCEPT !.after = F!Last(page)] /\ UNCHANGED <<v1, v2, v8, v10>>
  BY Zenon DEF F!pageFrom
<1>2. IF v3 = <<>> THEN v9.after < F!Newest ELSE v9.after = F!last(v3)
  BY <1>1 DEF FeedInv, F!ReadsOn
<1>3. v9.after \in Nat /\ v9.tick \in Nat /\ v9.tick <= F!Newest
  BY <1>1, FeedWorks
<1>4. v1 \in 0 .. Len(Feed.Numbers) /\ F!Newest = At(v1)
  BY FeedParts, PublishedIsRun
<1>5. PICK j \in 0 .. v1 : \E i \in 0 .. j :
         /\ j - i <= Feed.Window /\ v3 = F!Run(i, j) /\ (v3 = <<>> <=> i = j)
         /\ F!last(v3) = IF i = j THEN 0 ELSE At(j)
  BY FeedParts, Zenon
<1>6. PICK i \in 0 .. j : /\ j - i <= Feed.Window /\ v3 = F!Run(i, j) /\ (v3 = <<>> <=> i = j)
                          /\ F!last(v3) = IF i = j THEN 0 ELSE At(j)
  BY <1>5
<1>7. PICK k \in 0 .. v1 : \E e \in k .. v1 :
         /\ page = F!Run(k, e) /\ Len(page) = e - k
         /\ \A q \in 1 .. v1 : At(q) <= v9.after <=> q <= k
         /\ e - k < Feed.PageSize => e = v1
  BY <1>3, <1>4, SinceIsRun, Zenon
<1>8. PICK e \in k .. v1 :
         /\ page = F!Run(k, e) /\ Len(page) = e - k
         /\ \A q \in 1 .. v1 : At(q) <= v9.after <=> q <= k
         /\ e - k < Feed.PageSize => e = v1
  BY <1>7
<1>9. k = j \/ (i = j /\ k < v1)
  <2>1. CASE i = j
    <3>1. v9.after < At(v1) /\ At(v1) \in Nat
      BY <1>2, <1>4, <1>6, <2>1, FeedGrows
    <3>2. v1 # 0
      BY <1>3, <3>1 DEF At
    <3>3. v1 \in 1 .. v1
      BY <1>4, <3>2
    <3> QED BY <1>3, <1>8, <2>1, <3>1, <3>3
  <2>2. CASE i # j
    <3>1. v9.after = At(j) /\ j \in 1 .. v1 /\ j \in 0 .. Len(Feed.Numbers)
      BY <1>2, <1>4, <1>6, <2>2
    <3>2. At(j) \in Nat
      BY <3>1, FeedGrows
    <3>3. j <= k
      BY <1>8, <3>1, <3>2
    <3>4. ~(j < k)
      <4> SUFFICES ASSUME j < k PROVE FALSE
        OBVIOUS
      <4>1. k \in 1 .. v1 /\ k \in 0 .. Len(Feed.Numbers)
        BY <1>4, <3>1
      <4>2. At(k) \in Nat /\ At(j) < At(k)
        BY <3>1, <4>1, FeedGrows
      <4>3. At(k) <= v9.after
        BY <1>8, <4>1
      <4> QED BY <3>1, <3>2, <4>2, <4>3
    <3> QED BY <3>3, <3>4
  <2> QED BY <2>1, <2>2
<1>10. k < e \/ (i # j /\ k = j /\ e = v1)
  <2>1. e - k < Feed.PageSize => e = v1
    BY <1>8
  <2>2. k < v1 => k < e
    BY <1>4, <2>1, FeedGrows
  <2>3. k = v1 => e = v1
    OBVIOUS
  <2>4. k = j /\ i = j => k < v1
    <3> SUFFICES ASSUME k = j, i = j, k = v1 PROVE FALSE
      BY <1>4
    <3>1. v9.after < At(v1) /\ At(v1) \in Nat /\ v1 \in 1 .. v1
      BY <1>2, <1>3, <1>4, <1>6, FeedGrows DEF At
    <3> QED BY <1>3, <1>8, <3>1
  <2>5. k \in 0 .. v1 /\ v1 \in Nat /\ (k < v1 \/ k = v1)
    BY <1>4
  <2> QED BY <1>9, <2>2, <2>3, <2>4, <2>5
<1>11. \E c \in 0 .. e : held = F!Run(c, e) /\ e - c <= Feed.Window /\ c < e
  <2>1. /\ e \in 0 .. Len(Feed.Numbers) /\ k \in 0 .. e /\ j \in 0 .. Len(Feed.Numbers) /\ i \in 0 .. j
        /\ j - i <= Feed.Window /\ (i = j \/ k = j) /\ (k < e \/ i < j)
    BY <1>4, <1>6, <1>9, <1>10
  <2>2. \E c \in 0 .. e : /\ F!append(F!Run(i, j), F!Run(k, e)) = F!Run(c, e)
                          /\ e - c <= Feed.Window /\ (k < e \/ i < j => c < e)
    BY <2>1, AppendRun
  <2> QED BY <1>6, <1>8, <2>1, <2>2
<1>12. PICK c \in 0 .. e : held = F!Run(c, e) /\ e - c <= Feed.Window /\ c < e
  BY <1>11
<1>13. F!last(held) = At(e) /\ e \in 0 .. Len(Feed.Numbers) /\ e \in 0 .. v1 /\ At(e) \in Nat
  <2>1. e \in 0 .. Len(Feed.Numbers) /\ c \in 0 .. e /\ e \in 0 .. v1
    BY <1>4, <1>12
  <2> QED BY <1>12, <2>1, RunFacts, FeedGrows
<1> HIDE DEF page, held
<1>14. CASE Len(page) < Feed.PageSize
  <2>1. e = v1 /\ F!last(held) = F!Newest
    BY <1>4, <1>8, <1>13, <1>14
  <2>2. F!WithTick(held, v9.tick) = held
    BY <1>3, <1>4, <1>13, <2>1 DEF F!WithTick
  <2>3. F!Finish(held, v9.before)
    BY <1>1, <1>14, <2>2
  <2>4. UNCHANGED v1 /\ v3' = held
    BY <2>3 DEF F!Finish
  <2>5. F!HoldsRun'
    <3>1. v1' \in 0 .. Len(Feed.Numbers) /\ e \in 0 .. v1'
      BY <1>4, <1>13, <2>4
    <3> QED BY <1>12, <2>4, <3>1, HoldsIs
  <2> QED BY <1>1, <2>1, <2>3, <2>4, <2>5, FeedFinishes
<1>15. CASE ~(Len(page) < Feed.PageSize)
  <2>1. v3' = held /\ v9' = [v9 EXCEPT !.after = F!Last(page)] /\ UNCHANGED <<v1, v2, v8, v10>>
    BY <1>1, <1>15
  <2>2. F!Last(page) = At(e)
    <3>1. e \in 0 .. Len(Feed.Numbers) /\ k \in 0 .. e /\ k # e
      BY <1>4, <1>8, <1>15, <1>13, FeedGrows
    <3>2. page # <<>> /\ F!last(page) = At(e)
      BY <1>8, <3>1, RunFacts
    <3> QED BY <3>2 DEF F!last
  <2>3. F!HoldsRun' /\ held # <<>>
    <3>1. v1' \in 0 .. Len(Feed.Numbers) /\ e \in 0 .. v1'
      BY <1>4, <1>13, <2>1
    <3>2. F!HoldsRun'
      BY <1>12, <2>1, <3>1, HoldsIs
    <3>3. held # <<>>
      BY <1>12, <1>13, RunFacts
    <3> QED BY <3>2, <3>3
  <2>4. F!last(v3)' = At(e)
    BY <1>13, <2>1 DEF F!last, F!Last
  <2>5. /\ v9' \in [step : {"latest", "page"}, after : Nat, tick : F!ToSet(F!Published) \cup {0}, before : Nat]
        /\ v9'.step = "page" /\ v9'.after = At(e)
    <3>1. v9 \in [step : {"latest", "page"}, after : Nat, tick : F!ToSet(F!Published) \cup {0}, before : Nat]
      BY <1>1, FeedWorks
    <3> QED BY <1>1, <1>13, <2>1, <2>2, <3>1
  <2>6. F!ToSet(F!Published)' = F!ToSet(F!Published)
    BY <2>1 DEF F!Published, F!ToSet
  <2>7. v10 \in F!ToSet(F!Published) \cup {0} /\ v10 \in Nat
    BY FeedParts DEF FeedInv, F!ReadsOn
  <2>8. At(e) < v10 => F!WaitingIsNewer'
    <3>1. F!last(v3) <= At(e) /\ F!last(v3) \in Nat
      <4>1. CASE i = j
        BY <4>1, <1>6, <1>13
      <4>2. CASE i # j
        <5>1. F!last(v3) = At(j) /\ j <= e /\ j \in 0 .. Len(Feed.Numbers)
          BY <1>4, <1>6, <1>9, <1>8, <4>2
        <5> QED BY <1>13, <5>1, FeedGrows
      <4> QED BY <4>1, <4>2
    <3>2. At(e) < v10 => F!last(v3) < v10
      BY <1>13, <2>7, <3>1
    <3>3. F!last(v3) < v10 => F!WaitingIsNewer
      BY Zenon DEF FeedInv, F!ReadsOn
    <3> QED BY <1>1, <2>1, <3>2, <3>3, FeedWorks, Zenon
  <2>9. F!ReadsOn'
    BY <2>1, <2>3, <2>4, <2>5, <2>6, <2>7, <2>8 DEF F!ReadsOn
  <2>10. F!WaitingInOrder'
    BY <1>1, <2>1, FeedWorks, Zenon
  <2>11. F!OnlyForward
    BY <1>1, <2>1, <2>7 DEF F!OnlyForward
  <2> QED BY <2>3, <2>9, <2>10, <2>11 DEF FeedInv
<1> QED BY <1>14, <1>15

\* The steps that leave what is held alone.
LEMMA FeedRests ==
    FeedInv /\ (F!LoseBroadcast \/ F!receive \/ F!Poll \/ F!StaleGuardFires \/ F!ReadFails \/ F!LateAnswer
                \/ F!open \/ F!Subscribed \/ F!Dropped \/ F!close) => FeedInv' /\ UNCHANGED v10
<1> SUFFICES ASSUME FeedInv,
                    F!LoseBroadcast \/ F!receive \/ F!Poll \/ F!StaleGuardFires \/ F!ReadFails \/ F!LateAnswer
                    \/ F!open \/ F!Subscribed \/ F!Dropped \/ F!close
             PROVE  FeedInv' /\ UNCHANGED v10
  BY Zenon
<1>1. ASSUME UNCHANGED <<v1, v3, v9, v10>>,
             \/ UNCHANGED v8 /\ (UNCHANGED v2 \/ v2' = <<>> \/ (v2 # <<>> /\ v2' = Tail(v2)))
             \/ v8' = <<>> /\ v2' = <<>>
             \/ UNCHANGED v2 /\ v8' = Append(v8, [kind |-> "catchUp"])
             \/ v2 # <<>> /\ v2' = Tail(v2) /\ v8' = Append(v8, [kind |-> "receive", tick |-> Head(v2)])
      PROVE  FeedInv' /\ UNCHANGED v10
  BY <1>1, FeedWaits
<1>2. ASSUME UNCHANGED <<v1, v2, v3, v8, v10>>, v9 # F!Idle, v9' = F!Idle
      PROVE  FeedInv' /\ UNCHANGED v10
  <2>1. F!HoldsRun'
    BY <1>2 DEF FeedInv, F!HoldsRun, F!Run
  <2>2. F!WaitingInOrder' /\ (F!WaitingIsNewer => F!WaitingIsNewer')
    BY <1>2, FeedWorks, Zenon
  <2>3. F!ToSet(F!Published)' = F!ToSet(F!Published) /\ F!last(v3)' = F!last(v3)
    BY <1>2 DEF F!Published, F!ToSet, F!last, F!Last
  <2>4. v9'.step = "idle" /\ v10 \in F!ToSet(F!Published) \cup {0}
    BY <1>2 DEF F!Idle, FeedInv, F!ReadsOn
  <2>5. F!last(v3) < v10 => F!WaitingIsNewer
    BY Zenon DEF FeedInv, F!ReadsOn
  <2>6. F!ReadsOn'
    BY <1>2, <2>2, <2>3, <2>4, <2>5 DEF F!ReadsOn
  <2> QED BY <1>2, <2>1, <2>2, <2>6 DEF FeedInv
<1>3. CASE F!LoseBroadcast
  BY <1>1, <1>3, Zenon DEF F!LoseBroadcast
<1>4. CASE F!receive
  BY <1>1, <1>4, Zenon DEF F!receive
<1>5. CASE F!Poll
  BY <1>1, <1>5, Zenon DEF F!Poll
<1>6. CASE F!StaleGuardFires
  BY <1>1, <1>6, Zenon DEF F!StaleGuardFires
<1>7. CASE F!ReadFails
  BY <1>2, <1>7, Zenon DEF F!ReadFails
<1>8. CASE F!LateAnswer
  BY <1>2, <1>8, Zenon DEF F!LateAnswer
<1>9. CASE F!open
  BY <1>1, <1>9, Zenon DEF F!open
<1>10. CASE F!Subscribed
  BY <1>1, <1>10, Zenon DEF F!Subscribed
<1>11. CASE F!Dropped
  BY <1>1, <1>11, Zenon DEF F!Dropped
<1>12. CASE F!close
  BY <1>1, <1>12, Zenon DEF F!close
<1> QED BY <1>3, <1>4, <1>5, <1>6, <1>7, <1>8, <1>9, <1>10, <1>11, <1>12

\* The invariant holds in every state, and what is shown never goes back.
LEMMA FeedNext == FeedInv /\ [F!Next]_F!feedVars => FeedInv' /\ F!OnlyForward
<1> SUFFICES ASSUME FeedInv, [F!Next]_F!feedVars PROVE FeedInv' /\ F!OnlyForward
  OBVIOUS
<1>1. v10 \in Nat
  BY FeedParts
<1>2. UNCHANGED v10 => F!OnlyForward
  BY <1>1 DEF F!OnlyForward
<1>3. CASE F!LoseBroadcast \/ F!receive \/ F!Poll \/ F!StaleGuardFires \/ F!ReadFails \/ F!LateAnswer
           \/ F!open \/ F!Subscribed \/ F!Dropped \/ F!close
  BY <1>2, <1>3, FeedRests
<1>4. CASE F!PublishTick
  <2>1. UNCHANGED v10
    BY <1>4 DEF F!PublishTick
  <2> QED BY <1>2, <1>4, <2>1, FeedPublishes
<1>5. CASE F!serial
  BY <1>5, FeedTurns
<1>6. CASE F!loadLatest
  BY <1>6, FeedAsks
<1>7. CASE F!pageFrom
  BY <1>7, FeedReads
<1>8. CASE UNCHANGED F!feedVars
  <2>1. UNCHANGED <<v1, v2, v3, v4, v8, v9, v10>>
    BY <1>8, Zenon DEF F!feedVars
  <2> QED BY <1>2, <2>1, FeedWaits
<1> QED BY <1>3, <1>4, <1>5, <1>6, <1>7, <1>8, Zenon DEF F!Next

\* The ticks held are the published ones between two of them, each once.
LEMMA FeedNoGaps == FeedInv => F!NoGaps
<1> SUFFICES ASSUME FeedInv PROVE F!NoGaps
  OBVIOUS
<1>1. v1 \in 0 .. Len(Feed.Numbers) /\ \A n : n \in F!ToSet(F!Published) <=> \E k \in 1 .. v1 : n = At(k)
  <2>1. v1 \in 0 .. Len(Feed.Numbers)
    BY FeedParts
  <2> QED BY <2>1, PublishedIsRun
<1>2. PICK j \in 0 .. v1 : \E i \in 0 .. j : j - i <= Feed.Window /\ v3 = F!Run(i, j)
  BY FeedParts, Zenon
<1>3. PICK i \in 0 .. j : j - i <= Feed.Window /\ v3 = F!Run(i, j)
  BY <1>2
<1>4. j \in 0 .. Len(Feed.Numbers)
  BY <1>1, FeedGrows
<1>5. /\ v3 \in Seq(Nat) /\ Len(v3) = j - i /\ DOMAIN v3 = 1 .. j - i
      /\ \A k \in 1 .. j - i : v3[k] = At(i + k)
  <2>1. v3 \in Seq(Nat) /\ Len(v3) = j - i /\ \A k \in 1 .. j - i : v3[k] = Feed.Numbers[i + k]
    BY <1>3, <1>4, RunFacts
  <2> QED BY <2>1 DEF At
<1>6. \A k \in 1 .. j - i : i + k \in 1 .. v1 /\ i + k \in 0 .. Len(Feed.Numbers)
  BY <1>1
<1>7. F!Held = {v3[k] : k \in 1 .. j - i}
  BY <1>5 DEF F!Held, F!ToSet
<1>8. Len(v3) = F!Cardinality(F!Held)
  <2> DEFINE positions == 1 .. j - i
             place == [k \in positions |-> v3[k]]
             found == F!Held
  <2>1. IsFiniteSet(positions) /\ Cardinality(positions) = j - i
    <3>1. 1 \in Int /\ j - i \in Int /\ j - i >= 0 /\ (1 > j - i => j - i = 0)
      OBVIOUS
    <3>2. /\ IsFiniteSet(1 .. j - i)
          /\ Cardinality(1 .. j - i) = IF 1 > j - i THEN 0 ELSE (j - i) - 1 + 1
      BY <3>1, FS_Interval
    <3> QED BY <3>1, <3>2
  <2>2. \A a, b \in positions : place[a] = place[b] => a = b
    <3> TAKE a, b \in positions
    <3>1. /\ place[a] = At(i + a) /\ place[b] = At(i + b)
          /\ i + a \in 0 .. Len(Feed.Numbers) /\ i + b \in 0 .. Len(Feed.Numbers)
      BY <1>5, <1>6
    <3>2. \/ i + a < i + b \/ i + b < i + a \/ a = b
      OBVIOUS
    <3>3. At(i + a) \in Nat /\ At(i + b) \in Nat
      BY <3>1, FeedGrows
    <3> QED BY <3>1, <3>2, <3>3, FeedGrows
  <2>3. place \in [positions -> found] /\ \A n \in found : \E k \in positions : place[k] = n
    BY <1>7
  <2> HIDE DEF positions, place, found
  <2>4. place \in Bijection(positions, found)
    BY <2>2, <2>3 DEF Bijection, Injection, Surjection, IsInjective
  <2>5. Cardinality(found) = Cardinality(positions)
    BY <2>1, <2>4, FS_Bijection, Zenon DEF ExistsBijection
  <2>6. F!Cardinality(found) = Cardinality(found)
    BY Zenon DEF F!Cardinality, Cardinality
  <2> QED BY <1>5, <2>1, <2>5, <2>6 DEF found
<1>9. F!Held = {n \in F!ToSet(F!Published) : \E a, b \in F!Held : a <= n /\ n <= b}
  <2>1. \A n \in F!Held : n \in F!ToSet(F!Published) /\ n <= n
    <3> TAKE n \in F!Held
    <3>1. PICK k \in 1 .. j - i : n = v3[k]
      BY <1>7
    <3>2. n = At(i + k) /\ i + k \in 1 .. v1 /\ At(i + k) \in Nat
      BY <3>1, <1>5, <1>6, FeedGrows
    <3> QED BY <1>1, <3>2
  <2>2. ASSUME NEW n \in F!ToSet(F!Published), NEW a \in F!Held, NEW b \in F!Held, a <= n, n <= b
        PROVE  n \in F!Held
    <3>1. PICK k \in 1 .. v1 : n = At(k)
      BY <1>1
    <3>2. PICK x \in 1 .. j - i : a = At(i + x)
      BY <1>5, <1>7
    <3>3. PICK y \in 1 .. j - i : b = At(i + y)
      BY <1>5, <1>7
    <3>4. /\ k \in 0 .. Len(Feed.Numbers) /\ i + x \in 0 .. Len(Feed.Numbers) /\ i + y \in 0 .. Len(Feed.Numbers)
          /\ At(k) \in Nat /\ At(i + x) \in Nat /\ At(i + y) \in Nat
      <4>1. k \in 0 .. Len(Feed.Numbers) /\ i + x \in 0 .. Len(Feed.Numbers) /\ i + y \in 0 .. Len(Feed.Numbers)
        BY <1>1, <1>6
      <4> QED BY <4>1, FeedGrows
    <3>5. ~(k < i + x) /\ ~(i + y < k)
      <4>1. k < i + x => At(k) < At(i + x)
        BY <3>4, FeedGrows
      <4>2. i + y < k => At(i + y) < At(k)
        BY <3>4, FeedGrows
      <4> QED BY <2>2, <3>1, <3>2, <3>3, <3>4, <4>1, <4>2
    <3>6. k - i \in 1 .. j - i /\ i + (k - i) = k
      BY <3>5
    <3>7. v3[k - i] = n
      BY <1>5, <3>1, <3>6
    <3> QED BY <1>7, <3>6, <3>7
  <2> QED BY <2>1, <2>2
<1>10. Len(v3) <= Feed.Window
  BY <1>3, <1>5
<1> QED BY <1>8, <1>9, <1>10, Zenon DEF F!NoGaps
=============================================================================
