---------------------------- MODULE FundingProofs ----------------------------
(***************************************************************************)
(* Proofs about Funding for every number of payments, customers and        *)
(* owners, every assignment of payments to customers and every bound.      *)
(***************************************************************************)
EXTENDS Funding, FiniteSetTheorems, TLAPS

-----------------------------------------------------------------------------
(* Types *)

\* A payment's row may take any state and keeps its types.
LEMMA RowTypes ==
    ASSUME TypeOK, NEW p \in Payment
    PROVE  /\ payment[p] \in Row /\ payment[p].checkout \in {p, Nobody}
           /\ \A s \in State : [payment[p] EXCEPT !.state = s] \in Row
BY DEF TypeOK, Row

\* Whatever funding.transition leaves is a well-typed table.
LEMMA MovesType ==
    ASSUME TypeOK, NEW p \in Payment, NEW row \in Row, row.checkout \in {p, Nobody}, Moves(p, row)
    PROVE  payment' \in [Payment -> Row] /\ \A q \in Payment : payment'[q].checkout \in {q, Nobody}
BY DEF TypeOK, Moves

LEMMA MovesToType ==
    ASSUME TypeOK, NEW p \in Payment, NEW s \in State, MovesTo(p, s)
    PROVE  payment' \in [Payment -> Row] /\ \A q \in Payment : payment'[q].checkout \in {q, Nobody}
<1> DEFINE row == [payment[p] EXCEPT !.state = s]
<1>1. row \in Row /\ row.checkout \in {p, Nobody}
  BY RowTypes DEF TypeOK, Row
<1>2. Moves(p, row)
  BY DEF MovesTo
<1> HIDE DEF row
<1> QED BY <1>1, <1>2, MovesType

\* A credit or a hold keeps the types of the tables it writes.
LEMMA ConfirmType ==
    ASSUME TypeOK, NEW p \in Payment, NEW hold \in BOOLEAN, NEW row \in Row,
           row.checkout \in {p, Nobody}, Confirm(p, row, hold)
    PROVE  /\ payment' \in [Payment -> Row] /\ \A q \in Payment : payment'[q].checkout \in {q, Nobody}
           /\ kes' \subseteq Payment \X {"RECEIPT", "REVERSAL"}
           /\ ledger' \subseteq [kind : {"deposit", "reversal"}, payment : Payment, at : 0..clock]
<1> DEFINE held == [row EXCEPT !.confirmed = TRUE, !.state = "MANUAL_REVIEW"]
           good == [row EXCEPT !.confirmed = TRUE, !.state = "CONFIRMED"]
<1>1. \/ Moves(p, held) /\ UNCHANGED ledger
      \/ Moves(p, good) /\ Credit(p)
  BY DEF Confirm
<1>2. held \in Row /\ held.checkout \in {p, Nobody} /\ good \in Row /\ good.checkout \in {p, Nobody}
  BY DEF Row, State, InProgress
<1>3. kes' \subseteq Payment \X {"RECEIPT", "REVERSAL"}
  BY DEF Confirm, TypeOK
<1>4. [kind |-> "deposit", payment |-> p, at |-> clock]
        \in [kind : {"deposit", "reversal"}, payment : Payment, at : 0..clock]
  BY DEF TypeOK
<1>5. ledger' \subseteq [kind : {"deposit", "reversal"}, payment : Payment, at : 0..clock]
  BY <1>1, <1>4 DEF TypeOK, Credit
<1> HIDE DEF held, good
<1> QED BY <1>1, <1>2, <1>3, <1>5, MovesType

LEMMA TypeInit == Init => TypeOK
<1> SUFFICES ASSUME Init PROVE TypeOK
  OBVIOUS
<1>1. [state |-> "NONE", created |-> 0, checkout |-> Nobody,
       claim |-> "none", confirmed |-> FALSE, item |-> Nobody] \in Row
  BY DEF Row, State, InProgress
<1> QED BY <1>1, BoundsAssumption DEF Init, TypeOK, Never

\* Every step keeps the types, whatever the bounds.
LEMMA TypeNext == TypeOK /\ [Next]_vars => TypeOK'
<1> SUFFICES ASSUME TypeOK, [Next]_vars PROVE TypeOK'
  OBVIOUS
<1> DEFINE Table == payment' \in [Payment -> Row] /\ \A q \in Payment : payment'[q].checkout \in {q, Nobody}
<1> USE DEF staffVars, provider
<1>1. ASSUME NEW p \in Payment, Begin(p) PROVE TypeOK'
  <2>1. payment[p] \in Row /\ payment[p].checkout \in {p, Nobody} /\ clock \in Nat
    BY RowTypes, BoundsAssumption DEF TypeOK
  <2>2. [payment[p] EXCEPT !.state = "INITIATING", !.created = clock] \in Row
    BY <2>1 DEF Row, State, InProgress
  <2> QED BY <1>1, <2>1, <2>2 DEF TypeOK, Begin
<1>2. ASSUME NEW p \in Payment, Push(p) \/ Die(p) \/ Query(p) \/ Pay(p) PROVE TypeOK'
  <2>1. CASE Push(p)
    BY <2>1 DEF TypeOK, Push
  <2>2. CASE Die(p)
    BY <2>2 DEF TypeOK, Die
  <2>3. CASE Query(p)
    BY <2>3 DEF TypeOK, Query, Code
  <2>4. CASE Pay(p)
    BY <2>4, BoundsAssumption DEF TypeOK, Pay
  <2> QED BY <1>2, <2>1, <2>2, <2>3, <2>4
<1>3. ASSUME NEW p \in Payment, RecordInitiation(p) PROVE TypeOK'
  <2>1. Table
    <3> DEFINE row == [payment[p] EXCEPT !.checkout = p,
                                         !.state = IF @ = "INITIATING" THEN "PENDING" ELSE @]
    <3>1. CASE edge[p] = "ACCEPTED"
      <4>1. row \in Row /\ row.checkout \in {p, Nobody}
        <5>1. payment[p] \in Row
          BY RowTypes
        <5> QED BY <5>1 DEF Row, State, InProgress
      <4>2. Moves(p, row)
        BY <1>3, <3>1 DEF RecordInitiation
      <4> HIDE DEF row
      <4> QED BY <4>1, <4>2, MovesType
    <3>2. CASE edge[p] # "ACCEPTED"
      <4>1. MovesTo(p, "REJECTED") \/ MovesTo(p, "UNKNOWN") \/ UNCHANGED payment
        BY <1>3, <3>2 DEF RecordInitiation
      <4> QED BY <4>1, MovesToType DEF TypeOK, State, InProgress
    <3> QED BY <3>1, <3>2
  <2> HIDE DEF Table
  <2> QED BY <1>3, <2>1 DEF TypeOK, RecordInitiation, Table
<1>4. ASSUME NEW p \in Payment, NEW checkout \in Payment, NEW code \in Code, NEW agrees \in BOOLEAN,
             Callback(p, checkout, code, agrees)
      PROVE  TypeOK'
  <2> DEFINE row  == [payment[p] EXCEPT !.checkout = CheckoutAfter(p, checkout)]
             seen == [row EXCEPT !.state = "MANUAL_REVIEW"]
             told == [row EXCEPT !.state = "VERIFYING", !.claim = code]
  <2>0. payment[p] \in Row /\ payment[p].checkout \in {p, Nobody}
    BY RowTypes
  <2>1. row \in Row /\ seen \in Row /\ told \in Row
    BY <2>0 DEF Row, State, InProgress, CheckoutAfter
  <2>2. {row.checkout, seen.checkout, told.checkout} \subseteq {p, Nobody}
    BY <2>0 DEF Row, CheckoutAfter
  <2>3. \/ Moves(p, row) \/ Moves(p, seen) \/ Moves(p, told)
        \/ MovesTo(p, "MANUAL_REVIEW") \/ UNCHANGED payment
    BY <1>4 DEF Callback
  <2> HIDE DEF row, seen, told
  <2>4. Table
    BY <2>1, <2>2, <2>3, MovesType, MovesToType DEF TypeOK, State
  <2>5. events' \subseteq [payment : Payment, checkout : Payment, code : Code]
    BY <1>4 DEF Callback, TypeOK
  <2> HIDE DEF Table
  <2> QED BY <1>4, <2>4, <2>5 DEF TypeOK, Callback, Table
<1>5. ASSUME NEW p \in Payment, NEW code \in Code, RecordStatus(p, code) PROVE TypeOK'
  <2>1. \/ Confirm(p, payment[p], TRUE)
        \/ UNCHANGED <<ledger, kes>> /\ (MovesTo(p, "MANUAL_REVIEW") \/ MovesTo(p, "FAILED") \/ UNCHANGED payment)
    BY <1>5 DEF RecordStatus
  <2>2. payment[p] \in Row /\ payment[p].checkout \in {p, Nobody}
    BY RowTypes
  <2>3. Table /\ kes' \subseteq Payment \X {"RECEIPT", "REVERSAL"}
        /\ ledger' \subseteq [kind : {"deposit", "reversal"}, payment : Payment, at : 0..clock]
    BY <2>1, <2>2, ConfirmType, MovesToType DEF TypeOK, State
  <2> HIDE DEF Table
  <2> QED BY <1>5, <2>3 DEF TypeOK, RecordStatus, Table
<1>6. ASSUME NEW p \in Payment, RecordUnresolved(p) PROVE TypeOK'
  <2>1. Table
    BY <1>6, MovesToType DEF RecordUnresolved, State
  <2> HIDE DEF Table
  <2> QED BY <1>6, <2>1 DEF TypeOK, RecordUnresolved, Table
<1>7. ASSUME NEW p \in Payment, NEW s \in Staff, NEW referenced \in BOOLEAN, RecordItem(s, p, referenced)
      PROVE  TypeOK'
  BY <1>7 DEF TypeOK, RecordItem
<1>8. ASSUME NEW p \in Payment, NEW s \in Staff, NEW kind \in Kind, RequestAction(s, p, kind) PROVE TypeOK'
  BY <1>8 DEF TypeOK, RequestAction
<1>9. ASSUME NEW s \in Staff, NEW a \in actions, ApproveAction(s, a) PROVE TypeOK'
  <2> DEFINE p   == a.payment
             row == [payment[p] EXCEPT !.item = a.item]
  <2>1. a \in [payment : Payment, kind : Kind, item : Payment \cup {Nobody},
               requester : Staff, approver : Staff \cup {Nobody}]
    BY DEF TypeOK
  <2>2. p \in Payment /\ row \in Row /\ row.checkout \in {p, Nobody}
    <3>1. p \in Payment /\ a.item \in Payment \cup {Nobody}
      BY <2>1
    <3>2. payment[p] \in Row /\ payment[p].checkout \in {p, Nobody}
      BY <3>1, RowTypes
    <3> QED BY <3>1, <3>2 DEF Row
  <2>3. actions' \subseteq [payment : Payment, kind : Kind, item : Payment \cup {Nobody},
                            requester : Staff, approver : Staff \cup {Nobody}]
    BY <1>9, <2>1 DEF TypeOK, ApproveAction
  <2>4. \/ /\ ledger' = ledger \cup {[kind |-> "reversal", payment |-> p, at |-> clock]}
           /\ kes' = kes \cup {<<p, "REVERSAL">>}
           /\ MovesTo(p, "REVERSED")
        \/ Confirm(p, row, FALSE)
        \/ (Moves(p, row) \/ MovesTo(p, "FAILED")) /\ UNCHANGED <<ledger, kes>>
    BY <1>9, <2>1 DEF ApproveAction, Kind
  <2> HIDE DEF p, row
  <2>5. [kind |-> "reversal", payment |-> p, at |-> clock]
          \in [kind : {"deposit", "reversal"}, payment : Payment, at : 0..clock]
    BY <2>2 DEF TypeOK
  <2>6. Table /\ kes' \subseteq Payment \X {"RECEIPT", "REVERSAL"}
        /\ ledger' \subseteq [kind : {"deposit", "reversal"}, payment : Payment, at : 0..clock]
    <3>1. CASE Confirm(p, row, FALSE)
      BY <3>1, <2>2, ConfirmType
    <3>2. CASE MovesTo(p, "REVERSED") /\ kes' = kes \cup {<<p, "REVERSAL">>}
               /\ ledger' = ledger \cup {[kind |-> "reversal", payment |-> p, at |-> clock]}
      BY <3>2, <2>2, <2>5, MovesToType DEF TypeOK, State
    <3>3. CASE (Moves(p, row) \/ MovesTo(p, "FAILED")) /\ UNCHANGED <<ledger, kes>>
      BY <3>3, <2>2, MovesType, MovesToType DEF TypeOK, State
    <3> QED BY <2>4, <3>1, <3>2, <3>3
  <2> HIDE DEF Table
  <2> QED BY <1>9, <2>3, <2>6 DEF TypeOK, ApproveAction, Table
<1>10. ASSUME ExpireStale PROVE TypeOK'
  <2>1. PICK found \in SUBSET {p \in Payment : Swept(p) # StateOf(p)} :
          payment' = [p \in Payment |-> IF p \in found THEN [payment[p] EXCEPT !.state = Swept(p)] ELSE payment[p]]
    BY <1>10 DEF ExpireStale
  <2>2. ASSUME NEW p \in Payment PROVE Swept(p) \in State
    <3>1. Swept(p) \in {"EXPIRED", "UNKNOWN", StateOf(p)}
      BY DEF Swept
    <3>2. StateOf(p) \in State
      BY DEF TypeOK, Row, StateOf
    <3> QED BY <3>1, <3>2 DEF State, InProgress
  <2>3. \A p \in Payment : payment'[p] \in Row /\ payment'[p].checkout \in {p, Nobody}
    BY <2>1, <2>2, RowTypes DEF Row
  <2> QED BY <1>10, <2>1, <2>3 DEF TypeOK, ExpireStale
<1>11. ASSUME Elapse PROVE TypeOK'
  <2>1. clock' \in 0..MaxClock /\ 0..clock \subseteq 0..clock'
    BY <1>11, BoundsAssumption DEF TypeOK, Elapse
  <2>2. ledger' \subseteq [kind : {"deposit", "reversal"}, payment : Payment, at : 0..clock']
    BY <1>11, <2>1 DEF TypeOK, Elapse
  <2>3. paid' \in [Payment -> {Never} \cup 0..clock']
    BY <1>11, <2>1 DEF TypeOK, Elapse
  <2> QED BY <1>11, <2>1, <2>2, <2>3 DEF TypeOK, Elapse
<1>12. CASE UNCHANGED vars
  BY <1>12 DEF TypeOK, vars
<1> QED BY <1>1, <1>2, <1>3, <1>4, <1>5, <1>6, <1>7, <1>8, <1>9, <1>10, <1>11, <1>12 DEF Next

\* The types are an invariant: every table stays within its columns, and a bound
\* checkout is the payment's own, whatever callbacks claim.
THEOREM FundingTypes == Spec => []TypeOK
<1>1. TypeOK /\ [Next]_vars => TypeOK'
  BY TypeNext
<1> QED BY TypeInit, <1>1, PTL DEF Spec

-----------------------------------------------------------------------------
(* What a step can do to a payment's books *)

\* The payment's money stays as it is: it starts, waits, goes to review or fails,
\* the last only while nothing has been received.
Quiet(p) ==
    /\ payment'[p].confirmed = payment[p].confirmed
    /\ \/ payment'[p].state = StateOf(p)
       \/ StateOf(p) = "NONE" /\ payment'[p].state = "INITIATING"
       \/ StateOf(p) \in InProgress /\ payment'[p].state \in InProgress \cup {"MANUAL_REVIEW", "EXPIRED", "REJECTED"}
       \/ StateOf(p) \in CouldBecomeMoney /\ payment'[p].state = "FAILED" /\ ~payment[p].confirmed
       \/ StateOf(p) \in {"EXPIRED", "FAILED"} /\ payment'[p].state = "MANUAL_REVIEW"
AllQuiet == UNCHANGED <<ledger, kes>> /\ \A p \in Payment : Quiet(p)

Alone(p) == \A o \in Payment \ {p} : payment'[o].state = StateOf(o) /\ payment'[o].confirmed = payment[o].confirmed
Received(p) == payment'[p].confirmed /\ kes' = kes \cup {<<p, "RECEIPT">>} /\ Alone(p)

\* Money received and held for review, received and credited, given back.
Held(p) ==
    /\ StateOf(p) \in InProgress /\ payment'[p].state = "MANUAL_REVIEW"
    /\ Received(p) /\ UNCHANGED ledger
Credited(p) ==
    /\ StateOf(p) \in CouldBecomeMoney /\ payment'[p].state = "CONFIRMED"
    /\ Received(p) /\ Credit(p) /\ ~LimitRefused(p, FALSE)
GivenBack(p) ==
    /\ StateOf(p) = "CONFIRMED" /\ payment'[p].state = "REVERSED"
    /\ payment'[p].confirmed = payment[p].confirmed /\ Alone(p)
    /\ ledger' = ledger \cup {[kind |-> "reversal", payment |-> p, at |-> clock]}
    /\ kes' = kes \cup {<<p, "REVERSAL">>}

\* A row written by funding.transition is a legal move of that payment alone.
LEMMA MovesBooks ==
    ASSUME TypeOK, NEW p \in Payment, NEW row \in Row, Moves(p, row)
    PROVE  /\ payment'[p] = row /\ \A o \in Payment \ {p} : payment'[o] = payment[o]
           /\ row.state = StateOf(p) \/ row.state \in Allowed(StateOf(p))
BY DEF Moves, TypeOK

\* A move that leaves money alone is quiet: to any state but CONFIRMED and REVERSED,
\* and to FAILED only when nothing has been received.
LEMMA MovesQuiet ==
    ASSUME TypeOK, NEW p \in Payment, NEW row \in Row, Moves(p, row),
           row.confirmed = payment[p].confirmed,
           \/ row.state = StateOf(p)
           \/ row.state \in InProgress \cup {"MANUAL_REVIEW", "REJECTED"}
           \/ row.state = "FAILED" /\ ~payment[p].confirmed
    PROVE  \A o \in Payment : Quiet(o)
<1>1. \A o \in Payment \ {p} : Quiet(o)
  BY MovesBooks DEF Quiet, StateOf
<1>2. Quiet(p)
  <2>1. StateOf(p) \in State
    BY DEF TypeOK, Row, StateOf
  <2>2. payment'[p] = row /\ (row.state = StateOf(p) \/ row.state \in Allowed(StateOf(p)))
    BY MovesBooks
  <2>3. CASE row.state = StateOf(p)
    BY <2>2, <2>3 DEF Quiet
  <2>4. CASE row.state \in Allowed(StateOf(p))
    BY <2>1, <2>2, <2>4 DEF Quiet, Allowed, State, InProgress, CouldBecomeMoney
  <2> QED BY <2>2, <2>3, <2>4
<1> QED BY <1>1, <1>2

LEMMA MovesToQuiet ==
    ASSUME TypeOK, NEW p \in Payment, NEW s \in State, MovesTo(p, s),
           s \in InProgress \cup {"MANUAL_REVIEW", "REJECTED"} \/ (s = "FAILED" /\ ~payment[p].confirmed)
    PROVE  \A o \in Payment : Quiet(o)
<1> DEFINE row == [payment[p] EXCEPT !.state = s]
<1>1. payment[p] \in Row
  BY RowTypes
<1>2. row \in Row /\ row.confirmed = payment[p].confirmed /\ row.state = s
  BY <1>1 DEF Row
<1>3. Moves(p, row)
  BY DEF MovesTo
<1> HIDE DEF row
<1> QED BY <1>2, <1>3, MovesQuiet

\* confirm_and_credit holds the money only from a status answer.
LEMMA ConfirmBooks ==
    ASSUME TypeOK, NEW p \in Payment, NEW hold \in BOOLEAN, NEW row \in Row, Confirm(p, row, hold),
           row.state = StateOf(p), StateOf(p) \in CouldBecomeMoney, hold => StateOf(p) \in InProgress
    PROVE  Held(p) \/ Credited(p)
<1> DEFINE held == [row EXCEPT !.confirmed = TRUE, !.state = "MANUAL_REVIEW"]
           good == [row EXCEPT !.confirmed = TRUE, !.state = "CONFIRMED"]
<1>1. \/ hold /\ Moves(p, held) /\ UNCHANGED ledger
      \/ ~LimitRefused(p, FALSE) /\ Moves(p, good) /\ Credit(p)
  BY DEF Confirm
<1>2. held \in Row /\ held.confirmed /\ held.state = "MANUAL_REVIEW"
  BY DEF Row, State, InProgress
<1>3. good \in Row /\ good.confirmed /\ good.state = "CONFIRMED"
  BY DEF Row, State, InProgress
<1>4. kes' = kes \cup {<<p, "RECEIPT">>}
  BY DEF Confirm
<1> HIDE DEF held, good
<1>5. CASE hold /\ Moves(p, held) /\ UNCHANGED ledger
  BY <1>2, <1>4, <1>5, MovesBooks DEF Held, Received, Alone, StateOf
<1>6. CASE ~LimitRefused(p, FALSE) /\ Moves(p, good) /\ Credit(p)
  BY <1>3, <1>4, <1>6, MovesBooks DEF Credited, Received, Alone, StateOf
<1> QED BY <1>1, <1>5, <1>6

\* A transition the sweep of stale rows makes.
LEMMA SweepQuiet == ASSUME TypeOK, ExpireStale PROVE \A p \in Payment : Quiet(p)
<1>1. PICK found \in SUBSET {p \in Payment : Swept(p) # StateOf(p)} :
        payment' = [p \in Payment |-> IF p \in found THEN [payment[p] EXCEPT !.state = Swept(p)] ELSE payment[p]]
  BY DEF ExpireStale
<1> SUFFICES ASSUME NEW p \in Payment PROVE Quiet(p)
  OBVIOUS
<1>2. payment[p] \in Row
  BY RowTypes
<1>3. CASE p \in found
  <2>1. StateOf(p) \in {"INITIATING", "UNKNOWN"} /\ Swept(p) \in {"EXPIRED", "UNKNOWN"}
    BY <1>3 DEF Swept
  <2>2. payment'[p].state = Swept(p) /\ payment'[p].confirmed = payment[p].confirmed
    BY <1>1, <1>2, <1>3 DEF Row
  <2> QED BY <2>1, <2>2 DEF Quiet, InProgress
<1>4. CASE p \notin found
  BY <1>1, <1>4 DEF Quiet, StateOf
<1> QED BY <1>3, <1>4

LEMMA StillQuiet == ASSUME UNCHANGED payment PROVE \A p \in Payment : Quiet(p)
BY DEF Quiet, StateOf

\* Every step of the system leaves all money alone, holds one payment's money,
\* credits one payment within the limit, or gives one credit back.
LEMMA StepBooks ==
    ASSUME TypeOK, BooksFollowState, [Next]_vars
    PROVE  AllQuiet \/ \E p \in Payment : Held(p) \/ Credited(p) \/ GivenBack(p)
<1> USE DEF staffVars, provider
<1>1. ASSUME NEW p \in Payment, Begin(p) PROVE AllQuiet
  <2>1. payment[p] \in Row
    BY RowTypes
  <2>2. payment'[p].state = "INITIATING" /\ payment'[p].confirmed = payment[p].confirmed
    BY <1>1, <2>1 DEF Begin, TypeOK, Row
  <2>3. \A o \in Payment \ {p} : payment'[o] = payment[o]
    BY <1>1 DEF Begin, TypeOK
  <2> QED BY <1>1, <2>2, <2>3 DEF Begin, AllQuiet, Quiet, StateOf
<1>2. ASSUME NEW p \in Payment, RecordInitiation(p) PROVE AllQuiet
  <2> DEFINE row == [payment[p] EXCEPT !.checkout = p,
                                       !.state = IF @ = "INITIATING" THEN "PENDING" ELSE @]
  <2>1. CASE edge[p] = "ACCEPTED"
    <3>1. payment[p] \in Row
      BY RowTypes
    <3>2. row \in Row /\ row.confirmed = payment[p].confirmed /\ row.state \in {StateOf(p), "PENDING"}
      BY <3>1 DEF Row, State, InProgress, StateOf
    <3>3. Moves(p, row)
      BY <1>2, <2>1 DEF RecordInitiation
    <3> HIDE DEF row
    <3>4. \A o \in Payment : Quiet(o)
      BY <3>2, <3>3, MovesQuiet DEF InProgress
    <3> QED BY <1>2, <3>4 DEF RecordInitiation, AllQuiet
  <2>2. CASE edge[p] # "ACCEPTED"
    <3>1. MovesTo(p, "REJECTED") \/ MovesTo(p, "UNKNOWN") \/ UNCHANGED payment
      BY <1>2, <2>2 DEF RecordInitiation
    <3>2. \A o \in Payment : Quiet(o)
      BY <3>1, MovesToQuiet, StillQuiet DEF State, InProgress
    <3> QED BY <1>2, <3>2 DEF RecordInitiation, AllQuiet
  <2> QED BY <2>1, <2>2
<1>3. ASSUME NEW p \in Payment, NEW checkout \in Payment, NEW code \in Code, NEW agrees \in BOOLEAN,
             Callback(p, checkout, code, agrees)
      PROVE  AllQuiet
  <2> DEFINE row  == [payment[p] EXCEPT !.checkout = CheckoutAfter(p, checkout)]
             seen == [row EXCEPT !.state = "MANUAL_REVIEW"]
             told == [row EXCEPT !.state = "VERIFYING", !.claim = code]
  <2>0. payment[p] \in Row
    BY RowTypes
  <2>1. row \in Row /\ seen \in Row /\ told \in Row
    BY <2>0 DEF Row, State, InProgress, CheckoutAfter
  <2>2. /\ \A r \in {row, seen, told} : r.confirmed = payment[p].confirmed
        /\ row.state = StateOf(p) /\ seen.state = "MANUAL_REVIEW" /\ told.state = "VERIFYING"
    BY <2>0 DEF Row, CheckoutAfter, StateOf
  <2>3. \/ Moves(p, row) \/ Moves(p, seen) \/ Moves(p, told)
        \/ MovesTo(p, "MANUAL_REVIEW") \/ UNCHANGED payment
    BY <1>3 DEF Callback
  <2> HIDE DEF row, seen, told
  <2>4. \A o \in Payment : Quiet(o)
    BY <2>1, <2>2, <2>3, MovesQuiet, MovesToQuiet, StillQuiet DEF State, InProgress
  <2> QED BY <1>3, <2>4 DEF Callback, AllQuiet
<1>4. ASSUME NEW p \in Payment, NEW code \in Code, RecordStatus(p, code)
      PROVE  AllQuiet \/ Held(p) \/ Credited(p)
  <2>1. payment[p] \in Row
    BY RowTypes
  <2>2. CASE Queried(p)
    <3>1. StateOf(p) \in InProgress /\ StateOf(p) \in CouldBecomeMoney /\ ~payment[p].confirmed
      BY <2>2 DEF Queried, InProgress, CouldBecomeMoney, BooksFollowState
    <3>2. \/ Confirm(p, payment[p], TRUE)
          \/ UNCHANGED <<ledger, kes>> /\ (MovesTo(p, "MANUAL_REVIEW") \/ MovesTo(p, "FAILED"))
      BY <1>4, <2>2 DEF RecordStatus
    <3>3. CASE Confirm(p, payment[p], TRUE)
      BY <2>1, <3>1, <3>3, ConfirmBooks DEF StateOf
    <3>4. CASE UNCHANGED <<ledger, kes>> /\ (MovesTo(p, "MANUAL_REVIEW") \/ MovesTo(p, "FAILED"))
      BY <3>1, <3>4, MovesToQuiet DEF State, AllQuiet
    <3> QED BY <3>2, <3>3, <3>4
  <2>3. CASE ~Queried(p)
    BY <1>4, <2>3, MovesToQuiet, StillQuiet DEF RecordStatus, State, AllQuiet
  <2> QED BY <2>2, <2>3
<1>5. ASSUME NEW p \in Payment, RecordUnresolved(p) PROVE AllQuiet
  BY <1>5, MovesToQuiet DEF RecordUnresolved, State, AllQuiet
<1>6. ASSUME NEW s \in Staff, NEW a \in actions, ApproveAction(s, a)
      PROVE  \E p \in Payment : AllQuiet \/ Credited(p) \/ GivenBack(p)
  <2> DEFINE p   == a.payment
             row == [payment[p] EXCEPT !.item = a.item]
  <2>1. p \in Payment /\ a.item \in Payment \cup {Nobody} /\ a.kind \in Kind
    BY DEF TypeOK
  <2>2. payment[p] \in Row
    BY <2>1, RowTypes
  <2>3. row \in Row /\ row.state = StateOf(p) /\ row.confirmed = payment[p].confirmed
    BY <2>1, <2>2 DEF Row, StateOf
  <2>4. Fits(a.kind, p)
    BY <1>6 DEF ApproveAction
  <2>5. CASE a.kind = "REVERSE"
    <3>1. /\ ledger' = ledger \cup {[kind |-> "reversal", payment |-> p, at |-> clock]}
          /\ kes' = kes \cup {<<p, "REVERSAL">>}
          /\ Moves(p, [payment[p] EXCEPT !.state = "REVERSED"])
      BY <1>6, <2>5 DEF ApproveAction, MovesTo
    <3>2. [payment[p] EXCEPT !.state = "REVERSED"] \in Row
      BY <2>2 DEF Row, State
    <3>3. /\ payment'[p] = [payment[p] EXCEPT !.state = "REVERSED"]
          /\ \A o \in Payment \ {p} : payment'[o] = payment[o]
      BY <2>1, <3>1, <3>2, MovesBooks
    <3>4. payment'[p].state = "REVERSED" /\ payment'[p].confirmed = payment[p].confirmed
      BY <2>2, <3>3 DEF Row
    <3>5. StateOf(p) = "CONFIRMED"
      BY <2>4, <2>5 DEF Fits
    <3>6. GivenBack(p)
      BY <3>1, <3>3, <3>4, <3>5 DEF GivenBack, Alone, StateOf
    <3> QED BY <2>1, <3>6
  <2>6. CASE a.kind = "RESOLVE_CONFIRMED"
    <3>1. Confirm(p, row, FALSE)
      BY <1>6, <2>6 DEF ApproveAction
    <3>2. StateOf(p) \in CouldBecomeMoney \ InProgress
      BY <2>4, <2>6 DEF Fits, CouldBecomeMoney, InProgress
    <3> HIDE DEF p, row
    <3>3. Held(p) \/ Credited(p)
      BY <2>1, <2>3, <3>1, <3>2, ConfirmBooks
    <3> QED BY <2>1, <3>2, <3>3 DEF Held
  <2>7. CASE a.kind = "BIND_RECEIPT"
    <3>1. Moves(p, row) /\ UNCHANGED <<ledger, kes>>
      BY <1>6, <2>7 DEF ApproveAction
    <3> HIDE DEF p, row
    <3> QED BY <2>1, <2>3, <3>1, MovesQuiet DEF AllQuiet
  <2>8. CASE a.kind = "RESOLVE_FAILED"
    <3>1. MovesTo(p, "FAILED") /\ UNCHANGED <<ledger, kes>>
      BY <1>6, <2>8 DEF ApproveAction
    <3>2. ~payment[p].confirmed
      BY <2>4, <2>8 DEF Fits, FundsReceived
    <3> HIDE DEF p, row
    <3> QED BY <2>1, <3>1, <3>2, MovesToQuiet DEF State, AllQuiet
  <2> QED BY <2>1, <2>5, <2>6, <2>7, <2>8 DEF Kind
<1>7. CASE ExpireStale
  BY <1>7, SweepQuiet DEF ExpireStale, AllQuiet
<1>8. CASE \/ Elapse \/ UNCHANGED vars
           \/ \E p \in Payment :
                \/ Push(p) \/ Die(p) \/ Query(p) \/ Pay(p)
                \/ \E s \in Staff : \/ \E referenced \in BOOLEAN : RecordItem(s, p, referenced)
                                    \/ \E kind \in Kind : RequestAction(s, p, kind)
  <2>1. UNCHANGED <<payment, ledger, kes>>
    BY <1>8 DEF Elapse, vars, Push, Die, Query, Pay, RecordItem, RequestAction
  <2> QED BY <2>1, StillQuiet DEF AllQuiet
<1> QED BY <1>1, <1>2, <1>3, <1>4, <1>5, <1>6, <1>7, <1>8 DEF Next

\* What has been posted for a payment before and after each kind of step.
LEMMA Postings ==
    ASSUME TypeOK, NEW p \in Payment, NEW q \in Payment, NEW kind \in {"deposit", "reversal"}
    PROVE  /\ UNCHANGED ledger => (Posted(kind, q)' <=> Posted(kind, q))
           /\ Credit(p) => (Posted(kind, q)' <=> Posted(kind, q) \/ (kind = "deposit" /\ q = p))
           /\ GivenBack(p) => (Posted(kind, q)' <=> Posted(kind, q) \/ (kind = "reversal" /\ q = p))
<1>1. UNCHANGED ledger => (Posted(kind, q)' <=> Posted(kind, q))
  BY DEF Posted
<1>2. ASSUME Credit(p)
      PROVE  Posted(kind, q)' <=> Posted(kind, q) \/ (kind = "deposit" /\ q = p)
  <2> DEFINE x == [kind |-> "deposit", payment |-> p, at |-> clock]
  <2>1. x.kind = "deposit" /\ x.payment = p
    OBVIOUS
  <2>2. IF Posted("deposit", p) THEN ledger' = ledger ELSE ledger' = ledger \cup {x}
    BY <1>2 DEF Credit
  <2> HIDE DEF x
  <2> QED BY <2>1, <2>2 DEF Posted
<1>3. ASSUME GivenBack(p)
      PROVE  Posted(kind, q)' <=> Posted(kind, q) \/ (kind = "reversal" /\ q = p)
  <2> DEFINE x == [kind |-> "reversal", payment |-> p, at |-> clock]
  <2>1. x.kind = "reversal" /\ x.payment = p
    OBVIOUS
  <2>2. ledger' = ledger \cup {x}
    BY <1>3 DEF GivenBack
  <2> HIDE DEF x
  <2> QED BY <2>1, <2>2 DEF Posted
<1> QED BY <1>1, <1>2, <1>3

LEMMA BooksInit == Init => BooksFollowState
BY DEF Init, BooksFollowState, Posted, StateOf

\* The books keep following the states.
LEMMA BooksNext == TypeOK /\ BooksFollowState /\ [Next]_vars => BooksFollowState'
<1> SUFFICES ASSUME TypeOK, BooksFollowState, [Next]_vars PROVE BooksFollowState'
  OBVIOUS
<1> DEFINE Follows(q) ==
        /\ Posted("deposit", q) <=> StateOf(q) \in {"CONFIRMED", "REVERSED"}
        /\ Posted("reversal", q) <=> StateOf(q) = "REVERSED"
        /\ <<q, "RECEIPT">> \in kes <=> payment[q].confirmed
        /\ <<q, "REVERSAL">> \in kes <=> StateOf(q) = "REVERSED"
        /\ payment[q].confirmed => StateOf(q) \in {"MANUAL_REVIEW", "CONFIRMED", "REVERSED"}
        /\ StateOf(q) \in {"CONFIRMED", "REVERSED"} => payment[q].confirmed
      Once == \A x, y \in ledger : x.kind = y.kind /\ x.payment = y.payment => x = y
<1>1. \A q \in Payment : Follows(q)
  BY DEF BooksFollowState
<1>2. Once
  BY DEF BooksFollowState
<1>3. ASSUME AllQuiet PROVE (\A q \in Payment : Follows(q)') /\ Once'
  <2>1. Once'
    BY <1>2, <1>3 DEF AllQuiet
  <2>2. ASSUME NEW q \in Payment PROVE Follows(q)'
    <3>1. /\ Posted("deposit", q)' <=> Posted("deposit", q)
          /\ Posted("reversal", q)' <=> Posted("reversal", q)
      BY <1>3 DEF AllQuiet, Posted
    <3>2. Follows(q) /\ Quiet(q) /\ UNCHANGED kes
      BY <1>1, <1>3 DEF AllQuiet
    <3> QED BY <3>1, <3>2 DEF Quiet, StateOf, InProgress, CouldBecomeMoney
  <2> QED BY <2>1, <2>2
<1>4. ASSUME NEW p \in Payment, Held(p) PROVE (\A q \in Payment : Follows(q)') /\ Once'
  <2>1. Once'
    BY <1>2, <1>4 DEF Held
  <2>2. ASSUME NEW q \in Payment PROVE Follows(q)'
    <3>1. /\ Posted("deposit", q)' <=> Posted("deposit", q)
          /\ Posted("reversal", q)' <=> Posted("reversal", q)
      BY <1>4 DEF Held, Posted
    <3>2. Follows(q)
      BY <1>1
    <3>3. CASE q = p
      BY <1>4, <3>1, <3>2, <3>3 DEF Held, Received, StateOf, InProgress
    <3>4. CASE q # p
      BY <1>4, <3>1, <3>2, <3>4 DEF Held, Received, Alone, StateOf
    <3> QED BY <3>3, <3>4
  <2> QED BY <2>1, <2>2
<1>5. ASSUME NEW p \in Payment, Credited(p) PROVE (\A q \in Payment : Follows(q)') /\ Once'
  <2>1. Once'
    BY <1>2, <1>5 DEF Credited, Credit, Posted
  <2>2. ASSUME NEW q \in Payment PROVE Follows(q)'
    <3>1. /\ Posted("deposit", q)' <=> Posted("deposit", q) \/ q = p
          /\ Posted("reversal", q)' <=> Posted("reversal", q)
      BY <1>5, Postings DEF Credited
    <3>2. Follows(q)
      BY <1>1
    <3>3. CASE q = p
      BY <1>5, <3>1, <3>2, <3>3 DEF Credited, Received, StateOf, InProgress, CouldBecomeMoney
    <3>4. CASE q # p
      BY <1>5, <3>1, <3>2, <3>4 DEF Credited, Received, Alone, StateOf
    <3> QED BY <3>3, <3>4
  <2> QED BY <2>1, <2>2
<1>6. ASSUME NEW p \in Payment, GivenBack(p) PROVE (\A q \in Payment : Follows(q)') /\ Once'
  <2>1. ~Posted("reversal", p)
    BY <1>1, <1>6 DEF GivenBack
  <2>2. Once'
    BY <1>2, <1>6, <2>1 DEF GivenBack, Posted
  <2>3. ASSUME NEW q \in Payment PROVE Follows(q)'
    <3>1. /\ Posted("deposit", q)' <=> Posted("deposit", q)
          /\ Posted("reversal", q)' <=> Posted("reversal", q) \/ q = p
      BY <1>6, Postings
    <3>2. Follows(q)
      BY <1>1
    <3>3. CASE q = p
      BY <1>6, <3>1, <3>2, <3>3 DEF GivenBack, StateOf
    <3>4. CASE q # p
      BY <1>6, <3>1, <3>2, <3>4 DEF GivenBack, Alone, StateOf
    <3> QED BY <3>3, <3>4
  <2> QED BY <2>2, <2>3
<1>7. (\A q \in Payment : Follows(q)') /\ Once'
  <2> HIDE DEF Follows, Once
  <2> QED BY <1>3, <1>4, <1>5, <1>6, StepBooks
<1> QED BY <1>7 DEF BooksFollowState

-----------------------------------------------------------------------------
(* Deposits is implemented *)

Usd(p) == Cardinality({x \in ledger : x.payment = p /\ x.kind = "deposit"})
          - Cardinality({x \in ledger : x.payment = p /\ x.kind = "reversal"})
Cash(p) == Cardinality({x \in kes : x = <<p, "RECEIPT">>}) - Cardinality({x \in kes : x = <<p, "REVERSAL">>})

\* The entries of a kind for a payment are one or none, as posted.
LEMMA OneEntry ==
    ASSUME BooksFollowState, NEW p \in Payment, NEW kind
    PROVE  Cardinality({x \in ledger : x.payment = p /\ x.kind = kind}) = IF Posted(kind, p) THEN 1 ELSE 0
<1>1. CASE Posted(kind, p)
  <2>1. PICK x \in ledger : x.kind = kind /\ x.payment = p
    BY <1>1 DEF Posted
  <2>2. {y \in ledger : y.payment = p /\ y.kind = kind} = {x}
    BY <2>1 DEF BooksFollowState
  <2> QED BY <1>1, <2>2, FS_Singleton
<1>2. CASE ~Posted(kind, p)
  <2>1. {y \in ledger : y.payment = p /\ y.kind = kind} = {}
    BY <1>2 DEF Posted
  <2> QED BY <1>2, <2>1, FS_EmptySet
<1> QED BY <1>1, <1>2

LEMMA OneReceipt == ASSUME NEW e PROVE Cardinality({x \in kes : x = e}) = IF e \in kes THEN 1 ELSE 0
<1>1. CASE e \in kes
  <2>1. {x \in kes : x = e} = {e}
    BY <1>1
  <2> QED BY <1>1, <2>1, FS_Singleton
<1>2. CASE e \notin kes
  <2>1. {x \in kes : x = e} = {}
    BY <1>2
  <2> QED BY <1>2, <2>1, FS_EmptySet
<1> QED BY <1>1, <1>2

\* The balance and the cash book, read off the payment's row.
Amounts == \A p \in Payment :
    /\ Usd(p) = IF StateOf(p) = "CONFIRMED" THEN 1 ELSE 0
    /\ Cash(p) = IF payment[p].confirmed /\ StateOf(p) # "REVERSED" THEN 1 ELSE 0
    /\ payment[p].confirmed => StateOf(p) \in {"MANUAL_REVIEW", "CONFIRMED", "REVERSED"}
    /\ StateOf(p) \in State

LEMMA AmountsFollow == TypeOK /\ BooksFollowState => Amounts
<1> SUFFICES ASSUME TypeOK, BooksFollowState, NEW p \in Payment
             PROVE  /\ Usd(p) = IF StateOf(p) = "CONFIRMED" THEN 1 ELSE 0
                    /\ Cash(p) = IF payment[p].confirmed /\ StateOf(p) # "REVERSED" THEN 1 ELSE 0
                    /\ payment[p].confirmed => StateOf(p) \in {"MANUAL_REVIEW", "CONFIRMED", "REVERSED"}
                    /\ StateOf(p) \in State
  BY DEF Amounts
<1>1. /\ Posted("deposit", p) <=> StateOf(p) \in {"CONFIRMED", "REVERSED"}
      /\ Posted("reversal", p) <=> StateOf(p) = "REVERSED"
      /\ <<p, "RECEIPT">> \in kes <=> payment[p].confirmed
      /\ <<p, "REVERSAL">> \in kes <=> StateOf(p) = "REVERSED"
      /\ payment[p].confirmed => StateOf(p) \in {"MANUAL_REVIEW", "CONFIRMED", "REVERSED"}
      /\ StateOf(p) \in {"CONFIRMED", "REVERSED"} => payment[p].confirmed
  BY DEF BooksFollowState
<1>2. Usd(p) = (IF Posted("deposit", p) THEN 1 ELSE 0) - (IF Posted("reversal", p) THEN 1 ELSE 0)
  BY OneEntry DEF Usd
<1>3. Cash(p) = (IF <<p, "RECEIPT">> \in kes THEN 1 ELSE 0) - (IF <<p, "REVERSAL">> \in kes THEN 1 ELSE 0)
  BY OneReceipt DEF Cash
<1>4. StateOf(p) \in State
  BY DEF TypeOK, Row, StateOf
<1> QED BY <1>1, <1>2, <1>3, <1>4

\* One payment's part of a step of Deposits, in the terms of the code.
Turns(p, s, u, c) == Status(p)' = s /\ Usd(p)' = u /\ Cash(p)' = c
PromisedStep(p) ==
    \/ Turns(p, Status(p), Usd(p), Cash(p))
    \/ Status(p) = "none" /\ Turns(p, "open", 0, 0)
    \/ Status(p) \in {"open", "failed"} /\ Turns(p, "review", Usd(p), Cash(p))
    \/ Status(p) = "open" /\ Turns(p, "review", 0, 1)
    \/ Status(p) \in {"open", "review"} /\ Cash(p) = 0 /\ Turns(p, "failed", 0, 0)
    \/ Status(p) \in {"open", "review"} /\ Turns(p, "credited", 1, 1)
    \/ Status(p) = "credited" /\ Turns(p, "reversed", 0, 0)

LEMMA PromisedIsPromise == (\A p \in Payment : PromisedStep(p)) => Promise!Next
<1> SUFFICES ASSUME NEW p \in Payment, PromisedStep(p)
             PROVE  \/ Promise!Stay(p) \/ Promise!Begin(p) \/ Promise!Refer(p) \/ Promise!Suspend(p)
                    \/ Promise!Decline(p) \/ Promise!Confirm(p) \/ Promise!Reverse(p)
  BY DEF Promise!Next
<1>1. ASSUME NEW s, NEW u, NEW c, Turns(p, s, u, c) PROVE Promise!Becomes(p, s, u, c)
  BY <1>1 DEF Turns, Usd, Cash, Promise!Becomes
<1> QED BY <1>1 DEF PromisedStep, Usd, Cash, Promise!Stay, Promise!Begin, Promise!Refer, Promise!Suspend,
                    Promise!Decline, Promise!Confirm, Promise!Reverse

\* What a payment's own step does is a step of Deposits for it.
LEMMA StepPromised ==
    ASSUME TypeOK, BooksFollowState, [Next]_vars, Amounts, Amounts', NEW p \in Payment
    PROVE  PromisedStep(p)
<1> DEFINE s == StateOf(p)
           t == payment'[p].state
           c == payment[p].confirmed
           d == payment'[p].confirmed
<1>1. /\ Usd(p) = IF s = "CONFIRMED" THEN 1 ELSE 0
      /\ Cash(p) = IF c /\ s # "REVERSED" THEN 1 ELSE 0
      /\ c => s \in {"MANUAL_REVIEW", "CONFIRMED", "REVERSED"}
      /\ s \in State
  BY DEF Amounts
<1>2. /\ Usd(p)' = IF t = "CONFIRMED" THEN 1 ELSE 0
      /\ Cash(p)' = IF d /\ t # "REVERSED" THEN 1 ELSE 0
      /\ t \in State
  BY DEF Amounts, StateOf
<1>3. /\ s = "NONE" <=> Status(p) = "none"
      /\ s \in InProgress <=> Status(p) = "open"
      /\ s \in {"MANUAL_REVIEW", "EXPIRED"} <=> Status(p) = "review"
      /\ s = "CONFIRMED" <=> Status(p) = "credited"
      /\ s \in {"FAILED", "REJECTED"} <=> Status(p) = "failed"
      /\ s = "REVERSED" <=> Status(p) = "reversed"
  BY <1>1 DEF Status, State, InProgress
<1>4. /\ t = "NONE" <=> Status(p)' = "none"
      /\ t \in InProgress <=> Status(p)' = "open"
      /\ t \in {"MANUAL_REVIEW", "EXPIRED"} <=> Status(p)' = "review"
      /\ t = "CONFIRMED" <=> Status(p)' = "credited"
      /\ t \in {"FAILED", "REJECTED"} <=> Status(p)' = "failed"
      /\ t = "REVERSED" <=> Status(p)' = "reversed"
  BY <1>2 DEF Status, StateOf, State, InProgress
<1> HIDE DEF s, t, c, d
<1>5. /\ payment[p].confirmed = c /\ payment'[p].confirmed = d
      /\ StateOf(p) = s /\ payment'[p].state = t
  BY DEF s, t, c, d
<1>6. \/ /\ d = c
         /\ \/ t = s
            \/ s = "NONE" /\ t = "INITIATING"
            \/ s \in InProgress /\ t \in InProgress \cup {"MANUAL_REVIEW", "EXPIRED", "REJECTED"}
            \/ s \in CouldBecomeMoney /\ t = "FAILED" /\ ~c
            \/ s \in {"EXPIRED", "FAILED"} /\ t = "MANUAL_REVIEW"
            \/ s = "CONFIRMED" /\ t = "REVERSED"
      \/ d /\ s \in InProgress /\ t = "MANUAL_REVIEW"
      \/ d /\ s \in CouldBecomeMoney /\ t = "CONFIRMED"
  <2>1. CASE AllQuiet
    BY <2>1, <1>5 DEF AllQuiet, Quiet
  <2>2. ASSUME NEW q \in Payment, Held(q) \/ Credited(q) \/ GivenBack(q), q = p
        PROVE  <1>6
    BY <2>2, <1>5 DEF Held, Credited, GivenBack, Received
  <2>3. ASSUME NEW q \in Payment, Held(q) \/ Credited(q) \/ GivenBack(q), q # p
        PROVE  <1>6
    BY <2>3, <1>5 DEF Held, Credited, GivenBack, Received, Alone
  <2> QED BY <2>1, <2>2, <2>3, StepBooks
<1>7. Status(p) \in {"none", "open", "review", "credited", "failed", "reversed"}
  BY <1>1, <1>3 DEF State, InProgress
<1>8. Status(p)' \in {"none", "open", "review", "credited", "failed", "reversed"}
  BY <1>2, <1>4 DEF State, InProgress
<1> QED BY <1>1, <1>2, <1>3, <1>4, <1>6, <1>7, <1>8 DEF PromisedStep, Turns, InProgress, CouldBecomeMoney

\* The payment state machine, its ledger and its cash book implement Deposits:
\* credits and cash move only with the state of their payment, each once, money
\* received is never declared failed, and nothing is credited twice or after a reversal.
THEOREM FundingKeepsPromise == Spec => KeepsPromise
<1> DEFINE Inv == TypeOK /\ BooksFollowState
<1>1. Init => Inv
  BY TypeInit, BooksInit
<1>2. Inv /\ [Next]_vars => Inv'
  BY TypeNext, BooksNext
<1>3. Init => Promise!Init
  <2> SUFFICES ASSUME Init PROVE Promise!Init
    OBVIOUS
  <2>1. Amounts
    BY <1>1, AmountsFollow
  <2>2. \A p \in Payment : StateOf(p) = "NONE" /\ ~payment[p].confirmed
    BY DEF Init, StateOf
  <2>3. \A p \in Payment : Usd(p) = 0 /\ Cash(p) = 0 /\ Status(p) = "none"
    BY <2>1, <2>2 DEF Amounts, Status, InProgress
  <2> QED BY <2>3 DEF Promise!Init, Usd, Cash
<1>4. Inv => Amounts
  BY AmountsFollow
<1>5. Inv /\ Inv' /\ Amounts /\ Amounts' /\ [Next]_vars => [Promise!Next]_(Promise!depositVars)
  BY StepPromised, PromisedIsPromise
<1> HIDE DEF Inv
<1> QED BY <1>1, <1>2, <1>3, <1>4, <1>5, PTL DEF Spec, KeepsPromise, Promise!Spec

-----------------------------------------------------------------------------
(* The credits of 24 hours *)

RecentOf(q) == {o \in Payment : owner[o] = owner[q] /\ Recent(o)}

LEMMA RecentFinite ==
    ASSUME NEW S \in SUBSET Payment, NEW T \in SUBSET S
    PROVE  IsFiniteSet(S) /\ Cardinality(T) \in Nat /\ Cardinality(T) <= Cardinality(S)
BY PaymentAssumption, FS_Subset, FS_CardinalityType

LEMMA LimitInit == Init => CreditsWithinLimit
<1> SUFFICES ASSUME Init, NEW p \in Payment
             PROVE  Cardinality({o \in Payment : owner[o] = owner[p] /\ Recent(o)}) <= MaxDeposits
  BY DEF CreditsWithinLimit
<1>1. {o \in Payment : owner[o] = owner[p] /\ Recent(o)} = {}
  BY DEF Init, Recent
<1> QED BY <1>1, FS_EmptySet, BoundsAssumption

\* Credits only ever leave the window as time passes.
LEMMA WindowMoves == ASSUME TypeOK, Elapse, NEW p \in Payment, Recent(p)' PROVE Recent(p)
<1>0. clock' = clock + 1 /\ ledger' = ledger
  BY DEF Elapse
<1>1. PICK x \in ledger' : x.kind = "deposit" /\ x.payment = p /\ x.at > clock' - Day
  BY DEF Recent
<1>2. x \in ledger /\ x.at \in Nat /\ clock \in Nat /\ Day \in Nat
  <2>1. x \in [kind : {"deposit", "reversal"}, payment : Payment, at : 0..clock]
    BY <1>0, <1>1 DEF TypeOK
  <2> QED BY <1>0, <1>1, <2>1, BoundsAssumption DEF TypeOK
<1>3. x.at > clock - Day
  BY <1>0, <1>1, <1>2
<1> QED BY <1>1, <1>2, <1>3 DEF Recent

\* A step that is not a credit adds nobody to the window.
LEMMA NoNewCredit ==
    ASSUME TypeOK, UNCHANGED clock, AllQuiet \/ \E p \in Payment : Held(p) \/ GivenBack(p), NEW q \in Payment, Recent(q)'
    PROVE  Recent(q)
<1>1. PICK x \in ledger' : x.kind = "deposit" /\ x.payment = q /\ x.at > clock - Day
  BY DEF Recent
<1>2. CASE AllQuiet
  BY <1>1, <1>2 DEF AllQuiet, Recent
<1>3. ASSUME NEW p \in Payment, Held(p) PROVE Recent(q)
  BY <1>1, <1>3 DEF Held, Recent
<1>4. ASSUME NEW p \in Payment, GivenBack(p) PROVE Recent(q)
  BY <1>1, <1>4 DEF GivenBack, Recent
<1> QED BY <1>2, <1>3, <1>4

\* A credit within the limit leaves the customer's credits within it.
LEMMA CreditFits ==
    ASSUME TypeOK, CreditsWithinLimit, UNCHANGED <<clock, owner>>, NEW p \in Payment, Credited(p)
    PROVE  CreditsWithinLimit'
<1> SUFFICES ASSUME NEW q \in Payment PROVE Cardinality(RecentOf(q)') <= MaxDeposits
  BY DEF CreditsWithinLimit, RecentOf
<1> DEFINE Others == {o \in Payment \ {p} : owner[o] = owner[p] /\ Recent(o)}
<1>1. \A o \in Payment \ {p} : Recent(o)' => Recent(o)
  <2> SUFFICES ASSUME NEW o \in Payment \ {p}, Recent(o)' PROVE Recent(o)
    OBVIOUS
  <2>1. PICK x \in ledger' : x.kind = "deposit" /\ x.payment = o /\ x.at > clock - Day
    BY DEF Recent
  <2>2. x \in ledger
    BY <2>1 DEF Credited, Credit
  <2> QED BY <2>1, <2>2 DEF Recent
<1>2. Cardinality(Others) + 1 <= MaxDeposits
  <2>1. Others = {o \in Payment \ {p} : /\ owner[o] = owner[p]
                                        /\ Recent(o) \/ (FALSE /\ o \in OpenDeposits)}
    OBVIOUS
  <2>2. ~(Cardinality(Others) + 1 > MaxDeposits)
    BY <2>1 DEF Credited, LimitRefused
  <2>3. Cardinality(Others) \in Nat
    BY RecentFinite
  <2> QED BY <2>2, <2>3, BoundsAssumption
<1>3. CASE owner[q] = owner[p]
  <2>1. RecentOf(q)' \subseteq Others \cup {p}
    BY <1>1, <1>3 DEF RecentOf
  <2>2. IsFiniteSet(Others) /\ Others \cup {p} \subseteq Payment
    BY RecentFinite
  <2>3. Cardinality(Others \cup {p}) = Cardinality(Others) + 1
    BY <2>2, FS_AddElement
  <2>4. Cardinality(RecentOf(q)') <= Cardinality(Others \cup {p}) /\ Cardinality(RecentOf(q)') \in Nat
    <3> DEFINE S == Others \cup {p}
               T == RecentOf(q)'
    <3>1. S \in SUBSET Payment /\ T \in SUBSET S
      BY <2>1, <2>2
    <3> HIDE DEF S, T
    <3> QED BY <3>1, RecentFinite DEF S, T
  <2>5. Cardinality(Others) \in Nat
    BY <2>2, FS_CardinalityType
  <2> HIDE DEF Others
  <2> QED BY <1>2, <2>3, <2>4, <2>5, BoundsAssumption
<1>4. CASE owner[q] # owner[p]
  <2>1. RecentOf(q)' \in SUBSET RecentOf(q) /\ RecentOf(q) \in SUBSET Payment
    BY <1>1, <1>4 DEF RecentOf
  <2>2. Cardinality(RecentOf(q)) <= MaxDeposits
    BY DEF CreditsWithinLimit, RecentOf
  <2> DEFINE S == RecentOf(q)
             T == RecentOf(q)'
  <2> HIDE DEF S, T
  <2>3. Cardinality(T) \in Nat /\ Cardinality(T) <= Cardinality(S) /\ Cardinality(S) \in Nat
    BY <2>1, RecentFinite DEF S, T
  <2> QED BY <2>2, <2>3, BoundsAssumption DEF S, T
<1> QED BY <1>3, <1>4

\* Customers are fixed, and the clock moves only when time passes.
LEMMA OnlyTimePasses == ASSUME [Next]_vars PROVE Elapse \/ UNCHANGED <<clock, owner>>
<1>1. ASSUME NEW p \in Payment, Begin(p) \/ Push(p) \/ Die(p) \/ RecordInitiation(p) \/ Query(p)
                                \/ RecordUnresolved(p) \/ Pay(p)
      PROVE  UNCHANGED <<clock, owner>>
  BY <1>1 DEF Begin, Push, Die, RecordInitiation, Query, RecordUnresolved, Pay
<1>2. ASSUME NEW p \in Payment, NEW checkout \in Payment, NEW code \in Code, NEW agrees \in BOOLEAN,
             Callback(p, checkout, code, agrees)
      PROVE  UNCHANGED <<clock, owner>>
  BY <1>2 DEF Callback
<1>3. ASSUME NEW p \in Payment, NEW code \in Code, RecordStatus(p, code) PROVE UNCHANGED <<clock, owner>>
  BY <1>3 DEF RecordStatus
<1>4. ASSUME NEW s \in Staff, NEW p \in Payment,
             \/ \E referenced \in BOOLEAN : RecordItem(s, p, referenced)
             \/ \E kind \in Kind : RequestAction(s, p, kind)
      PROVE  UNCHANGED <<clock, owner>>
  BY <1>4 DEF RecordItem, RequestAction
<1>5. ASSUME NEW s \in Staff, NEW a \in actions, ApproveAction(s, a) PROVE UNCHANGED <<clock, owner>>
  BY <1>5 DEF ApproveAction
<1>6. CASE ExpireStale \/ UNCHANGED vars
  BY <1>6 DEF ExpireStale, vars
<1> QED BY <1>1, <1>2, <1>3, <1>4, <1>5, <1>6 DEF Next

LEMMA LimitNext ==
    TypeOK /\ BooksFollowState /\ CreditsWithinLimit /\ [Next]_vars => CreditsWithinLimit'
<1> SUFFICES ASSUME TypeOK, BooksFollowState, CreditsWithinLimit, [Next]_vars PROVE CreditsWithinLimit'
  OBVIOUS
<1> USE DEF staffVars, provider
<1>1. UNCHANGED owner
  BY OnlyTimePasses DEF Elapse
<1>2. Elapse \/ UNCHANGED clock
  BY OnlyTimePasses
<1>3. CASE \A q \in Payment : Recent(q)' => Recent(q)
  <2> SUFFICES ASSUME NEW q \in Payment PROVE Cardinality(RecentOf(q)') <= MaxDeposits
    BY DEF CreditsWithinLimit, RecentOf
  <2>1. RecentOf(q)' \in SUBSET RecentOf(q) /\ RecentOf(q) \in SUBSET Payment
    BY <1>1, <1>3 DEF RecentOf
  <2>2. Cardinality(RecentOf(q)) <= MaxDeposits
    BY DEF CreditsWithinLimit, RecentOf
  <2> DEFINE S == RecentOf(q)
             T == RecentOf(q)'
  <2> HIDE DEF S, T
  <2>3. Cardinality(T) \in Nat /\ Cardinality(T) <= Cardinality(S) /\ Cardinality(S) \in Nat
    BY <2>1, RecentFinite DEF S, T
  <2> QED BY <2>2, <2>3, BoundsAssumption DEF S, T
<1>4. CASE Elapse
  BY <1>3, <1>4, WindowMoves
<1>5. CASE UNCHANGED clock
  <2>1. CASE \E p \in Payment : Credited(p)
    BY <1>1, <1>5, <2>1, CreditFits
  <2>2. CASE AllQuiet \/ \E p \in Payment : Held(p) \/ GivenBack(p)
    BY <1>3, <1>5, <2>2, NoNewCredit
  <2> QED BY <2>1, <2>2, StepBooks
<1> QED BY <1>2, <1>4, <1>5

-----------------------------------------------------------------------------
(* The evidence behind a credit *)

ItemsStay == \A q \in Payment : payment'[q].item = payment[q].item

\* A legal move binds a statement line only if its row does.
LEMMA MovesItem ==
    ASSUME TypeOK, NEW p \in Payment, NEW row \in Row, Moves(p, row), row.item = payment[p].item
    PROVE  ItemsStay
BY MovesBooks DEF ItemsStay

LEMMA MovesToItem == ASSUME TypeOK, NEW p \in Payment, NEW s \in State, MovesTo(p, s) PROVE ItemsStay
<1> DEFINE row == [payment[p] EXCEPT !.state = s]
<1>1. payment[p] \in Row
  BY RowTypes
<1>2. row \in Row /\ row.item = payment[p].item
  BY <1>1 DEF Row
<1>3. Moves(p, row)
  BY DEF MovesTo
<1> HIDE DEF row
<1> QED BY <1>2, <1>3, MovesItem

LEMMA ConfirmItem ==
    ASSUME TypeOK, NEW p \in Payment, NEW hold \in BOOLEAN, NEW row \in Row, Confirm(p, row, hold)
    PROVE  payment'[p].item = row.item /\ \A o \in Payment \ {p} : payment'[o].item = payment[o].item
<1> DEFINE held == [row EXCEPT !.confirmed = TRUE, !.state = "MANUAL_REVIEW"]
           good == [row EXCEPT !.confirmed = TRUE, !.state = "CONFIRMED"]
<1>1. Moves(p, held) \/ Moves(p, good)
  BY DEF Confirm
<1>2. held \in Row /\ good \in Row /\ held.item = row.item /\ good.item = row.item
  BY DEF Row, State, InProgress
<1> HIDE DEF held, good
<1> QED BY <1>1, <1>2, MovesBooks

\* Only an owner's decision binds a statement line to a payment.
LEMMA OnlyDecisionsBind ==
    ASSUME TypeOK, [Next]_vars, \A s \in Staff, a \in actions : ~ApproveAction(s, a)
    PROVE  ItemsStay
<1> USE DEF staffVars, provider
<1>1. ASSUME NEW p \in Payment, Begin(p) PROVE ItemsStay
  <2>1. payment[p] \in Row
    BY RowTypes
  <2>2. payment'[p].item = payment[p].item /\ \A o \in Payment \ {p} : payment'[o] = payment[o]
    BY <1>1, <2>1 DEF Begin, TypeOK, Row
  <2> QED BY <2>2 DEF ItemsStay
<1>2. ASSUME NEW p \in Payment, RecordInitiation(p) PROVE ItemsStay
  <2> DEFINE row == [payment[p] EXCEPT !.checkout = p,
                                       !.state = IF @ = "INITIATING" THEN "PENDING" ELSE @]
  <2>1. CASE edge[p] = "ACCEPTED"
    <3>1. payment[p] \in Row
      BY RowTypes
    <3>2. row \in Row /\ row.item = payment[p].item
      BY <3>1 DEF Row, State, InProgress
    <3>3. Moves(p, row)
      BY <1>2, <2>1 DEF RecordInitiation
    <3> HIDE DEF row
    <3> QED BY <3>2, <3>3, MovesItem
  <2>2. CASE edge[p] # "ACCEPTED"
    <3>1. MovesTo(p, "REJECTED") \/ MovesTo(p, "UNKNOWN") \/ UNCHANGED payment
      BY <1>2, <2>2 DEF RecordInitiation
    <3> QED BY <3>1, MovesToItem DEF State, InProgress, ItemsStay
  <2> QED BY <2>1, <2>2
<1>3. ASSUME NEW p \in Payment, NEW checkout \in Payment, NEW code \in Code, NEW agrees \in BOOLEAN,
             Callback(p, checkout, code, agrees)
      PROVE  ItemsStay
  <2> DEFINE row  == [payment[p] EXCEPT !.checkout = CheckoutAfter(p, checkout)]
             seen == [row EXCEPT !.state = "MANUAL_REVIEW"]
             told == [row EXCEPT !.state = "VERIFYING", !.claim = code]
  <2>0. payment[p] \in Row
    BY RowTypes
  <2>1. \A r \in {row, seen, told} : r \in Row /\ r.item = payment[p].item
    BY <2>0 DEF Row, State, InProgress, CheckoutAfter
  <2>2. \/ Moves(p, row) \/ Moves(p, seen) \/ Moves(p, told)
        \/ MovesTo(p, "MANUAL_REVIEW") \/ UNCHANGED payment
    BY <1>3 DEF Callback
  <2> HIDE DEF row, seen, told
  <2> QED BY <2>1, <2>2, MovesItem, MovesToItem DEF State, ItemsStay
<1>4. ASSUME NEW p \in Payment, NEW code \in Code, RecordStatus(p, code) PROVE ItemsStay
  <2>1. \/ Confirm(p, payment[p], TRUE)
        \/ MovesTo(p, "MANUAL_REVIEW") \/ MovesTo(p, "FAILED") \/ UNCHANGED payment
    BY <1>4 DEF RecordStatus
  <2>2. payment[p] \in Row
    BY RowTypes
  <2> QED BY <2>1, <2>2, ConfirmItem, MovesToItem DEF State, ItemsStay
<1>5. ASSUME NEW p \in Payment, RecordUnresolved(p) PROVE ItemsStay
  BY <1>5, MovesToItem DEF RecordUnresolved, State
<1>6. ASSUME ExpireStale PROVE ItemsStay
  <2>1. PICK found \in SUBSET {p \in Payment : Swept(p) # StateOf(p)} :
          payment' = [p \in Payment |-> IF p \in found THEN [payment[p] EXCEPT !.state = Swept(p)] ELSE payment[p]]
    BY <1>6 DEF ExpireStale
  <2>2. \A p \in Payment : payment[p] \in Row
    BY RowTypes
  <2> QED BY <2>1, <2>2 DEF Row, ItemsStay
<1>7. CASE \/ Elapse \/ UNCHANGED vars
           \/ \E p \in Payment :
                \/ Push(p) \/ Die(p) \/ Query(p) \/ Pay(p)
                \/ \E s \in Staff : \/ \E referenced \in BOOLEAN : RecordItem(s, p, referenced)
                                    \/ \E kind \in Kind : RequestAction(s, p, kind)
  BY <1>7 DEF Elapse, vars, Push, Die, Query, Pay, RecordItem, RequestAction, ItemsStay
<1> QED BY <1>1, <1>2, <1>3, <1>4, <1>5, <1>6, <1>7 DEF Next

LEMMA CreditEntry ==
    ASSUME NEW p, NEW row, NEW hold, Confirm(p, row, hold), NEW x \in ledger', x \notin ledger
    PROVE  x.payment = p
<1>1. x = [kind |-> "deposit", payment |-> p, at |-> clock]
  BY DEF Confirm, Credit
<1> QED BY <1>1

\* A deposit is posted by a status answer or by an owner's decision.
LEMMA DepositOrigin ==
    ASSUME TypeOK, [Next]_vars, NEW p \in Payment, Posted("deposit", p)', ~Posted("deposit", p)
    PROVE  \/ RecordStatus(p, "ok")
           \/ \E s \in Staff, a \in actions : ApproveAction(s, a) /\ a.payment = p /\ a.kind = "RESOLVE_CONFIRMED"
<1> USE DEF staffVars, provider
<1>1. PICK x \in ledger' : x.kind = "deposit" /\ x.payment = p /\ x \notin ledger
  BY DEF Posted
<1>2. ASSUME NEW q \in Payment, NEW code \in Code, RecordStatus(q, code)
      PROVE  RecordStatus(p, "ok")
  <2>1. code = "ok" /\ Confirm(q, payment[q], TRUE)
    BY <1>1, <1>2 DEF RecordStatus
  <2>2. q = p
    BY <1>1, <2>1, CreditEntry
  <2> QED BY <1>2, <2>1, <2>2
<1>3. ASSUME NEW s \in Staff, NEW a \in actions, ApproveAction(s, a)
      PROVE  a.payment = p /\ a.kind = "RESOLVE_CONFIRMED"
  <2>1. a.kind \in Kind
    BY DEF TypeOK
  <2>2. CASE a.kind = "RESOLVE_CONFIRMED"
    <3>1. Confirm(a.payment, [payment[a.payment] EXCEPT !.item = a.item], FALSE)
      BY <1>3, <2>2 DEF ApproveAction
    <3> QED BY <1>1, <2>2, <3>1, CreditEntry
  <2>3. CASE a.kind = "REVERSE"
    BY <1>1, <1>3, <2>3 DEF ApproveAction
  <2>4. CASE a.kind \in {"BIND_RECEIPT", "RESOLVE_FAILED"}
    BY <1>1, <1>3, <2>4 DEF ApproveAction
  <2> QED BY <2>1, <2>2, <2>3, <2>4 DEF Kind
<1>4. ASSUME NEW q \in Payment, \/ Begin(q) \/ Push(q) \/ Die(q) \/ RecordInitiation(q)
                                \/ Query(q) \/ RecordUnresolved(q) \/ Pay(q)
      PROVE  FALSE
  <2>1. UNCHANGED ledger
    BY <1>4 DEF Begin, Push, Die, RecordInitiation, Query, RecordUnresolved, Pay
  <2> QED BY <1>1, <2>1
<1>5. ASSUME NEW q \in Payment, NEW checkout \in Payment, NEW code \in Code, NEW agrees \in BOOLEAN,
             Callback(q, checkout, code, agrees)
      PROVE  FALSE
  BY <1>1, <1>5 DEF Callback
<1>6. ASSUME NEW s \in Staff, NEW q \in Payment,
             \/ \E referenced \in BOOLEAN : RecordItem(s, q, referenced)
             \/ \E kind \in Kind : RequestAction(s, q, kind)
      PROVE  FALSE
  BY <1>1, <1>6 DEF RecordItem, RequestAction
<1>7. CASE Elapse \/ ExpireStale \/ UNCHANGED vars
  BY <1>1, <1>7 DEF Elapse, ExpireStale, vars
<1> QED BY <1>2, <1>3, <1>4, <1>5, <1>6, <1>7 DEF Next

\* Payments, statement lines and decisions are never undone.
LEMMA NothingUndone ==
    ASSUME TypeOK, [Next]_vars
    PROVE  /\ \A q \in Payment : paid[q] # Never => paid'[q] # Never
           /\ items \subseteq items'
           /\ \A a \in actions : a.approver # Nobody => a \in actions'
<1> USE DEF staffVars, provider
<1>1. ASSUME NEW p \in Payment, \/ Begin(p) \/ Push(p) \/ Die(p) \/ RecordInitiation(p)
                                \/ Query(p) \/ RecordUnresolved(p)
      PROVE  UNCHANGED <<paid, items, actions>>
  BY <1>1 DEF Begin, Push, Die, RecordInitiation, Query, RecordUnresolved
<1>2. ASSUME NEW p \in Payment, Pay(p) PROVE UNCHANGED <<items, actions>> /\ paid[p] = Never
  BY <1>2 DEF Pay
<1>3. ASSUME NEW p \in Payment, Pay(p) PROVE \A q \in Payment \ {p} : paid'[q] = paid[q]
  BY <1>3 DEF Pay, TypeOK
<1>4. ASSUME NEW p \in Payment, NEW checkout \in Payment, NEW code \in Code, NEW agrees \in BOOLEAN,
             Callback(p, checkout, code, agrees)
      PROVE  UNCHANGED <<paid, items, actions>>
  BY <1>4 DEF Callback
<1>5. ASSUME NEW p \in Payment, NEW code \in Code, RecordStatus(p, code) PROVE UNCHANGED <<paid, items, actions>>
  BY <1>5 DEF RecordStatus
<1>6. ASSUME NEW s \in Staff, NEW p \in Payment, NEW referenced \in BOOLEAN, RecordItem(s, p, referenced)
      PROVE  UNCHANGED <<paid, actions>> /\ items \subseteq items'
  BY <1>6 DEF RecordItem
<1>7. ASSUME NEW s \in Staff, NEW p \in Payment, NEW kind \in Kind, RequestAction(s, p, kind)
      PROVE  UNCHANGED <<paid, items>> /\ actions \subseteq actions'
  BY <1>7 DEF RequestAction
<1>8. ASSUME NEW s \in Staff, NEW a \in actions, ApproveAction(s, a)
      PROVE  UNCHANGED <<paid, items>> /\ a.approver = Nobody /\ actions \ {a} \subseteq actions'
  BY <1>8 DEF ApproveAction
<1>9. CASE Elapse \/ ExpireStale \/ UNCHANGED vars
  BY <1>9 DEF Elapse, ExpireStale, vars
<1> QED BY <1>1, <1>2, <1>3, <1>4, <1>5, <1>6, <1>7, <1>8, <1>9 DEF Next

\* A decision that cites a line binds it, to one payment that had none.
LEMMA DecisionBinds ==
    ASSUME TypeOK, NEW s \in Staff, NEW a \in actions, ApproveAction(s, a)
    PROVE  /\ \A o \in Payment \ {a.payment} : payment'[o].item = payment[o].item
           /\ Cites(a.kind) => /\ payment'[a.payment].item = a.item
                               /\ \E i \in items : i.of = a.item /\ Binds(a.payment, i) /\ i.by # s
           /\ ~Cites(a.kind) => payment'[a.payment].item = payment[a.payment].item
<1> DEFINE p   == a.payment
           row == [payment[p] EXCEPT !.item = a.item]
<1>1. p \in Payment /\ a.item \in Payment \cup {Nobody} /\ a.kind \in Kind
  BY DEF TypeOK
<1>2. payment[p] \in Row
  BY <1>1, RowTypes
<1>3. row \in Row /\ row.item = a.item
  BY <1>1, <1>2 DEF Row
<1>4. CASE a.kind = "RESOLVE_CONFIRMED"
  <2>1. Confirm(p, row, FALSE) /\ Cites(a.kind)
    BY <1>4 DEF ApproveAction, Cites
  <2>2. \E i \in items : i.of = a.item /\ Binds(p, i) /\ i.by # s
    BY <2>1 DEF ApproveAction, Evidence
  <2> HIDE DEF row
  <2>3. payment'[p].item = a.item /\ \A o \in Payment \ {p} : payment'[o].item = payment[o].item
    BY <1>1, <1>3, <2>1, ConfirmItem
  <2> QED BY <2>1, <2>2, <2>3
<1>5. CASE a.kind = "BIND_RECEIPT"
  <2>1. Moves(p, row) /\ Cites(a.kind)
    BY <1>5 DEF ApproveAction, Cites
  <2>2. \E i \in items : i.of = a.item /\ Binds(p, i) /\ i.by # s
    BY <2>1 DEF ApproveAction, Evidence
  <2> HIDE DEF row
  <2>3. payment'[p].item = a.item /\ \A o \in Payment \ {p} : payment'[o].item = payment[o].item
    BY <1>1, <1>3, <2>1, MovesBooks
  <2> QED BY <2>1, <2>2, <2>3
<1>6. CASE a.kind \in {"REVERSE", "RESOLVE_FAILED"}
  <2>1. (MovesTo(p, "REVERSED") \/ MovesTo(p, "FAILED")) /\ ~Cites(a.kind)
    BY <1>6 DEF ApproveAction, Cites
  <2> HIDE DEF p, row
  <2>2. ItemsStay
    BY <1>1, <2>1, MovesToItem DEF State
  <2> QED BY <1>1, <2>1, <2>2 DEF ItemsStay, p
<1> QED BY <1>1, <1>4, <1>5, <1>6 DEF Kind

LEMMA EvidenceInit == Init => EvidenceIsSound
BY DEF Init, EvidenceIsSound, Posted

\* Status answers and statement lines stay true, and no line is bound twice.
LEMMA EvidenceNext == TypeOK /\ EvidenceIsSound /\ [Next]_vars => EvidenceIsSound'
<1> SUFFICES ASSUME TypeOK, EvidenceIsSound, [Next]_vars PROVE EvidenceIsSound'
  OBVIOUS
<1> USE DEF staffVars, provider
<1>1. ASSUME NEW p \in Payment, <<p, "ok">> \in answers' PROVE paid'[p] # Never
  <2>1. CASE <<p, "ok">> \in answers
    BY <2>1, NothingUndone DEF EvidenceIsSound
  <2>2. CASE <<p, "ok">> \notin answers
    <3>1. PICK q \in Payment : Query(q)
      <4>1. ASSUME NEW q \in Payment, \/ Begin(q) \/ Push(q) \/ Die(q) \/ RecordInitiation(q)
                                      \/ RecordUnresolved(q) \/ Pay(q)
            PROVE  FALSE
        BY <1>1, <2>2, <4>1 DEF Begin, Push, Die, RecordInitiation, RecordUnresolved, Pay
      <4>2. ASSUME NEW q \in Payment, NEW checkout \in Payment, NEW code \in Code, NEW agrees \in BOOLEAN,
                   Callback(q, checkout, code, agrees) \/ RecordStatus(q, code)
            PROVE  FALSE
        BY <1>1, <2>2, <4>2 DEF Callback, RecordStatus
      <4>3. ASSUME NEW s \in Staff, NEW q \in Payment,
                   \/ \E referenced \in BOOLEAN : RecordItem(s, q, referenced)
                   \/ \E kind \in Kind : RequestAction(s, q, kind)
            PROVE  FALSE
        BY <1>1, <2>2, <4>3 DEF RecordItem, RequestAction
      <4>4. ASSUME NEW s \in Staff, NEW a \in actions, ApproveAction(s, a) PROVE FALSE
        BY <1>1, <2>2, <4>4 DEF ApproveAction
      <4>5. ~(Elapse \/ ExpireStale \/ UNCHANGED vars)
        BY <1>1, <2>2 DEF Elapse, ExpireStale, vars
      <4> QED BY <4>1, <4>2, <4>3, <4>4, <4>5 DEF Next
    <3>2. <<p, "ok">> = <<q, IF paid[payment[q].checkout] = Never THEN "fail" ELSE "ok">>
      BY <1>1, <2>2, <3>1 DEF Query
    <3>3. p = q /\ paid[payment[p].checkout] # Never
      BY <3>2
    <3>4. payment[p].checkout = p
      BY <3>1, <3>3, RowTypes DEF Query, Queried
    <3> QED BY <3>3, <3>4, NothingUndone
  <2> QED BY <2>1, <2>2
<1>2. items' = items \/ \E s \in Staff, p \in Payment, referenced \in BOOLEAN : RecordItem(s, p, referenced)
  <2>1. ASSUME NEW q \in Payment, \/ Begin(q) \/ Push(q) \/ Die(q) \/ RecordInitiation(q) \/ Query(q)
                                  \/ RecordUnresolved(q) \/ Pay(q)
        PROVE  items' = items
    BY <2>1 DEF Begin, Push, Die, RecordInitiation, Query, RecordUnresolved, Pay
  <2>2. ASSUME NEW q \in Payment, NEW checkout \in Payment, NEW code \in Code, NEW agrees \in BOOLEAN,
               Callback(q, checkout, code, agrees)
        PROVE  items' = items
    BY <2>2 DEF Callback
  <2>3. ASSUME NEW s \in Staff, NEW q \in Payment, NEW kind \in Kind, RequestAction(s, q, kind) PROVE items' = items
    BY <2>3 DEF RequestAction
  <2>4. ASSUME NEW s \in Staff, NEW a \in actions, ApproveAction(s, a) PROVE items' = items
    BY <2>4 DEF ApproveAction
  <2>5. CASE Elapse \/ ExpireStale \/ UNCHANGED vars
    BY <2>5 DEF Elapse, ExpireStale, vars
  <2>6. ASSUME NEW q \in Payment, NEW code \in Code, RecordStatus(q, code) PROVE items' = items
    BY <2>6 DEF RecordStatus
  <2> QED BY <2>1, <2>2, <2>3, <2>4, <2>5, <2>6 DEF Next
<1>3. (\A i \in items' : paid'[i.of] # Never) /\ \A i, j \in items' : i.of = j.of => i = j
  <2>1. CASE items' = items
    <3>1. \A i \in items : i.of \in Payment /\ paid[i.of] # Never
      BY DEF TypeOK, EvidenceIsSound
    <3>2. \A i, j \in items : i.of = j.of => i = j
      BY DEF EvidenceIsSound
    <3> QED BY <2>1, <3>1, <3>2, NothingUndone
  <2>2. ASSUME NEW s \in Staff, NEW p \in Payment, NEW referenced \in BOOLEAN, RecordItem(s, p, referenced)
        PROVE  (\A i \in items' : paid'[i.of] # Never) /\ \A i, j \in items' : i.of = j.of => i = j
    <3> DEFINE new == [of |-> p, referenced |-> referenced, by |-> s]
    <3>1. /\ items' = items \cup {new} /\ new.of = p
          /\ paid' = paid /\ paid[p] # Never /\ ~\E i \in items : i.of = p
      BY <2>2 DEF RecordItem
    <3>2. (\A i \in items : paid[i.of] # Never) /\ \A i, j \in items : i.of = j.of => i = j
      BY DEF EvidenceIsSound
    <3> HIDE DEF new
    <3> QED BY <3>1, <3>2
  <2> QED BY <1>2, <2>1, <2>2
<1>4. \A a \in actions' : Cites(a.kind) => \E i \in items' : i.of = a.item /\ i.by # a.requester
  <2>1. \A a \in actions : Cites(a.kind) => \E i \in items : i.of = a.item /\ i.by # a.requester
    BY DEF EvidenceIsSound
  <2>2. items \subseteq items'
    BY NothingUndone
  <2>3. ASSUME NEW s \in Staff, NEW p \in Payment, NEW kind \in Kind, RequestAction(s, p, kind)
        PROVE  \A a \in actions' \ actions : Cites(a.kind) => \E i \in items : i.of = a.item /\ i.by # a.requester
    <3> SUFFICES ASSUME NEW a \in actions' \ actions, Cites(a.kind)
                 PROVE  \E i \in items : i.of = a.item /\ i.by # a.requester
      OBVIOUS
    <3>1. PICK item \in Payment \cup {Nobody} :
            /\ IF Cites(kind) THEN \E i \in items : i.of = item /\ Binds(p, i) /\ i.by # s ELSE item = Nobody
            /\ a = [payment |-> p, kind |-> kind, item |-> item, requester |-> s, approver |-> Nobody]
      BY <2>3 DEF RequestAction
    <3>2. a.kind = kind /\ a.item = item /\ a.requester = s
      BY <3>1
    <3> QED BY <3>1, <3>2
  <2>4. ASSUME NEW s \in Staff, NEW b \in actions, ApproveAction(s, b)
        PROVE  \A a \in actions' \ actions : Cites(a.kind) => \E i \in items : i.of = a.item /\ i.by # a.requester
    <3> SUFFICES ASSUME NEW a \in actions' \ actions, Cites(a.kind)
                 PROVE  \E i \in items : i.of = a.item /\ i.by # a.requester
      OBVIOUS
    <3>1. a = [b EXCEPT !.approver = s]
      BY <2>4 DEF ApproveAction
    <3>2. a.kind = b.kind /\ a.item = b.item /\ a.requester = b.requester
      BY <3>1 DEF TypeOK
    <3> QED BY <2>1, <3>2
  <2>5. \/ actions' = actions
        \/ \E s \in Staff, p \in Payment, kind \in Kind : RequestAction(s, p, kind)
        \/ \E s \in Staff, b \in actions : ApproveAction(s, b)
    <3>1. ASSUME NEW q \in Payment, \/ Begin(q) \/ Push(q) \/ Die(q) \/ RecordInitiation(q) \/ Query(q)
                                    \/ RecordUnresolved(q) \/ Pay(q)
          PROVE  actions' = actions
      BY <3>1 DEF Begin, Push, Die, RecordInitiation, Query, RecordUnresolved, Pay
    <3>2. ASSUME NEW q \in Payment, NEW checkout \in Payment, NEW code \in Code, NEW agrees \in BOOLEAN,
                 Callback(q, checkout, code, agrees)
          PROVE  actions' = actions
      BY <3>2 DEF Callback
    <3>3. ASSUME NEW q \in Payment, NEW code \in Code, RecordStatus(q, code) PROVE actions' = actions
      BY <3>3 DEF RecordStatus
    <3>4. ASSUME NEW s \in Staff, NEW q \in Payment, NEW referenced \in BOOLEAN, RecordItem(s, q, referenced)
          PROVE  actions' = actions
      BY <3>4 DEF RecordItem
    <3>5. CASE Elapse \/ ExpireStale \/ UNCHANGED vars
      BY <3>5 DEF Elapse, ExpireStale, vars
    <3> QED BY <3>1, <3>2, <3>3, <3>4, <3>5 DEF Next
  <2> QED BY <2>1, <2>2, <2>3, <2>4, <2>5
<1>5. \A p, o \in Payment : payment'[p].item # Nobody /\ payment'[o].item = payment'[p].item => o = p
  <2>1. \A p, o \in Payment : payment[p].item # Nobody /\ payment[o].item = payment[p].item => o = p
    BY DEF EvidenceIsSound
  <2>2. ASSUME NEW s \in Staff, NEW a \in actions, ApproveAction(s, a) PROVE <1>5
    <3>1. CASE Cites(a.kind)
      <4>1. \A o \in Payment \ {a.payment} : payment'[o].item = payment[o].item /\ payment[o].item # a.item
        BY <2>2, <3>1, DecisionBinds DEF Binds
      <4>2. payment'[a.payment].item = a.item
        BY <2>2, <3>1, DecisionBinds
      <4> QED BY <2>1, <4>1, <4>2
    <3>2. CASE ~Cites(a.kind)
      BY <2>1, <2>2, <3>2, DecisionBinds
    <3> QED BY <3>1, <3>2
  <2>3. CASE ItemsStay
    BY <2>1, <2>3 DEF ItemsStay
  <2> QED BY <2>2, <2>3, OnlyDecisionsBind
<1>6. ASSUME NEW p \in Payment, Posted("deposit", p)' PROVE paid'[p] # Never \/ Vouched(p)'
  <2>1. CASE Posted("deposit", p) /\ paid[p] # Never
    BY <2>1, NothingUndone
  <2>2. CASE Posted("deposit", p) /\ paid[p] = Never
    <3>1. PICK i \in items, a \in actions :
            /\ a.payment = p /\ a.kind = "RESOLVE_CONFIRMED" /\ a.item = i.of /\ payment[p].item = i.of
            /\ a.requester # i.by /\ a.approver \notin {Nobody, i.by, a.requester}
      BY <2>2 DEF EvidenceIsSound, Vouched
    <3>2. i \in items' /\ a \in actions'
      BY <3>1, NothingUndone
    <3>3. payment[p].item # Nobody
      BY <3>1, NobodyAssumption DEF TypeOK
    <3>4. payment'[p].item = payment[p].item
      <4>1. ASSUME NEW s \in Staff, NEW b \in actions, ApproveAction(s, b) PROVE payment'[p].item = payment[p].item
        <5>1. CASE b.payment # p
          BY <4>1, <5>1, DecisionBinds
        <5>2. CASE b.payment = p
          BY <3>3, <4>1, <5>2, DecisionBinds DEF Binds
        <5> QED BY <5>1, <5>2
      <4> QED BY <4>1, OnlyDecisionsBind DEF ItemsStay
    <3> QED BY <3>1, <3>2, <3>4 DEF Vouched
  <2>3. CASE ~Posted("deposit", p)
    <3>1. CASE RecordStatus(p, "ok")
      BY <3>1, NothingUndone DEF RecordStatus, EvidenceIsSound
    <3>2. ASSUME NEW s \in Staff, NEW a \in actions, ApproveAction(s, a), a.payment = p, a.kind = "RESOLVE_CONFIRMED"
          PROVE  Vouched(p)'
      <4>1. PICK i \in items : i.of = a.item /\ i.by # s
        BY <3>2, DecisionBinds DEF Cites
      <4>2. PICK j \in items : j.of = a.item /\ j.by # a.requester
        BY <3>2 DEF EvidenceIsSound, Cites
      <4>3. i = j
        BY <4>1, <4>2 DEF EvidenceIsSound
      <4>4. payment'[p].item = a.item /\ s # a.requester /\ s # Nobody
        BY <3>2, DecisionBinds, NobodyAssumption DEF Cites, ApproveAction
      <4> DEFINE b == [a EXCEPT !.approver = s]
      <4>5. /\ b \in actions' /\ b.payment = p /\ b.kind = "RESOLVE_CONFIRMED" /\ b.item = a.item
            /\ b.requester = a.requester /\ b.approver = s
        BY <3>2 DEF ApproveAction, TypeOK
      <4>6. i \in items'
        BY NothingUndone
      <4> HIDE DEF b
      <4> QED BY <4>1, <4>2, <4>3, <4>4, <4>5, <4>6 DEF Vouched
    <3> QED BY <1>6, <2>3, <3>1, <3>2, DepositOrigin
  <2> QED BY <2>1, <2>2, <2>3
<1> QED BY <1>1, <1>3, <1>4, <1>5, <1>6 DEF EvidenceIsSound

-----------------------------------------------------------------------------
(* The theorems *)

\* Types, books that follow the states, sound evidence and the limit together are
\* inductive, for every number of payments, customers and owners.
THEOREM FundingInductive == Spec => []IInv
<1>1. Init => IInv
  BY TypeInit, BooksInit, EvidenceInit, LimitInit DEF IInv
<1>2. IInv /\ [Next]_vars => IInv'
  BY TypeNext, BooksNext, EvidenceNext, LimitNext DEF IInv
<1> QED BY <1>1, <1>2, PTL DEF Spec

LEMMA ThreeDiffer ==
    ASSUME NEW x, NEW y, NEW z, x # y, x # z, y # z
    PROVE  Cardinality({x, y, z}) = 3
<1>1. IsFiniteSet({x}) /\ Cardinality({x}) = 1
  BY FS_Singleton
<1>2. IsFiniteSet({x} \cup {y})
  BY <1>1, FS_AddElement
<1>3. Cardinality({x} \cup {y}) = 2
  BY <1>1, FS_AddElement
<1>4. Cardinality(({x} \cup {y}) \cup {z}) = Cardinality({x} \cup {y}) + 1
  BY <1>2, FS_AddElement
<1>5. ({x} \cup {y}) \cup {z} = {x, y, z}
  OBVIOUS
<1> QED BY <1>3, <1>4, <1>5

\* Three different owners stand behind a credit the provider has not vouched for.
LEMMA SoundIsProven == TypeOK /\ EvidenceIsSound => CreditIsProven
<1> SUFFICES ASSUME TypeOK, EvidenceIsSound, NEW p \in Payment, Posted("deposit", p), paid[p] = Never
             PROVE  \E i \in items, a \in actions :
                      /\ a.payment = p /\ a.kind = "RESOLVE_CONFIRMED" /\ a.item = i.of /\ paid[i.of] # Never
                      /\ Cardinality({i.by, a.requester, a.approver} \ {Nobody}) = 3
                      /\ \A o \in Payment \ {p} : payment[o].item # i.of
  BY DEF CreditIsProven
<1>1. PICK i \in items, a \in actions :
        /\ a.payment = p /\ a.kind = "RESOLVE_CONFIRMED" /\ a.item = i.of /\ payment[p].item = i.of
        /\ a.requester # i.by /\ a.approver \notin {Nobody, i.by, a.requester}
  BY DEF EvidenceIsSound, Vouched
<1>2. i.of \in Payment /\ i.by \in Staff /\ a.requester \in Staff
  BY DEF TypeOK
<1>3. paid[i.of] # Never
  BY DEF EvidenceIsSound
<1>4. {i.by, a.requester, a.approver} \ {Nobody} = {i.by, a.requester, a.approver}
  BY <1>1, <1>2, NobodyAssumption
<1>5. Cardinality({i.by, a.requester, a.approver}) = 3
  <2>1. i.by # a.requester /\ i.by # a.approver /\ a.requester # a.approver
    BY <1>1
  <2> QED BY <2>1, ThreeDiffer
<1>6. \A o \in Payment \ {p} : payment[o].item # i.of
  BY <1>1, <1>2, NobodyAssumption DEF EvidenceIsSound
<1> QED BY <1>1, <1>3, <1>4, <1>5, <1>6


\* No credit without proof: the provider has the money of the payment's own push, or
\* three different owners stand behind a statement line credited to no other payment.
THEOREM FundingCreditIsProven == Spec => []CreditIsProven
<1>1. IInv => CreditIsProven
  BY SoundIsProven DEF IInv
<1> QED BY <1>1, FundingInductive, PTL

\* The credits of a customer within 24 hours stay within the limit, in whatever
\* order payments are resolved, late answers included.
THEOREM FundingCreditsWithinLimit == Spec => []CreditsWithinLimit
<1>1. IInv => CreditsWithinLimit
  BY DEF IInv
<1> QED BY <1>1, FundingInductive, PTL
=============================================================================
