------------------------------ MODULE Funding -------------------------------
(***************************************************************************)
(* M-Pesa sandbox deposits: the payment state machine in the database, the *)
(* Edge Functions that drive it, the provider and the owners.              *)
(*                                                                         *)
(* Every RPC locks the payment row first and runs in one transaction, so   *)
(* it is one step; what can happen between two RPCs (the push, its answer, *)
(* a status query and its answer) is in the state.  Deposits are of one    *)
(* size, so an amount counts deposits.                                     *)
(***************************************************************************)
EXTENDS Integers, FiniteSets, TLC

CONSTANTS
    Payment,       \* deposit requests: quote, idempotency key, push and checkout id
    Staff,         \* owners
    Customer,      \* customers
    Nobody,        \* no payment, no member of staff
    Abandon,       \* the 2 minutes of an initiation
    Day,           \* 24 hours
    MaxDeposits,   \* max_deposits_rolling_24h
    MaxItems,      \* bound: statement lines recorded
    MaxCallbacks,  \* bound: distinct callbacks
    MaxActions,    \* bound: decisions requested
    MaxClock       \* bound

ASSUME NobodyAssumption == Nobody \notin Payment /\ Nobody \notin Staff
ASSUME PaymentAssumption == IsFiniteSet(Payment)
ASSUME BoundsAssumption ==
    /\ {Abandon, Day, MaxDeposits, MaxItems, MaxCallbacks, MaxActions, MaxClock} \subseteq Nat
    /\ Abandon <= Day

Never == -1
Code == {"ok", "fail"}                      \* result code 0, any other

VARIABLES
    clock,
    owner,      \* the customer of each payment (rigid)
    payment,    \* funding.payments
    ledger,     \* funding.usd_ledger_transactions
    kes,        \* funding.kes_clearing_entries
    events,     \* callback rows of funding.provider_events
    items,      \* funding.provider_statement_items
    actions,    \* funding.staff_actions
    edge,       \* where the funding-deposit function of each payment is
    paid,       \* when the customer paid, if ever; the provider's truth
    prompted,   \* payments whose push reached the provider
    answers     \* final status answers on their way to the database

vars == <<clock, owner, payment, ledger, kes, events, items, actions,
          edge, paid, prompted, answers>>
staffVars == <<items, actions>>
provider == <<paid, prompted>>

Init ==
    /\ clock = 0
    /\ owner \in [Payment -> Customer]
    /\ payment = [p \in Payment |-> [state |-> "NONE", created |-> 0, checkout |-> Nobody,
                                     claim |-> "none", confirmed |-> FALSE, item |-> Nobody]]
    /\ ledger = {} /\ kes = {} /\ events = {} /\ items = {} /\ actions = {}
    /\ edge = [p \in Payment |-> "idle"]
    /\ paid = [p \in Payment |-> Never]
    /\ prompted = {} /\ answers = {}

-----------------------------------------------------------------------------
(* The state machine *)

State == {"NONE", "INITIATING", "PENDING", "UNKNOWN", "VERIFYING", "CONFIRMED",
          "FAILED", "REJECTED", "EXPIRED", "MANUAL_REVIEW", "REVERSED"}
InProgress == {"INITIATING", "PENDING", "UNKNOWN", "VERIFYING"}
CouldBecomeMoney == InProgress \cup {"MANUAL_REVIEW", "EXPIRED"}

Allowed(from) ==
    CASE from = "INITIATING"    -> {"PENDING", "REJECTED", "UNKNOWN", "VERIFYING", "MANUAL_REVIEW"}
      [] from = "PENDING"       -> {"VERIFYING", "CONFIRMED", "FAILED", "MANUAL_REVIEW"}
      [] from = "UNKNOWN"       -> {"VERIFYING", "EXPIRED", "MANUAL_REVIEW"}
      [] from = "VERIFYING"     -> {"CONFIRMED", "FAILED", "MANUAL_REVIEW"}
      [] from = "EXPIRED"       -> {"MANUAL_REVIEW", "CONFIRMED", "FAILED"}
      [] from = "MANUAL_REVIEW" -> {"CONFIRMED", "FAILED"}
      [] from = "FAILED"        -> {"MANUAL_REVIEW"}
      [] from = "CONFIRMED"     -> {"REVERSED"}
      [] OTHER                  -> {}

StateOf(p) == payment[p].state

\* funding.transition: the same state is no change, another must be allowed.
Moves(p, row) ==
    /\ row.state = StateOf(p) \/ row.state \in Allowed(StateOf(p))
    /\ payment' = [payment EXCEPT ![p] = row]
MovesTo(p, to) == Moves(p, [payment[p] EXCEPT !.state = to])

Posted(kind, p) == \E x \in ledger : x.kind = kind /\ x.payment = p
Recent(p) == \E x \in ledger : x.kind = "deposit" /\ x.payment = p /\ x.at > clock - Day
OpenDeposits == {p \in Payment : ~Posted("deposit", p) /\ StateOf(p) \in CouldBecomeMoney}

\* Mutant: payments that could still be credited do not count at the start,
\* and nothing is counted again at the credit.
LimitRefusedAtStart(p, includeOpen) ==
    includeOpen /\ Cardinality({o \in Payment \ {p} : owner[o] = owner[p] /\ Recent(o)}) + 1 > MaxDeposits

\* limit_refusal: the customer's deposits of 24 hours, with this one.  All
\* deposits being of one size, the limit on their sum is one on their number.
LimitRefused(p, includeOpen) ==
    Cardinality({o \in Payment \ {p} : /\ owner[o] = owner[p]
                                       /\ Recent(o) \/ (includeOpen /\ o \in OpenDeposits)}) + 1 > MaxDeposits

Credit(p) ==
    ledger' = ledger \cup {x \in {[kind |-> "deposit", payment |-> p, at |-> clock]} : ~Posted("deposit", p)}

\* confirm_and_credit: money is received; the limits and the coverage decide
\* whether it is credited or, from a status answer, held for review.  The
\* treasury coverage depends on a reserve and a rate kept elsewhere: it may
\* refuse at any time.
Confirm(p, row, hold) ==
    /\ kes' = kes \cup {<<p, "RECEIPT">>}
    /\ \E covered \in BOOLEAN :
       IF LimitRefused(p, FALSE) \/ ~covered
       THEN hold /\ Moves(p, [row EXCEPT !.confirmed = TRUE, !.state = "MANUAL_REVIEW"]) /\ UNCHANGED ledger
       ELSE Moves(p, [row EXCEPT !.confirmed = TRUE, !.state = "CONFIRMED"]) /\ Credit(p)

-----------------------------------------------------------------------------
(* funding-deposit: begin, push, record the initiation *)

Busy(p) == \E o \in Payment : owner[o] = owner[p] /\ StateOf(o) \in InProgress

\* A retry under the same key finds its payment and pushes nothing.  Quote,
\* access and coverage refusals leave no row: the request may not begin.
Begin(p) ==
    /\ StateOf(p) = "NONE" /\ ~Busy(p)
    /\ ~LimitRefused(p, TRUE)
    /\ payment' = [payment EXCEPT ![p].state = "INITIATING", ![p].created = clock]
    /\ edge' = [edge EXCEPT ![p] = "begun"]
    /\ UNCHANGED <<clock, owner, ledger, kes, events, staffVars, provider, answers>>

Outcome == {"ACCEPTED", "REJECTED", "AMBIGUOUS"}

\* A push that timed out may or may not have reached the customer.
Push(p) ==
    /\ edge[p] = "begun"
    /\ \E outcome \in Outcome, reached \in BOOLEAN :
         /\ outcome = "ACCEPTED" => reached
         /\ outcome = "REJECTED" => ~reached
         /\ prompted' = IF reached THEN prompted \cup {p} ELSE prompted
         /\ edge' = [edge EXCEPT ![p] = outcome]
    /\ UNCHANGED <<clock, owner, payment, ledger, kes, events, staffVars, paid, answers>>

Die(p) ==
    /\ edge[p] \in {"begun"} \cup Outcome
    /\ edge' = [edge EXCEPT ![p] = "done"]
    /\ UNCHANGED <<clock, owner, payment, ledger, kes, events, staffVars, provider, answers>>

\* An accepted push binds its checkout in any state; the other outcomes
\* matter only while nothing else has happened.
RecordInitiation(p) ==
    /\ edge[p] \in Outcome
    /\ edge' = [edge EXCEPT ![p] = "done"]
    /\ CASE edge[p] = "ACCEPTED" ->
              Moves(p, [payment[p] EXCEPT !.checkout = p,
                                          !.state = IF @ = "INITIATING" THEN "PENDING" ELSE @])
         [] edge[p] = "REJECTED" /\ StateOf(p) = "INITIATING" -> MovesTo(p, "REJECTED")
         [] edge[p] = "AMBIGUOUS" /\ StateOf(p) = "INITIATING" -> MovesTo(p, "UNKNOWN")
         [] OTHER -> UNCHANGED payment
    /\ UNCHANGED <<clock, owner, ledger, kes, events, staffVars, provider, answers>>

-----------------------------------------------------------------------------
(* daraja-callback: an untrusted notification *)

\* Mutant: the checkout a callback claims is taken for one that is not known.
CheckoutClaimed(p, checkout) == IF payment[p].checkout = Nobody THEN checkout ELSE payment[p].checkout
\* It never supplies the checkout.
CheckoutAfter(p, checkout) == payment[p].checkout

\* dedupe_key: a replay, or the same claim under another payment's token, is
\* counted and nothing else.
Seen(checkout, code) == \E e \in events : e.checkout = checkout /\ e.code = code

\* The payment's token and a checkout id are known only after the pushes.
\* agrees: the amount is the one due and the receipt is not another payment's.
Callback(p, checkout, code, agrees) ==
    LET row == [payment[p] EXCEPT !.checkout = CheckoutAfter(p, checkout)]
        first == ~Seen(checkout, code)
        applied == /\ payment[p].claim \in {"none", code}
                   /\ code = "ok" => agrees
    IN  /\ {p, checkout} \subseteq prompted
        /\ first => Cardinality(events) < MaxCallbacks
        /\ events' = IF first THEN events \cup {[payment |-> p, checkout |-> checkout, code |-> code]} ELSE events
        /\ CASE payment[p].checkout = Nobody ->
                  IF first /\ StateOf(p) \in {"INITIATING", "UNKNOWN", "EXPIRED"}
                  THEN Moves(p, [row EXCEPT !.state = "MANUAL_REVIEW"]) ELSE Moves(p, row)
             [] payment[p].checkout \notin {Nobody, checkout} ->
                  IF StateOf(p) \in InProgress THEN MovesTo(p, "MANUAL_REVIEW") ELSE UNCHANGED payment
             [] payment[p].checkout = checkout /\ first /\ StateOf(p) \in InProgress ->
                  IF applied THEN Moves(p, [row EXCEPT !.state = "VERIFYING", !.claim = code])
                             ELSE MovesTo(p, "MANUAL_REVIEW")
             [] payment[p].checkout = checkout /\ first /\ StateOf(p) = "FAILED" /\ code = "ok" ->
                  MovesTo(p, "MANUAL_REVIEW")
             [] OTHER -> UNCHANGED payment
        /\ UNCHANGED <<clock, owner, ledger, kes, staffVars, edge, provider, answers>>

-----------------------------------------------------------------------------
(* Status queries, from a callback or from the sweep of open payments *)

Queried(p) == StateOf(p) \in {"PENDING", "VERIFYING"} /\ payment[p].checkout # Nobody

Query(p) ==
    /\ Queried(p)
    /\ answers' = answers \cup {<<p, IF paid[payment[p].checkout] = Never THEN "fail" ELSE "ok">>}
    /\ UNCHANGED <<clock, owner, payment, ledger, kes, events, staffVars, edge, provider>>

\* funding_svc_record_status with a final result.
RecordStatus(p, code) ==
    LET conflict == payment[p].claim = (IF code = "ok" THEN "fail" ELSE "ok")
    IN  /\ <<p, code>> \in answers
        /\ answers' = answers \ {<<p, code>>}
        /\ \/ /\ ~Queried(p)
              /\ IF StateOf(p) = "FAILED" /\ code = "ok" THEN MovesTo(p, "MANUAL_REVIEW") ELSE UNCHANGED payment
              /\ UNCHANGED <<ledger, kes>>
           \/ /\ Queried(p) /\ conflict
              /\ MovesTo(p, "MANUAL_REVIEW")
              /\ UNCHANGED <<ledger, kes>>
           \/ /\ Queried(p) /\ ~conflict /\ code = "ok"
              /\ Confirm(p, payment[p], TRUE)
           \/ /\ Queried(p) /\ ~conflict /\ code = "fail"
              /\ MovesTo(p, "FAILED")
              /\ UNCHANGED <<ledger, kes>>
        /\ UNCHANGED <<clock, owner, events, staffVars, edge, provider>>

\* Still processing, or an error, after 24 hours.
RecordUnresolved(p) ==
    /\ Queried(p) /\ payment[p].created < clock - Day
    /\ MovesTo(p, "MANUAL_REVIEW")
    /\ UNCHANGED <<clock, owner, ledger, kes, events, staffVars, edge, provider, answers>>

\* Mutant: only abandoned initiations are looked for.
SweptAbandoned(p) ==
    IF StateOf(p) = "INITIATING" /\ payment[p].created < clock - Abandon THEN "UNKNOWN" ELSE StateOf(p)

\* The second loop of expire_stale sees what the first has changed.
Swept(p) ==
    CASE StateOf(p) \in {"INITIATING", "UNKNOWN"} /\ payment[p].created < clock - Day -> "EXPIRED"
      [] StateOf(p) = "INITIATING" /\ payment[p].created < clock - Abandon -> "UNKNOWN"
      [] OTHER -> StateOf(p)

\* expire_stale; rows locked by others are skipped.
ExpireStale ==
    /\ \E found \in SUBSET {p \in Payment : Swept(p) # StateOf(p)} :
         /\ found # {}
         /\ payment' = [p \in Payment |-> IF p \in found THEN [payment[p] EXCEPT !.state = Swept(p)]
                                          ELSE payment[p]]
    /\ UNCHANGED <<clock, owner, ledger, kes, events, staffVars, edge, provider, answers>>

-----------------------------------------------------------------------------
(* Owners: statement lines, two-person actions *)

\* A line of the statement: money the provider has, perhaps without the
\* account reference of its payment.  An item is named by the payment it is of.
RecordItem(s, p, referenced) ==
    /\ paid[p] # Never /\ ~\E i \in items : i.of = p
    /\ Cardinality(items) < MaxItems
    /\ items' = items \cup {[of |-> p, referenced |-> referenced, by |-> s]}
    /\ UNCHANGED <<clock, owner, payment, ledger, kes, events, actions, edge, provider, answers>>

\* statement_binding_refusal finds nothing.
Binds(p, i) ==
    /\ i.referenced => i.of = p
    /\ owner[i.of] = owner[p]
    /\ paid[i.of] \in payment[p].created .. payment[p].created + Day
    /\ payment[p].item = Nobody
    /\ ~\E o \in Payment \ {p} : payment[o].item = i.of

\* Mutant: the provider's confirmation is not looked at.
FundsUnseen(p) == FALSE
FundsReceived(p) == payment[p].confirmed

\* What a decision of each kind needs of the payment.
Fits(kind, p) ==
    CASE kind = "REVERSE"           -> StateOf(p) = "CONFIRMED"
      [] kind = "RESOLVE_CONFIRMED" -> StateOf(p) \in {"MANUAL_REVIEW", "EXPIRED"}
      [] kind = "BIND_RECEIPT"      -> StateOf(p) = "CONFIRMED"
      [] kind = "RESOLVE_FAILED"    -> StateOf(p) \in {"MANUAL_REVIEW", "EXPIRED"} /\ ~FundsReceived(p)

Cites(kind) == kind \in {"RESOLVE_CONFIRMED", "BIND_RECEIPT"}

\* Mutant: only the requester is kept from the statement line.
RecorderMayApprove(s, p, i) == Binds(p, i)
\* The line binds the payment and somebody else has recorded it.
Evidence(s, p, i) == Binds(p, i) /\ i.by # s

OpenAction(p) == \E a \in actions : a.payment = p /\ a.approver = Nobody

RequestAction(s, p, kind) ==
    /\ Fits(kind, p) /\ ~OpenAction(p) /\ Cardinality(actions) < MaxActions
    /\ \E item \in Payment \cup {Nobody} :
         /\ IF Cites(kind) THEN \E i \in items : i.of = item /\ Binds(p, i) /\ i.by # s ELSE item = Nobody
         /\ actions' = actions \cup {[payment |-> p, kind |-> kind, item |-> item,
                                      requester |-> s, approver |-> Nobody]}
    /\ UNCHANGED <<clock, owner, payment, ledger, kes, events, items, edge, provider, answers>>

\* Any refusal undoes the approval; the credit is not held here.
ApproveAction(s, a) ==
    LET p == a.payment
    IN  /\ a.approver = Nobody /\ s # a.requester
        /\ Fits(a.kind, p)
        /\ Cites(a.kind) => \E i \in items : i.of = a.item /\ Evidence(s, p, i)
        /\ actions' = (actions \ {a}) \cup {[a EXCEPT !.approver = s]}
        /\ CASE a.kind = "REVERSE" ->
                  /\ ledger' = ledger \cup {[kind |-> "reversal", payment |-> p, at |-> clock]}
                  /\ kes' = kes \cup {<<p, "REVERSAL">>}
                  /\ MovesTo(p, "REVERSED")
             [] a.kind = "RESOLVE_CONFIRMED" ->
                  Confirm(p, [payment[p] EXCEPT !.item = a.item], FALSE)
             [] a.kind = "BIND_RECEIPT" ->
                  Moves(p, [payment[p] EXCEPT !.item = a.item]) /\ UNCHANGED <<ledger, kes>>
             [] a.kind = "RESOLVE_FAILED" ->
                  MovesTo(p, "FAILED") /\ UNCHANGED <<ledger, kes>>
        /\ UNCHANGED <<clock, owner, events, items, edge, provider, answers>>

-----------------------------------------------------------------------------
(* The customer and time *)

Pay(p) ==
    /\ p \in prompted /\ paid[p] = Never
    /\ paid' = [paid EXCEPT ![p] = clock]
    /\ UNCHANGED <<clock, owner, payment, ledger, kes, events, staffVars, edge, prompted, answers>>

Elapse ==
    /\ clock < MaxClock
    /\ clock' = clock + 1
    /\ UNCHANGED <<owner, payment, ledger, kes, events, staffVars, edge, provider, answers>>

Kind == {"REVERSE", "RESOLVE_CONFIRMED", "BIND_RECEIPT", "RESOLVE_FAILED"}

Next ==
    \/ \E p \in Payment :
         \/ Begin(p) \/ Push(p) \/ Die(p) \/ RecordInitiation(p)
         \/ \E checkout \in Payment, code \in Code, agrees \in BOOLEAN : Callback(p, checkout, code, agrees)
         \/ Query(p) \/ (\E code \in Code : RecordStatus(p, code)) \/ RecordUnresolved(p)
         \/ Pay(p)
         \/ \E s \in Staff : \/ \E referenced \in BOOLEAN : RecordItem(s, p, referenced)
                             \/ \E kind \in Kind : RequestAction(s, p, kind)
    \/ \E s \in Staff, a \in actions : ApproveAction(s, a)
    \/ ExpireStale \/ Elapse

Spec == Init /\ [][Next]_vars

\* For model checking: owners are interchangeable, and so are payments.
ProcessSymmetry == Permutations(Staff) \cup Permutations(Payment)

\* Time passes; the sweep runs, finds stale rows and queries open payments,
\* and what a query answers is recorded.  Nobody has to pay, call back or decide.
Fairness ==
    /\ WF_vars(Elapse) /\ WF_vars(ExpireStale)
    /\ \A p \in Payment : WF_vars(RecordUnresolved(p) \/ \E code \in Code : RecordStatus(p, code))

FairSpec == Spec /\ Fairness

-----------------------------------------------------------------------------
(* Properties *)

Row == [state : State, created : Nat, checkout : Payment \cup {Nobody},
        claim : Code \cup {"none"}, confirmed : BOOLEAN, item : Payment \cup {Nobody}]

\* The type of every table; a bound checkout is the payment's own.
TypeOK ==
    /\ clock \in 0..MaxClock /\ owner \in [Payment -> Customer]
    /\ payment \in [Payment -> Row]
    /\ \A p \in Payment : payment[p].checkout \in {p, Nobody}
    /\ ledger \subseteq [kind : {"deposit", "reversal"}, payment : Payment, at : 0..clock]
    /\ kes \subseteq Payment \X {"RECEIPT", "REVERSAL"}
    /\ events \subseteq [payment : Payment, checkout : Payment, code : Code]
    /\ items \subseteq [of : Payment, referenced : BOOLEAN, by : Staff]
    /\ actions \subseteq [payment : Payment, kind : Kind, item : Payment \cup {Nobody},
                          requester : Staff, approver : Staff \cup {Nobody}]
    /\ edge \in [Payment -> {"idle", "begun", "done"} \cup Outcome]
    /\ paid \in [Payment -> {Never} \cup 0..clock]
    /\ prompted \subseteq Payment /\ answers \subseteq Payment \X Code

\* No credit without proof: the provider itself has said that the payment's
\* own push was paid, or three different owners stand behind a statement
\* line that is credited to no other payment.  Whatever callbacks claim.
CreditIsProven ==
    \A p \in Payment : Posted("deposit", p) =>
        \/ paid[p] # Never
        \/ \E i \in items, a \in actions :
             /\ a.payment = p /\ a.kind = "RESOLVE_CONFIRMED" /\ a.item = i.of /\ paid[i.of] # Never
             /\ Cardinality({i.by, a.requester, a.approver} \ {Nobody}) = 3
             /\ \A o \in Payment \ {p} : payment[o].item # i.of

\* Whatever the order of failures, late successes and resolutions, the
\* credits of a customer within 24 hours stay within the limit.
CreditsWithinLimit ==
    \A p \in Payment : Cardinality({o \in Payment : owner[o] = owner[p] /\ Recent(o)}) <= MaxDeposits

(* The inductive invariant behind the safety properties *)

\* A credit, its reversal and the cash book follow the state of the payment, and
\* each is posted once.  Money the provider has confirmed leaves the payment in
\* review, credited or reversed.
BooksFollowState ==
    /\ \A p \in Payment :
         /\ Posted("deposit", p) <=> StateOf(p) \in {"CONFIRMED", "REVERSED"}
         /\ Posted("reversal", p) <=> StateOf(p) = "REVERSED"
         /\ <<p, "RECEIPT">> \in kes <=> payment[p].confirmed
         /\ <<p, "REVERSAL">> \in kes <=> StateOf(p) = "REVERSED"
         /\ payment[p].confirmed => StateOf(p) \in {"MANUAL_REVIEW", "CONFIRMED", "REVERSED"}
         /\ StateOf(p) \in {"CONFIRMED", "REVERSED"} => payment[p].confirmed
    /\ \A x, y \in ledger : x.kind = y.kind /\ x.payment = y.payment => x = y

\* A statement line the payment was credited on, recorded, requested and approved
\* by three different owners.
Vouched(p) ==
    \E i \in items, a \in actions :
        /\ a.payment = p /\ a.kind = "RESOLVE_CONFIRMED" /\ a.item = i.of /\ payment[p].item = i.of
        /\ a.requester # i.by /\ a.approver \notin {Nobody, i.by, a.requester}

\* What the provider said is true, a statement line stands for money it has, no line
\* is bound twice, and whoever asks for a decision has not recorded its evidence.
EvidenceIsSound ==
    /\ \A p \in Payment : <<p, "ok">> \in answers => paid[p] # Never
    /\ \A i \in items : paid[i.of] # Never
    /\ \A i, j \in items : i.of = j.of => i = j
    /\ \A a \in actions : Cites(a.kind) => \E i \in items : i.of = a.item /\ i.by # a.requester
    /\ \A p, o \in Payment : payment[p].item # Nobody /\ payment[o].item = payment[p].item => o = p
    /\ \A p \in Payment : Posted("deposit", p) => paid[p] # Never \/ Vouched(p)

IInv == TypeOK /\ BooksFollowState /\ EvidenceIsSound /\ CreditsWithinLimit

Status(p) ==
    CASE StateOf(p) = "NONE"                         -> "none"
      [] StateOf(p) \in InProgress                   -> "open"
      [] StateOf(p) \in {"MANUAL_REVIEW", "EXPIRED"} -> "review"
      [] StateOf(p) = "CONFIRMED"                    -> "credited"
      [] StateOf(p) \in {"FAILED", "REJECTED"}       -> "failed"
      [] StateOf(p) = "REVERSED"                     -> "reversed"

\* Balances, cash book and payment states move together, and money received
\* is never declared failed.
Promise == INSTANCE Deposits WITH
    status <- [p \in Payment |-> Status(p)],
    usd <- [p \in Payment |-> Cardinality({x \in ledger : x.payment = p /\ x.kind = "deposit"})
                              - Cardinality({x \in ledger : x.payment = p /\ x.kind = "reversal"})],
    cash <- [p \in Payment |-> Cardinality({x \in kes : x = <<p, "RECEIPT">>})
                               - Cardinality({x \in kes : x = <<p, "REVERSAL">>})]
KeepsPromise == Promise!Spec

\* A payment does not stay in progress: with the provider silent and nobody
\* calling back it reaches the owners within a day.
ProgressEnds ==
    \A p \in Payment :
        (StateOf(p) \in InProgress /\ payment[p].created + Day < MaxClock) ~> StateOf(p) \notin InProgress
=============================================================================
