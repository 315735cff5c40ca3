---------------------------- MODULE DepositSheet ----------------------------
(***************************************************************************)
(* The deposit sheet (deposit-sheet.js) over the M-Pesa Edge Functions     *)
(* (functions/_shared).  In the sheet the customer chooses a phone, asks   *)
(* for a quote, sends the prompt and follows the payment.  The phone is    *)
(* "test", a sandbox number, or "own", the customer's own number, whose    *)
(* prompt charges real money.                                              *)
(*                                                                         *)
(* funding-deposit starts a payment and pushes a prompt to a phone,        *)
(* daraja-callback and funding-reconcile ask the provider how it ended.    *)
(* Each call of the database or of the provider is a step, and a function  *)
(* may be killed between two of them.  The database rows are those of      *)
(* Funding, reduced to what the functions see; what the provider did is in *)
(* `prompts'.                                                              *)
(***************************************************************************)
EXTENDS Naturals, Sequences, FiniteSets

CONSTANTS
    Quotes,     \* quotes of one customer; each is its own idempotency key
    MaxRequests,\* bound: requests to funding-deposit
    MaxFaults   \* bound: kills, refusals and failed calls

EdgeBounds == Quotes # {} /\ MaxRequests \in Nat /\ MaxFaults \in Nat

VARIABLES
    rows,       \* per quote: the state of its payment, NONE before there is one
    requests,   \* funding-deposit requests: [quote, phone, warned, step, state]
    prompts,    \* prompts shown on phones: [quote, phone, warned]
    faults

edgeVars == <<rows, requests, prompts, faults>>

InProgress == {"INITIATING", "PENDING", "UNKNOWN", "VERIFYING"}
States == {"NONE", "REJECTED", "CONFIRMED", "FAILED", "MANUAL_REVIEW"} \cup InProgress

EdgeInit ==
    /\ rows = [q \in Quotes |-> "NONE"]
    /\ requests = <<>> /\ prompts = <<>> /\ faults = 0

Fault == faults < MaxFaults /\ faults' = faults + 1
At(i, step) == requests[i].step = step
Goes(i, step) == requests' = [requests EXCEPT ![i].step = step]
Replies(i, state) == requests' = [requests EXCEPT ![i].step = "reply", ![i].state = state]

-----------------------------------------------------------------------------
(* createDepositHandler and initiateDeposit *)

\* The sheet's request, with what its customer was told before (warned).
Request(q, phone, warned) ==
    /\ Len(requests) < MaxRequests
    /\ requests' = Append(requests, [quote |-> q, phone |-> phone, warned |-> warned,
                                     step |-> "arrived", state |-> "NONE"])

\* Method, token, configuration, user, body: any of them may be wrong or unavailable.
\* Later, the function is killed, or its database call fails: an error without a state.
Refused(i) ==
    /\ \E step \in {"arrived", "begun", "ACCEPTED", "REJECTED", "AMBIGUOUS"} : At(i, step)
    /\ Fault
    /\ Goes(i, "error")
    /\ UNCHANGED <<rows, prompts>>

Busy == \E q \in Quotes : rows[q] \in InProgress
Existing(i) == rows[requests[i].quote] # "NONE"

\* funding_svc_begin_payment: a key already used answers with its payment; with another
\* payment of the customer in progress nothing begins.
BeginPayment(i) ==
    /\ At(i, "arrived")
    /\ IF Existing(i) THEN Replies(i, rows[requests[i].quote]) /\ UNCHANGED rows
       ELSE IF Busy /\ rows[requests[i].quote] = "NONE" THEN Goes(i, "error") /\ UNCHANGED rows
       ELSE Goes(i, "begun") /\ rows' = [rows EXCEPT ![requests[i].quote] = "INITIATING"]
    /\ UNCHANGED <<prompts, faults>>

\* How a push can end: without a bearer token nothing is sent; the call can time out or
\* break before or after the provider got it; an answer can be a server error, not JSON,
\* a refusal, or an acceptance with its checkout id; or break off while it is read.
Sent == {"no answer", "server error", "not JSON", "broken off"}
Responses == {"no token", "refusal", "acceptance"} \cup Sent
\* The phone may show a prompt after any answer that is not a refusal.
Reaches(response) == CASE response = "acceptance" -> {TRUE}
                       [] response \in Sent -> {TRUE, FALSE}
                       [] OTHER -> {FALSE}
\* A plausible error: no answer in time is a failure.
NoAnswerIsFailure(response) ==
    CASE response = "acceptance" -> "ACCEPTED"
      [] response \in {"server error", "not JSON"} -> "AMBIGUOUS"
      [] response = "broken off" -> "error"
      [] OTHER -> "REJECTED"
\* stkPush: what is not known is AMBIGUOUS; reading a broken answer throws.
Outcome(response) ==
    CASE response = "acceptance" -> "ACCEPTED"
      [] response \in {"no answer", "server error", "not JSON"} -> "AMBIGUOUS"
      [] response = "broken off" -> "error"
      [] response \in {"no token", "refusal"} -> "REJECTED"
stkPush(i) ==
    /\ At(i, "begun")
    /\ \E response \in Responses :
         /\ Goes(i, Outcome(response))
         /\ \E reached \in Reaches(response) :
              prompts' = IF reached
                         THEN Append(prompts, [quote |-> requests[i].quote, phone |-> requests[i].phone,
                                               warned |-> requests[i].warned])
                         ELSE prompts
    /\ UNCHANGED <<rows, faults>>

\* funding_svc_record_initiation, then the answer with the payment's state.
Initiated(outcome, state) ==
    IF state # "INITIATING" THEN state
    ELSE CASE outcome = "ACCEPTED" -> "PENDING"
           [] outcome = "REJECTED" -> "REJECTED"
           [] outcome = "AMBIGUOUS" -> "UNKNOWN"
RecordInitiation(i) ==
    /\ requests[i].step \in {"ACCEPTED", "REJECTED", "AMBIGUOUS"}
    /\ rows' = [rows EXCEPT ![requests[i].quote] = Initiated(requests[i].step, @)]
    /\ Replies(i, rows'[requests[i].quote])
    /\ UNCHANGED <<prompts, faults>>

-----------------------------------------------------------------------------
(* createCallbackHandler and createReconcileHandler *)

Prompted(q) == \E i \in DOMAIN prompts : prompts[i].quote = q
Bound(q) == rows[q] \in {"PENDING", "VERIFYING"}

\* handleCallback: a claim is recorded; one that cannot be is answered with an error, and
\* the provider calls again.  A payment without its checkout id waits for the owners.
handleCallback(q) ==
    /\ Prompted(q) /\ rows[q] \in {"INITIATING", "UNKNOWN", "PENDING"}
    /\ rows' = [rows EXCEPT ![q] = IF @ = "PENDING" THEN "VERIFYING" ELSE "MANUAL_REVIEW"]
    /\ UNCHANGED <<requests, prompts, faults>>

\* verifyPayment, from a callback or the sweep: the status query has a result, is still
\* processing or fails; only a result changes the payment.
QueryOutcome(answer) ==
    CASE answer \in {"paid", "not paid"} -> "RESULT"
      [] answer = "still processing" -> "PROCESSING"
      [] OTHER -> "ERROR"
verifyPayment(q) ==
    /\ Bound(q)
    /\ \E answer \in {"paid", "not paid", "still processing", "no answer"} :
         /\ QueryOutcome(answer) = "RESULT"
         /\ rows' = [rows EXCEPT ![q] = IF answer = "paid" THEN "CONFIRMED" ELSE "FAILED"]
    /\ UNCHANGED <<requests, prompts, faults>>

\* reconcileOpenPayments first gives up abandoned initiations (funding_svc_expire_stale).
reconcileOpenPayments(q) ==
    /\ rows[q] = "INITIATING"
    /\ rows' = [rows EXCEPT ![q] = "UNKNOWN"]
    /\ UNCHANGED <<requests, prompts, faults>>

EdgeNext ==
    \/ \E i \in DOMAIN requests :
         Refused(i) \/ BeginPayment(i) \/ stkPush(i) \/ RecordInitiation(i)
    \/ \E q \in Quotes : handleCallback(q) \/ verifyPayment(q) \/ reconcileOpenPayments(q)

-----------------------------------------------------------------------------
Phone == {"test", "own"}
Prompt == [quote : Quotes, phone : Phone, warned : BOOLEAN]
Sending == {"begun", "ACCEPTED", "REJECTED", "AMBIGUOUS"}
Requested == [quote : Quotes, phone : Phone, warned : BOOLEAN,
              step : Sending \cup {"arrived", "reply", "error"}, state : States]

EdgeTypeOK ==
    /\ rows \in [Quotes -> States]
    /\ requests \in Seq(Requested) /\ prompts \in Seq(Prompt)

\* A quote never puts two prompts on a phone, however often it is sent, whatever answer
\* is lost and wherever a function dies; and a payment declared rejected has none, so
\* that a new one may be started.
PromptedOnce ==
    \A q \in Quotes :
        LET shown == Cardinality({i \in DOMAIN prompts : prompts[i].quote = q})
        IN  shown <= 1 /\ (rows[q] = "REJECTED" => shown = 0)

\* The invariant behind it: one request is between the beginning of a payment and the
\* record of its push; nothing has been shown before it pushes, nor after a refusal.
OneSender ==
    /\ \A i, j \in DOMAIN requests :
         requests[i].quote = requests[j].quote /\ {requests[i].step, requests[j].step} \subseteq Sending
             => i = j
    /\ \A i \in DOMAIN requests :
         /\ requests[i].step \in Sending => rows[requests[i].quote] \notin {"NONE", "REJECTED"}
         /\ requests[i].step \in {"begun", "REJECTED"} => ~Prompted(requests[i].quote)
    /\ \A q \in Quotes : rows[q] \in {"NONE", "REJECTED"} => ~Prompted(q)
    /\ \A i, j \in DOMAIN prompts : prompts[i].quote = prompts[j].quote => i = j

-----------------------------------------------------------------------------
(* The sheet *)

CONSTANT MaxSaves   \* bound: times the own number is added or removed

SheetBounds == MaxSaves \in Nat /\ Quotes \subseteq Nat \ {0}

VARIABLES
    step,       \* what the sheet shows: "loading", "unavailable", "form", "review", "status"
    enrolled,   \* the server knows the own number (funding_set_my_sandbox_msisdn)
    listed,     \* the sheet's list has it (overview.my_msisdns)
    phone,      \* the selected number
    quote,      \* quote: [id, phone, warned] as the review shows it, or NoQuote
    asking,     \* funding_create_deposit_quote is under way
    saving,     \* setOwnPhone under way: "no", "add", "added", "remove", "removed"
    sending,    \* requests of sendPrompt whose answer has not come
    sendable,   \* the send button is enabled
    poll,       \* the quote whose payment is polled, or 0
    payment,    \* the state shown
    saves,      \* times the own number was added or removed
    waiting     \* sendPrompt calls that read the session

sheetVars == <<step, enrolled, listed, phone, quote, asking, saving, sending, sendable, poll, payment, saves, waiting>>
depositVars == <<edgeVars, sheetVars>>

NoQuote == [id |-> 0, phone |-> "test", warned |-> FALSE]
Pending == InProgress

Init ==
    /\ EdgeInit
    /\ step = "loading" /\ enrolled \in BOOLEAN /\ listed = FALSE /\ phone = "test"
    /\ quote = NoQuote /\ asking = FALSE /\ saving = "no"
    /\ sending = {} /\ sendable = FALSE /\ poll = 0 /\ payment = "NONE"
    /\ saves = 0 /\ waiting = 0

\* load: the overview is read when the sheet opens, and again after a failure.
load ==
    /\ step \in {"loading", "unavailable"}
    /\ \/ /\ step' = "form" /\ listed' = enrolled /\ phone' = IF enrolled THEN "own" ELSE "test"
          /\ UNCHANGED faults
       \/ step' = "unavailable" /\ Fault /\ UNCHANGED <<listed, phone>>
    /\ UNCHANGED <<rows, requests, prompts, enrolled, quote, asking, saving, sending, sendable, poll, payment, saves, waiting>>

ChoosePhone ==
    /\ step = "form" /\ listed
    /\ \E chosen \in {"test", "own"} : chosen # phone /\ phone' = chosen
    /\ UNCHANGED <<edgeVars, step, enrolled, listed, quote, asking, saving, sending, sendable, poll, payment, saves, waiting>>

\* setOwnPhone: the number is stored; then the list is read again and, whatever the sheet
\* shows by now, the selection follows: the added number, or what is left of the list.
SaveOwnPhone ==
    /\ step = "form" /\ saving = "no" /\ saves < MaxSaves
    /\ saving' = IF listed THEN "remove" ELSE "add"
    /\ saves' = saves + 1
    /\ UNCHANGED <<edgeVars, step, enrolled, listed, phone, quote, asking, sending, sendable, poll, payment, waiting>>
ServerSaves ==
    /\ saving \in {"add", "remove"}
    /\ enrolled' = (saving = "add")
    /\ saving' = IF saving = "add" THEN "added" ELSE "removed"
    /\ UNCHANGED <<edgeVars, step, listed, phone, quote, asking, sending, sendable, poll, payment, saves, waiting>>
renderPhones ==
    /\ saving \in {"added", "removed"}
    /\ listed' = enrolled
    /\ phone' = IF saving = "added" THEN "own" ELSE "test"
    /\ saving' = "no"
    /\ UNCHANGED <<edgeVars, step, enrolled, quote, asking, sending, sendable, poll, payment, saves, waiting>>
SaveFails ==
    /\ saving # "no" /\ Fault
    /\ saving' = "no"
    /\ UNCHANGED <<rows, requests, prompts, step, enrolled, listed, phone, quote, asking, sending, sendable, poll, payment, saves, waiting>>

\* requestQuote: the form's button is disabled until the answer.
requestQuote ==
    /\ step = "form" /\ ~asking
    /\ asking' = TRUE /\ quote' = NoQuote
    /\ UNCHANGED <<edgeVars, step, enrolled, listed, phone, saving, sending, sendable, poll, payment, saves, waiting>>
\* showQuote: the review names the phone selected now, and warns if it is the own one.
Used == {requests[i].quote : i \in DOMAIN requests}
showQuote ==
    /\ asking /\ asking' = FALSE
    /\ \E id \in Quotes \ Used : (\A other \in Quotes \ Used : id <= other) /\ quote' = [id |-> id, phone |-> phone, warned |-> phone = "own" /\ listed]
    /\ step' = "review" /\ sendable' = TRUE
    /\ UNCHANGED <<edgeVars, enrolled, listed, phone, saving, sending, poll, payment, saves, waiting>>
QuoteFails ==
    /\ asking /\ asking' = FALSE /\ Fault
    /\ UNCHANGED <<rows, requests, prompts, step, enrolled, listed, phone, quote, saving, sending, sendable, poll, payment, saves, waiting>>
\* The quote's time runs out: it can no longer be sent.
QuoteExpires ==
    /\ step = "review" /\ sendable /\ quote # NoQuote
    /\ sendable' = FALSE
    /\ UNCHANGED <<edgeVars, step, enrolled, listed, phone, quote, asking, saving, sending, poll, payment, saves, waiting>>
Back ==
    /\ step = "review"
    /\ quote' = NoQuote /\ step' = "form"
    /\ UNCHANGED <<edgeVars, enrolled, listed, phone, asking, saving, sending, sendable, poll, payment, saves, waiting>>

\* sendPrompt: the button is disabled, the session is read; then the request takes the
\* quote and the phone there are by then (none after Back: it fails).  A quote asked for
\* meanwhile can be sent while the answer to the first is still awaited.
sendPrompt ==
    /\ step = "review" /\ quote # NoQuote /\ sendable
    /\ waiting + Len(requests) < MaxRequests
    /\ sendable' = FALSE /\ waiting' = waiting + 1
    /\ UNCHANGED <<edgeVars, step, enrolled, listed, phone, quote, asking, saving, sending, poll, payment, saves>>
SessionRead ==
    /\ waiting > 0 /\ waiting' = waiting - 1
    /\ IF quote = NoQuote
       THEN sendable' = TRUE /\ UNCHANGED <<requests, sending>>
       ELSE /\ Request(quote.id, phone, quote.warned)
            /\ sending' = sending \cup {Len(requests')} /\ UNCHANGED sendable
    /\ UNCHANGED <<rows, prompts, faults, step, enrolled, listed, phone, quote, asking, saving, poll, payment, saves>>
\* An error, or an answer that is lost: the quote on screen can be sent, again or for the
\* first time.
SendFails ==
    \E i \in sending :
        /\ \/ At(i, "error") /\ UNCHANGED faults
           \/ At(i, "reply") /\ Fault
           \/ At(i, "arrived") /\ Fault
        /\ sending' = sending \ {i} /\ sendable' = TRUE
        /\ UNCHANGED <<rows, requests, prompts, step, enrolled, listed, phone, quote, asking, saving, poll, payment, saves, waiting>>
\* The payment is shown and polled, even if the customer went back meanwhile; a quote on
\* screen by then is dropped.
showPayment ==
    \E i \in sending :
        /\ At(i, "reply")
        /\ sending' = sending \ {i}
        /\ quote' = NoQuote /\ step' = "status"
        /\ payment' = requests[i].state
        /\ poll' = requests[i].quote
        /\ UNCHANGED <<edgeVars, enrolled, listed, phone, asking, saving, sendable, saves, waiting>>

\* poll: every four seconds while the payment is pending, for ten minutes; a failed call
\* is tried again.
Polled ==
    /\ poll # 0
    /\ payment' = rows[poll] /\ step' = "status"
    /\ poll' = IF rows[poll] \in Pending THEN poll ELSE 0
    /\ UNCHANGED <<edgeVars, enrolled, listed, phone, quote, asking, saving, sending, sendable, saves, waiting>>
PollEnds ==
    /\ poll # 0 /\ payment \in Pending
    /\ poll' = 0
    /\ UNCHANGED <<edgeVars, step, enrolled, listed, phone, quote, asking, saving, sending, sendable, payment, saves, waiting>>
Again ==
    /\ step = "status" /\ payment \notin Pending
    /\ poll' = 0 /\ step' = "form"
    /\ UNCHANGED <<edgeVars, enrolled, listed, phone, quote, asking, saving, sending, sendable, payment, saves, waiting>>

Next ==
    \/ EdgeNext /\ UNCHANGED sheetVars
    \/ load \/ ChoosePhone \/ SaveOwnPhone \/ ServerSaves \/ renderPhones \/ SaveFails
    \/ requestQuote \/ showQuote \/ QuoteFails \/ QuoteExpires \/ Back
    \/ sendPrompt \/ SessionRead \/ SendFails \/ showPayment \/ Polled \/ PollEnds \/ Again
Spec == Init /\ [][Next]_depositVars

-----------------------------------------------------------------------------
TypeOK ==
    /\ EdgeTypeOK
    /\ step \in {"loading", "unavailable", "form", "review", "status"}
    /\ {enrolled, listed, asking, sendable} \subseteq BOOLEAN /\ phone \in Phone
    /\ quote \in {NoQuote} \cup [id : Quotes, phone : Phone, warned : BOOLEAN] /\ poll \in Quotes \cup {0}
    /\ saving \in {"no", "add", "added", "remove", "removed"}
    /\ sending \subseteq DOMAIN requests /\ waiting \in 0 .. MaxRequests

\* A prompt that charges the customer's own number was announced as real money, for that
\* number, before it could be sent.
WarnedBeforeCharge ==
    \A i \in DOMAIN prompts : prompts[i].phone = "own" => prompts[i].warned
=============================================================================
